----------------------------- MODULE ModelConfig -----------------------------
(***************************************************************************)
(* What becomes of the configuration of a model between its file and its   *)
(* use (src/core/model_config_utils.cc, model_config.cc): what is filled   *)
(* in, and which configurations are accepted.  Every framework and GPUs    *)
(* are built in; autofill is off.                                          *)
(*                                                                         *)
(* A configuration is a record                                             *)
(*   platform, backend, filename : strings, "" when not given              *)
(*   batch     : max_batch_size                                            *)
(*   policy    : the version policy, or "unset"                            *)
(*   inputs, outputs : sequences of tensors [name, type, dims, reshape,    *)
(*               shapeTensor]; a reshape is an optional shape              *)
(*   dynamic, sequence, steps : optional parts                             *)
(*   groups    : the instance groups [kind, gpus, count, profiles]         *)
(*   tuned     : it has an optimization or a warm-up part                  *)
(* Optional parts are sequences of at most one element.  Names, messages,  *)
(* and the defaults nothing below depends on are left out.                 *)
(***************************************************************************)
EXTENDS Integers, Sequences, SequencesExt, FiniteSets, Functions, Folds

CONSTANT SupportedGpus   \* the ids of the GPUs the runtime reports

WILDCARD_DIM == -1

Product(dims) == FoldLeft(LAMBDA x, y : x * y, 1, dims)

\* -1 for a variable size, 0 for no dimensions at all.
GetElementCount(dims) ==
    IF Contains(dims, WILDCARD_DIM) THEN -1
    ELSE IF dims = <<>> THEN 0 ELSE Product(dims)

CompareDimsWithWildcard(dims0, dims1) ==
    /\ Len(dims0) = Len(dims1)
    /\ \A i \in 1..Len(dims0) :
         WILDCARD_DIM \in {dims0[i], dims1[i]} \/ dims0[i] = dims1[i]

\* The frameworks: what the platform and the backend are called.
PlatformBackend ==
    [tensorflow_graphdef |-> "tensorflow", tensorflow_savedmodel |-> "tensorflow",
     tensorrt_plan |-> "tensorrt", onnxruntime_onnx |-> "onnxruntime",
     pytorch_libtorch |-> "pytorch"]

GetPlatform(platform) == platform \in DOMAIN PlatformBackend \cup {"ensemble"}

GetBackendTypeFromPlatform(platform) ==
    IF platform \in DOMAIN PlatformBackend THEN PlatformBackend[platform] ELSE "UNKNOWN"

GetBackendType(backend) ==
    IF backend \in Range(PlatformBackend) THEN backend ELSE "UNKNOWN"

-----------------------------------------------------------------------------
(* GetNormalizedModelConfig, in the order of its parts.                    *)

\* The backend follows from the platform, except for TensorRT.
FillBackend(c) ==
    IF c.backend = "" /\ c.platform \in DOMAIN PlatformBackend \ {"tensorrt_plan"}
    THEN [c EXCEPT !.backend = PlatformBackend[c.platform]] ELSE c

\* The platform follows from the backend where only one fits.
FillPlatform(c) ==
    IF c.platform # "" THEN c
    ELSE CASE c.backend = "onnxruntime" -> [c EXCEPT !.platform = "onnxruntime_onnx"]
           [] c.backend = "pytorch" -> [c EXCEPT !.platform = "pytorch_libtorch"]
           [] OTHER -> c

\* No name of the model file can be told for an unknown platform, which is
\* an error unless the backend is named.
KnownFile(c) == c.filename # "" \/ GetPlatform(c.platform) \/ c.backend # ""

PreferredSizes(preferred, batch) ==
    IF preferred = {} /\ batch > 0 THEN {batch} ELSE preferred

\* The version policy and the preferred batch sizes.
FillScheduling(c) ==
    [c EXCEPT
        !.policy = IF @ = "unset" THEN "latest" ELSE @,
        !.dynamic = [i \in DOMAIN c.dynamic |->
            [c.dynamic[i] EXCEPT !.preferred = PreferredSizes(@, c.batch)]],
        !.sequence = [i \in DOMAIN c.sequence |->
            [c.sequence[i] EXCEPT !.preferred =
                IF c.sequence[i].strategy = "oldest" THEN PreferredSizes(@, c.batch) ELSE @]]]

\* An automatic group goes to the GPUs if there are some and all those it
\* lists are there.
GroupKind(group) ==
    IF group.kind # "AUTO" THEN group.kind
    ELSE IF SupportedGpus = {} \/ ~(group.gpus \subseteq SupportedGpus) THEN "CPU" ELSE "GPU"

FillGroup(group) ==
    [group EXCEPT !.kind = GroupKind(group),
                  !.count = IF @ < 1 THEN 1 ELSE @,
                  !.gpus = IF @ = {} /\ GroupKind(group) = "GPU" THEN SupportedGpus ELSE @]

DefaultGroup == [kind |-> "AUTO", gpus |-> {}, count |-> 0, profiles |-> {}]

FillGroups(c) ==
    IF c.steps # <<>> THEN c
    ELSE LET groups == IF c.groups = <<>> THEN <<DefaultGroup>> ELSE c.groups
         IN  [c EXCEPT !.groups = [i \in DOMAIN groups |-> FillGroup(groups[i])]]

GetNormalizedModelConfig(c) == FillGroups(FillScheduling(FillPlatform(FillBackend(c))))

-----------------------------------------------------------------------------
(* ValidateModelIOConfig.                                                  *)

ValidDims(dims) == \A i \in DOMAIN dims : dims[i] >= 1 \/ dims[i] = WILDCARD_DIM

\* The element counts between the variable-size dimensions.
Trunks(dims) ==
    FoldLeft(LAMBDA counts, dim :
                IF dim = WILDCARD_DIM THEN Append(counts, 1)
                ELSE [counts EXCEPT ![Len(counts)] = @ * dim],
             <<1>>, dims)

\* Slip: only the number of variable-size dimensions is compared.
SameWildcards(dims, shape) ==
    Len(Trunks(dims)) = Len(Trunks(shape))

\* An empty reshape stands for one element.
SameSize(dims, shape) ==
    /\ \/ GetElementCount(dims) = GetElementCount(shape)
       \/ GetElementCount(shape) = 0 /\ GetElementCount(dims) = 1
    /\ GetElementCount(dims) = -1 => Trunks(dims) = Trunks(shape)

ValidateIOShape(io, batch) ==
    /\ io.name # "" /\ io.type # "INVALID" /\ io.dims # <<>>
    /\ ValidDims(io.dims)
    /\ \A shape \in Range(io.reshape) :
         /\ shape = <<>> => batch # 0
         /\ ValidDims(shape)
         /\ SameSize(io.dims, shape)

ValidateModelInput(io, c) ==
    /\ ValidateIOShape(io, c.batch)
    /\ io.format # "NONE" => Len(io.dims) = 3
    /\ io.shapeTensor => c.platform = "tensorrt_plan"

ValidateModelOutput(io, c) ==
    /\ ValidateIOShape(io, c.batch)
    /\ io.shapeTensor => c.platform = "tensorrt_plan"

Names(ios) == {ios[i].name : i \in DOMAIN ios}

\* Inputs and outputs computed from a whole batch.
ValidateBatchIO(c) ==
    /\ \A b \in c.batchInputs :
         /\ Len(b.source) = 1 /\ Range(b.source) \subseteq Names(c.inputs)
         /\ b.type \in {"INT32", "FP32"}
    /\ \A b \in c.batchOutputs :
         /\ Len(b.source) = 1 /\ Range(b.source) \subseteq Names(c.inputs)
         /\ Range(b.target) \subseteq Names(c.outputs) /\ IsInjective(b.target)

ValidateModelIOConfig(c) ==
    /\ \A i \in DOMAIN c.inputs : ValidateModelInput(c.inputs[i], c)
    /\ \A i \in DOMAIN c.outputs : ValidateModelOutput(c.outputs[i], c)
    /\ ValidateBatchIO(c)

-----------------------------------------------------------------------------
(* ValidateModelConfig.                                                    *)

\* Platform and backend must belong together; TensorRT needs no backend.
ValidPlatform(c) ==
    /\ c.platform # "" \/ c.backend # ""
    /\ \/ GetBackendTypeFromPlatform(c.platform) = GetBackendType(c.backend)
       \/ c.platform = "tensorrt_plan"
    /\ c.platform # "" /\ c.backend = "" => GetPlatform(c.platform)

ValidPreferred(preferred, batch) == \A size \in preferred : size \in 1..batch

Delays(policy) == policy.timeout # 0 /\ policy.action = "DELAY"

ValidateDynamicBatching(d, batch) ==
    /\ ValidPreferred(d.preferred, batch)
    /\ d.levels # 0 =>
         /\ d.default \in 1..d.levels
         /\ DOMAIN d.policies \subseteq 1..d.levels
    /\ d.order =>
         /\ d.levels <= 1
         /\ ~Delays(d.policy)
         /\ \A level \in DOMAIN d.policies : ~Delays(d.policies[level])

\* The controls of one kind among the control inputs.
ControlsOf(inputs, kind) ==
    {ij \in UNION {{i} \X DOMAIN inputs[i].controls : i \in DOMAIN inputs} :
        inputs[ij[1]].controls[ij[2]].kind = kind}

\* Every control input has a name of its own, and a kind is given once.
UsedOnce(inputs, kind) ==
    /\ \A i \in DOMAIN inputs : inputs[i].name # ""
    /\ \A i, j \in DOMAIN inputs : i # j => inputs[i].name # inputs[j].name
    /\ Cardinality(ControlsOf(inputs, kind)) <= 1

\* A pair of values, of one type.
GetBooleanSequenceControlProperties(inputs, kind) ==
    /\ UsedOnce(inputs, kind)
    /\ \A ij \in ControlsOf(inputs, kind) :
         LET c == inputs[ij[1]].controls[ij[2]]
         IN  <<c.int32, c.fp32>> \in {<<2, 0>>, <<0, 2>>}

\* No values, and for the correlation id an integer type.
GetTypedSequenceControlProperties(inputs, kind) ==
    /\ UsedOnce(inputs, kind)
    /\ \A ij \in ControlsOf(inputs, kind) :
         LET c == inputs[ij[1]].controls[ij[2]]
         IN  /\ c.int32 = 0 /\ c.fp32 = 0
             /\ c.type \in {"UINT64", "INT64", "UINT32", "INT32"}

ValidateSequenceBatching(s, batch) ==
    /\ \A kind \in {"START", "END", "READY"} :
         GetBooleanSequenceControlProperties(s.controls, kind)
    /\ GetTypedSequenceControlProperties(s.controls, "CORRID")
    /\ s.strategy = "oldest" => ValidPreferred(s.preferred, batch)
    /\ s.strategy = "direct" => s.utilization \in 0..100

ValidateGroup(c, group) ==
    /\ group.kind \in {"MODEL", "CPU"} => group.gpus = {}
    /\ group.kind = "GPU" => group.gpus # {} /\ group.gpus \subseteq SupportedGpus
    /\ group.kind # "AUTO"
    /\ group.profiles # {} =>
         c.platform = "tensorrt_plan" /\ \A p \in group.profiles : p >= 0

-----------------------------------------------------------------------------
(* ValidateEnsembleSchedulingConfig.  A step is [in, out]: the ensemble    *)
(* tensors its inputs and, one after the other, its outputs are mapped to. *)

StepsOf(c) == c.steps[1]

\* BuildEnsembleGraph: every step has inputs and outputs, and a tensor is in
\* the output maps once.
BuildEnsembleGraph(steps) ==
    /\ \A s \in DOMAIN steps : steps[s].in # {} /\ steps[s].out # <<>> /\ IsInjective(steps[s].out)
    /\ \A s, t \in DOMAIN steps : s # t => Range(steps[s].out) \cap Range(steps[t].out) = {}

Tensors(steps) == UNION {steps[s].in \cup Range(steps[s].out) : s \in DOMAIN steps}
NextNodes(steps, t) == UNION {Range(steps[s].out) : s \in {x \in DOMAIN steps : t \in steps[x].in}}
PrevNodes(steps, t) == UNION {steps[s].in : s \in {x \in DOMAIN steps : Contains(steps[x].out, t)}}

\* Slip: one input of a step makes its outputs ready.
AnyInputReady(steps, ready) ==
    ready \cup {t \in Tensors(steps) : PrevNodes(steps, t) \cap ready # {}}

\* One round of the traversal: what all its previous nodes make ready.
ReadyRound(steps, ready) ==
    ready \cup {t \in Tensors(steps) :
                  PrevNodes(steps, t) # {} /\ PrevNodes(steps, t) \subseteq ready}

ReadyTensors(steps, inputs) ==
    FoldLeft(LAMBDA ready, i : ReadyRound(steps, ready), inputs,
             [i \in 1..Cardinality(Tensors(steps)) |-> i])

ValidateEnsembleSchedulingConfig(c) ==
    LET steps == StepsOf(c)
        ready == ReadyTensors(steps, Names(c.inputs))
    IN  /\ c.platform = "ensemble" /\ c.groups = <<>> /\ ~c.tuned /\ steps # <<>>
        /\ BuildEnsembleGraph(steps)
        /\ Names(c.inputs) \cup Names(c.outputs) \subseteq Tensors(steps)
        /\ Names(c.outputs) \subseteq ready
        /\ \A t \in Tensors(steps) \ Names(c.outputs) :
             t \in ready /\ NextNodes(steps, t) # {}

ValidateModelConfig(c) ==
    /\ ValidPlatform(c)
    /\ c.batch >= 0
    /\ c.policy # "unset"
    /\ \A d \in Range(c.dynamic) : ValidateDynamicBatching(d, c.batch)
    /\ \A s \in Range(c.sequence) : ValidateSequenceBatching(s, c.batch)
    /\ IF c.steps # <<>> THEN ValidateEnsembleSchedulingConfig(c)
       ELSE /\ c.platform # "ensemble" /\ c.groups # <<>>
            /\ \A i \in DOMAIN c.groups : ValidateGroup(c, c.groups[i])

\* The poll of the model repository: the configuration is used if it can be
\* normalized and is valid.
Accepted(c) ==
    LET n == GetNormalizedModelConfig(c)
    IN  KnownFile(FillPlatform(FillBackend(c))) /\ ValidateModelConfig(n) /\ ValidateModelIOConfig(n)

=============================================================================
