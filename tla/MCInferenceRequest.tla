------------------------- MODULE MCInferenceRequest -------------------------
(***************************************************************************)
(* Instances of InferenceRequest: which configurations are in the files    *)
(* and what the client does with their models.  The batch size has three   *)
(* bits, so that 7 and 9 are dimensions it cannot hold.                    *)
(***************************************************************************)
EXTENDS RequestExecution

Tensor(name, type, dims, reshape) ==
    [name |-> name, type |-> type, dims |-> dims, reshape |-> reshape,
     format |-> "NONE", shapeTensor |-> FALSE]

Plainly ==
    [platform |-> "", backend |-> "custom", filename |-> "", batch |-> 2, policy |-> "unset",
     inputs |-> <<Tensor("a", "FP32", <<2>>, <<>>)>>,
     outputs |-> <<Tensor("x", "FP32", <<2>>, <<>>)>>,
     batchInputs |-> {}, batchOutputs |-> {},
     dynamic |-> <<>>, sequence |-> <<>>, steps |-> <<>>, groups |-> <<>>, tuned |-> FALSE]

Client0 ==
    [file |-> Plainly, shapes |-> {<<1, 2>>}, types |-> {"FP32"}, ops |-> {"inputs"},
     calls |-> 2, runs |-> 1, outputs |-> 0]

\* Two inputs and their first dimensions; a shape tensor.
Batching ==
    LET two == [Plainly EXCEPT !.inputs = <<Tensor("a", "FP32", <<-1>>, <<>>),
                                            Tensor("b", "FP32", <<2>>, <<>>)>>]
        tensorrt == [two EXCEPT !.platform = "tensorrt_plan", !.backend = "",
                                !.inputs[2].shapeTensor = TRUE]
    IN  {[Client0 EXCEPT !.file = f, !.calls = 3,
                         !.shapes = {<<>>, <<2>>, <<0, 2>>, <<1, 2>>, <<2, 2>>, <<3, 2>>, <<7, 2>>, <<9, 2>>}] :
            f \in {two, [two EXCEPT !.batch = 0], tensorrt}}

\* Reshapes with and without variable-size dimensions, valid or not.
Reshaping ==
    {[Client0 EXCEPT !.file = [Plainly EXCEPT
                         !.batch = b,
                         !.inputs = <<Tensor("a", "FP32", dims, <<shape>>)>>,
                         !.outputs = <<Tensor("x", "FP32", dims, <<shape>>)>>],
                     !.shapes = {<<1>>, <<2, 1>>, <<2, 4>>, <<1, 2, 4>>, <<2, 2, 1, 2>>, <<2, 2, 3, 2>>,
                                 <<2, 3, 2>>, <<2, 2, 2, 3>>, <<2, 4, 3, 1>>, <<1, 4, 3>>},
                     !.calls = 1, !.outputs = 1] :
        b \in {0, 2},
        dims \in {<<1>>, <<4>>, <<2, -1>>, <<2, -1, 2>>, <<-1, 4>>, <<0>>},
        shape \in {<<>>, <<1>>, <<4>>, <<2, 2>>, <<-1, 2>>, <<2, -1>>, <<2, -1, 2>>, <<4, -1, 1>>, <<-1>>}}

\* A request that is sent, changed and sent again.
Reuse ==
    {[Client0 EXCEPT !.file.inputs = <<Tensor("a", "FP32", <<-1>>, <<>>)>>,
                     !.file.dynamic = <<[preferred |-> {}, levels |-> 2, default |-> 1,
                                         policies |-> <<>>, order |-> FALSE,
                                         policy |-> [timeout |-> 0, action |-> "REJECT"]]>>,
                     !.shapes = {<<1, 2>>, <<2, 3>>},
                     !.ops = {"inputs", "outputs", "priority", "override"}, !.calls = 2, !.runs = 3]}

\* Null requests for models with strings, numbers and shape tensors.
Sequences ==
    {[Client0 EXCEPT !.file.batch = b,
                     !.file.inputs = <<Tensor("a", "FP32", <<-1>>, <<>>), Tensor("s", "STRING", <<-1>>, <<>>)>>,
                     !.file.sequence = <<[strategy |-> "direct", preferred |-> {},
                                          utilization |-> 0, controls |-> <<>>]>>,
                     !.shapes = shapes, !.types = {"FP32", "STRING"},
                     !.ops = {"inputs", "data"}, !.calls = n] :
        <<b, shapes, n>> \in {<<0, {<<0>>, <<3>>}, 3>>, <<1, {<<1, 2>>}, 4>>}}
    \cup
    {[Client0 EXCEPT !.file.platform = "tensorrt_plan", !.file.backend = "", !.file.batch = 1,
                     !.file.inputs = <<Tensor("a", "FP32", <<-1>>, <<>>),
                                       [Tensor("b", "FP32", <<2>>, <<>>) EXCEPT !.shapeTensor = TRUE]>>,
                     !.file.sequence = <<[strategy |-> "direct", preferred |-> {},
                                          utilization |-> 0, controls |-> <<>>]>>,
                     !.shapes = {<<2>>, <<1, 2>>}, !.ops = {"inputs", "data"}, !.calls = 4]}

\* Responses and their buffers.
Responses ==
    {[Client0 EXCEPT !.file.outputs = <<Tensor("x", "FP32", <<2>>, <<>>), Tensor("y", "FP32", <<2>>, <<>>)>>,
                     !.calls = 1, !.runs = 2, !.outputs = 4]}

\* Ensembles of two steps over three tensors.
Sets == SUBSET {"a", "b", "c"} \ {{}}
Maps == {<<"a">>, <<"b">>, <<"c">>, <<"b", "c">>, <<"a", "b">>, <<"c", "c">>}
TensorsOf(names) == SetToSeq({Tensor(n, "FP32", <<1>>, <<>>) : n \in names})

Ensembles ==
    {[Client0 EXCEPT !.file = [Plainly EXCEPT
                         !.platform = "ensemble", !.backend = "",
                         !.inputs = TensorsOf(io[1]), !.outputs = TensorsOf(io[2]),
                         !.steps = <<<<[in |-> in1, out |-> out1], [in |-> in2, out |-> out2]>>>>]] :
        in1 \in Sets, in2 \in Sets, out1 \in Maps, out2 \in Maps,
        io \in {<<{"a"}, {"c"}>>, <<{"a", "b"}, {"c"}>>, <<{"a"}, {"b", "c"}>>}}

\* Instance groups, platforms, batchers and their controls.
Groups ==
    {[Client0 EXCEPT !.file.groups = <<[kind |-> k, gpus |-> g, count |-> n, profiles |-> {}]>>] :
        k \in {"AUTO", "CPU", "GPU", "MODEL"}, g \in SUBSET {0, 1, 2}, n \in {0, 2}}

Platforms ==
    {[Client0 EXCEPT !.file.platform = p, !.file.backend = b, !.file.filename = f,
                     !.file.groups = <<[kind |-> "CPU", gpus |-> {}, count |-> 1, profiles |-> q]>>] :
        p \in {"", "onnxruntime_onnx", "tensorrt_plan", "ensemble", "other"},
        b \in {"", "onnxruntime", "custom", "tensorflow"}, f \in {"", "model"}, q \in {{}, {0}, {-1}}}

Dynamic ==
    {[Client0 EXCEPT !.file.dynamic = <<[preferred |-> p, levels |-> l, default |-> d, order |-> o,
                         policies |-> [x \in {1} |-> [timeout |-> 5, action |-> a]],
                         policy |-> [timeout |-> 0, action |-> "DELAY"]]>>,
                     !.ops = {"inputs", "priority"}] :
        p \in {{}, {0}, {2}, {3}}, l \in 0..2, d \in 0..3, o \in BOOLEAN, a \in {"DELAY", "REJECT"}}

Control(kind, ints, floats, type) == [kind |-> kind, int32 |-> ints, fp32 |-> floats, type |-> type]

SequenceFiles ==
    {[Client0 EXCEPT !.file.sequence = <<[strategy |-> s, preferred |-> p, utilization |-> 50,
                         controls |-> <<[name |-> "start", controls |-> <<Control(k, i, 0, "FP32")>>],
                                        [name |-> n, controls |-> <<Control("CORRID", 0, f, t)>>]>>]>>] :
        s \in {"direct", "oldest"}, p \in {{}, {3}}, k \in {"START", "CORRID"}, i \in {0, 2},
        n \in {"start", "id"}, f \in {0, 2}, t \in {"UINT64", "FP32"}}

BatchFiles ==
    {[Client0 EXCEPT !.file.batchInputs = {[source |-> s, type |-> t]},
                     !.file.batchOutputs = {[source |-> <<"a">>, target |-> x]}] :
        s \in {<<>>, <<"a">>, <<"z">>}, t \in {"FP32", "STRING"}, x \in {<<"x">>, <<"x", "x">>, <<"z">>}}

FormatFiles ==
    {[Client0 EXCEPT !.file.inputs[1].format = "NCHW"], [Client0 EXCEPT !.file.inputs[1].shapeTensor = TRUE],
     [Client0 EXCEPT !.file.outputs[1].shapeTensor = TRUE], [Client0 EXCEPT !.file.batch = -1]}

MCScenarios ==
    Batching \cup Reshaping \cup Reuse \cup Sequences \cup Responses \cup Ensembles
    \cup Groups \cup Platforms \cup Dynamic \cup SequenceFiles \cup BatchFiles \cup FormatFiles

-----------------------------------------------------------------------------
(* Batches for BackendContext.                                             *)

B(memory, n) == [mem |-> memory, n |-> n]
Data(space, data) == [kind |-> "data", space |-> space, data |-> data]
Out(sizes, memory) ==
    [sizes |-> sizes, mem |-> memory, wanted |-> DOMAIN sizes, refused |-> {}]

Cpu == <<B("cpu", 1)>>
Gpu == <<B("gpu0", 1)>>
Other == <<B("gpu1", 1)>>
Pinned == <<B("pinned", 1)>>
Pieces == <<B("cpu", 1), B("gpu0", 1)>>

Batch0 ==
    [io |-> "gpu0", inputs |-> <<Data(3, <<Cpu, Cpu, Cpu>>)>>,
     outputs |-> <<Out(<<1, 1, 1>>, <<"cpu", "cpu", "cpu">>)>>,
     pinned |-> TRUE, pool |-> {TRUE, FALSE}, threshold |-> 0, workers |-> 0,
     eager |-> FALSE, graph |-> 0]

\* Inputs of three requests in every memory, and outputs that go to them.
Gathers ==
    {[Batch0 EXCEPT !.inputs = <<Data(3, <<a, b, c>>)>>, !.threshold = k, !.eager = (k = 0)] :
        a \in {Cpu, Gpu, Other}, b \in {Cpu, Pinned}, c \in {Cpu, Gpu}, k \in {0, 2}}

Scatters ==
    {[Batch0 EXCEPT !.outputs = <<[Out(<<1, 2, 1>>, <<a, b, c>>) EXCEPT !.wanted = w, !.refused = f]>>] :
        a \in {"cpu", "gpu0"}, b \in {"cpu", "pinned"}, c \in {"cpu", "gpu1"},
        w \in {{1, 2, 3}, {1, 3}}, f \in {{}, {2}}}

\* An input in pieces of two memories; two tensors; one request too many.
Mixed ==
    {[Batch0 EXCEPT !.inputs = <<Data(4, <<Pieces, Cpu, Cpu>>), Data(2, <<Cpu, Pieces, Cpu>>)>>,
                    !.outputs = <<Out(<<1, 1, 1>>, <<"cpu", "gpu0", "cpu">>),
                                  Out(<<1, 1, 1>>, <<"cpu", "cpu", "cpu">>)>>,
                    !.pinned = p, !.io = io, !.eager = TRUE] :
        p \in BOOLEAN, io \in {"gpu0", "pinned"}}

\* Two workers; batch inputs.
Workers ==
    {[Batch0 EXCEPT !.inputs = i, !.workers = 2, !.eager = TRUE] :
        i \in {<<Data(3, <<Cpu, Cpu, Cpu>>)>>, <<Data(3, <<Cpu, Gpu, Cpu>>), Data(4, <<Cpu, Pieces, Cpu>>)>>}}

Ragged ==
    {[Batch0 EXCEPT !.inputs = <<Data(6, <<<<B("cpu", 2)>>, <<B("cpu", 1)>>, <<B("gpu0", 3)>>>>),
                                 [kind |-> k, source |-> 1], [kind |-> "max as shape", source |-> 1]>>,
                    !.io = io, !.eager = TRUE, !.graph = g] :
        k \in {"count", "accumulated", "accumulated with zero"}, io \in {"gpu0", "pinned"}, g \in {0, 1}}

MCBatches == Gathers \cup Scatters \cup Mixed \cup Workers \cup Ragged

\* Four requests for three workers, which is not among them: FlushPendingPinned
\* makes two tasks and waits for three, the batch is never answered and
\* OutputsScattered does not hold.
Uneven == {[Batch0 EXCEPT !.inputs = <<Data(4, <<Cpu, Cpu, Cpu, Cpu>>)>>, !.workers = 3,
                          !.outputs = <<Out(<<1, 1, 1, 1>>, <<"cpu", "cpu", "cpu", "cpu">>)>>]}
=============================================================================
