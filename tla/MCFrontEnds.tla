---------------------------- MODULE MCFrontEnds ----------------------------
(***************************************************************************)
(* Instances of FrontEnds.  A server whose models the clients load and     *)
(* unload, with an ensemble, a model with a version that does not load and *)
(* a directory that is in two repositories; one with shared memory; one    *)
(* that polls and one that reloads models while inferences run.            *)
(***************************************************************************)
EXTENDS FrontEnds, TLC

TheRepository == [plain |-> {1, 2}, other |-> {1}, ens |-> {1}, bad |-> {1, 2}, twice |-> {1}]
TheDuplicates == {"twice"}
TheBroken == {<<"bad", 2>>}
TheDependsOn == [ens |-> {"plain"}]
TheDecoupled == {"other"}
TheBatching == {"plain"}
TheNumerals == [one |-> 1, two |-> 2, three |-> 3, minus |-> -1]
TheObjects == {"k1"}
TheHandles == {"h1"}

Ports(http, grpc, sagemaker, metrics) ==
    [http |-> http, grpc |-> grpc, sagemaker |-> sagemaker, metrics |-> metrics]

Options(allow, port, range, poll) ==
    [allow |-> allow, port |-> port, range |-> range, poll |-> poll]

BothApis(poll) == {Options({"http", "grpc"}, Ports(1, 2, 1, 2), {}, poll)}

\* All four services apart, in and out of the safe range; a port that two
\* services share, both allowed or not.
AllServices ==
    {Options(Services, Ports(1, 2, 3, 4), range, FALSE) : range \in {{}, 1 .. 3, 1 .. 4}} \cup
    {Options(Services \ gone, Ports(1, 2, 3, shared), {}, FALSE) :
        gone \in {{}, {"metrics"}}, shared \in 1 .. 3}

Request ==
    [op |-> "live", method |-> "GET", model |-> "", version |-> "", ready |-> "absent",
     dependents |-> "absent", repository |-> "", kind |-> CPU_KIND, region |-> "", key |-> "",
     offset |-> 0, size |-> "given", byte_size |-> 1]

Of(op) == [Request EXCEPT !.op = op, !.method = Method(op)]

Health == {Of("live"), Of("ready"), Of("serverMetadata"), [Of("ready") EXCEPT !.method = "POST"]}

Queries(models, versions) ==
    {[Of(op) EXCEPT !.model = m, !.version = v] :
        op \in {"modelReady", "modelMetadata", "modelConfig", "modelStats"},
        m \in models, v \in versions}

Control ==
    {[Of("load") EXCEPT !.model = m] : m \in {"plain", "ens", "bad", "twice", "none"}} \cup
    {[Of("unload") EXCEPT !.model = m, !.dependents = d] :
        m \in {"plain", "ens", "bad"}, d \in {"absent", "yes", "bad"}} \cup
    {[Of("index") EXCEPT !.ready = y, !.repository = p] :
        y \in {"absent", "yes", "bad"}, p \in {"", "path"}}

Memory ==
    {[Of(op) EXCEPT !.kind = k, !.region = n] :
        op \in {"shmStatus", "shmUnregister"}, k \in {CPU_KIND, GPU_KIND}, n \in {"", "r1", "r2"}} \cup
    {[Of("shmRegister") EXCEPT !.kind = CPU_KIND, !.region = n, !.key = k, !.offset = o,
                               !.byte_size = b, !.size = z] :
        n \in {"", "r1", "r2"}, k \in {"k1", "k2", ""}, o \in {0, 1, 2}, b \in {0, 2},
        z \in {"given", "absent"}} \cup
    {[Of("shmRegister") EXCEPT !.kind = GPU_KIND, !.region = n, !.key = k] :
        n \in {"r1", "r2"}, k \in {"h1", "h2", ""}}

Input(sources, region, offset, size) ==
    [sources |-> sources, region |-> region, offset |-> offset, size |-> size]

Output(wants, region, offset, size, classes) ==
    [wants |-> wants, region |-> region, offset |-> offset, size |-> size, classes |-> classes]

NoShm == Output({}, "", 0, "absent", 0)
InBody == Input({"data"}, "", 0, "absent")

Infer(m, v, input, output) ==
    [op |-> "infer", method |-> "POST", model |-> m, version |-> v, flags |-> 0, params |-> "ok",
     encoding |-> "identity", header |-> "ok", input |-> input, output |-> output]

Inferences ==
    {Infer("plain", "", Input(s, n, o, z), NoShm) :
        s \in SUBSET {"data", "raw", "shm"}, n \in {"r1", "r2"}, o \in {0, 1}, z \in {"given", "absent"}} \cup
    {Infer("plain", "", InBody, Output(w, n, 0, z, k)) :
        w \in SUBSET {"shm", "class", "binary"}, n \in {"r1", "r2"}, z \in {"given", "absent"}, k \in {0, 2}}

Posted ==
    {Infer("plain", v, InBody, NoShm) : v \in {"one", "minus", "word"}} \cup
    {Infer("other", "", InBody, NoShm)} \cup
    {[Infer("plain", "", InBody, NoShm) EXCEPT !.encoding = e, !.params = p] :
        e \in {"gzip", "unknown", "broken"}, p \in {"ok", "bad"}}

Scenario(lines, explicit, strict, models, unary, infer, infers) ==
    [lines |-> lines, explicit |-> explicit, strict |-> strict, models |-> models,
     unary |-> unary, infer |-> infer, replies |-> {}, infers |-> infers,
     signals |-> infers > 0]

NoModels == [m \in {} |-> 0]
Serving == [plain |-> (1 :> READY), other |-> (1 :> READY)]

Starting == Scenario(AllServices, FALSE, TRUE, NoModels, Health, {}, 1)

Controlled ==
    Scenario(BothApis(FALSE), TRUE, TRUE, NoModels,
             Health \cup Control \cup
             Queries({"plain", "ens", "bad", ""}, {"", "one", "two", "minus", "word"}), {}, 0)

SharedMemory == Scenario(BothApis(FALSE), FALSE, FALSE, Serving, Memory, Inferences, 0)

Inferring ==
    Scenario(BothApis(TRUE), FALSE, TRUE, Serving, Health \cup {Of("index")}, Posted, 2)

\* Inferences on a model that is loaded, unloaded and loaded again by request.
Reloading ==
    Scenario(BothApis(FALSE), TRUE, TRUE, [plain |-> LoadedVersions("plain")],
             {[Of(op) EXCEPT !.model = "plain"] : op \in {"load", "unload"}},
             {Infer("plain", "", InBody, NoShm)}, 1)

\* What a model with two outputs responds, of every type, with and without a
\* batch, with elements that are equal, missing or too many, its buffers asked
\* for in either order; and the ways to ask for the first output.
Response(type, shape, data, model, failed, allocated) ==
    [failed |-> failed, model |-> model, version |-> 1, allocated |-> allocated,
     outputs |-> <<[name |-> "x", type |-> type, shape |-> shape, data |-> data],
                   [name |-> "y", type |-> "INT32", shape |-> <<2>>, data |-> <<7, 8>>]>>]

Responses ==
    {Response(t, s, d, m, FALSE, <<"x", "y">>) :
        t \in {"FP32", "FP16", "BYTES"}, s \in {<<2, 2>>, <<0>>, <<1, 3>>},
        d \in {<<>>, <<5, 3, 5>>, <<1, 2, 3, 3>>}, m \in {"plain", "other"}} \cup
    {Response("FP32", <<2>>, <<1, 2>>, "plain", f, <<"y", "x">>) : f \in BOOLEAN}

Wishes ==
    {[kind |-> k, room |-> 0, classes |-> c] : k \in {"JSON", "BINARY"}, c \in {0, 1, 3}} \cup
    {[kind |-> "SHM", room |-> r, classes |-> 0] : r \in {0, 4}}

Replies ==
    {[response |-> r, payload |-> p, default |-> d] :
        r \in Responses, d \in {"JSON", "BINARY"},
        p \in {("x" :> w) : w \in Wishes} \cup {[n \in {} |-> 0]}}

Answering ==
    [Scenario(BothApis(TRUE), FALSE, TRUE, Serving, {}, {}, 0) EXCEPT !.replies = Replies]

TheScenarios == {Starting, Controlled, SharedMemory, Inferring, Reloading, Answering}

=============================================================================
