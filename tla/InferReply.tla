----------------------------- MODULE InferReply -----------------------------
(***************************************************************************)
(* How the front ends turn the response of a model into the answer that    *)
(* the client gets: HTTPAPIServer::InferResponseAlloc and FinalizeResponse *)
(* (src/servers/http_server.cc), ResponseAllocatorHelper and               *)
(* InferResponseCompleteCommon (src/servers/grpc_server.cc), and the       *)
(* classification both offer (src/servers/classification.cc).              *)
(*                                                                         *)
(* A response is [failed, model, version, outputs, allocated]: the outputs *)
(* in the order the back end added them, each [name, type, shape, data],   *)
(* and their names in the order it asked for their buffers.  Data are      *)
(* sequences of elements; sizes are numbers of elements.                   *)
(* A payload is what the request said of some outputs, by name: [kind, the *)
(* room in shared memory, the classes]; kinds are "JSON", "BINARY", "SHM". *)
(***************************************************************************)
EXTENDS ServerApi, Sequences, SequencesExt

CONSTANTS
    Batching,       \* the models that have a batch dimension
    MessageLimit    \* the size of a gRPC message

Dims(shape) == FoldLeft(LAMBDA x, y : x * y, 1, shape)

Smaller(x, y) == IF x < y THEN x ELSE y

\* The client's view of an output.
Tensor(output, type, shape, where, data) ==
    [name |-> output.name, type |-> type, shape |-> shape, where |-> where, data |-> data]

\* An answer, an error, or no answer at all: the process may do anything.
Answer(tensors) == [code |-> "OK", tensors |-> tensors]
Failure == [code |-> "ERROR", tensors |-> <<>>]
Undefined == [code |-> "UNDEFINED", tensors |-> <<>>]

-----------------------------------------------------------------------------
(* Classification.                                                         *)

\* The first class_cnt of the elements sorted by value, each with its index.
\* Equal elements come in any order.
AddClassResults(elements, class_cnt) ==
    {[k \in 1 .. Smaller(Len(elements), class_cnt) |-> <<elements[idx[k]], idx[k] - 1>>] :
        idx \in {s \in SetToSeqs(DOMAIN elements) :
                    \A i, j \in DOMAIN s : i < j => elements[s[i]] >= elements[s[j]]}}

Numeric == {"INT32", "FP32"}

\* The names of a string type have no size, by which the number of elements
\* would be divided.
Divides(type) == type # "BYTES"

ServerModelBatchProperties(server, model, version) ==
    Then(GetInferenceBackend(server, model, version),
         LAMBDA b : Ok(server, model \in Batching))

BatchSize(output, batched) == IF batched /\ output.shape # <<>> THEN output.shape[1] ELSE 0

BatchElements(output, batch) == Dims(IF batch = 0 THEN output.shape ELSE Tail(output.shape))

\* The elements of entry b of the batch, or none when the data end before.
BatchEntry(output, batch, b) ==
    LET count == BatchElements(output, batch) IN
    IF b * count > Len(output.data) THEN <<>>
    ELSE SubSeq(output.data, (b - 1) * count + 1, b * count)

\* The class strings of all entries, one after the other.
TopkClassifications(output, batch, classes) ==
    LET entries == 1 .. IF batch = 0 THEN 1 ELSE batch
        Top(b) == AddClassResults(BatchEntry(output, batch, b), classes)
    IN  {FlattenSeq(tops) : tops \in
            {t \in [entries -> UNION {Top(b) : b \in entries}] : \A b \in entries : t[b] \in Top(b)}}

ClassShape(output, batch, classes) ==
    (IF batch > 0 THEN <<batch>> ELSE <<>>) \o <<Smaller(classes, BatchElements(output, batch))>>

-----------------------------------------------------------------------------
(* HTTP.                                                                   *)

\* AllocPayload::OutputInfo: an output that was not asked for by name gets
\* the default kind and no classification.
OutputInfo(payload, default, name) ==
    IF name \in DOMAIN payload THEN payload[name]
    ELSE [kind |-> default, room |-> 0, classes |-> 0]

\* Output in shared memory must fit; other outputs get an evbuffer, unless
\* they are empty.
InferResponseAlloc(info, output) == info.kind = "SHM" => Len(output.data) <= info.room

\* The data as JSON: of a type that JSON has, and as many as the shape says.
\* Strings may be more.
WriteDataToJsonCheck(type, data, count) ==
    IF type = "BYTES" THEN Len(data) >= count ELSE Len(data) = count
WriteDataToJson(type, data, count) ==
    IF type = "FP16" \/ ~WriteDataToJsonCheck(type, data, count) THEN <<>>
    ELSE << SubSeq(data, 1, count) >>

\* The data go into the JSON part, or behind it with their size in it.
HttpTensor(output, info, type, shape, data) ==
    IF info.kind = "BINARY" THEN Answer(<<Tensor(output, type, shape, "behind", data)>>)
    ELSE LET json == WriteDataToJson(type, data, Dims(shape)) IN
         IF json = <<>> THEN Failure
         ELSE Answer(<<Tensor(output, type, shape, "within", json[1])>>)

\* The evbuffer of an output that is classified is replaced; that of an empty
\* output does not exist.
HttpClassified(server, response, output, info) ==
    LET batched == ServerModelBatchProperties(server, response.model, response.version)
        batch == BatchSize(output, batched.value)
    IN  CASE batched.code # "OK" -> {Failure}
          [] batched.code = "OK" /\ ~Divides(output.type) -> {Undefined}
          [] batched.code = "OK" /\ Divides(output.type) /\ output.type \notin Numeric -> {Failure}
          [] batched.code = "OK" /\ output.type \in Numeric /\ output.data = <<>> -> {Undefined}
          [] OTHER -> {HttpTensor(output, info, "BYTES", ClassShape(output, batch, info.classes), s) :
                          s \in TopkClassifications(output, batch, info.classes)}

HttpOutcomes(server, response, output, info) ==
    IF info.kind = "SHM"
    THEN {Answer(<<Tensor(output, output.type, output.shape, "shm", output.data)>>)}
    ELSE IF info.classes > 0 THEN HttpClassified(server, response, output, info)
    ELSE {HttpTensor(output, info, output.type, output.shape, output.data)}

\* Every way to choose one outcome of each output.
Selections(outcomes) ==
    {c \in [DOMAIN outcomes -> UNION Range(outcomes)] : \A i \in DOMAIN c : c[i] \in outcomes[i]}

\* The first output that does not succeed decides.
Combined(choice) ==
    IF \A i \in DOMAIN choice : choice[i].code = "OK"
    THEN Answer(FlattenSeq([i \in DOMAIN choice |-> choice[i].tensors]))
    ELSE choice[Min({i \in DOMAIN choice : choice[i].code # "OK"})]

\* What is behind the JSON part: the binary outputs in the order of the JSON.
Behind(tensors) ==
    FlattenSeq([i \in DOMAIN tensors |-> IF tensors[i].where = "behind" THEN tensors[i].data ELSE <<>>])

\* The answers: the JSON part, which has only the sizes of binary data, those
\* data, and the header that says where they begin.
FinalizeResponse(server, response, payload, default) ==
    LET info(i) == OutputInfo(payload, default, response.outputs[i].name) IN
    IF \/ response.failed
       \/ \E i \in DOMAIN response.outputs : ~InferResponseAlloc(info(i), response.outputs[i])
    THEN {[code |-> "ERROR", json |-> <<>>, tail |-> <<>>, header |-> FALSE]}
    ELSE {LET all == Combined(choice) IN
          [code |-> all.code,
           json |-> [i \in DOMAIN all.tensors |->
                        IF all.tensors[i].where # "behind" THEN all.tensors[i]
                        ELSE [all.tensors[i] EXCEPT !.data = Len(@)]],
           tail |-> Behind(all.tensors),
           header |-> Behind(all.tensors) # <<>>] :
            choice \in Selections([i \in DOMAIN response.outputs |->
                HttpOutcomes(server, response, response.outputs[i], info(i))])}

-----------------------------------------------------------------------------
(* gRPC.                                                                   *)

Position(response, name) == CHOOSE p \in DOMAIN response.allocated : response.allocated[p] = name

InShm(payload, output) ==
    output.name \in DOMAIN payload /\ payload[output.name].kind = "SHM" /\ output.data # <<>>

ClassesOf(payload, output) ==
    IF output.name \in DOMAIN payload THEN payload[output.name].classes ELSE 0

\* The message gets an output and a raw content whenever a buffer is asked
\* for.  One in shared memory must fit.
ResponseAllocatorHelper(payload, output) ==
    InShm(payload, output) => Len(output.data) <= payload[output.name].room

\* The class strings of an output go to the raw content with the index of the
\* output in the response, the tensor they describe is the one of its name.
GrpcClassified(server, response, payload, output) ==
    LET batched == ServerModelBatchProperties(server, response.model, response.version)
        batch == BatchSize(output, batched.value)
        classes == ClassesOf(payload, output)
    IN  CASE batched.code # "OK" -> {Failure}
          [] batched.code = "OK" /\ ~Divides(output.type) -> {Undefined}
          [] batched.code = "OK" /\ Divides(output.type) /\ output.type \notin Numeric -> {Failure}
          [] OTHER -> {Answer(<<Tensor(output, "BYTES", ClassShape(output, batch, classes), "raw", s)>>) :
                          s \in TopkClassifications(output, batch, classes)}

GrpcOutcomes(server, response, payload, output) ==
    IF ClassesOf(payload, output) > 0 THEN GrpcClassified(server, response, payload, output)
    ELSE {Answer(<<Tensor(output, output.type, output.shape,
                          IF InShm(payload, output) THEN "shm" ELSE "raw", output.data)>>)}

\* The raw content at position p holds what was classified as output p, or
\* else what was written to the buffer that was asked for as number p.
RawContent(response, payload, tensors, p) ==
    LET own == CHOOSE i \in DOMAIN tensors : tensors[i].name = response.allocated[p] IN
    IF ClassesOf(payload, response.outputs[p]) > 0 THEN tensors[p].data
    ELSE response.outputs[own].data

\* An output is classified whose own content has been replaced before.
Overwritten(response, payload) ==
    \E i \in DOMAIN response.outputs :
        LET p == Position(response, response.outputs[i].name) IN
        p < i /\ ClassesOf(payload, response.outputs[i]) > 0
              /\ ClassesOf(payload, response.outputs[p]) > 0

GrpcMessage(response, payload, all) ==
    IF all.code # "OK" THEN all
    ELSE IF Overwritten(response, payload) THEN Undefined
    ELSE LET raw(i) == RawContent(response, payload, all.tensors,
                                  Position(response, all.tensors[i].name))
             sent == [i \in DOMAIN all.tensors |->
                        IF all.tensors[i].where = "shm" THEN all.tensors[i]
                        ELSE [all.tensors[i] EXCEPT !.data = raw(i)]]
         IN  IF MapThenSumSet(LAMBDA i : Len(sent[i].data), DOMAIN sent) > MessageLimit
             THEN Failure
             ELSE Answer(sent)

InferResponseCompleteCommon(server, response, payload) ==
    IF \/ response.failed
       \/ Len(response.outputs) # Len(response.allocated)
       \/ \E i \in DOMAIN response.outputs : ~ResponseAllocatorHelper(payload, response.outputs[i])
    THEN {Failure}
    ELSE {GrpcMessage(response, payload, Combined(choice)) :
            choice \in Selections([i \in DOMAIN response.outputs |->
                GrpcOutcomes(server, response, payload, response.outputs[i])])}
=============================================================================
