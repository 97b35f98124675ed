---------------------------- MODULE HttpApiServer ----------------------------
(***************************************************************************)
(* The HTTP/REST front end (src/servers/http_server.cc): what each handler *)
(* replies to a request and what it does to the world, the server and the  *)
(* shared memory regions.  A reply is the status the handler sends, or     *)
(* NoReply when it returns without having sent one.  Bodies are abstracted *)
(* to whether they parse and to the members the handler looks for; "yes",  *)
(* "no", "bad" and "absent" are the values of a Boolean member.            *)
(***************************************************************************)
EXTENDS ServerApi, SharedMemoryManager

OKReply == 200
BadRequest == 400
NotAllowed == 405
NoReply == 0

HttpResult(status, value, w) == [status |-> status, value |-> value, world |-> w]
Refused(w) == HttpResult(BadRequest, "none", w)

\* The reply for the outcome of a call of the C API.
HttpReply(w, outcome) ==
    IF outcome.code = "OK"
    THEN HttpResult(OKReply, outcome.value, [w EXCEPT !.server = outcome.server])
    ELSE HttpResult(BadRequest, "none", [w EXCEPT !.server = outcome.server])

\* The reply for the outcome of a call of the shared memory manager.
HttpShmReply(w, outcome) ==
    HttpResult(IF outcome.code = "OK" THEN OKReply ELSE BadRequest, outcome.value,
               [w EXCEPT !.regions = outcome.regions])

\* Health endpoints answer with the status alone: what is not ready is 400.
HttpHealth(w, outcome) ==
    IF outcome.code = "OK" /\ outcome.value THEN HttpResult(OKReply, TRUE, w)
    ELSE Refused(w)

HandleServerHealth(w, r) ==
    HttpHealth(w, IF r.op = "live" THEN IsLive(w.server) ELSE IsReady(w.server))

HandleModelReady(w, r) ==
    IF r.model = "" THEN Refused(w)
    ELSE HttpHealth(w, Then(GetModelVersionFromString(w.server, r.version),
                            LAMBDA v : ModelIsReady(w.server, r.model, v.value)))

HandleModelMetadata(w, r) ==
    IF r.model = "" THEN Refused(w)
    ELSE HttpReply(w, Then(GetModelVersionFromString(w.server, r.version),
                           LAMBDA v : ServerModelMetadata(w.server, r.model, v.value)))

HandleModelConfig(w, r) ==
    IF r.model = "" THEN Refused(w)
    ELSE HttpReply(w, Then(GetModelVersionFromString(w.server, r.version),
                           LAMBDA v : ServerModelConfig(w.server, r.model, v.value)))

HandleModelStats(w, r) ==
    HttpReply(w, Then(GetModelVersionFromString(w.server, r.version),
                      LAMBDA v : ServerModelStatistics(w.server, r.model, v.value)))

\* The metadata was computed when the front end was created.
HandleServerMetadata(w, r) == HttpReply(w, ServerMetadata(w.server))

\* The repository name is not looked at.  The error of ServerModelIndex is
\* held in a variable of an inner scope: nothing is sent for it.
HandleRepositoryIndex(w, r) ==
    IF r.ready = "bad" THEN Refused(w)
    ELSE LET index == RepositoryIndex(w.server, r.ready = "yes") IN
         IF index.code = "OK" THEN HttpReply(w, index)
         ELSE HttpResult(NoReply, "none", w)

\* Slip: unload_dependents is not passed on.
ControlWithoutDependents(w, r) ==
    IF r.repository # "" THEN Refused(w)
    ELSE HttpReply(w, IF r.op = "load" THEN LoadModel(w.server, r.model)
                      ELSE UnloadModel(w.server, r.model, FALSE))

\* A body or parameter that does not parse leaves unload_dependents false, and
\* its error is overwritten by the outcome of the unload.
HandleRepositoryControl(w, r) ==
    IF r.repository # "" THEN Refused(w)
    ELSE IF r.op = "load" THEN HttpReply(w, LoadModel(w.server, r.model))
    ELSE HttpReply(w, UnloadModel(w.server, r.model, r.dependents = "yes"))

HandleSystemSharedMemory(w, r) ==
    CASE r.op = "shmStatus" -> HttpShmReply(w, GetStatus(w.regions, r.region, CPU_KIND))
      [] r.op = "shmRegister" ->
            IF r.region = "" \/ r.key = "" \/ r.size = "absent" THEN Refused(w)
            ELSE HttpShmReply(w, RegisterSystemSharedMemory(
                    w.regions, r.region, r.key, r.offset, r.byte_size))
      [] r.op = "shmUnregister" ->
            HttpShmReply(w, IF r.region = "" THEN UnregisterAll(w.regions, CPU_KIND)
                            ELSE Unregister(w.regions, r.region, CPU_KIND))

\* A handle that does not decode to the size of a cudaIpcMemHandle_t is "".
HandleCudaSharedMemory(w, r) ==
    CASE r.op = "shmStatus" -> HttpShmReply(w, GetStatus(w.regions, r.region, GPU_KIND))
      [] r.op = "shmRegister" ->
            IF r.region = "" \/ ~GPU \/ r.key = "" \/ r.size = "absent" THEN Refused(w)
            ELSE HttpShmReply(w, RegisterCUDASharedMemory(
                    w.regions, r.region, r.key, r.byte_size))
      [] r.op = "shmUnregister" ->
            HttpShmReply(w, IF r.region = "" THEN UnregisterAll(w.regions, GPU_KIND)
                            ELSE Unregister(w.regions, r.region, GPU_KIND))

-----------------------------------------------------------------------------
(* Inference: the body is translated into an inference request.            *)

\* Exactly one of 'data', 'binary_data_size' and 'shared_memory_region'.
ValidateInputContentType(input) == Cardinality(input.sources) = 1

\* Shared memory goes neither with classification nor with binary data.
ValidateOutputParameter(output) ==
    "shm" \in output.wants => output.wants \cap {"class", "binary"} = {}

\* The size defaults to 0 when only the region is given.
CheckSharedMemoryData(tensor) == IF tensor.size = "absent" THEN 0 ELSE 1

HttpInput(w, input) ==
    IF ~ValidateInputContentType(input) THEN Error(w.server, "INVALID_ARG")
    ELSE IF "shm" \in input.sources
    THEN LET info == GetMemoryInfo(w.regions, input.region, input.offset) IN
         IF info.code # "OK" THEN Error(w.server, info.code)
         ELSE Ok(w.server, [from |-> info.value, size |-> CheckSharedMemoryData(input)])
    ELSE Ok(w.server, [from |-> "request", size |-> 1])

\* A class count of 0 asks for no classification.
HttpOutput(w, output) ==
    IF ~ValidateOutputParameter(output) THEN Error(w.server, "INVALID_ARG")
    ELSE IF "shm" \in output.wants
    THEN LET info == GetMemoryInfo(w.regions, output.region, output.offset) IN
         IF info.code # "OK" THEN Error(w.server, info.code)
         ELSE Ok(w.server, [to |-> info.value, size |-> CheckSharedMemoryData(output),
                            classes |-> 0])
    ELSE Ok(w.server, [to |-> "response", size |-> 1,
                       classes |-> IF "class" \in output.wants THEN output.classes ELSE 0])

EVBufferToInput(w, r, backend) ==
    IF r.params = "bad" THEN Error(w.server, "INVALID_ARG")
    ELSE Then(HttpInput(w, r.input), LAMBDA i : Then(HttpOutput(w, r.output), LAMBDA o :
            Ok(w.server, [backend |-> backend, flags |-> r.flags,
                          input |-> i.value, output |-> o.value])))

\* HandleInfer up to the call of InferAsync: the version, a model that
\* answers each request once, the request object, the encoding of the body,
\* the length of its header, the body.
HttpInferRequest(w, r) ==
    Then(GetModelVersionFromString(w.server, r.version), LAMBDA v :
    Then(ServerModelTransactionProperties(w.server, r.model, v.value), LAMBDA decoupled :
    IF decoupled.value THEN Error(w.server, "UNSUPPORTED") ELSE
    Then(InferenceRequestNew(w.server, r.model, v.value), LAMBDA b :
    CASE r.encoding = "unknown" -> Error(w.server, "ENCODING")
      [] r.encoding # "unknown" /\ (r.encoding = "broken" \/ r.header = "bad") ->
            Error(w.server, "INVALID_ARG")
      [] OTHER -> EVBufferToInput(w, r, b.value))))

-----------------------------------------------------------------------------

\* The method each path accepts.
Method(op) ==
    IF op \in {"index", "load", "unload", "shmRegister", "shmUnregister", "infer"}
    THEN "POST" ELSE "GET"

\* The table of paths.  Inference is split in HttpInferRequest and the steps
\* that follow it.
Handle(w, r) ==
    CASE r.method # Method(r.op) -> HttpResult(NotAllowed, "none", w)
      [] r.method = Method(r.op) /\ r.op \in {"live", "ready"} -> HandleServerHealth(w, r)
      [] r.method = Method(r.op) /\ r.op = "modelReady" -> HandleModelReady(w, r)
      [] r.method = Method(r.op) /\ r.op = "modelMetadata" -> HandleModelMetadata(w, r)
      [] r.method = Method(r.op) /\ r.op = "modelConfig" -> HandleModelConfig(w, r)
      [] r.method = Method(r.op) /\ r.op = "modelStats" -> HandleModelStats(w, r)
      [] r.method = Method(r.op) /\ r.op = "serverMetadata" -> HandleServerMetadata(w, r)
      [] r.method = Method(r.op) /\ r.op = "index" -> HandleRepositoryIndex(w, r)
      [] r.method = Method(r.op) /\ r.op \in {"load", "unload"} -> HandleRepositoryControl(w, r)
      [] r.method = Method(r.op) /\ r.op \in {"shmStatus", "shmRegister", "shmUnregister"} ->
            IF r.kind = CPU_KIND THEN HandleSystemSharedMemory(w, r)
            ELSE HandleCudaSharedMemory(w, r)

=============================================================================
