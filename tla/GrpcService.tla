----------------------------- MODULE GrpcService -----------------------------
(***************************************************************************)
(* The unary calls of the gRPC front end (CommonHandler of                 *)
(* src/servers/grpc_server.cc): what each OnExecute function answers and   *)
(* does to the world.  How the calls are queued, registered again and      *)
(* answered, and how inferences stream, is the subject of GrpcServer.      *)
(***************************************************************************)
EXTENDS ServerApi, SharedMemoryManager

GrpcResult(code, value, w) == [code |-> code, value |-> value, world |-> w]

\* GrpcStatusUtil: OK, or the gRPC status of the error code.
GrpcStatus(code) ==
    CASE code = "INVALID_ARG" -> "INVALID_ARGUMENT"
      [] code = "UNSUPPORTED" -> "UNIMPLEMENTED"
      [] OTHER -> code

GrpcReply(w, outcome) ==
    GrpcResult(GrpcStatus(outcome.code), outcome.value, [w EXCEPT !.server = outcome.server])

GrpcShmReply(w, outcome) ==
    GrpcResult(GrpcStatus(outcome.code), outcome.value, [w EXCEPT !.regions = outcome.regions])

OnExecuteServerLive(w, r) == GrpcReply(w, IsLive(w.server))

OnExecuteServerReady(w, r) == GrpcReply(w, IsReady(w.server))

OnExecuteModelReady(w, r) ==
    GrpcReply(w, Then(GetModelVersionFromString(w.server, r.version),
                      LAMBDA v : ModelIsReady(w.server, r.model, v.value)))

OnExecuteServerMetadata(w, r) == GrpcReply(w, ServerMetadata(w.server))

OnExecuteModelMetadata(w, r) ==
    GrpcReply(w, Then(GetModelVersionFromString(w.server, r.version),
                      LAMBDA v : ServerModelMetadata(w.server, r.model, v.value)))

OnExecuteModelConfig(w, r) ==
    GrpcReply(w, Then(GetModelVersionFromString(w.server, r.version),
                      LAMBDA v : ServerModelConfig(w.server, r.model, v.value)))

OnExecuteModelStatistics(w, r) ==
    GrpcReply(w, Then(GetModelVersionFromString(w.server, r.version),
                      LAMBDA v : ServerModelStatistics(w.server, r.model, v.value)))

OnExecuteSystemSharedMemoryStatus(w, r) ==
    GrpcShmReply(w, GetStatus(w.regions, r.region, CPU_KIND))

\* Nothing is checked before the manager is called: an empty name is one.
OnExecuteSystemSharedMemoryRegister(w, r) ==
    GrpcShmReply(w, RegisterSystemSharedMemory(w.regions, r.region, r.key, r.offset,
                        IF r.size = "absent" THEN 0 ELSE r.byte_size))

OnExecuteSystemSharedMemoryUnregister(w, r) ==
    GrpcShmReply(w, IF r.region = "" THEN UnregisterAll(w.regions, CPU_KIND)
                    ELSE Unregister(w.regions, r.region, CPU_KIND))

OnExecuteCudaSharedMemoryStatus(w, r) ==
    GrpcShmReply(w, GetStatus(w.regions, r.region, GPU_KIND))

OnExecuteCudaSharedMemoryRegister(w, r) ==
    GrpcShmReply(w,
        IF ~GPU THEN ShmErr(w.regions, "INVALID_ARG")
        ELSE RegisterCUDASharedMemory(w.regions, r.region, r.key,
                 IF r.size = "absent" THEN 0 ELSE r.byte_size))

OnExecuteCudaSharedMemoryUnregister(w, r) ==
    GrpcShmReply(w, IF r.region = "" THEN UnregisterAll(w.regions, GPU_KIND)
                    ELSE Unregister(w.regions, r.region, GPU_KIND))

\* The ready flag is a Boolean of the message: it cannot be malformed.
OnExecuteRepositoryIndex(w, r) ==
    GrpcReply(w, IF r.repository # "" THEN Error(w.server, "UNSUPPORTED")
                 ELSE RepositoryIndex(w.server, r.ready = "yes"))

OnExecuteRepositoryModelLoad(w, r) ==
    GrpcReply(w, IF r.repository # "" THEN Error(w.server, "UNSUPPORTED")
                 ELSE LoadModel(w.server, r.model))

OnExecuteRepositoryModelUnload(w, r) ==
    GrpcReply(w, IF r.repository # "" THEN Error(w.server, "UNSUPPORTED")
                 ELSE IF r.dependents = "bad" THEN Error(w.server, "INVALID_ARG")
                 ELSE UnloadModel(w.server, r.model, r.dependents = "yes"))

-----------------------------------------------------------------------------
(* The translation of a ModelInferRequest.                                 *)

\* The region requires a size; an offset or a size requires the region.
ParseSharedMemoryParams(tensor, has_region) ==
    IF has_region THEN tensor.size # "absent"
    ELSE tensor.size = "absent" /\ tensor.offset = 0

\* Shared memory excludes contents; otherwise the data is in the contents or
\* in raw_input_contents, not in both, not in neither.
InferGRPCToInput(w, input) ==
    IF ~ParseSharedMemoryParams(input, "shm" \in input.sources)
    THEN Error(w.server, "INVALID_ARG")
    ELSE IF "shm" \in input.sources
    THEN LET info == GetMemoryInfo(w.regions, input.region, input.offset) IN
         IF "data" \in input.sources THEN Error(w.server, "INVALID_ARG")
         ELSE IF info.code # "OK" THEN Error(w.server, info.code)
         ELSE Ok(w.server, [from |-> info.value, size |-> 1])
    ELSE IF Cardinality(input.sources) # 1 THEN Error(w.server, "INVALID_ARG")
    ELSE Ok(w.server, [from |-> "request", size |-> 1])

ParseClassificationParams(output) == "class" \in output.wants => output.classes > 0

InferAllocatorPayload(w, output) ==
    IF \/ ~ParseSharedMemoryParams(output, "shm" \in output.wants)
       \/ ~ParseClassificationParams(output)
       \/ {"shm", "class"} \subseteq output.wants
    THEN Error(w.server, "INVALID_ARG")
    ELSE IF "shm" \in output.wants
    THEN LET info == GetMemoryInfo(w.regions, output.region, output.offset) IN
         IF info.code # "OK" THEN Error(w.server, info.code)
         ELSE Ok(w.server, [to |-> info.value, size |-> 1, classes |-> 0])
    ELSE Ok(w.server, [to |-> "response", size |-> 1,
                       classes |-> IF "class" \in output.wants THEN output.classes ELSE 0])

SetInferenceRequestMetadata(w, r) ==
    IF r.params = "bad" THEN Error(w.server, "INVALID_ARG") ELSE Ok(w.server, r.flags)

\* ModelInferHandler::Process up to the call of InferAsync.
GrpcInferRequest(w, r) ==
    Then(GetModelVersionFromString(w.server, r.version), LAMBDA v :
    Then(ServerModelTransactionProperties(w.server, r.model, v.value), LAMBDA decoupled :
    IF decoupled.value THEN Error(w.server, "UNSUPPORTED") ELSE
    Then(InferenceRequestNew(w.server, r.model, v.value), LAMBDA b :
    Then(SetInferenceRequestMetadata(w, r), LAMBDA flags :
    Then(InferGRPCToInput(w, r.input), LAMBDA i :
    Then(InferAllocatorPayload(w, r.output), LAMBDA o :
        Ok(w.server, [backend |-> b.value, flags |-> flags.value,
                      input |-> i.value, output |-> o.value])))))))

-----------------------------------------------------------------------------

\* The calls CommonHandler::SetUpAllRequests registers.
Execute(w, r) ==
    CASE r.op = "live" -> OnExecuteServerLive(w, r)
      [] r.op = "ready" -> OnExecuteServerReady(w, r)
      [] r.op = "modelReady" -> OnExecuteModelReady(w, r)
      [] r.op = "serverMetadata" -> OnExecuteServerMetadata(w, r)
      [] r.op = "modelMetadata" -> OnExecuteModelMetadata(w, r)
      [] r.op = "modelConfig" -> OnExecuteModelConfig(w, r)
      [] r.op = "modelStats" -> OnExecuteModelStatistics(w, r)
      [] r.op = "shmStatus" -> IF r.kind = CPU_KIND THEN OnExecuteSystemSharedMemoryStatus(w, r)
                               ELSE OnExecuteCudaSharedMemoryStatus(w, r)
      [] r.op = "shmRegister" -> IF r.kind = CPU_KIND THEN OnExecuteSystemSharedMemoryRegister(w, r)
                                 ELSE OnExecuteCudaSharedMemoryRegister(w, r)
      [] r.op = "shmUnregister" -> IF r.kind = CPU_KIND THEN OnExecuteSystemSharedMemoryUnregister(w, r)
                                   ELSE OnExecuteCudaSharedMemoryUnregister(w, r)
      [] r.op = "index" -> OnExecuteRepositoryIndex(w, r)
      [] r.op = "load" -> OnExecuteRepositoryModelLoad(w, r)
      [] r.op = "unload" -> OnExecuteRepositoryModelUnload(w, r)

=============================================================================
