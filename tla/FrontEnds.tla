------------------------------ MODULE FrontEnds ------------------------------
(***************************************************************************)
(* The server process: the HTTP front end of HttpApiServer and the gRPC    *)
(* front end of GrpcService over one server and one shared memory manager, *)
(* the life of an HTTP inference from its handler through the core to the  *)
(* reply that its event thread sends, and the main thread of ServerMain,   *)
(* which stops the server while all this goes on.                          *)
(*                                                                         *)
(* The core is an environment that keeps its contract: it answers the last *)
(* response of a request with FINAL, once, and releases the request once.  *)
(***************************************************************************)
EXTENDS HttpApiServer, GrpcService, InferReply, ServerMain

CONSTANTS
    Scenarios,      \* [lines, explicit, strict, models, unary, infer, replies,
                    \* infers, signals]: the command lines, the server that is
                    \* created, the requests of the clients, what models
                    \* respond, and the bounds: how many inferences a
                    \* connection asks for, and whether a signal is sent
    Connections     \* HTTP connections

\* The calls that their handlers answer at once.
UnaryCalls == {"live", "ready", "modelReady", "modelMetadata", "modelConfig", "modelStats",
               "serverMetadata", "index", "load", "unload",
               "shmStatus", "shmRegister", "shmUnregister"}

\* Versions are numbers.  An ensemble and its models have directories.  The
\* control mode is EXPLICIT or POLL, not both, and with EXPLICIT what is loaded
\* at the start was loaded like what the clients load.
ASSUME FrontEndsAssumption ==
    /\ \A m \in DOMAIN Repository : Repository[m] \subseteq Nat /\ IsFiniteSet(Repository[m])
    /\ DOMAIN DependsOn \subseteq DOMAIN Repository
    /\ \A e \in DOMAIN DependsOn : DependsOn[e] \subseteq DOMAIN Repository
    /\ \A s \in Scenarios :
         /\ \A m \in DOMAIN s.models :
              /\ DOMAIN s.models[m] \subseteq Nat /\ IsFiniteSet(DOMAIN s.models[m])
              /\ s.explicit => s.models[m] = LoadedVersions(m)
         /\ \A line \in s.lines : line.allow \subseteq Services /\ (s.explicit => ~line.poll)
         /\ \A r \in s.unary : r.op \in UnaryCalls

VARIABLES
    scenario,
    world,          \* [server, regions]
    conns,          \* connection |-> its request
    calls           \* connection |-> inferences asked and replies sent

vars == <<scenario, world, conns, calls, mainVars>>

\* An HTTP connection.  owed: the core still has to call InferResponseComplete
\* with FINAL; object: the InferRequestClass exists; count: response_count_;
\* unreleased: the inference requests the core has not released, as pairs of a
\* number and a backend; leaked: the backends of those that nobody owns.
NoBackend == [model |-> "", version |-> 0]
Idle == [phase |-> "idle", backend |-> NoBackend, owed |-> FALSE, object |-> FALSE,
         count |-> 0, unreleased |-> {}, leaked |-> {}]

Waiting == {"translated", "paused", "deferred"}

\* The backends that some object of an inference refers to: the request, or
\* the response and the factory that makes it.
Holds(c) ==
    c.leaked \cup {u[2] : u \in c.unreleased}
             \cup IF c.phase = "translated" \/ c.owed THEN {c.backend} ELSE {}
InUse == UNION {Holds(conns[c]) : c \in Connections}

\* A backend that a reload has taken out of map_: it lives on among the
\* unloading_backends_ until nothing refers to it.
Replaced(b) == [replaced |-> b]
IsReplaced(b) == DOMAIN b = {"replaced"}

Init ==
    /\ scenario \in Scenarios
    /\ MainInit(scenario.lines)
    /\ world = [server |-> [ready_state |-> "initializing", strict |-> scenario.strict,
                            explicit |-> scenario.explicit, models |-> scenario.models,
                            infos |-> DOMAIN scenario.models, named |-> {}],
                regions |-> NoRegions]
    /\ conns = [c \in Connections |-> Idle]
    /\ calls = [c \in Connections |-> [asked |-> 0, replied |-> 0]]

SetServer(server) == world' = [world EXCEPT !.server = server]

Listening(s) == Contains(running, s) /\ ~Ended

-----------------------------------------------------------------------------
(* Requests that are answered by their handler.                            *)

\* A handler that sends nothing leaves the connection waiting for ever.
HttpUnary(c, r) ==
    /\ Listening("http") /\ conns[c].phase = "idle"
    /\ LET result == Handle(world, r) IN
       /\ world' = result.world
       /\ conns' = IF result.status = NoReply THEN [conns EXCEPT ![c].phase = "hung"] ELSE conns
    /\ UNCHANGED <<scenario, calls, mainVars>>

GrpcUnary(r) ==
    /\ Listening("grpc")
    /\ world' = Execute(world, r).world
    /\ UNCHANGED <<scenario, conns, calls, mainVars>>

-----------------------------------------------------------------------------
(* An inference over HTTP.                                                 *)

Replied(c) == calls' = [calls EXCEPT ![c].asked = @ + 1, ![c].replied = @ + 1]

\* HandleInfer up to InferAsync.  A failure is answered and the inference
\* request is deleted, except for an encoding that is not known: that answer
\* is 415 and the object, if it was made, stays behind.
HandleInfer(c, r) ==
    /\ Listening("http") /\ conns[c].phase = "idle" /\ calls[c].asked < scenario.infers
    /\ LET outcome == HttpInferRequest(world, r)
           made == GetInferenceBackend(world.server, r.model,
                       GetModelVersionFromString(world.server, r.version).value)
       IN  \/ /\ outcome.code = "OK"
              /\ conns' = [conns EXCEPT ![c] = [conns[c] EXCEPT
                               !.phase = "translated", !.object = TRUE, !.count = 0,
                               !.backend = outcome.value.backend]]
              /\ calls' = [calls EXCEPT ![c].asked = @ + 1]
           \/ /\ outcome.code = "ENCODING"
              /\ conns' = [conns EXCEPT ![c].leaked = @ \cup {made.value}]
              /\ Replied(c)
           \/ /\ outcome.code \notin {"OK", "ENCODING"}
              /\ Replied(c)
              /\ UNCHANGED conns
    /\ UNCHANGED <<scenario, world, mainVars>>

Freed(c) == [c EXCEPT !.phase = "idle", !.object = FALSE]

\* InferAsync: the request does not fit the model, the server is no longer
\* ready, or the scheduler refuses it; or it belongs to the core from now on.
InferAsync(c, accepted) ==
    /\ ~Ended /\ conns[c].phase = "translated"
    /\ accepted => IsServing(world.server)
    /\ IF accepted
       THEN /\ conns' = [conns EXCEPT ![c] = [conns[c] EXCEPT !.phase = "paused", !.owed = TRUE,
                             !.unreleased = conns[c].unreleased
                                              \cup {<<calls[c].asked, conns[c].backend>>}]]
            /\ UNCHANGED calls
       ELSE /\ conns' = [conns EXCEPT ![c] = Freed(conns[c])]
            /\ calls' = [calls EXCEPT ![c].replied = @ + 1]
    /\ UNCHANGED <<scenario, world, mainVars>>

\* Slip: the reply is deferred for every response.
DeferEveryResponse(c, final) ==
    [c EXCEPT !.count = @ + 1, !.owed = ~final, !.phase = "deferred"]

\* InferResponseComplete: nothing happens before the final response; the
\* reply, good or bad, is deferred to the thread of the connection before the
\* response is deleted.
InferResponseComplete(c, final) ==
    [c EXCEPT !.count = @ + 1, !.owed = ~final, !.phase = IF final THEN "deferred" ELSE @]

Respond(c, final) ==
    /\ ~Ended /\ conns[c].owed
    /\ ~final => conns[c].count = 0
    /\ conns' = [conns EXCEPT ![c] = InferResponseComplete(conns[c], final)]
    /\ UNCHANGED <<scenario, world, calls, mainVars>>

\* InferRequestComplete deletes an inference request.
Release(c) ==
    /\ ~Ended
    /\ \E u \in conns[c].unreleased : conns' = [conns EXCEPT ![c].unreleased = @ \ {u}]
    /\ UNCHANGED <<scenario, world, calls, mainVars>>

\* OKReplyCallback or BADReplyCallback, on the connection's thread: the
\* answer is sent, the request resumed, the InferRequestClass deleted.  The
\* thread is there as long as the service is.
ReplyCallback(c) ==
    /\ Listening("http") /\ conns[c].phase = "deferred"
    /\ conns' = [conns EXCEPT ![c] = Freed(conns[c])]
    /\ calls' = [calls EXCEPT ![c].replied = @ + 1]
    /\ UNCHANGED <<scenario, world, mainVars>>

-----------------------------------------------------------------------------
(* The versions of the models, and the main thread.                        *)

SetVersion(m, v, state) == SetServer([world.server EXCEPT !.models[m][v] = state])

\* A backend is destroyed when the last object that refers to it is gone.
Unloaded(m, v) ==
    /\ ~Ended /\ world.server.models[m][v] = UNLOADING
    /\ [model |-> m, version |-> v] \notin InUse
    /\ SetVersion(m, v, UNLOADED)
    /\ UNCHANGED <<scenario, conns, calls, mainVars>>

\* A load ends; UnloadAllModels may have come in between.
LoadEnds(m, v) ==
    /\ ~Ended /\ world.server.models[m][v] = LOADING
    /\ SetVersion(m, v, CASE <<m, v>> \in Broken -> FAILED
                          [] <<m, v>> \notin Broken /\ ~IsServing(world.server) -> UNLOADING
                          [] OTHER -> READY)
    /\ UNCHANGED <<scenario, conns, calls, mainVars>>

Create(created) ==
    /\ CreateServer(created)
    /\ SetServer([world.server EXCEPT !.ready_state = IF created THEN "ready" ELSE @])
    /\ UNCHANGED <<scenario, conns, calls>>

\* Connection k when the backends in old are replaced.
Outlives(k, old) ==
    LET now(b) == IF b \in old THEN Replaced(b) ELSE b
    IN  [k EXCEPT !.backend = now(@), !.leaked = {now(b) : b \in @},
                  !.unreleased = {<<u[1], now(u[2])>> : u \in @}]

ReadyBackends(m) ==
    {[model |-> m, version |-> v] :
        v \in {x \in DOMAIN world.server.models[m] : world.server.models[m][x] = READY}}

\* The files of a model have changed and it is loaded again, next to what
\* serves: when that has succeeded the new backends are READY in its place, and
\* what refers to an old one goes on.  If it fails nothing has changed.
Reload(m) ==
    /\ ReadyBackends(m) # {}
    /\ conns' = [c \in Connections |-> Outlives(conns[c], ReadyBackends(m))]
    /\ UNCHANGED world

\* A poll finds that the directory of a model has gone, has come back, or has
\* changed.
Poll ==
    /\ PollModelRepository
    /\ \/ \E m \in DOMAIN world.server.models :
             LET versions == world.server.models[m] IN
             \/ /\ READY \in Range(versions)
                /\ SetServer([world.server EXCEPT !.models[m] = Unloading(versions)])
                /\ UNCHANGED conns
             \/ /\ Range(versions) = {UNLOADED}
                /\ SetServer([world.server EXCEPT !.models[m] = [v \in DOMAIN versions |-> LOADING]])
                /\ UNCHANGED conns
             \/ Reload(m)
       \/ UNCHANGED <<world, conns>>
    /\ UNCHANGED <<scenario, calls>>

\* A load by request finds that the directory has changed.
LoadModified(m) ==
    /\ Listening("http") \/ Listening("grpc")
    /\ world.server.explicit /\ IsServing(world.server)
    /\ Reload(m)
    /\ UNCHANGED <<scenario, calls, mainVars>>

\* InferenceServer::Stop: not ready any more; all models are unloaded.
Stop ==
    /\ BeginStop
    /\ SetServer([world.server EXCEPT !.ready_state = "exiting",
                     !.models = [m \in DOMAIN world.server.models |->
                                   Unloading(world.server.models[m])]])
    /\ UNCHANGED <<scenario, conns, calls>>

\* Slip: a model that is being unloaded does not count.
NothingReady(server) ==
    \A m \in DOMAIN server.models : Range(server.models[m]) \cap {READY, LOADING} = {}

NothingLive(server) ==
    \A m \in DOMAIN server.models :
        Range(server.models[m]) \cap {READY, LOADING, UNLOADING} = {}

Stopped ==
    /\ \/ NothingLive(world.server) /\ EndStop(TRUE)
       \/ ~NothingLive(world.server) /\ EndStop(FALSE)
    /\ UNCHANGED <<scenario, world, conns, calls>>

\* Stopping the HTTP service stops its event threads, each of which ends the
\* handler that it is in and runs what was deferred to it before.
StopEndpoints ==
    /\ \E s \in Services :
         /\ StopService(s)
         /\ s = "http" => \A c \in Connections : conns[c].phase \notin {"translated", "deferred"}
    /\ UNCHANGED <<scenario, world, conns, calls>>

MainThread ==
    \/ /\ Parse \/ StartService \/ Started \/ CheckExiting \/ WaitFor \/ Timeout \/ Exit
       /\ UNCHANGED <<scenario, world, conns, calls>>
    \/ \E created \in BOOLEAN : Create(created)
    \/ Poll
    \/ Stop
    \/ Stopped
    \/ StopEndpoints

SignalHandler ==
    /\ scenario.signals
    /\ SignalArrives \/ NotifyAll
    /\ UNCHANGED <<scenario, world, conns, calls>>

Core(c) ==
    \/ \E final \in BOOLEAN : Respond(c, final)
    \/ Release(c)

Versions == UNION {{m} \X DOMAIN world.server.models[m] : m \in DOMAIN world.server.models}

Next ==
    \/ MainThread
    \/ SignalHandler
    \/ \E c \in Connections, r \in scenario.unary : HttpUnary(c, r)
    \/ \E r \in scenario.unary : GrpcUnary(r)
    \/ \E c \in Connections, r \in scenario.infer : HandleInfer(c, r)
    \/ \E c \in Connections, accepted \in BOOLEAN : InferAsync(c, accepted)
    \/ \E c \in Connections : Core(c) \/ ReplyCallback(c)
    \/ \E m \in DOMAIN world.server.models : LoadModified(m)
    \/ \E mv \in Versions : Unloaded(mv[1], mv[2]) \/ LoadEnds(mv[1], mv[2])

Spec == Init /\ [][Next]_vars

\* The operating system runs the main thread, the handler that was entered,
\* the event threads and the threads of the core; a model answers what it
\* accepted and releases it.  Clients and signals may never come.
Fairness ==
    /\ WF_vars(MainThread)
    /\ WF_vars(NotifyAll /\ UNCHANGED <<scenario, world, conns, calls>>)
    /\ \A c \in Connections :
        /\ WF_vars(\E accepted \in BOOLEAN : InferAsync(c, accepted))
        /\ WF_vars(Respond(c, TRUE))
        /\ WF_vars(Release(c))
        /\ WF_vars(ReplyCallback(c))

FairSpec == Spec /\ Fairness

-----------------------------------------------------------------------------
(* Properties.                                                             *)

\* The requests that can be made over both front ends and mean the same.
\* Left out: what only HTTP can express (a wrong method, a body that is
\* malformed, encoded or has the wrong header length, binary outputs), and
\* the members that one front end checks and the other does not: the
\* repository of an index, the name and size of a region to register.
Comparable(r) ==
    /\ r.method = Method(r.op)
    /\ r.op = "index" => r.repository = "" /\ r.ready # "bad"
    /\ r.op = "unload" => r.dependents # "bad"
    /\ r.op = "shmRegister" => r.region # "" /\ r.size # "absent"

\* Likewise for inferences: a size goes with a region and only with one, raw
\* data does not come with a region, and no classes are not asked for.
ComparableInference(r) ==
    /\ r.encoding \in {"identity", "gzip"} /\ r.header = "ok"
    /\ {"raw", "shm"} \cap r.input.sources # {"raw", "shm"}
    /\ \A t \in {[uses |-> "shm" \in r.input.sources, of |-> r.input],
                 [uses |-> "shm" \in r.output.wants, of |-> r.output]} :
        IF t.uses THEN t.of.size # "absent" ELSE t.of.size = "absent" /\ t.of.offset = 0
    /\ "binary" \notin r.output.wants
    /\ "class" \in r.output.wants => r.output.classes > 0

Same(r, w) ==
    LET http == Handle(w, r)
        grpc == Execute(w, r)
        yes == grpc.code = "OK" /\ (r.op \in {"live", "ready", "modelReady"} => grpc.value)
    IN  /\ (http.status = OKReply) <=> yes
        /\ http.world = grpc.world
        /\ yes => http.value = grpc.value

SameInference(r, w) ==
    LET http == HttpInferRequest(w, r)
        grpc == GrpcInferRequest(w, r)
    IN  /\ (http.code = "OK") <=> (grpc.code = "OK")
        /\ http.code = "OK" => http.value = grpc.value

\* Responses that both front ends can express: an answer in JSON has the
\* elements that its shape says, of a type that JSON knows; what is classified
\* is a number and is there; the buffers were asked for in the order of the
\* outputs, unless nothing is classified; and the message is not too large.
ComparableReply(x) ==
    LET outputs == x.response.outputs
        Info(o) == OutputInfo(x.payload, x.default, o.name)
    IN  /\ \A i \in DOMAIN outputs :
             /\ Info(outputs[i]).kind = "JSON" =>
                  outputs[i].type # "FP16" /\ Len(outputs[i].data) = Dims(outputs[i].shape)
             /\ Info(outputs[i]).classes > 0 =>
                  /\ outputs[i].type # "BYTES" /\ outputs[i].data # <<>>
                  /\ x.response.allocated = [j \in DOMAIN outputs |-> outputs[j].name]
        /\ MapThenSumSet(LAMBDA i : Len(outputs[i].data), DOMAIN outputs) <= MessageLimit

\* A client of HTTP cuts what is behind the JSON part into its tensors.
Received(reply) ==
    LET size(i) == IF reply.json[i].where = "behind" THEN reply.json[i].data ELSE 0
        before(i) == MapThenSumSet(size, 1 .. i - 1)
    IN  [i \in DOMAIN reply.json |->
            IF reply.json[i].where # "behind" THEN reply.json[i]
            ELSE [reply.json[i] EXCEPT !.data = SubSeq(reply.tail, before(i) + 1, before(i) + size(i))]]

Seen(code, tensors) ==
    [code |-> code,
     tensors |-> {[name |-> t.name, type |-> t.type, shape |-> t.shape, data |-> t.data,
                   shm |-> t.where = "shm" /\ t.data # <<>>] : t \in Range(tensors)}]

SameReply(x, w) ==
    {Seen(r.code, Received(r)) : r \in FinalizeResponse(w.server, x.response, x.payload, x.default)}
        = {Seen(r.code, r.tensors) : r \in InferResponseCompleteCommon(w.server, x.response, x.payload)}

\* HTTP and gRPC are two ways to say the same: in every state of the server
\* and the shared memory that requests over either of them can produce, the
\* same request succeeds over both or over none (a health check over HTTP
\* succeeds when its answer is yes), with the same answer and the same effect,
\* and an inference reaches the core as the same request; and the client of
\* either gets the same tensors out of the same response, whether they were
\* sent as JSON, as binary data, in shared memory or as classes.
FrontEndsAgree ==
    Contains(running, "http") /\ Contains(running, "grpc") =>
        /\ \A r \in scenario.unary : Comparable(r) => Same(r, world)
        /\ \A r \in scenario.infer : ComparableInference(r) => SameInference(r, world)
        /\ \A x \in scenario.replies : ComparableReply(x) => SameReply(x, world)

\* An HTTP inference is answered once, by its handler or by the callback of
\* its final response, and whatever the core may still call finds its
\* InferRequestClass.
AnsweredOnce ==
    \A c \in Connections :
        /\ calls[c].asked - calls[c].replied = IF conns[c].phase \in Waiting THEN 1 ELSE 0
        /\ conns[c].owed => conns[c].object

\* When the server has stopped within its timeout no inference was cut off:
\* none is being handled or still with a model, but for those whose backend a
\* reload had replaced, which Stop does not look at.
CleanStop ==
    stage \in {"endpoints", "exited"} =>
        \A c \in Connections :
            conns[c].phase \in {"translated", "paused"} => IsReplaced(conns[c].backend)

\* Every service that was asked for listens: no two of them were given one
\* port, which none of them would have noticed.
AllListen ==
    stage \in {"check", "poll", "lock", "wait"} => \A s \in options.allow : bound[s]

\* From the start of the process to its end no service that the command line
\* asked for is missing, and no inference on a backend that serves is abandoned.
OrderlyProcess == AllListen /\ CleanStop

\* An inference that was accepted over HTTP is answered, unless the process
\* ends because the server did not stop in time, or did not wait for it.
InferAnswered ==
    \A c \in Connections : conns[c].phase \in Waiting ~> (conns[c].phase = "idle" \/ Ended)

\* After a signal the process ends, at the latest when the wait between two
\* polls and the exit timeout have run out.
SignalEndsProcess == exiting ~> Ended

\* Clients get their answer and the operator's signal ends the process.
EveryoneLeaves == InferAnswered /\ SignalEndsProcess

=============================================================================
