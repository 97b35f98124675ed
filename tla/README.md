# TLA+ verification of the Triton Inference Server

This directory holds TLA+ specifications of the server: how a request comes in
over HTTP, gRPC or the C API, is prepared, scheduled, batched, run and answered,
and how models come and go meanwhile. TLC checks the models on small
instances; TLAPS proves, for every instance, what matters most of the completion
queue, the dynamic batcher, the sequence batcher and its abstract promise, the
rate limiter, the ensemble scheduler, the streams and calls of gRPC, the
inferences over HTTP and the start and stop of the process.
Paths below are relative to the repository root; the C++ core is in `src/core/`
of the repository, the front ends are in `src/servers/` (`src/src/...` in
`PROJECT.json`).

`PROJECT.json` is the machine-readable index: components, runs, the source lines
each definition translates (`map`), one deliberate slip per property that the
property must catch (`mutants`), hazards, findings and theorems.

    tlc -workers 2 -config sequences.cfg MCSequenceBatch
    tlapm CompletionQueueProofs.tla
    tlapm DynamicBatchSchedulerProofs.tla
    tlapm SequenceBatchProofs.tla
    tlapm RateLimiterProofs.tla
    tlapm EnsembleSchedulerProofs.tla
    tlapm GrpcServerProofs.tla
    tlapm FrontEndsProofs.tla
    tlapm InferenceRequestProofs.tla

Contents: 1 inventory; 2 how the parts were chosen and what is next; 3 the
modules and the code; 4 runs and bounds; 5 fairness; 6 proofs; 7 finding;
8 observations without a run; 9 what is left out.

## 1. Inventory

A request enters through a front end, which translates it into calls of the C
API; it is normalised against the configuration of its model and handed by
`InferenceServer::InferAsync` to the scheduler of the model's backend. The
scheduler owns the request until it is given to a backend (`OnSchedule_`), which
answers through a response factory, whose responses the front end translates
back, and then releases the request; the release may drop the last handle of
the backend, whose destruction destroys the scheduler, on whatever thread that
happens. Models are loaded from a repository, on a disk or in an object store,
by polling or by request, one operation at a time, each load on a thread of its
own, while requests run.

| Component | State | Operations | Hard behaviour | What makes it correct |
|---|---|---|---|---|
| **Dynamic batcher** `dynamic_batch_scheduler.{h,cc}` | queue, pending batch (size, required shapes, next preferred size), idle thread count, exit flag, completion queue; one `mu_` | `Enqueue`, scheduler threads, `GetDynamicBatch`, `FinalizeResponses`, destructor | arrivals while a batch is pending; stale cursor; timed waits; destruction on a scheduler thread | a request is in one place; batches respect size, preferred sizes and shapes; nobody oversleeps; everything accepted leaves |
| **Priority and policy queue** `scheduler_utils.{h,cc}` | per level: unexpired queue, delayed queue, rejected queue, timeouts; cursor; `front_priority_level_` | `Enqueue`, `Dequeue`, `ApplyPolicyAtCursor`, cursor moves, `ReleaseRejectedRequests` | the cursor outlives the lock; expiry under it | the cursor describes a prefix of the queue; dequeue order is priority, then arrival, then delayed |
| **Completion queue** (`completion_queue_`, `FinalizeResponses`) | slots of responses in scheduling order, two mutexes | delegator puts a response, `FinalizeResponses` flushes | responses of concurrent backend threads; raw pointers to slots | responses leave in scheduling order, none lost or stranded, no slot freed under a delegator |
| **Sequence batcher** `sequence_batch_scheduler.{h,cc}` | correlation ID to slot, to backlog queue; ready slots; backlog; time stamps; one `mu_` | `Enqueue`, `ReleaseSequenceSlot`, reaper thread | slot chosen under one lock, used under another; forced end racing a new START | a sequence runs in order, in one slot, unmixed; slots never lost or shared; abandoned sequences end |
| Direct strategy (same file) | per slot queue and CORRID, `max_active_seq_slot_`, the thread | `Enqueue`, `SchedulerThread` | two passes over the slots under one lock that takes another; wake-ups | position in the batch is the slot; everything accepted runs |
| Oldest strategy (same file) | per slot queue and `in_flight_`, a dynamic batcher | `Enqueue`, `CompleteAndNext` (client, reaper or release callback) | flag read under the lock, acted on outside of it | one request of a slot in flight; override not overwritten under it |
| **Rate limiter** `rate_limiter.{h,cc}` | per model: request queues, available instances; instance states; staged queue; resources; nine mutexes | `AddModel`, `RemoveModel`, `RequestModelInstance`, `Release`, staging and allocation | nested locks; an instance is available before its release has ended; removal under requests | limits kept, resources returned, no request lost or overlooked, no deadlock |
| **Ensemble scheduler** `ensemble_scheduler.{h,cc}` | per request context: tensors with reference counts, steps in flight, request tracker, status | `Enqueue`, `PrepareSteps`, step callbacks, `FinishEnsemble`, pruning by requested outputs | steps completing on several threads, one failing; several responses of a step | one final response, with all outputs, when no step is in flight; tracker released once |
| **Backend life cycle** `model_repository_manager.cc` | model and version to `BackendInfo` (state, next action), `unloading_backends_`, load trackers | `AsyncLoad`, `AsyncUnload`, `TriggerNextAction`, `OnLoadComplete`, deleter | loads and unloads of one version crossing; deleter on any thread | a ready model keeps serving during reload; no action lost; unload ends |
| **Polling and dependency graph** (same file) | infos of the last poll, dependency graph, missing nodes | `PollAndUpdate`, `LoadUnloadModel`, `UpdateDependency`, `LoadModelByDependency` | partial failures, cycles, several rounds of loading | a served ensemble has its models; operations end |
| **Inference server** `server.{h,cc}` | `ready_state_`, in-flight request counter | `Init`, `Stop`, `InferAsync`, load/unload, health | state tested before the counter is raised | Stop ends with nothing in flight, or by its timeout |
| **Requests and responses** `infer_request.*`, `infer_response.*` | inputs, overrides, requested outputs, normalised shapes, batch size, flags | the calls of the C API, `PrepareForInference`, `Normalize`, `CopyAsNull`, responses and their buffers | a request object that is used again and again | what the scheduler gets is what the client says now, and fits the model; buffers go back once |
| **Model configuration** `model_config*.cc` | the configuration | defaults, normalisation, validation | many optional parts that restrict each other | accepted configurations can be run |
| **File systems** `filesystem.cc` | the temporary copy of a model | exists, list, read, modification time, localise | keys instead of directories; edits and outages between two requests | four stores look alike; copies are faithful; changes are seen |
| **HTTP front end** `http_server.*` | connections, deferred replies | every endpoint | reply deferred to another thread than the one that ends the request | same meaning as gRPC; one reply |
| **gRPC front end** `grpc_server.*` | stream contexts, states, response queues, call objects | unary calls, `ModelInfer`, `ModelStreamInfer`, start and stop | responses from threads of models, one write at a time, the last state finishes the stream | responses in order, finished once and last; every call answered |
| **Shared memory manager** `shared_memory_manager.cc` | registered regions | register, status, unregister, look-up | both front ends use it | regions are found until unregistered |
| **Server executable** `main.cc`, `signal.cc` | exit flag, endpoints | options, start, poll loop, signals, stop | a signal at any time | all services or none; orderly stop |
| **Backend contexts** `backend_context.*`, used by `src/backends/tensorrt` | pending and deferred pinned copies, events, tasks of the `AsyncWorkQueue` | `ProcessTensor`, `ProcessBatchInput`, `Finalize` of collector and responder | copies that a stream performs later, worker threads, buffers of the execution before | the model sees what the requests hold, the responses what the model gave |
| Backend base, frameworks `backend*.cc`, `triton_*`, `src/backends` | model instances, CUDA state | `SetConfiguredScheduler`, execution | device I/O | external here |
| Memory managers, statistics, metrics, trace, logs, agents, SageMaker | pools, counters | | | not modelled |

The hazards (what could go wrong in this code in a way a test would hardly
reach) are listed line by line in `PROJECT.json`. In short:

* a value computed under a lock and used after it (cursor of the pending batch,
  `next_preferred_batch_size_`, `in_flight_`, a slot or an instance that is
  released meanwhile, `IsComplete` of a stream's state);
* results in another order than requests (completion queue, streams, steps of an
  ensemble, versions of a load);
* sleeping threads and lost wake-ups; locks taken in both orders;
* destruction by one's own thread, or under a callback that still runs;
* time-outs racing late requests (expiry under the cursor, the reaper, Stop);
* partial failures (one step, one version, one request of a copy, one output);
* objects that are used again (requests, regions, call objects, sequence IDs);
* two implementations of one interface (HTTP and gRPC; four file systems).

## 2. Order of the work

Done, the most central behaviour first: `CompletionQueue` with its proofs;
`PriorityQueue` and `DynamicBatchScheduler`, which implements it; `RateLimiter`; the
sequence batcher against the abstract promise `CorrelatedSequences`; the ensemble
scheduler; the life cycle and the repository manager with the server's Stop; the
streams of gRPC; the two front ends, the shared memory and the process over one
server; requests, responses and configurations; the file systems; the data of a
batch on its way into the tensors of a model and out of them.

Proofs followed in the order of what they say of the system: the completion
queue, the dynamic batcher and that it implements the completion queue, the
streams and calls of gRPC, the ensemble scheduler, the slots of the sequence batcher,
the replies of HTTP; then that the sequence batcher keeps the promise of
`CorrelatedSequences`, the requests and the resources of the rate limiter, the
start and stop of the process, the batches of the dynamic batcher, and the life of
request objects and buffers. What is worth proving next is that a reshape keeps the
elements (`ElementsKept`) and that an ensemble delivers its outputs
(`OutputsDelivered`). All modules but `FileSystem` are written without RECURSIVE operators for that.

There is one run per question, and configurations of one component share a run:
their variable (`config`, `setting`, `scenario`) is chosen by `Init` and never changes.
A run's invariant may be a conjunction of named parts, each with a comment of
its own.

## 3. Modules and code

A module's action is what a thread does while it holds one mutex without
giving it up; where a handler works in a loop under the lock, an action is one
turn of the loop and a lock variable, or the thread's place, keeps the others
out. What a thread does after it gave a lock up is another action, so that
everything that can happen in between does. Each action carries the assignments
of its lines (`map`); trailing work, like shrinking `max_active_seq_slot_` at the end
of a pass, is part of the action. Requests, shapes, names and responses are
model values or small numbers; batch sizes, priorities, timeouts and counts are
kept as numbers. Where an operation runs to its end under one lock, or is pure,
it is an operator from a state to an outcome and an action applies it.
Definitions marked as a slip in a comment are the plausible bugs that `mutants`
substitutes; no specification uses them.

| Module | Translates | Granularity and abstraction |
|---|---|---|
| `PriorityQueue` | `PriorityQueue`, `PriorityQueue::PolicyQueue` | operators on a record: levels (unexpired, delayed, rejected), front level, cursor. Every method. |
| `DynamicBatchScheduler` | `DynamicBatchScheduler` | threads `pc`: wait, apply policy (one expiry per step), examine one request, decide, dequeue one, call the backend, answer rejections. A clock `now` in microseconds; `nsPerUs` keeps the rounding of nanoseconds to microseconds. Backend responses and releases are steps of their own. The destructor is a process that may be a scheduler thread. |
| `CompletionQueue` | `completion_queue_`, the response delegator, `FinalizeResponses` | a slot per scheduled request, the flags of `completion_queue_mtx_` and `finalize_mtx`, responses and their flags; several responses per request (decoupled). `finalize_mtx` is a static variable, shared by the schedulers of all models: the models have one scheduler, so this contention is not in them. |
| `RateLimiter` | `RateLimiter`, its contexts, instances and `ResourceManager` | actors are callers, executors of a released instance, and the manager that adds or removes a model. Kept as lock variables: `model_contexts_mtx_` (`ctxMtx`), the pair that the staging loop holds (`qMtx`), `state_mtx_` (`sMtx`). The others are held for one step. `Word` is the modulus of the resource counters, `uint32_t` in the code. |
| `CorrelatedSequences` | nothing: the abstract promise | begin, continue, refuse and expire a session; run a batch with at most one request per slot. |
| `SequenceBatchScheduler` | `SequenceBatchScheduler` | steps under the scheduler's `mu_`; the set `calls` holds calls of the batcher between the two locks. Time is reduced to *fresh* and *idle* stamps. |
| `DirectSequenceBatch` | `DirectSequenceBatch` | `Enqueue`, the notification after the unlock, the two loops of a pass slot by slot (the thread keeps the batcher's `mu_`; `ReleaseSequenceSlot` takes the scheduler's for one step), `OnSchedule_`. Positions in the batch are kept: a slot without a request takes a null request. |
| `OldestSequenceBatch` | `OldestSequenceBatch` | `Enqueue`, one turn of `CompleteAndNext` per step. The dynamic batcher behind it is a queue served in order. |
| `SequenceBatch` | `SequenceBatchScheduler::Create` | the scheduler with either strategy, chosen by the configuration; it extends both, and the variables of the other one stay as they are. |
| `EnsembleScheduler` | `EnsembleScheduler`, `EnsembleContext`, `Step`, `RequestTracker` | one request; a thread per step callback and one for the caller; an action is what happens under the context's `mutex_`. Tensors are names with their reference counts per iteration; a fault of any kind may happen where the code handles one, and a part of the outputs may be requested, for which the constructor prunes steps. |
| `BackendLifeCycle` | `BackendLifeCycle` | operators from one state of the life cycle to the next, since one call goes through several `BackendInfo`s; `CreateInferenceBackend` and the deleter are threads. |
| `ModelRepositoryManager` | `ModelRepositoryManager`, `InferenceServer::Stop` | one operation holds `poll_mu_`: poll, compare, update the graph, rounds of `LoadModelByDependency`, wait for promises. Workers, deleters, requests, probes of readiness and Stop go on meanwhile. Requests, probes and Stop hold `map_mtx_` (`mapMtx`) while they wait for the `mtx_` of one version after the other, as the end of a load does the other way round. A listing of the repository may fail. A directory's content is one of a few records. |
| `GrpcServer` | `InferHandlerState`, its context and response queue, the three handlers, `GRPCServer::Start` and `Stop` | one stream and unary calls; `ops` are the tags gRPC has not returned yet. The threads of models answer in two steps (fill in, tell), where the completion queue's thread may come between. |
| `ServerApi` | what `server.cc` and `tritonserver.cc` offer the front ends | operators on a server record: health, metadata, configuration, statistics, index, load, unload, look-up of a backend. Loads are what the repository manager promises once it returns. |
| `SharedMemoryManager` | `SharedMemoryManager` | operators on the table of regions; an address is an object and a position, pages have a size. |
| `HttpApiServer` | the handlers of `HTTPAPIServer` and `EVBufferToInput` | each endpoint from request to reply and effect; bodies are abstracted to whether they parse and to the members that are looked for. |
| `GrpcService` | the `OnExecute` functions of `CommonHandler`, `InferGRPCToInput` and its helpers | the same for gRPC. |
| `InferReply` | `InferResponseAlloc`, `FinalizeResponse`, `InferResponseCompleteCommon`, `TopkClassifications` | a response of a model as each front end sends it: JSON, binary data behind it, shared memory, classes. Data are sequences of elements, sizes are numbers of elements. |
| `ServerMain` | `main.cc`, `signal.cc` | options, port collisions, start, polls, signal, stop. |
| `FrontEnds` | the process | HTTP inferences from the handler through the core to the reply on the event thread, requests over both front ends on one server and one table of regions, the main thread and the signal handler. A poll, or a load by request, adds, removes and reloads models; what a reload replaces lives on with the inferences that have it. |
| `ModelConfig` | `model_config_utils.cc`, `model_config.cc` | defaults, normalisation of instance groups, validation of every part; a configuration is a record of the parts that are checked. |
| `InferenceRequest` | `infer_request.cc`, `infer_response.cc`, the request and response calls of `tritonserver.cc` | an action per call; the batch size has `BatchModulus` values instead of 2^32. Override inputs and null requests as the batchers make them. The client's allocator may give the null pointer. |
| `BackendContext` | `BackendInputCollector`, `BackendResponder`, and how `PlanBackend::Context` uses them | one batch; an action is a call for one request of a tensor or a flush. A stream is a queue of copies that are performed one by one; an event stands for the copies issued before it. Bytes are kept, a few per request, so that a misplaced one is seen. Copies, launches and allocations of device memory do not fail; the pinned pool may be empty. |
| `RequestExecution` | | `InferenceRequest` and `BackendContext` side by side, one of them in each behaviour. |
| `FilePaths` | path helpers of `filesystem.cc` | a path is a sequence of slashes and names. |
| `FileSystem` | the four `FileSystem` classes, `LocalizeDirectory`, `IsModified` of the repository manager | the user edits, requests of a copy fail or succeed one by one; a poll lists the repository, asks for the modification times and reads the configuration, each in a step of its own, with edits and outages between them. |
| `MC...`, `SequencePlans` | | configurations for TLC. |
| `...Proofs` | | theorems about the module of that name, section 6. |

Refinements:

* `ImplementsCompletionQueue` maps the state of the dynamic batcher to that of
  `CompletionQueue` by name; it is a PROPERTY of run `dbs_batching` and a theorem, so what
  is proved of `CompletionQueue` holds of the batcher's responses.
* `KeepsPromise` maps the sequence batcher, with either strategy, to
  `CorrelatedSequences`: a session is open as long as either map knows its ID, the
  session a slot ran last is what the *model* saw (the CORRID override), not what
  the scheduler meant. It is a PROPERTY of run `sequences` and a theorem.
* `FrontEndsAgree` and `StoresAgree` compare implementations of one interface with each
  other, in every state the operations can produce.

## 4. Runs and bounds

| Run | Configurations | Distinct states | Shows |
|---|---|---|---|
| `completion_queue` | 3 requests, up to 2 responses each | 25 thousand | responses in order, none lost, no freed slot written, nothing stranded |
| `dbs_batching` | `priorities` (two levels, REJECT and DELAY, sizes 1 and 2), `delays`, `shapes` (coarse clock), `ordering` (two threads), `wakeUps` (two threads with a long default wait) | 1.3 million | `PendingBatchSound`: cursor, oldest enqueue time and required inputs describe the queued requests they stand for (the closest timeout is not compared); `queued_batch_size_` is exact; `BatchWellFormed`; `OwnedOnce`: a request is in one place; `NoOversleepWithoutTimeouts`; `DequeueOrder`; implements the completion queue |
| `dbs_unload` | `unbatched` (queue of one), `unloaded` (timeouts) | 27 thousand | `UnloadEnds`: every request leaves and the destructor ends; `DestroyedIsQuiet`: nothing runs after it, also on its own thread. These configurations do not preserve ordering, so of responses it says nothing here; the theorem is about all |
| `rl_limits` | `Competing` (2 models, 3 instances, 2 resources), `Ignoring`, `Removing` | 32 thousand | `ResourcesSound`: limits (until a model is erased), exact accounts; `RequestsSound`: no request lost or overlooked, staged instances wait for a release only, removal drains; `Served` |
| `sequences` | Direct: backlog (1 slot), instances (2 batchers of 1), delays (2 slots, minimum utilisation, two shapes); Oldest: backlog, candidates (2 slots, batch of 2), instances | 258 thousand | slots owned once, one request of an Oldest slot in flight, the promise kept, all served |
| `ensemble` | fork with an inner output, of which all or one output is requested; two chains, likewise; a fork without inner output; a diamond, also one in which anything fails; pruning by requested outputs; chain of a decoupled model | 18 thousand | `AnsweredOnce`, `OutputsDelivered`, `EnsembleCompletes` |
| `model_control` | one model whose versions come and go, polled, with failing loads and a stop; a model, an ensemble on it and an ensemble on both, polled and by request; a cycle; a load by request of two versions that meets the stop; outages of the repository; an exit timeout that expires | 145 thousand | `EnsemblesHaveModels`, `NoLossOfService`, `OperationsEnd`, `StopIsQuiet` |
| `grpc` | 3 ordinary requests, 2 decoupled ones, both mixed, unary calls of each kind; refused requests, a client that closes or cancels, stop | 33 thousand | `InOrderOneByOne`, `FinishIsLast`, `EveryoneAnswered` |
| `grpc_empty_final` | 1 decoupled request whose last response is only a flag | violation | the finding of section 7 |
| `front_ends` | command lines of four services; a server whose models clients load, unload and query; shared memory and inferences that use it; inferences that race polls and the stop; models that are modified and reloaded under inferences; responses of every type, shape and size | 38 thousand | `FrontEndsAgree`, `AnsweredOnce`, `OrderlyProcess`, `EveryoneLeaves` |
| `requests` | batching, reshapes, reuse, null requests, responses; thousands of configurations of ensembles, groups, platforms, batchers; 74 batches of three requests whose data are in pageable, pinned and device memory, in pieces, gathered with and without pinned buffers, kernel and workers | 429 thousand | `PreparedFresh`, `FitsModel`, `BuffersSound`, `EnsemblesRun`, `DataInPlace` |
| `filesystem` | four stores, a directory with a file, a nested file, an empty directory with or without a marker, and a neighbour whose name continues the model's; in Azure Storage no markers | 660 thousand | `StoresAgree`, `CopyIsFaithful`, `ReloadsWhenWritten` |

Bounds, all named in the modules: `Arrivals` and `LastArrival` (which requests come,
until when), `MaxTime` (the clock stops after the last timer that matters has
fired), `MayUnload`, `MaxResponses`, `Asking`, `MayRemove`, `Preloaded`, `MaxRequests`
and `plans` (requests of a correlation ID and their flags), `StaleIds` (IDs whose
stamp is looked at although no map knows them); of the later modules, the fields
of a scenario: `edits` and `operations` (of the repository), `requests`, `responses`,
`calls` (gRPC), `infers` (HTTP), `calls`, `runs`, `outputs` (request objects), `MaxEdits`.

Why they are enough to be interesting: three requests give a pending batch, an
arrival beside it, and one more for the other level or the delayed part; the
clock runs past the queue delay and all timeouts; two threads are what wake-ups
and ordering need. In the rate limiter the largest need of one instance is the
limit, so that instances exclude each other. In the sequence batcher there are
more sequences than slots, a client that stops in the middle of a sequence,
one that starts the same ID again (next to the old sequence, which still runs or
is being force-ended), and sequences of one request. The ensemble has a join, a
fork, an output that is also an input and one that is pruned. Two edits and
three operations of the repository are a change that fails and one that repairs
it. Two responses and two requests of a stream are enough for every pair of
callbacks to cross. Requests are sent up to three times, so that the second and
third find what the first left. Every action and disjunct fires in some passing run.

`CHECK_DEADLOCK FALSE` is set where the system may stop: all requests have been
sent and answered, the process has ended. `dbs_batching` checks for deadlock as
well, since scheduler threads never stop there.

## 5. Fairness

* Threads that can take a step do (weak fairness), and a thread that needs a
  mutex gets it in the end (strong fairness where others may take it in turns).
* Time passes: timers of `wait_for` fire, requests become overdue, sequences
  idle.
* Backends and models answer and release what they were given; workers and
  deleters of models end; gRPC returns the tags it was asked for; the client of
  a gRPC stream closes it some time.
* Clients otherwise, unloads, removals, edits, signals and Stop are never obliged
  to happen.

Not assumed: for the Direct strategy the half-second default wait of the thread is
*not* used to make progress, although the code has it: `WakesUp` is fair only when
the thread was notified or a deferred request is overdue. `Served` therefore also
shows that no notification is missing. For the Oldest strategy the dynamic batcher
is assumed to run what it is given, which `dbs_unload` checks for that component.
The sequence models assume that a client's call of `Enqueue` takes less than
`max_sequence_idle_microseconds` (guard of `BecomesIdle`); section 8 says what happens
otherwise. In `ServerMain` the main thread's wait does time out, and `EveryoneLeaves`
needs it (its mutant takes the timeout away): a signal between the test and the
wait is lost.

## 6. Proofs

Eight modules hold theorems. Each is about the specification that TLC runs, for
every value of the constants that satisfies the named assumption of its module:
any number of requests, threads, slots, models and responses, any configuration
and any plan of a client. No result of another module is assumed.

| Module (obligations), assumption | Theorem | Statement |
|---|---|---|
| `CompletionQueueProofs` (1017), `CompletionQueueAssumption` | `Invariance`, `TypeCorrect` | `CQInv` is an invariant; no request exceeds its budget of responses |
| | `ResponsesInOrder` | responses leave in the order in which their requests were scheduled |
| | `ResponsesArriveOnce` | no response is lost, duplicated, or overtaken by a later one of its request |
| | `PoppedSlotsAreFinal` | a popped slot belongs to a complete request and is empty: no delegator writes to a freed slot |
| | `NothingStranded` | when no backend thread is in `FinalizeResponses`, the front has nothing to be flushed |
| `DynamicBatchSchedulerProofs` (8288), `DynamicBatchSchedulerAssumption`, `PriorityQueueAssumption` | `SchedulerSound` | `DInv` is an invariant |
| | `SchedulerIsCompletionQueue` | the refinement `ImplementsCompletionQueue` |
| | `SchedulerKeepsOrder` | hence, of the whole scheduler: responses in order, each once, no popped slot written, nothing stranded |
| | `LeaveByPriority` | the action property `DequeueOrder` |
| | `RequestsOwnedOnce` | every request that entered the queue is in exactly one place |
| | `BatchesWellFormed` | `BatchWellFormed`: a batch of more than one request fits `max_batch_size_` and, where the model requires it, has one shape |
| | `DestructorLeavesNothing` | `DestroyedIsQuiet` |
| `SequenceBatchProofs` (8720), `SequenceAssumption` | `SequencesInvariant` | `SInv` is an invariant while each sequence is sent by one thread |
| | `SequencesSlotsSound` | then no slot is shared, released twice or lost, and of an Oldest slot one request at most is in flight (`SlotsSound`) |
| | `SequencesInOrder` | while each sequence is sent by one thread, `LInv`: an admitted request waits in one place, behind the one before it in its sequence, in the slot where that one ran |
| | `SequencesKeepPromise` | then the refinement `KeepsPromise`, with either strategy |
| `RateLimiterProofs` (5178), `RateLimiterAssumption` | `RequestsAccounted` | `RequestsSound`: an accepted request is in one place, none waits unseen for an available instance, none is left when its model is erased; without additions and removals a staged instance waits only for one that executes |
| | `ResourcesKept` | `ResourcesSound`, if no two needs of a resource add up to the width of its counter (`Roomy`) |
| `EnsembleSchedulerProofs` (1463), `EnsembleAssumption` | `EnsembleAnswersOnce` | one final response, whatever fails; the request is given back after it; the tracker lives as long as a model may call back |
| | `InFlightCounts` | `inflight_step_counter_` is the number of steps at work until the ensemble fails |
| `GrpcServerProofs` (2057), `ScenarioAssumption` | `StreamSound` | `GInv` is an invariant |
| | `ResponsesLeaveInOrder` | `InOrderOneByOne` |
| | `FinishComesLast` | `FinishIsLast` |
| | `EachRpcListens` | no call is answered twice, and while the server runs one object per RPC waits |
| `FrontEndsProofs` (1771), `FrontEndsAssumption` | `InferencesAnsweredOnce` | an HTTP inference is answered once, and its `InferRequestClass` exists while the core may call back (`AnsweredOnce`) |
| | `ProcessIsOrderly` | `OrderlyProcess`: all allowed services listen in the main loop, and a stop within its timeout leaves no inference behind, but for those whose backend a reload had replaced |
| `InferenceRequestProofs` (1207), `RequestAssumption` | `RequestsInvariant` | `QInv` is an invariant |
| | `RequestsPreparedFresh` | `PreparedFresh` |
| | `RequestsFitBatch` | two parts of `FitsModel`: the inputs agree on a batch size that the model supports (`BatchInRangeAgrees`), and the priority is a level of the queue (`PriorityIsLevel`) |
| | `BuffersComeBack` | a part of `BuffersSound`: memory that the allocator gave goes back once, however often an output was given the null pointer before (`BuffersReturned`) |

None of these properties is inductive. What the invariants add, and why:

* **`CQInv`.** A response may be on its way in a thread's local list when the next
  thread looks at the queue. So: which thread holds `finalize_mtx`, and that only it
  has an outbox (`Holder`, `OutboxHeld`); slots belong to scheduled requests, each to
  one (`SlotsOwned`, `SlotsScheduled`, `Distinct`); what has been sent or is in the
  outbox belongs to requests that are popped or at the front, in their order
  (`Emitted`); a request that is not complete may still respond (`Budget`); a front
  that is ready has a thread that will still look at it (`FrontSeen`).
  `ResponsesArriveOnce` adds that the responses of a request are numbered without a
  gap through client, outbox and slot.
* **`DInv`** = `ThreadsInv` (who holds `mu_`, what a thread's locals are good for) and
  `QueueInv` (the lists of the levels, their counts, `front_priority_level_`) and
  `CursorInv` (a valid cursor is at a place of the queue, and stays one under each
  operation of `PriorityQueue`) and `OwnersInv` (the state of a request and the one
  list that holds it) and `SlotsInv` (`CQInv`, and which requests have a slot) and
  `LifeInv` (how far the destructor is and what the threads may still do). It was
  checked first on both runs' configurations (1.3 million and 27 thousand states).
  Each operator of `PriorityQueue` has a lemma that says what it keeps, and
  each action one that composes them.
* **`BInv`.** `BatchWellFormed` speaks of finished batches, but a batch is decided in
  `GetDynamicBatch`, over several scans with arrivals and expirations between them, and
  dequeued later. The invariant adds to `DInv`: every entry of the queue describes
  its request; while the cursor may be used, the requests in front of it fit together and
  `pending_batch_size_` is their size; so do those in front of the mark; and while
  the batch is taken out, what has been dequeued and what is left of it lead the queue and
  fit. Sizes are counted as the cardinality of a set of cells, one per unit of
  a request's batch size, since sums over sequences would need induction. Checked
  first on the configurations of run `dbs_batching`.
* **`SInv`.** `SlotOwnedOnce` says that a slot has one owner; the invariant says which:
  nobody (ready, with an empty queue), an open sequence, the last request of its
  queue, a call between the two locks, or a force-end the reaper has yet to enqueue
  (`Own`). An owner is handed on only because: a backlog queue is of one ID, an END only
  as its last, and is found through the map exactly as long as it is open
  (`BacklogInv`); a client's call between the locks leads to the slot that the
  map has for its ID, and an ID with such a call is not idle (`CallsInv`). The
  Direct thread adds that no null request is at the front of a slot it has yet to
  visit in its second loop, because new ones wait for the batcher's `mu_`
  (`PassInv`); the Oldest strategy adds where the one request in flight is, or which
  call is about to send one, and whose override the slot has (`FlightInv`). Checked
  first on the six configurations of run `sequences` (258 thousand states).
* **`LInv`.** The promise numbers the admitted requests of a session; the
  implementation has no such number. The invariant adds to `SInv` the line of requests of
  a slot: the one in the hand of the batcher, the queue, the call on its way to it.
  A request waits in one place (`SeatInv`), each in a line is preceded by the
  one before it in its sequence (`LineInv`), and what is in the hand may run next
  in the slot where the sequence ran before (`HandInv`). Every step is then one of
  `CorrelatedSequences`, or a stutter.
* **`RInv`, `BudgetInv`.** Where a request is, which instances are available, staged,
  allocated or removed and which thread has yet to look at the queue after it changed
  (`RInv`); for the resources, that what executes and what is being returned add up to
  `allocated_resources_`, which stays within the limit, and the limit within half of the
  counter (`BudgetInv`). The sums are `MapThenSumSet` of the community modules; lemmas say
  how a sum changes with one element, by induction over subsets. `Roomy` is needed
  because the comparison adds two unsigned counters, which wrap.
* **`EInv`.** The steps that threads have yet to send are each in one list, once
  (`StepsOK`); the counter of the tracker is the internal requests that models still
  hold plus one until the response that ends the request (`CounterOK`); nothing
  follows that response (`SentOK`); the step counter is the number of busy steps, and zero
  when a success is answered (`InFlightOK`); threads are those of steps (`ThreadsOK`).
* **`GInv`, `CInv`.** The step of a stream's context and those of its states
  determine which tags gRPC still holds, how many responses of which state are
  ready, written or under way, and who finishes; for calls, that each object is in
  one phase, and one per RPC waits.
* **`FInv`.** A callback finds its object because the core owes a response only
  while the connection is paused; that is why a reply that is not final must not
  be deferred.
* **`StartInv`, `KInv`.** Past the options no two ports collide, what has been started
  is allowed and bound, and only a polling configuration polls (`StartInv`). An
  inference has a backend that is ready or unloading, or one that a reload has
  replaced: an unload waits for the inferences, a load starts with what is unloaded or
  moves what is served out of the map, and a Stop that succeeds has found nothing
  in the map (`KInv`, with `HeldInv` and what a clean stop leaves). Checked first on the
  six scenarios of run `front_ends`.

* **`QInv`.** `PreparedFresh` speaks of a request in the core, but what it relies on may
  come from an earlier inference. So: a request that needs no normalization is
  normalized as its inputs and outputs are now, and every call that could make
  this false asks for a new one (`PreparedInv`); `inputs_` shows the original inputs and
  the overrides (`ShownInv`); the buffers of the outputs are buffers of the allocator,
  each of one output, and none of them is the null pointer, so that each is released
  with its output (`BuffersInv`). That the inputs agree on the batch size is an
  induction over the fold that `Normalize` is: the recursive function exists, and after
  every input what was found is the size of all seen, if they are in range.

Finding the proofs changed the models where they could not be reasoned about,
not what they do: alternatives that overlapped in a CASE became disjoint,
nested updates and set constructors over pairs were rewritten, counts
of places were restated over explicit sets of places (`Owners`), the two
strategies of the sequence batcher are modules that
`SequenceBatch` extends, and `SequenceAssumption` says that the slots are the product of
batchers and slot numbers, as `SequenceBatchScheduler::Create` makes them; the services
to be started are a predicate (`ToStart`); `RateLimiterAssumption` and
`FrontEndsAssumption` say what the scenarios had in common (every model has an
instance; versions are finite sets of numbers, explicit control starts with
models loaded by request and does not poll). One property was too strong: limits of the rate
limiter hold until a model is erased (`WithinLimits`), since the limit then falls
under what instances of others hold.

Model-checked only, and why:

* Liveness (`Served`, `UnloadEnds`, `EnsembleCompletes`, `EveryoneAnswered`,
  `OperationsEnd`, `EveryoneLeaves`, ...): fairness and ENABLED are outside the prover's reach.
* What is true of the configurations that are checked and not of all:
  `PendingBatchSound` (`queued_batch_size_` stays raised after a full queue has refused a
  request, `QueuedBatchSizeExact`), `NoOversleepWithoutTimeouts`, which rests on it,
  `EnsemblesHaveModels` and `OperationsEnd` (section 8: `BelowCycle`; lock cycles are its
  exception). `SlotsSound` and `KeepsPromise` are false
  when two threads send for one sequence, which is why the theorems say `~Pipelined`.
* `ForksDeliver` and `JoinComplete` (parts of `OutputsDelivered`): which tensors a thread
  has seen depends on paths through the ensemble.
* The other parts of `FitsModel` and `BuffersSound`: that a reshape keeps the number of
  elements (`ElementsKept`) is a statement about products of sequences that `ModelConfig` has
  compared trunk by trunk; that a null request covers its inputs (`NullCovers`) is true of
  shapes without a dimension of -1, which `CompareDimsWithWildcard` lets pass.
* `FrontEndsAgree`, `StoresAgree`, `ElementsKept`, `EnsemblesRun`, `DataInPlace`, `CopyIsFaithful`
  compare what operators return over finite sets of inputs; `FileSystem` uses
  RECURSIVE operators.

## 7. Finding

**A stream that never ends** (run `grpc_empty_final`, `grpc_server.cc:3799`). A decoupled
model may end its responses with one that is only the final flag. When the last
data have been written, `Process` asks `IsComplete` without `step_mtx_`, then takes the
mutex and, as no response is ready, goes to `ISSUED` to wait for the callback. If
the final callback comes in between, it sets `complete_`, finds the step `WRITTEN`, and
leaves the rest to `Process`; no other callback follows. The state is never
finished, although "Finish the state if all the transactions associated with the
state have completed" (line 3797), neither is the stream, and `GRPCServer::Stop`
waits for it. With final responses that carry data, `EveryoneAnswered` holds (run
`grpc`), since such a response is found by `HasReadyResponse`.

## 8. Observations without a run

Seen while translating the code. The first group is stated in the modules: give
`Scenarios` (`Settings`) the instance named here and check the property to see the
steps.

| Property and instance | What happens |
|---|---|
| `RateLimiter!NoLockCycle`, `OneInstance` | `rate_limiter.cc:448`: `RequestRemoval` and the end of `Release` hold `state_mtx_` and take `request_queue_mtx_`; the staging loop (244-278) takes them in the other order. With one instance, a queued request and a `RemoveModel` both threads wait for ever, while `rate_limiter.h:84` says "In future, when the conditions are met, the callback will be invoked". No scheduler uses the class at this commit. |
| `ModelRepositoryManager!NoLockCycle`, `Probed`, `Versions12`, `Stopping` | a query of model states (`Probed`), an inference that looks for the latest version (`model_repository_manager.cc:640-654`, `Versions12`) and Stop (535-543, `Stopping`) hold `map_mtx_` and wait for the `mtx_` of a `BackendInfo` whose thread, at the end of a load, holds it (1180) and waits for `map_mtx_` (843). All who need `map_mtx_` then wait for ever; Stop, too, although it should wait for models "or for the exit timeout to expire" (`server.cc:243-244`). `OperationsEnd` names this exception. |
| `NoSpuriousError`, `Pruned` | `ensemble_scheduler.cc:378-418`: for outputs that are not requested the constructor removes steps that are needed: one with an output that is not requested although another step reads it; one with a requested output that has lost its readers; and, when an ensemble input has lost its readers, the first step, which `operator[]` makes up at line 395. The request ends in "unexpected deadlock" (1041-1048). With `ForkClass`, `ForkPre` and `ChainsClass` run `ensemble` shows that it ends, and once; that it ends well is said of ensembles without inner outputs and whose inputs the first step reads, or when everything is requested (`PrunesSafely`). |
| `NoSpuriousError`, `Reordered` | `ensemble_scheduler.cc:730`: of two steps that complete side by side the last thread looks at its own updated tensors only. With a join behind them it may find no step in flight and not all outputs, and the request ends in an error that nothing caused, although everything was computed (`JoinComplete`). With two joins, or a join and an inner output, a step may also be sent twice. |
| `AllReturned`, `Responses` (run `requests`) | `infer_response.cc:293, 327`: whether an output has a buffer is told by its pointer. An allocator that gives the null pointer, as the HTTP front end does for a size of 0 (`http_server.cc:972, 1020, 1048`), is asked again for the same output, and never told to release what it gave: the `OutputInfo` behind its `userp` is leaked. `BuffersReturned` is about memory. |
| `LoadedIsReady`, `ByRequest` | `model_repository_manager.cc:1591`: a second request to load a model whose load has failed finds its directory unchanged, loads nothing and is answered with success, although the model is not available. |
| `EnsemblesHaveModels`, `Rewired` | `model_repository_manager.cc:2117`: `ConnectDependencyGraph` notes a missing model only in the first ensemble that needs it. A second ensemble, changed to need the same one, passes for complete and stays in service with the models it had. |
| `NeverEndless`, `BelowCycle` | `CircularcyCheck` follows the downstreams of an ensemble into a cycle that it is not part of and does not come back. |
| `StopWaitsForRequests`, `Versions12` | Stop waits for the models in `map_` only; requests on a version that was replaced before are not waited for. `StopIsQuiet` and, of the whole process, `CleanStop` are about the others. |

Scheduling:

* `dynamic_batch_scheduler.cc:557`: when everything `GetDynamicBatch` examined was rejected
  it returns without resetting `next_preferred_batch_size_`; the next `Enqueue` sees no
  reason to wake the idle thread and the request waits for the default timer.
  `NoOversleepWithoutTimeouts` is about models without timeouts.
* `dynamic_batch_scheduler.cc:437`: with `preserve_ordering` a rejected request is answered
  directly, before requests received earlier (`docs/model_configuration.md:598`).
* `dynamic_batch_scheduler.cc:196-200`: `queued_batch_size_` stays raised when the queue
  refuses the request because it is full (action `Refuse`; `PendingBatchSound` is checked
  without a maximum queue size).
* `dynamic_batch_scheduler.cc:216`: the notification after the unlock may come after the
  destruction of the scheduler (`ClientNotify` is then still enabled).
* `dynamic_batch_scheduler.cc:411`: the exit flag is tested outside of `mu_` and `notify_all`
  may come before the wait: only the timed wait gets the thread out.
* `rate_limiter.cc:182`: an instance is available again before its release has ended; a
  removal in between takes the context away under it, and the resources stay
  allocated (action `Dangle`). Line 85: a request between `AddModel`'s two parts finds
  limits of 0, and its instance stays staged until the next attempt. Line 151: a
  request for an instance index that does not exist is answered with success and
  never called back.
* `sequence_batch_scheduler.cc:1418`: `in_flight_` is copied under the lock and used after
  it: when two threads send for one sequence both requests are scheduled. The runs
  have one thread per sequence. Line 464: for the same reason an END can overtake
  an earlier request; the comments at lines 1181 and 1376 say nothing follows it.
* `sequence_batch_scheduler.cc:388`: a call of `Enqueue` that is stalled for longer than the
  idle time between the two locks puts its request into a slot that by then
  belongs to another sequence.
* `sequence_batch_scheduler.cc:113`: slots carry the runner index, but `batchers_` holds only
  runners that started: after a failed one the index passes its end. If
  `CreateCorrelationIDControl` fails the destructor of the Direct strategy dereferences
  a null `scheduler_thread_`. Line 976: a Direct thread that destroys its own batcher
  still reads the member `scheduler_thread_exit_`; the comment at lines 1229-1242 speaks of
  a local atomic. Members declared after `batchers_` are destroyed before the threads
  of the batchers are joined.
* Direct strategy: the required shape is that of the lowest ready slot; steady
  traffic of another shape there keeps a higher slot out of the batches.
* `rate_limiter.cc:532-533`: `UpdateResourceLimits` takes `max_resources_mtx_` and then
  `model_resources_mtx_`, `AllocateResources` (567-575) the latter first: an addition or
  removal of a model and the staging loop can wait for each other. In `RateLimiter`
  both are held for one step, so this cycle is not in the model.
* `ensemble_scheduler.cc:1167`: the context is not deleted when `FinishEnsemble` fails on the
  way. An ensemble that is a step of itself waits for itself.

Repository and server:

* `model_repository_manager.cc:934`: on a failed load all loaded versions are unloaded, but
  `TriggerNextAction` is given the version of the callback, not that of the loop.
  `AsyncUnload` calls `TriggerNextAction` without `mtx_`. `UnloadAllModels` reads `infos_` without
  `poll_mu_`. The index lists a model twice that is in two repositories, with
  `ready` as well.
* `model_repository_manager.cc:1730-1734`: when a repository cannot be listed its models
  count as deleted and are unloaded (1357-1378), and the next poll that succeeds loads
  them again. `NoLossOfService` lets an operation unload what it found deleted;
  `ReloadsWhenWritten` names the outage.
* `server.cc:246-262`: Stop reads the states of the models and then the counter of
  operations in flight. A load by request that fails in between leaves versions
  that are being destroyed when Stop returns (exception of `StopIsQuiet`).
* `main.cc:1551`: a signal between the test of `signal_exiting_` and the wait is seen only
  when the wait times out. The signal handler locks `signal_exit_mu_` (`signal.cc:51`): a
  signal that the main thread receives while it holds it (1562-1566) blocks that
  thread for ever. In `FrontEnds` the handler is a process of its own.

Front ends:

* `http_server.cc:2167-2176`: the reply for an unsupported encoding returns without
  deleting the request, so that unloading its model and stopping the server wait
  for ever. `decompressed_buffer` is leaked when the request is not sent, a trace when
  `PrepareForInference` fails.
* `http_server.cc:1146`: the error of `TRITONSERVER_ServerModelIndex`, or of its
  serialisation, is held by an inner `err`, so that the request gets no reply, although "A
  failed index request must be indicated by an HTTP error status"
  (`docs/protocol/extension_model_repository.md:102`);
  parameters of an unload that do not parse are ignored (line 161 of the same).
* `shared_memory_manager.cc:335-338`: the offset is added to an address that already
  contains it; `GetMemoryInfo` takes no lock and checks no bounds; a region may be
  unregistered while a request uses it; lines 234-240 close a descriptor that is used.
  Both front ends share one manager, so `FrontEndsAgree` does not see any of this.
* gRPC: in a stream with both kinds of models two writes may go on at once (3834);
  a state may be released by the handler while the callback of its model is about
  to use it (3586); `UINT32` contents are read from `int_contents`; the results of
  `BuildAndStart` and of `evhtp_bind_socket` are not looked at; Shutdown has no deadline.
* Responses: classification of a BYTES output divides by a type size of 0
  (`classification.cc:79`); over HTTP classification of an empty output frees a null
  buffer (2560); over gRPC class strings are stored by the output's index in the
  response, tensors in the order in which buffers were asked for (3043), so that
  another order mixes the contents; classification looks the model up again,
  which fails while it is unloaded. JSON refuses FP16 and outputs whose size does
  not fit their shape, which binary data and gRPC pass on. `FrontEndsAgree` compares
  the replies that have none of this.

Back ends:

* `backend_context.cc:1180`: `FlushPendingPinned` counts min(requests, workers) tasks but
  cuts the requests into pieces of ceil(requests / workers): with four requests and
  three workers there are two tasks, three are awaited, and "The last segmented
  task will start the next phase of the internal pinned buffer copy" (line 1218)
  is not so: `Finalize` waits for ever. Give `Batches` the instance `Uneven` to see it
  (`DataInPlace`). A tensor without pending inputs is flushed as well and, with
  workers, waited for although it has no task.
* `backend_context.cc:419`: a response that is sent because a later output was refused a
  buffer is used by `Finalize` for an earlier output that was deferred. An input that
  is too large in two tensors sends a null response (line 946). A failure in the
  middle of `Run` (`FAIL_ALL_AND_RETURN_IF_ERROR`) releases the requests while copies
  and tasks that read them are under way. The batches that are checked have none
  of this.

Requests and configurations:

* `infer_request.cc:588`: a batch size of 0 also means that no input was seen yet, and
  dimensions beyond 32 bits wrap: `FitsModel` names the exception. `CopyAsNull` reads an
  uninitialised name when all inputs are empty strings. The copy's original shapes are
  the normalized ones, it has no shape tensors, needs a normalization (243-250,
  301-306, 389) and knows no data of a host policy; the batchers do not
  normalize it again, and `NullCovers` is about what is executed. An unknown output stays in
  the response. An ensemble with a step that writes an ensemble input is accepted.
* `model_config_utils.cc:804`: KIND_AUTO with GPUs that are not there becomes KIND_CPU with
  GPUs, which the validation refuses.

File systems:

* Azure: `FileExists` and `IsDirectory` list the bare prefix, so that a file, or `m` where
  only `m2` exists, counts as a directory, and loading it makes an empty copy; a
  directory has no modification time, so polling sees no change (the comment at
  `model_repository_manager.cc:311` says so); a marker object breaks the copy.
* S3: `FileExists` fails for an object that is not there; a listing is one page of
  1000 keys.
* On object stores the removal of a file, or of a version, is not noticed: the
  modification time is the latest of what is there. `model_repository_manager.cc:281-282`
  speaks of "file deletion", and "Versions may be added and removed from models by adding
  and removing the corresponding version subdirectory" (`docs/model_management.md:120`).
  `ReloadsWhenWritten` says of removals only that a directory that is still there is not
  forgotten.
* GCS: a stream that breaks while it is read (`filesystem.cc:759-773`) leaves a file that is
  cut short and no error; `CopyIsFaithful` compares paths, not contents. A listing that
  breaks makes `IsDirectory` answer no (538-544; action `Misjudge`).
* `CleanPath` keeps a trailing slash when the path has leading ones as well; `gs:///x`
  gives the bucket `/x`.

## 9. Not modelled

* `DelayScheduler` and the `TRITONSERVER_DELAY_SCHEDULER...` waits are aids of the
  repository's tests: they hold requests back on purpose.
* Destructors of the sequence batcher, runners that fail to initialise, the START,
  END and READY control tensors beyond the CORRID override and the null request.
* `src/backends` (TensorRT, ONNX Runtime, PyTorch, TensorFlow and the backend API)
  beyond how TensorRT moves the data of a batch (`BackendContext`), about a seventh
  of the C++ of the repository: code around devices and third-party runtimes. The
  schedulers' models let a backend answer and release in any order, on any thread.
  Shape tensors, vectorised formats and failures of CUDA are left out of
  `BackendContext`.
* Memory managers (pools of a library), statistics, metrics, trace and logging
  (counters and records behind one lock, which influence nothing else),
  repository agents (calls into the user's libraries), the SageMaker front end
  (renamed paths of HTTP), the autofill of configurations (readers of model files).
* JSON and protobuf text, regular expressions of paths, compression, TLS and
  sockets; device memory behind shared memory handles; failed allocations.
* An object and a prefix of the same name in a store.
* Options, errors and traces of the C API, beyond what the front ends use.
