-------------------------- MODULE RequestExecution --------------------------
(***************************************************************************)
(* What becomes of the data of inference requests: a request as the client *)
(* and the core make it ready (InferenceRequest), and a batch of prepared  *)
(* requests as a back end moves its data into the tensors of the model and *)
(* out of them (BackendContext).  A behaviour is one or the other; the     *)
(* variables of the part that is not looked at stay as they are.           *)
(***************************************************************************)
EXTENDS InferenceRequest

CONSTANT Batches

VARIABLES
    batch, pc, at, pend, kern, needSync, deferred, tasks, incomplete, closing,
    done, awaited, mem, stream, recorded, ready, reading, seen, responses

Context == INSTANCE BackendContext

contextVars == <<batch, pc, at, pend, kern, needSync, deferred, tasks, incomplete, closing,
                 done, awaited, mem, stream, recorded, ready, reading, seen, responses>>

NoBatch == <<>>
Executing == batch # NoBatch

Idle ==
    /\ batch = NoBatch /\ pc = NoBatch /\ at = NoBatch /\ pend = NoBatch /\ kern = NoBatch
    /\ needSync = NoBatch /\ deferred = NoBatch /\ tasks = NoBatch /\ incomplete = NoBatch
    /\ closing = NoBatch /\ done = NoBatch /\ awaited = NoBatch /\ mem = NoBatch
    /\ stream = NoBatch /\ recorded = NoBatch /\ ready = NoBatch /\ reading = NoBatch
    /\ seen = NoBatch /\ responses = NoBatch

AScenario == CHOOSE s \in Scenarios : TRUE

ExecutionInit ==
    \/ Init /\ Idle
    \/ scenario = AScenario /\ Init /\ Context!Init

ExecutionNext ==
    \/ ~Executing /\ Next /\ UNCHANGED contextVars
    \/ Executing /\ Context!Next /\ UNCHANGED vars

ExecutionSpec == ExecutionInit /\ [][ExecutionNext]_<<vars, contextVars>>

\* A batch is executed on what its requests hold and its responses have what
\* it produced (InputsGathered, OutputsScattered): every input tensor has the
\* inputs of the requests one behind the other, through whichever memories,
\* buffers and threads they came, no tensor is written while the execution
\* before still reads it, a response that is sent has its own part of the
\* outputs, and a batch that can go no further is answered
\* (BackendInputCollector, BackendResponder, PlanBackend's ProcessResponse).
DataInPlace == Executing => Context!InputsGathered /\ Context!OutputsScattered
=============================================================================
