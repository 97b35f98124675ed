--------------------------- MODULE BackendContext ---------------------------
(***************************************************************************)
(* How a batch gets into the tensors of a model and out of them            *)
(* (src/core/backend_context.cc, as PlanBackend::Context::Run uses it).    *)
(* BackendInputCollector concatenates the inputs of the requests,          *)
(* BackendResponder takes the outputs apart.  Both issue copies on a CUDA  *)
(* stream, which performs them later and in order; between pageable and    *)
(* device memory they go through a pinned buffer, contiguous ones in one   *)
(* piece.  The collector may leave the first half of that to the threads   *)
(* of the AsyncWorkQueue.                                                  *)
(*                                                                         *)
(* A copy is [mem, from, at, to, off, n]: n bytes of a buffer in memory    *)
(* mem, from position at on, to position off on of another one.            *)
(* A byte of a request's input is <<tensor, request, k>>, one of the       *)
(* model's output <<tensor, k>>, an entry of a batch input <<value>>, and  *)
(* what nobody has written <<>>.                                           *)
(***************************************************************************)
EXTENDS Integers, Sequences, SequencesExt, FiniteSetsExt, TLC

CONSTANT Batches    \* the batches to look at, a set of records
                    \*   io      memory of the model's tensors: a GPU, or
                    \*           "pinned" where the GPU shares it (zero copy)
                    \*   inputs  tensor |-> [kind |-> "data", space, data:
                    \*           request |-> buffers [mem, n]] or, for a batch
                    \*           input, [kind, source]
                    \*   outputs tensor |-> [sizes, mem, wanted, refused] by request
                    \*   pinned  whether pinned buffers are used
                    \*   pool    whether the pool can give one, a set
                    \*   threshold  gather_kernel_buffer_threshold
                    \*   workers    threads of the AsyncWorkQueue; see Segments
                    \*   eager   the last execution may still read the tensors
                    \*   graph   entries a CUDA graph has beyond the batch

VARIABLES
    batch,
    pc,         \* where the thread that runs the batch is
    at,         \* [tensor, request] that it works at
    pend, kern, \* pending_pinned_..., pending_copy_kernel_...
    needSync,   \* need_sync_
    deferred,   \* deferred_pinned_: [pin, tensor, off, size, reqs, final]
    tasks,      \* in the AsyncWorkQueue: [def, reqs, off]
    incomplete, \* deferred |-> incomplete_count
    closing,    \* those of which a worker is to do the second half
    done,       \* completion_queue_: of which of them, and whether one used CUDA
    awaited,    \* async_task_count_
    mem,        \* buffer |-> its bytes
    stream,     \* copies issued on the input and output streams, not yet performed
    recorded,   \* how many of each the event recorded last stands for
    ready,      \* buffer_ready_event_ # nullptr
    reading,    \* the last execution still reads the input tensors
    seen,       \* the input tensors as this execution found them
    responses   \* request |-> "open", "failed", "sent"

collector == <<pend, kern, needSync, deferred, awaited>>
workers == <<tasks, incomplete, closing, done>>
device == <<mem, stream, recorded>>
vars == <<batch, pc, at, collector, workers, device, ready, reading, seen, responses>>

-----------------------------------------------------------------------------
(* Buffers and copies.                                                     *)

Total(sizes) == FoldSeq(+, 0, sizes)
GpuMemory == {"gpu0", "gpu1"}
Junk(n) == [k \in 1..n |-> <<>>]

Requests == DOMAIN responses
Inputs == batch.inputs
Outputs == batch.outputs
IsData(t) == Inputs[t].kind = "data"
Buffers(t, r) == Inputs[t].data[r]
Sizes(t, r) == [j \in DOMAIN Buffers(t, r) |-> Buffers(t, r)[j].n]
InputSize(t, r) == Total(Sizes(t, r))
InputOffset(t, r) == Total([i \in 1..(r - 1) |-> InputSize(t, i)])
OutputOffset(o, r) == Total([i \in 1..(r - 1) |-> Outputs[o].sizes[i]])

Client(t, r) == <<"client", t, r>>
Input(t) == <<"input", t>>
Host(t) == <<"host", t>>
Pin(k) == <<"pinned", k>>
Output(o) == <<"output", o>>
Response(o, r) == <<"response", o, r>>

MemoryOf(buffer) ==
    CASE buffer[1] \in {"input", "output"} -> batch.io
      [] buffer[1] = "response" -> Outputs[buffer[2]].mem[buffer[3]]
      [] OTHER -> "pinned"

Content(m, buffer) ==
    IF buffer[1] = "client"
    THEN [k \in 1..InputSize(buffer[2], buffer[3]) |-> <<buffer[2], buffer[3], k>>]
    ELSE m[buffer]

Perform(m, c) ==
    LET from == Content(m, c.from)
    IN  [m EXCEPT ![c.to] = [k \in DOMAIN @ |->
            IF k > c.off /\ k <= c.off + c.n THEN from[k - c.off + c.at] ELSE @[k]]]

\* CopyBuffer: from host to host at once, unless the copies of a zero-copy
\* device are wanted in the order of its stream; all others on the stream.
OnStream(c) == GpuMemory \cap {c.mem, MemoryOf(c.to)} # {} \/ batch.io = "pinned"

\* The memory m after the copies made at once; the others are issued on s.
AfterCopies(m, copies) == FoldLeft(Perform, m, SelectSeq(copies, LAMBDA c : ~OnStream(c)))

IssueFrom(m, s, copies) ==
    /\ mem' = AfterCopies(m, copies)
    /\ stream' = [stream EXCEPT ![s] = @ \o SelectSeq(copies, OnStream)]

Issue(s, copies) == IssueFrom(mem, s, copies)
CudaUsed(copies) == \E i \in DOMAIN copies : OnStream(copies[i])

\* cudaEventRecord, and whether the event recorded last is complete.
Record(s, if) == recorded' = IF if THEN [recorded EXCEPT ![s] = Len(stream'[s])] ELSE recorded
Complete(s) == recorded[s] = 0

\* A stream performs its next copy.  Those of the outputs are behind the
\* execution, on its stream or on one that waits for it.
StreamStep(s) ==
    /\ stream[s] # <<>> /\ (s = "out" => seen # <<>>)
    /\ mem' = Perform(mem, Head(stream[s]))
    /\ stream' = [stream EXCEPT ![s] = Tail(@)]
    /\ recorded' = [recorded EXCEPT ![s] = Max({0, @ - 1})]
    /\ UNCHANGED <<batch, pc, at, collector, workers, ready, reading, seen, responses>>

\* The last execution has read its inputs: its event ready_for_input_.
InputsConsumed ==
    /\ reading /\ reading' = FALSE
    /\ UNCHANGED <<batch, pc, at, collector, workers, device, ready, seen, responses>>

\* cudaEventSynchronize(buffer_ready_event_) where the code has it.
WaitBuffer == (ready => ~reading) /\ ready' = FALSE

-----------------------------------------------------------------------------
(* BackendInputCollector::ProcessTensor.                                   *)

NonePending == [size |-> 0, off |-> 0, reqs |-> <<>>]

AddPending(p, off, n, r) ==
    [size |-> p.size + n, off |-> IF p.size = 0 THEN off ELSE p.off, reqs |-> Append(p.reqs, r)]

\* Slip: only a request in front of the end of the pending ones.
Overlapping(p, off) == p.size > 0 /\ off < p.size + p.off

Discontiguous(p, off) == p.size > 0 /\ off # p.size + p.off

\* GetUsePinnedMemoryType for tensors on a GPU; none are needed for others.
UsesPinned(memory) == batch.pinned /\ batch.io \in GpuMemory /\ memory = "cpu"

\* The memory of its first buffer decides for an input.
UsesKernel(memory) ==
    /\ batch.threshold # 0 /\ batch.io \in GpuMemory
    /\ memory \in {"pinned", batch.io}

Exceeds(t, r) == InputOffset(t, r) + InputSize(t, r) > Inputs[t].space

\* What SetFixedSizeInputTensor copies of an input, buffer by buffer.
CopiesOf(t, r, to, off) ==
    [j \in DOMAIN Buffers(t, r) |->
        LET before == Total(SubSeq(Sizes(t, r), 1, j - 1)) IN
        [mem |-> Buffers(t, r)[j].mem, from |-> Client(t, r), at |-> before,
         to |-> to, off |-> off + before, n |-> Sizes(t, r)[j]]]

\* The same for several requests, one after the other.
AllCopies(t, reqs, to, off) ==
    FlattenSeq([i \in DOMAIN reqs |->
        CopiesOf(t, reqs[i], to, off + Total([k \in 1..(i - 1) |-> InputSize(t, reqs[k])]))])

Fail(r) == responses' = [responses EXCEPT ![r] = IF @ = "open" THEN "failed" ELSE @]

AtInput == pc = "inputs" /\ IsData(at.tensor)
LastRequest == Cardinality(Requests)
NextRequest == at' = [at EXCEPT !.request = @ + 1]

NextTensor ==
    /\ at' = [tensor |-> at.tensor + 1, request |-> 1]
    /\ pc' = IF at.tensor = Len(Inputs) THEN "finalize" ELSE pc

\* One request of a tensor, when nothing is to be flushed before.
SetFixedSizeInputTensor ==
    LET t == at.tensor
        r == at.request
        off == InputOffset(t, r)
        memory == Buffers(t, r)[1].mem
        copies == CopiesOf(t, r, Input(t), off)
    IN  /\ AtInput /\ r <= LastRequest
        /\ ~Discontiguous(pend, off) /\ ~Discontiguous(kern, off)
        /\ NextRequest
        /\ \/ /\ Exceeds(t, r)
              /\ Fail(r)
              /\ UNCHANGED <<pend, kern, needSync, device, ready>>
           \/ /\ ~Exceeds(t, r) /\ UsesPinned(memory)
              /\ pend' = AddPending(pend, off, InputSize(t, r), r)
              /\ UNCHANGED <<kern, needSync, device, ready, responses>>
           \/ /\ ~Exceeds(t, r) /\ ~UsesPinned(memory) /\ UsesKernel(memory)
              /\ kern' = AddPending(kern, off, InputSize(t, r), r)
              /\ UNCHANGED <<pend, needSync, device, ready, responses>>
           \/ /\ ~Exceeds(t, r) /\ ~UsesPinned(memory) /\ ~UsesKernel(memory)
              /\ WaitBuffer
              /\ Issue("in", copies)
              /\ needSync' = (needSync \/ CudaUsed(copies))
              /\ UNCHANGED <<pend, kern, recorded, responses>>
        /\ UNCHANGED <<batch, pc, deferred, awaited, workers, reading, seen>>

\* A pinned buffer as a whole, to where its bytes belong in the tensor.
FromPinned(d) ==
    [mem |-> "pinned", from |-> Pin(d.pin), at |-> 0, to |-> Input(d.tensor), off |-> d.off, n |-> d.size]

PinnedCount == Cardinality({b \in DOMAIN mem : b[1] = "pinned"})
WithBuffer(m, b, n) == [x \in DOMAIN m \cup {b} |-> IF x = b THEN Junk(n) ELSE m[x]]

NewDeferred(final) ==
    [pin |-> PinnedCount + 1, tensor |-> at.tensor, off |-> pend.off, size |-> pend.size,
     reqs |-> pend.reqs, final |-> final]

\* The parts of the pending inputs that the workers copy, and how many the
\* counter expects.  With four requests and three workers that is one more
\* than there are.
Stride(reqs) == (Len(reqs) + batch.workers - 1) \div batch.workers

Segments(d, t, reqs) ==
    {[def |-> d, reqs |-> SubSeq(reqs, i + 1, Min({i + Stride(reqs), Len(reqs)})),
      off |-> Total([k \in 1..i |-> InputSize(t, reqs[k])])] :
        i \in {i \in 0..(Len(reqs) - 1) : i % Stride(reqs) = 0}}

IncompleteCount(reqs) == Min({Len(reqs), batch.workers})

UsesWorkers == batch.workers > 1

\* Before a request that does not follow the pending ones, and at the end of a
\* tensor.
FlushPoint(p, off, end) ==
    \/ at.request <= LastRequest /\ Discontiguous(p, off)
    \/ at.request = LastRequest + end

\* FlushPendingPinned, at the end of a tensor even if nothing is pending.  If
\* the pool has no buffer the copies are direct.  If all of them reached the
\* pinned buffer at once it is copied on, otherwise in Finalize.
FlushPendingPinned ==
    LET t == at.tensor
        d == NewDeferred(UsesWorkers)
        direct == AllCopies(t, pend.reqs, Input(t), pend.off)
        toPinned == AllCopies(t, pend.reqs, Pin(d.pin), 0)
        copies == IF CudaUsed(toPinned) THEN toPinned ELSE Append(toPinned, FromPinned(d))
        withPinned == WithBuffer(mem, Pin(d.pin), d.size)
    IN  /\ AtInput /\ FlushPoint(pend, InputOffset(t, at.request), 1)
        /\ IF at.request > LastRequest THEN NextRequest ELSE UNCHANGED at
        /\ pend' = NonePending
        /\ \/ /\ pend.size > 0 /\ FALSE \in batch.pool
              /\ WaitBuffer /\ Issue("in", direct)
              /\ needSync' = (needSync \/ CudaUsed(direct))
              /\ UNCHANGED <<deferred, awaited, workers>>
           \/ /\ (pend.size = 0 \/ TRUE \in batch.pool) /\ ~UsesWorkers
              /\ IssueFrom(withPinned, "in", copies)
              /\ needSync' = (needSync \/ CudaUsed(copies))
              /\ IF CudaUsed(toPinned) THEN deferred' = Append(deferred, d) /\ UNCHANGED ready
                 ELSE WaitBuffer /\ UNCHANGED deferred
              /\ UNCHANGED <<awaited, workers>>
           \/ /\ (pend.size = 0 \/ TRUE \in batch.pool) /\ UsesWorkers
              /\ mem' = withPinned
              /\ deferred' = Append(deferred, d)
              /\ awaited' = awaited + 1
              /\ tasks' = tasks \cup Segments(Len(deferred'), t, pend.reqs)
              /\ incomplete' = Append(incomplete, IncompleteCount(pend.reqs))
              /\ UNCHANGED <<closing, done, needSync, stream, ready>>
        /\ UNCHANGED <<batch, pc, kern, recorded, reading, seen, responses>>

\* A worker copies its part into the pinned buffer; the last one of them goes
\* on to the second half.
WorkerCopy(k) ==
    LET copies == AllCopies(deferred[k.def].tensor, k.reqs, Pin(deferred[k.def].pin), k.off)
    IN  /\ k \in tasks /\ tasks' = tasks \ {k}
        /\ Issue("in", copies)
        /\ incomplete' = [incomplete EXCEPT ![k.def] = @ - 1]
        /\ closing' = IF incomplete[k.def] = 1 THEN closing \cup {k.def} ELSE closing
        /\ UNCHANGED <<batch, pc, at, collector, done, recorded, ready, reading, seen, responses>>

\* DeferredPinned::Finalize on the worker.
WorkerFinalize(d) ==
    LET copies == <<FromPinned(deferred[d])>>
    IN  /\ d \in closing /\ closing' = closing \ {d}
        /\ WaitBuffer /\ Issue("in", copies)
        /\ done' = [defs |-> done.defs \cup {d}, cuda |-> done.cuda \/ CudaUsed(copies)]
        /\ UNCHANGED <<batch, pc, at, collector, tasks, incomplete, recorded, reading, seen, responses>>

\* LaunchCopyKernel: the gather kernel concatenates the pending buffers.
GatherKernel(t) == AllCopies(t, kern.reqs, Input(t), kern.off)

\* FlushPendingCopyKernel: one launch of the gather kernel, if there are enough
\* buffers and memory for its arguments, has the effect of the direct copies.
\* At the end of the tensor the event is recorded.
FlushPendingCopyKernel ==
    LET end == at.request = LastRequest + 2
        off == InputOffset(at.tensor, at.request)
        copies == GatherKernel(at.tensor)
    IN  /\ AtInput /\ FlushPoint(kern, off, 2) /\ (end \/ ~Discontiguous(pend, off))
        /\ IF kern.reqs = <<>> THEN UNCHANGED ready ELSE WaitBuffer
        /\ Issue("in", copies)
        /\ needSync' = (needSync \/ CudaUsed(copies))
        /\ kern' = NonePending
        /\ Record("in", end /\ needSync')
        /\ IF end THEN NextTensor ELSE UNCHANGED <<pc, at>>
        /\ UNCHANGED <<batch, pend, deferred, awaited, workers, reading, seen, responses>>

-----------------------------------------------------------------------------
(* Batch inputs: the sizes of the requests' inputs as an input themselves. *)

Counts(t) == [r \in Requests |-> InputSize(Inputs[t].source, r)]

BatchInputShape(t) ==
    CASE Inputs[t].kind \in {"count", "accumulated"} -> LastRequest
      [] Inputs[t].kind = "accumulated with zero" -> LastRequest + 1
      [] Inputs[t].kind = "max as shape" -> Max({0} \cup Range(Counts(t)))

SetElementCount(t, entries) ==
    [k \in 1..entries |-> IF k <= LastRequest THEN Counts(t)[k] ELSE 0]

SetAccumulatedElementCount(t, entries) ==
    [k \in 1..entries |-> Total(SubSeq(Counts(t), 1, Min({k, LastRequest})))]

\* ProcessBatchInput: what is written into a buffer of the host.
BatchInputValue(t, entries) ==
    CASE Inputs[t].kind = "count" -> SetElementCount(t, entries)
      [] Inputs[t].kind = "accumulated" -> SetAccumulatedElementCount(t, entries)
      [] Inputs[t].kind = "accumulated with zero" -> <<0>> \o SetAccumulatedElementCount(t, entries - 1)

Written(values) == [k \in DOMAIN values |-> <<values[k]>>]
IsValue(t) == Inputs[t].kind \notin {"data", "max as shape"}

\* The buffer is the tensor itself on a zero-copy device, otherwise one that is
\* copied to it.
BatchInputBuffer(t) == IF batch.io = "pinned" THEN Input(t) ELSE Host(t)

BatchInputCopy(t, entries) ==
    IF batch.io = "pinned" THEN <<>>
    ELSE <<[mem |-> "pinned", from |-> Host(t), at |-> 0, to |-> Input(t), off |-> 0, n |-> entries]>>

WriteBatchInputs(ts, extra) ==
    LET Entries(t) == BatchInputShape(t) + extra
    IN  /\ IssueFrom([b \in DOMAIN mem |->
                        IF \E t \in ts : b = BatchInputBuffer(t)
                        THEN LET v == Written(BatchInputValue(b[2], Entries(b[2])))
                             IN  v \o SubSeq(mem[b], Len(v) + 1, Len(mem[b]))
                        ELSE mem[b]],
                     "in", FlattenSeq([i \in 1..Cardinality(ts) |->
                                LET t == SetToSeq(ts)[i] IN BatchInputCopy(t, Entries(t))]))
        /\ Record("in", ts # {} /\ batch.io # "pinned")

ProcessBatchInput ==
    LET t == at.tensor
    IN  /\ pc = "inputs" /\ ~IsData(t)
        /\ WaitBuffer
        /\ WriteBatchInputs(IF IsValue(t) THEN {t} ELSE {}, 0)
        /\ NextTensor
        /\ UNCHANGED <<batch, collector, workers, reading, seen, responses>>

-----------------------------------------------------------------------------
(* BackendInputCollector::Finalize and the launch of the model.            *)

\* The pinned buffers the device has filled, which needs waiting for, are
\* copied on.
FinalizeInputs ==
    LET rest == SelectSeq(deferred, LAMBDA d : ~d.final)
        copies == [i \in DOMAIN rest |-> FromPinned(rest[i])]
    IN  /\ pc = "finalize" /\ pc' = "await"
        /\ deferred # <<>> /\ needSync => Complete("in")
        /\ WaitBuffer
        /\ Issue("in", copies)
        /\ needSync' = ((needSync /\ deferred = <<>>) \/ CudaUsed(copies))
        /\ UNCHANGED <<batch, at, pend, kern, deferred, awaited, workers, recorded, reading, seen, responses>>

\* The workers' copies are awaited, as many as were asked for.
AwaitWorkers ==
    /\ pc = "await" /\ pc' = "graph"
    /\ Cardinality(done.defs) >= awaited
    /\ needSync' = (needSync \/ done.cuda)
    /\ UNCHANGED <<mem, stream>> /\ Record("in", deferred # <<>> /\ needSync')
    /\ UNCHANGED <<batch, at, pend, kern, deferred, awaited, workers, ready, reading, seen, responses>>

\* With a CUDA graph for a larger batch the batch inputs are filled up.
PadBatchInputs ==
    /\ pc = "graph" /\ pc' = "launch"
    /\ IF batch.graph = 0 THEN UNCHANGED device
       ELSE WriteBatchInputs({t \in DOMAIN Inputs : IsValue(t)}, batch.graph)
    /\ UNCHANGED <<batch, at, collector, workers, ready, reading, seen, responses>>

\* The model is enqueued behind the event of the inputs, and the BackendResponder
\* begins.
Launch ==
    /\ pc = "launch" /\ pc' = "outputs"
    /\ at' = [tensor |-> 1, request |-> 1]
    /\ pend' = NonePending /\ needSync' = FALSE /\ deferred' = <<>>
    /\ UNCHANGED <<batch, kern, awaited, workers, device, ready, reading, seen, responses>>

Execute ==
    /\ pc \in {"outputs", "complete", "send"} /\ seen = <<>>
    /\ Complete("in")
    /\ seen' = [t \in DOMAIN Inputs |-> mem[Input(t)]]
    /\ mem' = [b \in DOMAIN mem |->
                  IF b[1] = "output" THEN [k \in DOMAIN mem[b] |-> <<b[2], k>>] ELSE mem[b]]
    /\ UNCHANGED <<batch, pc, at, collector, workers, stream, recorded, ready, reading, responses>>

-----------------------------------------------------------------------------
(* BackendResponder::ProcessTensor, both forms of it, and Finalize.        *)

ToResponse(o, r, memory, from, off) ==
    [mem |-> memory, from |-> from, at |-> off, to |-> Response(o, r), off |-> 0,
     n |-> Outputs[o].sizes[r]]

\* From a buffer that begins with the first of the requests, to the responses.
ToResponses(o, reqs, memory, from, off) ==
    [i \in DOMAIN reqs |->
        ToResponse(o, reqs[i], memory, from,
                   off + Total([k \in 1..(i - 1) |-> Outputs[o].sizes[reqs[k]]]))]

\* Only what an open response asks for is copied; the rest is skipped.
SetFixedSizeOutputBuffer ==
    LET o == at.tensor
        r == at.request
        off == OutputOffset(o, r)
        copy == ToResponse(o, r, batch.io, Output(o), off)
        asked == responses[r] = "open" /\ r \in Outputs[o].wanted
        refused == r \in Outputs[o].refused
        viaPinned == UsesPinned(Outputs[o].mem[r])
    IN  /\ pc = "outputs" /\ r <= LastRequest /\ ~Discontiguous(pend, off)
        /\ NextRequest
        /\ \/ ~asked /\ UNCHANGED <<pend, needSync, mem, stream, responses>>
           \/ /\ asked /\ refused
              /\ Fail(r)
              /\ UNCHANGED <<pend, needSync, mem, stream>>
           \/ /\ asked /\ ~refused /\ viaPinned
              /\ pend' = AddPending(pend, off, copy.n, r)
              /\ UNCHANGED <<needSync, mem, stream, responses>>
           \/ /\ asked /\ ~refused /\ ~viaPinned
              /\ Issue("out", <<copy>>)
              /\ needSync' = (needSync \/ OnStream(copy))
              /\ UNCHANGED <<pend, responses>>
        /\ UNCHANGED <<batch, pc, kern, deferred, awaited, workers, recorded, ready, reading, seen>>

\* The copy to the pinned buffer is always on the stream: the second half is
\* left to Finalize.
FlushPendingOutputs ==
    LET o == at.tensor
        end == at.request = LastRequest + 1
        d == NewDeferred(FALSE)
        direct == ToResponses(o, pend.reqs, batch.io, Output(o), pend.off)
        toPinned == [mem |-> batch.io, from |-> Output(o), at |-> pend.off,
                     to |-> Pin(d.pin), off |-> 0, n |-> pend.size]
    IN  /\ pc = "outputs" /\ FlushPoint(pend, OutputOffset(o, at.request), 1)
        /\ pend' = NonePending
        /\ \/ /\ pend.size > 0 /\ FALSE \in batch.pool
              /\ Issue("out", direct)
              /\ needSync' = (needSync \/ CudaUsed(direct))
              /\ UNCHANGED deferred
           \/ /\ pend.size = 0 \/ TRUE \in batch.pool
              /\ IssueFrom(WithBuffer(mem, Pin(d.pin), d.size), "out", <<toPinned>>)
              /\ needSync' = TRUE
              /\ deferred' = Append(deferred, d)
        /\ Record("out", end /\ needSync')
        /\ IF ~end THEN UNCHANGED <<pc, at>>
           ELSE /\ at' = [tensor |-> o + 1, request |-> 1]
                /\ pc' = IF o = Len(Outputs) THEN "complete" ELSE pc
        /\ UNCHANGED <<batch, kern, awaited, workers, ready, reading, seen, responses>>

\* Finalize, on the completion thread, once the execution has read its inputs:
\* after waiting, at once from the pinned buffers to the responses; then the
\* buffers are given back.
FinalizeOutputs ==
    LET CopiesFrom(d) == ToResponses(d.tensor, d.reqs, "pinned", Pin(d.pin), 0)
        copies == FlattenSeq([i \in DOMAIN deferred |-> CopiesFrom(deferred[i])])
        pins == {Pin(deferred[i].pin) : i \in DOMAIN deferred}
        after == AfterCopies(mem, copies)
    IN  /\ pc = "complete" /\ pc' = "send" /\ seen # <<>>
        /\ deferred # <<>> /\ needSync => Complete("out")
        /\ mem' = [b \in DOMAIN mem |-> IF b \in pins THEN Junk(Len(mem[b])) ELSE after[b]]
        /\ needSync' = (needSync /\ deferred = <<>>)
        /\ deferred' = <<>>
        /\ UNCHANGED <<stream, recorded>>
        /\ UNCHANGED <<batch, at, pend, kern, awaited, workers, ready, reading, seen, responses>>

\* ProcessResponse: the responses that have not failed are sent when the last
\* output has been copied.
SendResponses ==
    /\ pc = "send" /\ pc' = "sent"
    /\ Complete("out")
    /\ responses' = [r \in Requests |-> IF responses[r] = "open" THEN "sent" ELSE responses[r]]
    /\ UNCHANGED <<batch, at, collector, workers, device, ready, reading, seen>>

-----------------------------------------------------------------------------

Init ==
    /\ batch \in Batches
    /\ pc = "inputs" /\ at = [tensor |-> 1, request |-> 1]
    /\ pend = NonePending /\ kern = NonePending /\ needSync = FALSE
    /\ deferred = <<>> /\ awaited = 0
    /\ tasks = {} /\ incomplete = <<>> /\ closing = {} /\ done = [defs |-> {}, cuda |-> FALSE]
    /\ responses = [r \in 1..Len(batch.outputs[1].sizes) |-> "open"]
    /\ mem = [x \in {Input(t) : t \in DOMAIN Inputs} \cup {Host(t) : t \in DOMAIN Inputs} |->
                 Junk(IF IsData(x[2]) THEN Inputs[x[2]].space ELSE BatchInputShape(x[2]) + batch.graph)]
          @@ [x \in {Output(o) : o \in DOMAIN Outputs} |-> Junk(Total(Outputs[x[2]].sizes))]
          @@ [x \in {Response(o, r) : o \in DOMAIN Outputs, r \in Requests} |->
                 Junk(Outputs[x[2]].sizes[x[3]])]
    /\ stream = [in |-> <<>>, out |-> <<>>] /\ recorded = [in |-> 0, out |-> 0]
    /\ ready = batch.eager /\ reading = batch.eager
    /\ seen = <<>>

Runner ==
    \/ SetFixedSizeInputTensor \/ FlushPendingPinned \/ FlushPendingCopyKernel
    \/ ProcessBatchInput \/ FinalizeInputs \/ AwaitWorkers \/ PadBatchInputs \/ Launch
    \/ SetFixedSizeOutputBuffer \/ FlushPendingOutputs \/ FinalizeOutputs \/ SendResponses

Next ==
    \/ Runner
    \/ \E k \in tasks : WorkerCopy(k)
    \/ \E d \in closing : WorkerFinalize(d)
    \/ \E s \in {"in", "out"} : StreamStep(s)
    \/ InputsConsumed
    \/ Execute

Spec == Init /\ [][Next]_vars

-----------------------------------------------------------------------------
(* Properties.                                                             *)

\* What the tensor of an input should hold: the inputs of the requests one
\* behind the other; those that do not fit any more are left out.
Gathered(t) == FlattenSeq([r \in Requests |-> Content(mem, Client(t, r))])

PrefixSum(t, k) == Total(SubSeq(Counts(t), 1, k))

GatheredValue(t) ==
    CASE Inputs[t].kind = "count" -> Counts(t)
      [] Inputs[t].kind = "accumulated" -> [k \in Requests |-> PrefixSum(t, k)]
      [] Inputs[t].kind = "accumulated with zero" -> [k \in 1..(LastRequest + 1) |-> PrefixSum(t, k - 1)]

\* The execution of a batch finds in every input tensor the inputs of its
\* requests one behind the other, from whatever memory, in however many pieces
\* and through whichever buffers and threads they came, and in a batch input
\* their sizes; and no tensor is written while the execution before still
\* reads it.  (BackendInputCollector)
InputsGathered ==
    /\ reading => \A t \in DOMAIN Inputs : mem[Input(t)] = Junk(Len(mem[Input(t)]))
    /\ seen # <<>> =>
        \A t \in DOMAIN Inputs :
            IF IsData(t)
            THEN \A r \in Requests : ~Exceeds(t, r) =>
                    LET n == InputOffset(t, r) + InputSize(t, r)
                    IN  SubSeq(seen[t], 1, n) = SubSeq(Gathered(t), 1, n)
            ELSE IsValue(t) =>
                    SubSeq(seen[t], 1, BatchInputShape(t)) = Written(GatheredValue(t))

\* A response that is sent has in each output it asked for the bytes of its
\* request's part of the model's output, even though they are copied behind
\* the execution, and by way of pinned buffers that are given back.  Only a
\* request whose own input does not fit, or whose own output was refused a
\* buffer, fails; and a batch that can go no further is answered.
\* (BackendResponder, ProcessResponse)
OutputsScattered ==
    \A r \in Requests :
        /\ responses[r] = "sent" =>
            \A o \in DOMAIN Outputs : r \in Outputs[o].wanted =>
                mem[Response(o, r)] =
                    [k \in 1..Outputs[o].sizes[r] |-> <<o, OutputOffset(o, r) + k>>]
        /\ responses[r] = "failed" =>
            \/ \E t \in DOMAIN Inputs : IsData(t) /\ Exceeds(t, r)
            \/ \E o \in DOMAIN Outputs : r \in Outputs[o].refused
        /\ (ENABLED Next) \/ responses[r] # "open"
=============================================================================
