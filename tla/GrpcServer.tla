----------------------------- MODULE GrpcServer -----------------------------
(***************************************************************************)
(* The gRPC front end (src/src/servers/grpc_server.cc): the handlers of    *)
(* ModelStreamInfer (ModelStreamInferHandler), of ModelInfer               *)
(* (ModelInferHandler) and of all other RPCs (CommonHandler), and the      *)
(* server's Start and Stop.  What the other RPCs do is in FrontEnds.       *)
(*                                                                         *)
(* Each handler has a completion queue and one thread that takes tags from *)
(* it and calls Process.  A tag is an object and what was asked of gRPC    *)
(* for it: ops holds those that the thread has not taken yet.  Models      *)
(* answer on threads of their own (the response callbacks), in two steps   *)
(* where Process may come between.                                         *)
(*                                                                         *)
(* One stream is followed: its Context and its InferHandlerStates.         *)
(***************************************************************************)
EXTENDS Integers, Sequences, FiniteSets, SequencesExt

CONSTANTS
  Scenarios      \* name -> what the clients and the models do

VARIABLE config  \* which of them: fixed at the start

Scenario == Scenarios[config]
MaxRequests == Scenario.requests     \* bound: requests in the stream
MaxResponses == Scenario.responses   \* bound: responses of a decoupled model
MaxCalls == Scenario.calls           \* bound: unary calls of each RPC

Kinds == {"single", "decoupled"}     \* transaction policy of a model
Rpcs == {"sync", "async", "infer"}   \* CommonCallData, or ModelInfer

ASSUME ScenarioAssumption ==
  \A n \in DOMAIN Scenarios :
    LET s == Scenarios[n]
    IN  /\ s.requests \in Nat /\ s.responses \in Nat \ {0} /\ s.calls \in Nat
        /\ s.kinds \subseteq Kinds /\ s.rpcs \subseteq Rpcs
        /\ s.emptyFinal \in BOOLEAN /\ s.cancels \in BOOLEAN
        /\ s.refuses \in BOOLEAN

VARIABLES
  ctx,      \* Context of the stream
  st,       \* its InferHandlerStates, by number
  handler,  \* the state whose step_mtx_ Process is about to take, or None
  ops,      \* <<"read" | "write" | "alarm" | "finish", state>>
  client,   \* the client of the stream
  written,  \* states whose responses were given to Write, in this order
  broken,   \* a state was used after its release, or a null response
  calls,    \* unary calls, by number
  server    \* GRPCServer: "running", "stopping" or "stopped"

stream == <<ctx, st, handler, ops, client, written, broken>>
vars == <<config, stream, calls, server>>

None == 0

\* InferHandlerState with its ResponseQueue (alloc, ready, current) and what
\* the thread of its model is doing.
NewState(step) ==
  [step |-> step, decoupled |-> FALSE, complete |-> FALSE, alive |-> TRUE,
   alloc |-> 0, ready |-> 0, current |-> 0,
   model |-> "none", null |-> FALSE, sent |-> 0]

IsEmpty(s) == s.alloc = s.ready /\ s.alloc = s.current
HasReadyResponse(s) == s.ready > s.current
IsComplete(s) == s.complete /\ IsEmpty(s)

NewCall(rpc) == [rpc |-> rpc, step |-> "START", finished |-> 0]

\* Start: every RPC has an object that waits for its first call.
Init ==
  /\ config \in DOMAIN Scenarios
  /\ ctx = [step |-> "START", queue |-> << >>, ongoing |-> 0, ok |-> TRUE,
            writing |-> FALSE]
  /\ st = [s \in {1} |-> NewState("START")]
  /\ handler = None /\ written = << >> /\ broken = FALSE
  /\ ops = {<<"start", 1>>}
  /\ client = [phase |-> "none", sent |-> 0]
  /\ calls = [i \in 1..Cardinality(Scenario.rpcs) |-> NewCall(SetToSeq(Scenario.rpcs)[i])]
  /\ server = "running"

(***************************************************************************)
(* The Context                                                             *)
(***************************************************************************)
IsRequestsCompleted(c) == c.step = "WRITEREADY" /\ c.queue = << >> /\ c.ongoing = 0

\* WriteResponseIfReady(required): the front of the queue is written.
Writes(c, states, required) ==
  /\ c.queue # << >>
  /\ states[Head(c.queue)].step = "WRITEREADY"
  /\ required \in {None, Head(c.queue)}

WriteResponseIfReady(c, states, pending, required) ==
  IF Writes(c, states, required)
  THEN /\ st' = [states EXCEPT ![Head(c.queue)].step = "WRITTEN"]
       /\ ctx' = [c EXCEPT !.writing = TRUE]
       /\ ops' = pending \cup {<<"write", Head(c.queue)>>}
       /\ written' = Append(written, Head(c.queue))
  ELSE st' = states /\ ctx' = c /\ ops' = pending /\ UNCHANGED written

\* PopCompletedResponse, with what Process does when s is not the front.
PopCompletedResponse(c, s) ==
  IF c.queue # << >> /\ Head(c.queue) = s THEN [c EXCEPT !.queue = Tail(@)]
  ELSE [c EXCEPT !.ok = FALSE]

Release(states, s) == [states EXCEPT ![s].step = "FINISH", ![s].alive = FALSE]

\* Slip: the stream ends with the last response, read or not.
FinishEarly(c, states, pending, s) ==
  IF c.queue = << >> /\ c.ongoing = 0
  THEN /\ ctx' = [c EXCEPT !.step = "COMPLETE"]
       /\ st' = [states EXCEPT ![s].step = "COMPLETE"]
       /\ ops' = pending \cup {<<"finish", s>>}
  ELSE st' = Release(states, s) /\ ctx' = c /\ ops' = pending

\* Finish: the last state ends the stream.
Finish(c, states, pending, s) ==
  IF IsRequestsCompleted(c)
  THEN /\ ctx' = [c EXCEPT !.step = "COMPLETE"]
       /\ st' = [states EXCEPT ![s].step = "COMPLETE"]
       /\ ops' = pending \cup {<<"finish", s>>}
  ELSE st' = Release(states, s) /\ ctx' = c /\ ops' = pending

(***************************************************************************)
(* ModelStreamInferHandler::Process.  The thread is free unless it is      *)
(* about to take a step_mtx_.                                              *)
(***************************************************************************)
Takes(kind, s) == ~broken /\ handler = None /\ <<kind, s>> \in ops
Others == UNCHANGED <<config, calls, server>>
Alone == Others /\ UNCHANGED client

\* START: a client has connected.  Another state waits for the next client; this
\* one is used for the first read.
Connect(s) ==
  /\ Takes("start", s) /\ server = "running" /\ client.phase = "none"
  /\ MaxRequests > 0
  /\ client' = [client EXCEPT !.phase = "open"]
  /\ ctx' = [ctx EXCEPT !.step = "READ"]
  /\ st' = [x \in DOMAIN st \cup {s + 1} |->
              IF x = s THEN [st[s] EXCEPT !.step = "READ"] ELSE NewState("START")]
  /\ ops' = (ops \ {<<"start", s>>}) \cup {<<"start", s + 1>>, <<"read", s>>}
  /\ Others /\ UNCHANGED <<handler, written, broken>>

\* READ, and the client has nothing more to say.
ReadEnds(s) ==
  /\ Takes("read", s) /\ client.phase \in {"closed", "cancelled"}
  /\ Finish([ctx EXCEPT !.step = "WRITEREADY"], st, ops \ {<<"read", s>>}, s)
  /\ Alone /\ UNCHANGED <<handler, written, broken>>

\* The state takes the request, and another one reads the next.
NextRead(s) == Cardinality(DOMAIN st) + 1
Reads(s, state) ==
  [x \in DOMAIN st \cup {NextRead(s)} |->
     CASE x = s -> state
       [] x = NextRead(s) -> NewState("READ")
       [] OTHER -> st[x]]
ReadPending(s) == (ops \ {<<"read", s>>}) \cup {<<"read", NextRead(s)>>}

Counted(s, kind) ==
  [ctx EXCEPT !.ongoing = @ + 1,
              !.queue = IF kind = "single" THEN Append(@, s) ELSE @]

ClientSends(s) ==
  /\ Takes("read", s) /\ client.phase = "open" /\ client.sent < MaxRequests
  /\ client' = [client EXCEPT !.sent = @ + 1]

\* READ, and InferAsync takes the request.
ReadIssues(s, kind) ==
  /\ ClientSends(s)
  /\ ctx' = Counted(s, kind)
  /\ st' = Reads(s, [st[s] EXCEPT !.step = "ISSUED", !.model = "runs",
                                  !.decoupled = kind = "decoupled"])
  /\ ops' = ReadPending(s)
  /\ Others /\ UNCHANGED <<handler, written, broken>>

\* READ, and something is wrong with the request: an error response is made.
ReadRefuses(s, kind) ==
  /\ Scenario.refuses /\ ClientSends(s)
  /\ IF kind = "single"
     THEN WriteResponseIfReady(
            Counted(s, kind), Reads(s, [st[s] EXCEPT !.step = "WRITEREADY", !.alloc = 1]),
            ReadPending(s), s)
     ELSE /\ ctx' = Counted(s, kind)
          /\ st' = Reads(s, [st[s] EXCEPT !.step = "WRITEREADY", !.decoupled = TRUE,
                                          !.complete = TRUE, !.alloc = 1, !.ready = 1])
          /\ ops' = ReadPending(s) \cup {<<"alarm", s>>}
          /\ UNCHANGED written
  /\ Others /\ UNCHANGED <<handler, broken>>

\* A write fails when the client is gone.
WriteDone(c) == [c EXCEPT !.writing = FALSE, !.ok = @ /\ client.phase # "cancelled"]

\* WRITTEN, without the decoupled policy: the next response in order follows.
WrittenSingle(s) ==
  /\ Takes("write", s) /\ ~st[s].decoupled
  /\ LET c == PopCompletedResponse(WriteDone(ctx), s)
         pending == ops \ {<<"write", s>>}
         left == [c EXCEPT !.ongoing = @ - 1]
     IN  IF Writes(c, st, None)
         THEN /\ ctx' = [left EXCEPT !.writing = TRUE]
              /\ st' = Release([st EXCEPT ![Head(c.queue)].step = "WRITTEN"], s)
              /\ ops' = pending \cup {<<"write", Head(c.queue)>>}
              /\ written' = Append(written, Head(c.queue))
         ELSE Finish(left, st, pending, s) /\ UNCHANGED written
  /\ Alone /\ UNCHANGED <<handler, broken>>

\* WRITTEN, decoupled: IsComplete is asked without step_mtx_ ...
WrittenDecoupled(s) ==
  /\ Takes("write", s) /\ st[s].decoupled
  /\ IF IsComplete(st[s])
     THEN /\ Finish([WriteDone(ctx) EXCEPT !.ongoing = @ - 1], st,
                    ops \ {<<"write", s>>}, s)
          /\ UNCHANGED handler
     ELSE /\ handler' = s /\ ctx' = WriteDone(ctx) /\ ops' = ops \ {<<"write", s>>}
          /\ UNCHANGED st
  /\ Alone /\ UNCHANGED <<written, broken>>

\* Slip: responses that have come meanwhile are not looked for.
AwaitCallback(s) ==
  /\ ~broken /\ handler = s /\ s # None
  /\ handler' = None /\ st' = [st EXCEPT ![s].step = "ISSUED"]
  /\ Alone /\ UNCHANGED <<ctx, ops, written, broken>>

\* ... and the step is decided with it.
AfterWrite(s) ==
  /\ ~broken /\ handler = s /\ s # None
  /\ handler' = None
  /\ IF HasReadyResponse(st[s])
     THEN st' = [st EXCEPT ![s].step = "WRITEREADY"] /\ ops' = ops \cup {<<"alarm", s>>}
     ELSE st' = [st EXCEPT ![s].step = "ISSUED"] /\ UNCHANGED ops
  /\ Alone /\ UNCHANGED <<ctx, written, broken>>

\* Slip: the write that goes on is not waited for.
MayWriteAnyTime(c) == TRUE
MayWrite(c) == ~c.writing

\* WRITEREADY: while a write goes on the state goes back to the queue.
WriteReady(s) ==
  /\ Takes("alarm", s)
  /\ IF IsComplete(st[s])
     THEN /\ Finish([ctx EXCEPT !.ongoing = @ - 1], st, ops \ {<<"alarm", s>>}, s)
          /\ UNCHANGED <<written, broken>>
     ELSE /\ MayWrite(ctx)
          /\ st' = [st EXCEPT ![s].step = "WRITTEN", ![s].current = @ + 1]
          /\ ctx' = [ctx EXCEPT !.writing = TRUE]
          /\ ops' = (ops \ {<<"alarm", s>>}) \cup {<<"write", s>>}
          /\ written' = Append(written, s)
          /\ broken' = ~HasReadyResponse(st[s])
  /\ Alone /\ UNCHANGED handler

\* COMPLETE: the status of the stream has been sent.
FinishDone(s) ==
  /\ Takes("finish", s)
  /\ ops' = ops \ {<<"finish", s>>} /\ st' = Release(st, s)
  /\ client' = [client EXCEPT !.phase = "done"]
  /\ Others /\ UNCHANGED <<ctx, handler, written, broken>>

Process(s) ==
  \/ Connect(s) \/ ReadEnds(s) \/ WrittenSingle(s) \/ WrittenDecoupled(s)
  \/ AfterWrite(s) \/ WriteReady(s) \/ FinishDone(s)
  \/ \E kind \in Scenario.kinds : ReadIssues(s, kind) \/ ReadRefuses(s, kind)

(***************************************************************************)
(* StreamInferResponseStart and StreamInferResponseComplete on the thread  *)
(* of the model: the response is filled in, then the state is told.        *)
(***************************************************************************)
Respond(s, final, null) ==
  /\ ~broken /\ st[s].model = "runs"
  /\ ~st[s].decoupled => final /\ ~null
  /\ null => final /\ Scenario.emptyFinal
  /\ st[s].sent + 1 = MaxResponses => final
  /\ st' = [st EXCEPT ![s].complete = final, ![s].null = null, ![s].model = "responds",
                      ![s].sent = @ + 1,
                      ![s].alloc = IF null THEN @ ELSE @ + 1,
                      ![s].step = IF st[s].decoupled THEN @ ELSE "WRITEREADY"]
  /\ Alone /\ UNCHANGED <<ctx, handler, ops, written, broken>>

Told(s) == [st EXCEPT ![s].model = IF st[s].complete THEN "done" ELSE "runs"]

Tell(s) ==
  /\ ~broken /\ st[s].model = "responds"
  /\ IF ~st[s].alive
     THEN broken' = TRUE /\ UNCHANGED <<ctx, st, ops, written>>
     ELSE /\ UNCHANGED broken
          /\ IF ~st[s].decoupled THEN WriteResponseIfReady(ctx, Told(s), ops, s)
             ELSE LET wakes == st[s].step = "ISSUED"
                  IN  /\ st' = [Told(s) EXCEPT ![s].ready = IF st[s].null THEN @ ELSE @ + 1,
                                               ![s].step = IF wakes THEN "WRITEREADY" ELSE @]
                      /\ ops' = IF wakes THEN ops \cup {<<"alarm", s>>} ELSE ops
                      /\ UNCHANGED <<ctx, written>>
  /\ Alone /\ UNCHANGED handler

\* The client ends its side of the stream, or goes away.
ClientLeaves(phase) ==
  /\ client.phase = "open" /\ (phase = "cancelled" => Scenario.cancels)
  /\ client' = [client EXCEPT !.phase = phase]
  /\ Others /\ UNCHANGED <<ctx, st, handler, ops, written, broken>>

(***************************************************************************)
(* Unary calls: CommonCallData::Process and ModelInferHandler::Process.    *)
(* An object that is in START waits for a call.                            *)
(***************************************************************************)
Unary == UNCHANGED <<config, stream, server>>
Done(i) == [calls EXCEPT ![i].step = "COMPLETE", ![i].finished = @ + 1]
CallsOf(rpc) == {i \in DOMAIN calls : calls[i].rpc = rpc}

Replaced(i, step) ==
  [j \in DOMAIN calls \cup {Cardinality(DOMAIN calls) + 1} |->
     CASE j = i -> [calls[i] EXCEPT !.step = step,
                                    !.finished = IF step = "COMPLETE" THEN 1 ELSE 0]
       [] j \in DOMAIN calls \ {i} -> calls[j]
       [] OTHER -> NewCall(calls[i].rpc)]

\* A call comes in: it is executed and answered, given to a thread of its own,
\* or, for ModelInfer, issued or refused.
CallArrives(i, refused) ==
  /\ server = "running" /\ calls[i].step = "START"
  /\ Cardinality(CallsOf(calls[i].rpc)) <= MaxCalls
  /\ refused => calls[i].rpc = "infer" /\ Scenario.refuses
  /\ calls' = Replaced(i, IF refused \/ calls[i].rpc = "sync" THEN "COMPLETE" ELSE "ISSUED")
  /\ Unary

\* Execute on async_thread_, which puts the call into the completion queue.
CallExecuted(i) ==
  /\ calls[i].rpc = "async" /\ calls[i].step = "ISSUED"
  /\ calls' = [calls EXCEPT ![i].step = "WRITEREADY"]
  /\ Unary

CallWritten(i) ==
  /\ calls[i].step = "WRITEREADY" /\ calls' = Done(i)
  /\ Unary

\* ModelInferHandler::InferResponseComplete
CallAnswered(i) ==
  /\ calls[i].rpc = "infer" /\ calls[i].step = "ISSUED" /\ calls' = Done(i)
  /\ Unary

CallFinished(i) ==
  /\ calls[i].step = "COMPLETE"
  /\ calls' = [calls EXCEPT ![i].step = "FINISH"]
  /\ Unary

(***************************************************************************)
(* Stop: Shutdown takes no new calls and waits for those under way; the    *)
(* objects that wait for a call get it with an error.                      *)
(***************************************************************************)
Waiting(i) == calls[i].step = "START"
Streaming == client.phase \notin {"none", "done"}

StopBegins ==
  /\ server = "running" /\ server' = "stopping"
  /\ calls' = [i \in DOMAIN calls |-> IF Waiting(i) THEN [calls[i] EXCEPT !.step = "FINISH"]
                                      ELSE calls[i]]
  /\ st' = [s \in DOMAIN st |-> IF <<"start", s>> \in ops THEN Release(st, s)[s] ELSE st[s]]
  /\ ops' = {o \in ops : o[1] # "start"}
  /\ UNCHANGED <<config, ctx, handler, client, written, broken>>

StopReturns ==
  /\ server = "stopping" /\ ~Streaming
  /\ \A i \in DOMAIN calls : calls[i].step = "FINISH"
  /\ server' = "stopped"
  /\ UNCHANGED <<config, stream, calls>>

Call(i) ==
  CallExecuted(i) \/ CallWritten(i) \/ CallAnswered(i) \/ CallFinished(i)

Model(s) ==
  \/ \E final, null \in BOOLEAN : Respond(s, final, null)
  \/ Tell(s)

Next ==
  \/ \E s \in DOMAIN st : Process(s) \/ Model(s)
  \/ \E phase \in {"closed", "cancelled"} : ClientLeaves(phase)
  \/ \E i \in DOMAIN calls : Call(i) \/ \E refused \in BOOLEAN : CallArrives(i, refused)
  \/ StopBegins \/ StopReturns

Spec == Init /\ [][Next]_vars

\* The threads of the handlers and of the models run, gRPC completes what it
\* was asked, and the client ends its stream some time.
AllIds == 1..9
FairSpec ==
  /\ Spec
  /\ \A x \in AllIds :
       /\ WF_vars(x \in DOMAIN st /\ Process(x))
       /\ WF_vars(x \in DOMAIN st /\ Model(x))
       /\ WF_vars(x \in DOMAIN calls /\ Call(x))
  /\ WF_vars(ClientLeaves("closed")) /\ WF_vars(StopReturns)

----------------------------------------------------------------------------
\* The responses of models that answer once are sent in the order in which the
\* requests were read, whatever the order in which the models answer, and at
\* most one write goes on: "GRPC doesn't allow to issue another write till the
\* notification from previous write has been delivered."  (In a stream with
\* both kinds of models two writes may go on: OneWrite is about the others.)
ResponsesInOrder ==
  \A i, j \in DOMAIN written :
    /\ i < j
    /\ ~st[written[i]].decoupled /\ ~st[written[j]].decoupled
    => written[i] < written[j]
OneWrite == Cardinality({o \in ops : o[1] = "write"}) <= 1
InOrderOneByOne == ResponsesInOrder /\ (Scenario.kinds # Kinds => OneWrite)

\* The stream is finished once, as the last thing: every request that was read
\* has had all its responses written, and no read, write or alarm is left.
FinishIsLast ==
  ctx.step = "COMPLETE" /\ ~broken =>
    /\ \A o \in ops : o[1] \in {"finish", "start"}
    /\ Cardinality({o \in ops : o[1] = "finish"}) <= 1
    /\ \A s \in DOMAIN st : st[s].model # "runs" /\ (st[s].decoupled => IsEmpty(st[s]))
    /\ ctx.queue = << >>

\* A stream that the client has ended is finished by the server.
StreamEnds == (client.phase \in {"closed", "cancelled"}) ~> (client.phase = "done" \/ broken)

\* Every call that was accepted is answered, once, every RPC has one object that
\* waits for the next call, and Stop returns.
CallsSound ==
  /\ \A i \in DOMAIN calls : calls[i].finished <= 1
  /\ server = "running" =>
       \A r \in Scenario.rpcs : Cardinality({i \in CallsOf(r) : Waiting(i)}) = 1
CallsAnswered ==
  []CallsSound /\ ((server = "stopping") ~> (server = "stopped" \/ broken))

\* Nobody waits for ever for the front end: neither the client of a stream,
\* nor that of a call, nor the thread that stops the server.
EveryoneAnswered == StreamEnds /\ CallsAnswered

\* "Finish the state if all the transactions associated with the state have
\* completed" (grpc_server.cc:3797): a state whose model has said that it is
\* done, and whose responses are written, is finished.  It holds as long as the
\* last response of a model carries data.
FinishedWhenComplete ==
  \A x \in AllIds :
    (x \in DOMAIN st /\ st[x].model = "done" /\ IsComplete(st[x]))
      ~> (broken \/ (x \in DOMAIN st /\ st[x].step \in {"COMPLETE", "FINISH"}))

=============================================================================
