----------------------------- MODULE ServerMain -----------------------------
(***************************************************************************)
(* The server executable (src/servers/main.cc, signal.cc): it reads the    *)
(* options, creates the server, starts the endpoints, polls the model      *)
(* repository until a signal arrives, stops the server and then the        *)
(* endpoints.  The actions are those of the main thread and of the signal  *)
(* handler; FrontEnds says what they do to the server and the connections. *)
(* Every endpoint is built in (TRITON_ENABLE_HTTP, _GRPC, _SAGEMAKER and   *)
(* _METRICS).                                                              *)
(***************************************************************************)
EXTENDS Integers, Sequences, SequencesExt

VARIABLES
    options,    \* allow: the services allowed; port: where each listens;
                \* range: the safe ports, {} when the option is not set;
                \* poll: the control mode is POLL with a positive interval
    stage,      \* where the main thread is
    running,    \* the services that are started
    bound,      \* service |-> it is the one that listens at its port
    exiting,    \* signal_exiting_
    handler     \* the signal handler: "none", "set" (the flag), "done"

mainVars == <<options, stage, running, bound, exiting, handler>>

StartOrder == <<"grpc", "http", "sagemaker", "metrics">>
StopOrder == <<"http", "grpc", "metrics", "sagemaker">>
Services == Range(StartOrder)

\* 'lines' are the command lines, as what their options say.
MainInit(lines) ==
    /\ options \in lines
    /\ stage = "parse"
    /\ running = <<>>
    /\ bound = [s \in Services |-> FALSE]
    /\ exiting = FALSE
    /\ handler = "none"

\* Two allowed services at one port, or an allowed service other than
\* SageMaker's outside of the safe range.
CheckPortCollision(o) ==
    \/ \E s, t \in o.allow : s # t /\ o.port[s] = o.port[t]
    \/ /\ o.range # {}
       /\ \E s \in o.allow \ {"sagemaker"} : o.port[s] \notin o.range

Parse ==
    /\ stage = "parse"
    /\ stage' = IF CheckPortCollision(options) THEN "failed" ELSE "create"
    /\ UNCHANGED <<options, running, bound, exiting, handler>>

\* exit(1) unless the server is created; then the signals are trapped.
CreateServer(created) ==
    /\ stage = "create"
    /\ stage' = IF created THEN "start" ELSE "failed"
    /\ UNCHANGED <<options, running, bound, exiting, handler>>

\* A service is allowed and not yet started.
ToStart(s) == s \in options.allow /\ ~Contains(running, s)

\* Neither evhtp_bind_socket nor BuildAndStart is asked whether the port was
\* free: the service is started all the same.
StartService ==
    /\ stage = "start"
    /\ \E k \in DOMAIN StartOrder :
         LET s == StartOrder[k] IN
         /\ ToStart(s) /\ \A j \in 1 .. k - 1 : ~ToStart(StartOrder[j])
         /\ running' = Append(running, s)
         /\ bound' = [bound EXCEPT ![s] = \A t \in Range(running) :
                                              bound[t] => options.port[t] # options.port[s]]
    /\ UNCHANGED <<options, stage, exiting, handler>>

Started ==
    /\ stage = "start" /\ \A s \in Services : ~ToStart(s)
    /\ stage' = "check"
    /\ UNCHANGED <<options, running, bound, exiting, handler>>

\* The flag is read without the mutex; the poll, if any, comes before the
\* mutex is taken.
CheckExiting ==
    /\ stage = "check"
    /\ stage' = CASE exiting -> "stop"
                  [] ~exiting /\ options.poll -> "poll"
                  [] OTHER -> "lock"
    /\ UNCHANGED <<options, running, bound, exiting, handler>>

PollModelRepository ==
    /\ stage = "poll"
    /\ stage' = "lock"
    /\ UNCHANGED <<options, running, bound, exiting, handler>>

\* wait_for without a predicate: a flag that is set already is not seen.
WaitFor ==
    /\ stage = "lock"
    /\ stage' = "wait"
    /\ UNCHANGED <<options, running, bound, exiting, handler>>

\* Slip: wait instead of wait_for.
NoTimeout == FALSE /\ UNCHANGED mainVars

Timeout ==
    /\ stage = "wait"
    /\ stage' = "check"
    /\ UNCHANGED <<options, running, bound, exiting, handler>>

\* CommonSignalHandler: the flag is set under the mutex, the notification
\* follows.
SignalArrives ==
    /\ stage \notin {"parse", "create"} /\ ~exiting /\ handler = "none"
    /\ exiting' = TRUE /\ handler' = "set"
    /\ UNCHANGED <<options, stage, running, bound>>

NotifyAll ==
    /\ handler = "set"
    /\ handler' = "done"
    /\ stage' = IF stage = "wait" THEN "check" ELSE stage
    /\ UNCHANGED <<options, running, bound, exiting>>

\* ServerStop marks the server as exiting and unloads the models...
BeginStop ==
    /\ stage = "stop"
    /\ stage' = "stopping"
    /\ UNCHANGED <<options, running, bound, exiting, handler>>

\* ...and returns when nothing is live, or when the timeout has expired: then
\* the process ends at once.
EndStop(quiet) ==
    /\ stage = "stopping"
    /\ stage' = IF quiet THEN "endpoints" ELSE "failed"
    /\ UNCHANGED <<options, running, bound, exiting, handler>>

ToStop == SelectSeq(StopOrder, LAMBDA s : Contains(running, s))

StopService(s) ==
    /\ stage = "endpoints" /\ ToStop # <<>> /\ s = Head(ToStop)
    /\ running' = SelectSeq(running, LAMBDA t : t # s)
    /\ bound' = [bound EXCEPT ![s] = FALSE]
    /\ UNCHANGED <<options, stage, exiting, handler>>

Exit ==
    /\ stage = "endpoints" /\ ToStop = <<>>
    /\ stage' = "exited"
    /\ UNCHANGED <<options, running, bound, exiting, handler>>

Ended == stage \in {"failed", "exited"}

=============================================================================
