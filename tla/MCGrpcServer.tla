---------------------------- MODULE MCGrpcServer ----------------------------
(* Clients and models for checking GrpcServer with TLC.                    *)
EXTENDS GrpcServer, TLC

\* Three requests to models that answer once, in any order.
Ordered ==
  [requests |-> 3, kinds |-> {"single"}, responses |-> 1, emptyFinal |-> FALSE,
   cancels |-> TRUE, refuses |-> TRUE, rpcs |-> {}, calls |-> 0]

\* Two requests to models that answer several times.
Decoupled ==
  [Ordered EXCEPT !.requests = 2, !.kinds = {"decoupled"}, !.responses = 2]

\* The same, with responses that are only a final flag.
Flagged == [Decoupled EXCEPT !.emptyFinal = TRUE, !.requests = 1]

Mixed == [Decoupled EXCEPT !.kinds = Kinds]

\* Unary calls and a short stream, when the server stops.
Calls ==
  [Ordered EXCEPT !.requests = 1, !.rpcs = Rpcs, !.calls = 1, !.cancels = FALSE]

Checked == [ordered |-> Ordered, decoupled |-> Decoupled, mixed |-> Mixed, calls |-> Calls]
Hanging == [flagged |-> Flagged]
=============================================================================
