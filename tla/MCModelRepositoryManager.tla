--------------------- MODULE MCModelRepositoryManager ---------------------
(* Repositories for checking ModelRepositoryManager with TLC.              *)
EXTENDS ModelRepositoryManager, TLC

All == [kind |-> "all"]
Latest == [kind |-> "latest", n |-> 1]
Dir(versions, policy, steps) ==
  [versions |-> versions, policy |-> policy, steps |-> steps, valid |-> TRUE,
   fits |-> TRUE, copies |-> 1, initial |-> FALSE]
First(c) == [c EXCEPT !.initial = TRUE]

\* One model with versions that come and go, polled; the server stops.
Versions12 ==
  [contents |-> "m" :> {First(Dir({1}, All, {})), Dir({1, 2}, All, {}), Dir({2, 3}, Latest, {})},
   present |-> {"m"}, explicit |-> FALSE, requests |-> {1}, loadFails |-> {"m"},
   edits |-> 2, operations |-> 3, outages |-> TRUE, probes |-> "no",
   timeout |-> 1, stops |-> TRUE]

\* An ensemble on a model, and an ensemble on that ensemble, polled.
Chain ==
  [contents |-> ("a" :> {First(Dir({1}, All, {})), Dir({2}, All, {}),
                         [Dir({1}, All, {}) EXCEPT !.copies = 2]})
             @@ ("e" :> {First(Dir({1}, All, {<<"a", 1>>})),
                         [Dir({1}, All, {<<"a", -1>>}) EXCEPT !.valid = FALSE]})
             @@ ("f" :> {First(Dir({1}, All, {<<"e", -1>>, <<"a", -1>>}))}),
   present |-> {"a", "e", "f"}, explicit |-> FALSE, requests |-> {}, loadFails |-> {"a"},
   edits |-> 2, operations |-> 3, outages |-> FALSE, probes |-> "no",
   timeout |-> 1, stops |-> FALSE]

\* The same by request.
ByRequest ==
  [Chain EXCEPT !.contents = ("a" :> {First(Dir({1}, All, {}))})
                          @@ ("e" :> {First(Dir({1}, All, {<<"a", 1>>}))})
                          @@ ("f" :> {First(Dir({1}, All, {<<"e", -1>>}))}),
                !.explicit = TRUE, !.edits = 1, !.operations = 3, !.outages = TRUE]

\* Two ensembles that need each other.
Cycle ==
  [Chain EXCEPT !.contents = ("e" :> {First(Dir({1}, All, {<<"f", -1>>}))})
                          @@ ("f" :> {First(Dir({1}, All, {<<"e", -1>>})), Dir({1}, All, {})}),
                !.present = {"e", "f"}, !.loadFails = {}]

\* A request to load meets the end of the server.
Stopping ==
  [Versions12 EXCEPT !.contents = "m" :> {First(Dir({1, 2}, All, {}))},
                     !.explicit = TRUE, !.edits = 0, !.operations = 2,
                     !.probes = "idle"]

\* A model that is not there is needed by two ensembles, one of which is
\* rewired.
Rewired ==
  [Chain EXCEPT !.contents = ("a" :> {First(Dir({1}, All, {}))})
                          @@ ("b" :> {First(Dir({1}, All, {}))})
                          @@ ("e" :> {First(Dir({1}, All, {<<"b", -1>>}))})
                          @@ ("f" :> {First(Dir({1}, All, {<<"a", -1>>})),
                                      Dir({1}, All, {<<"b", -1>>})}),
                !.present = {"a", "e", "f"}, !.loadFails = {}]

\* Models are looked at while one is loaded again.
Probed ==
  [Versions12 EXCEPT !.contents = "m" :> {First(Dir({1}, All, {}))}, !.explicit = TRUE,
                     !.edits = 0, !.operations = 1, !.probes = "any", !.stops = FALSE]

\* Two ensembles that need each other, downstream of a third.
BelowCycle ==
  [Chain EXCEPT !.contents = ("d" :> {First(Dir({1}, All, {<<"a", -1>>}))})
                          @@ ("a" :> {First(Dir({1}, All, {}))})
                          @@ ("e" :> {First(Dir({1}, All, {<<"d", -1>>, <<"f", -1>>}))})
                          @@ ("f" :> {First(Dir({1}, All, {<<"e", -1>>}))}),
                !.present = {"a", "d", "e", "f"}, !.loadFails = {}]

Checked == [versions |-> Versions12, chain |-> Chain, request |-> ByRequest,
            cycle |-> Cycle, stopping |-> Stopping]
=============================================================================
