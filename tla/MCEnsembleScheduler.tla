------------------------ MODULE MCEnsembleScheduler ------------------------
(* Ensembles for checking EnsembleScheduler with TLC.                      *)
EXTENDS EnsembleScheduler

Takes(in, out) == [in |-> in, out |-> out]

\* One step, two that use its output side by side, one that joins them.
Diamond ==
  [steps |-> <<Takes({"image"}, {"pre"}), Takes({"pre"}, {"class"}),
               Takes({"pre"}, {"mask"}), Takes({"class", "mask"}, {"out"})>>,
   inputs |-> {"image"}, outputs |-> {"out"}, requested |-> {"out"},
   decoupled |-> FALSE, maxResponses |-> 1, faults |-> {}]

\* The same without the join at its end: two results, of which one may be
\* asked for.
Halves ==
  [Diamond EXCEPT !.steps = SubSeq(@, 1, 3), !.outputs = {"class", "mask"},
                  !.requested = {"mask"}]

\* Anything may fail.
Failing ==
  [Diamond EXCEPT !.faults = {"handle", "init", "refuse", "model", "alloc"}]

\* Of two outputs one is requested: the second step is pruned, the last one
\* is not, as one of its outputs is an input of the third.
Pruning ==
  [Diamond EXCEPT
     !.steps = <<Takes({"image"}, {"pre", "size"}), Takes({"size"}, {"mask"}),
                 Takes({"pre"}, {"class", "score"}), Takes({"score"}, {"out"})>>,
     !.outputs = {"mask", "class", "out"}, !.requested = {"class", "out"}]

\* The ensemble of the documentation: two results from one preprocessing, whose
\* own result is asked for as well.
Fork ==
  [Diamond EXCEPT
     !.steps = <<Takes({"image"}, {"pre"}), Takes({"pre"}, {"class"}),
                 Takes({"pre"}, {"mask"})>>,
     !.outputs = {"pre", "class", "mask"}, !.requested = {"pre", "class", "mask"}]

\* Requests for part of it, which pruning leaves without what they need.
ForkClass == [Fork EXCEPT !.requested = {"class"}]
ForkPre == [Fork EXCEPT !.requested = {"pre"}]

\* Two chains with an input each.  If one result is asked for, pruning the
\* other chain takes the first step away, too.
Chains ==
  [Diamond EXCEPT
     !.steps = <<Takes({"image"}, {"class"}), Takes({"text"}, {"words"})>>,
     !.inputs = {"image", "text"}, !.outputs = {"class", "words"},
     !.requested = {"class", "words"}]
ChainsClass == [Chains EXCEPT !.requested = {"class"}]

\* A model that sends several responses, in a chain.
Stream ==
  [Diamond EXCEPT
     !.steps = <<Takes({"image"}, {"pre"}), Takes({"pre"}, {"out"})>>,
     !.decoupled = TRUE, !.maxResponses = 2, !.faults = {"model"}]

Checked ==
  [fork |-> Fork, forkClass |-> ForkClass, forkPre |-> ForkPre,
   chains |-> Chains, chainsClass |-> ChainsClass, halves |-> Halves,
   diamond |-> Diamond, failing |-> Failing, pruning |-> Pruning,
   stream |-> Stream]

\* What section 8 of the README describes, for NoSpuriousError.
Pruned == [forkClass |-> ForkClass]
Reordered == [diamond |-> Diamond]

=============================================================================
