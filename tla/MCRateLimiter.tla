--------------------------- MODULE MCRateLimiter ---------------------------
(* Settings for checking RateLimiter with TLC.                             *)
EXTENDS RateLimiter, TLC

Want(model, index) == [model |-> model, index |-> index]

\* Model A has two instances, B one; all of them compete for resource R, of
\* which the largest need of an instance is the limit, and B also needs S.
Competing ==
  [instances |-> "A" :> <<1, 2>> @@ "B" :> <<3>>,
   priority |-> <<1, 2, 2>>, resources |-> {"R", "S"},
   need |-> << "R" :> 1 @@ "S" :> 0, "R" :> 2 @@ "S" :> 0,
               "R" :> 1 @@ "S" :> 1 >>,
   wants |-> <<Want("A", -1), Want("A", 0), Want("B", -1)>>,
   ignore |-> FALSE, preloaded |-> {"A", "B"}, mayRemove |-> {}]

\* One model with two instances that need one unit of R each; the limiter
\* ignores resources.
Ignoring ==
  [instances |-> "A" :> <<1, 2>>, priority |-> <<1, 1>>, resources |-> {"R"},
   need |-> << "R" :> 1, "R" :> 1 >>,
   wants |-> <<Want("A", -1), Want("A", 1), Want("A", -1)>>,
   ignore |-> TRUE, preloaded |-> {"A"}, mayRemove |-> {}]

\* The same model is added and removed under requests, one of them for an
\* instance that does not exist.
Removing ==
  [Ignoring EXCEPT !.ignore = FALSE, !.preloaded = {}, !.mayRemove = {"A"},
     !.wants = <<Want("A", -1), Want("A", 1), Want("A", 2)>>]

AllSettings ==
  [competing |-> Competing, ignoring |-> Ignoring, removing |-> Removing]

\* One instance, two requests for it, and a removal.
OneInstance ==
  [one |-> [instances |-> "A" :> <<1>>, priority |-> <<1>>,
     resources |-> {"R"}, need |-> << "R" :> 1 >>,
     wants |-> <<Want("A", -1), Want("A", -1)>>,
     ignore |-> FALSE, preloaded |-> {"A"}, mayRemove |-> {"A"}]]
=============================================================================
