--------------------------- MODULE SequencePlans ---------------------------
(* Requests that the clients of a stateful model send, for TLC.            *)
EXTENDS Naturals, Sequences

LOCAL Flags(start, end) == [start |-> start, end |-> end, shape |-> 1]
S == Flags(TRUE, FALSE)    \* START
C == Flags(FALSE, FALSE)   \* neither START nor END
E == Flags(FALSE, TRUE)    \* END
SE == Flags(TRUE, TRUE)    \* START and END
Wide(flags) == [flags EXCEPT !.shape = 2]

\* Slots of batchers that have the same number of them.
SlotsOf(batchers, count) == (0..batchers - 1) \X (0..count - 1)
=============================================================================
