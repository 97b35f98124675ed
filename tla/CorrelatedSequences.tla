------------------------ MODULE CorrelatedSequences ------------------------
(***************************************************************************)
(* What the sequence batcher promises to the clients of a stateful model:  *)
(* the requests that a client admits under one correlation ID, from the    *)
(* first one to the one that ends the sequence, are run in the order in    *)
(* which they were admitted, each told to the model under that ID, all in  *)
(* one slot, and no other sequence runs in that slot in between.           *)
(*                                                                         *)
(* A request is <<correlation ID, number>>; a session is named by its      *)
(* first request.                                                          *)
(***************************************************************************)
EXTENDS Naturals

CONSTANTS Cids, Slots, Requests, None

Start(flags, r) == flags[r].start
End(flags, r) == flags[r].end

VARIABLES
  flags,      \* request -> its START and END flags: fixed at the start
  sessionOf,  \* request -> the session it was admitted to, or None
  refused,    \* the requests answered with an error
  open,       \* correlation ID -> the session that still takes requests, or None
  ran,        \* the requests handed to the model
  last        \* slot -> the session that last ran there, or None

vars == <<flags, sessionOf, refused, open, ran, last>>

Init ==
  /\ flags \in [Requests -> [start : BOOLEAN, end : BOOLEAN]]
  /\ sessionOf = [r \in Requests |-> None]
  /\ refused = {} /\ ran = {}
  /\ open = [c \in Cids |-> None]
  /\ last = [s \in Slots |-> None]

\* Requests of an ID are offered in the order of their numbers.
Offered(r) ==
  /\ sessionOf[r] = None /\ r \notin refused
  /\ \A q \in Requests : q[1] = r[1] /\ q[2] < r[2] =>
       sessionOf[q] # None \/ q \in refused

Admitted(r, session) ==
  /\ sessionOf' = [sessionOf EXCEPT ![r] = session]
  /\ open' = [open EXCEPT ![r[1]] = IF End(flags, r) THEN None ELSE session]
  /\ UNCHANGED <<flags, refused, ran, last>>

Begin(r) ==
  Offered(r) /\ Start(flags, r) /\ open[r[1]] = None /\ Admitted(r, r)

\* A START in an open session continues it.
Continue(r) ==
  Offered(r) /\ open[r[1]] # None /\ Admitted(r, open[r[1]])

Refuse(r) ==
  /\ Offered(r) /\ ~Start(flags, r) /\ open[r[1]] = None
  /\ refused' = refused \cup {r}
  /\ UNCHANGED <<flags, sessionOf, open, ran, last>>

\* Sessions that have been idle for too long.
Expire(cids) ==
  /\ open' = [c \in Cids |-> IF c \in cids THEN None ELSE open[c]]
  /\ UNCHANGED <<flags, sessionOf, refused, ran, last>>

\* Request r may be the next one to run in slot s.
IsNext(s, r) ==
  /\ sessionOf[r] # None /\ r \notin ran
  /\ \A q \in Requests :
       sessionOf[q] = sessionOf[r] /\ q[2] < r[2] => q \in ran
  /\ r # sessionOf[r] => last[s] = sessionOf[r]

Runnable == {r \in Requests : \E s \in Slots : IsNext(s, r)}

\* A batch holds at most one request for each slot.
RunBatch(batch, slot) ==
  /\ ran' = ran \cup batch
  /\ \A r \in batch : IsNext(slot[r], r)
  /\ \A q, r \in batch : slot[q] = slot[r] => q = r
  /\ last' = [s \in Slots |->
                IF \E r \in batch : slot[r] = s
                THEN sessionOf[CHOOSE r \in batch : slot[r] = s]
                ELSE last[s]]
  /\ UNCHANGED <<flags, sessionOf, refused, open>>

Next ==
  \/ \E r \in Requests : Begin(r) \/ Continue(r) \/ Refuse(r)
  \/ \E cids \in SUBSET Cids : Expire(cids)
  \/ \E batch \in SUBSET Runnable : \E slot \in [batch -> Slots] :
       RunBatch(batch, slot)

Spec == Init /\ [][Next]_vars
=============================================================================
