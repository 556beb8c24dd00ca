----------------------- MODULE MCHttpConnectionPool -----------------------
(* Instances of HttpConnectionPool for TLC. *)
EXTENDS HttpConnectionPool, TLC

CONSTANTS t1, t2, t3, t4, c1, c2

\* Every task on c1.
OneContext == [t \in Tasks |-> c1]

\* t3 has an io_context of its own.
TwoContexts == [t \in Tasks |-> IF t = t3 THEN c2 ELSE c1]

One == [t \in Tasks |-> 1]
Two == [t \in Tasks |-> 2]

\* t2 allows itself one connection more than the others.
Mixed == [t \in Tasks |-> IF t = t2 THEN 2 ELSE 1]

\* t1 allows itself one connection less than the others.
LowFirst == [t \in Tasks |-> IF t = t1 THEN 1 ELSE 2]

\* t3 comes back for a second request.
ThirdTwice == [t \in Tasks |-> IF t = t3 THEN 2 ELSE 1]

\* t1 comes back for a second request.
FirstTwice == [t \in Tasks |-> IF t = t1 THEN 2 ELSE 1]
=============================================================================
