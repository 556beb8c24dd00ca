--------------------------- MODULE ConnectionLimit ---------------------------
(***************************************************************************)
(* What the pool of src/src/http_client.cpp promises its callers: clients  *)
(* take and give back the connections of one endpoint, of which at most    *)
(* Limit exist at any time, borrowed, being opened or idle                 *)
(* (http_client.h:286-296).                                                *)
(***************************************************************************)
EXTENDS Integers, FiniteSets

CONSTANTS Clients, Limit

VARIABLES borrowed,  \* the clients that own a connection, or are opening one
          spare      \* the number of idle connections

Init == borrowed = {} /\ spare = 0

\* A client takes an idle connection.
Reuse(t) ==
    /\ t \notin borrowed /\ spare > 0
    /\ borrowed' = borrowed \cup {t}
    /\ spare' = spare - 1

\* A client opens a connection; idle ones that are too old may go first.
Open(t) ==
    /\ t \notin borrowed
    /\ spare' \in 0 .. spare
    /\ Cardinality(borrowed) + spare' < Limit
    /\ borrowed' = borrowed \cup {t}

\* A client gives its connection back: kept as an idle one, or closed.
Keep(t) ==
    /\ t \in borrowed
    /\ borrowed' = borrowed \ {t}
    /\ spare' = spare + 1

Close(t) ==
    /\ t \in borrowed
    /\ borrowed' = borrowed \ {t}
    /\ spare' = spare

\* Idle connections are closed.
Evict == spare' \in 0 .. spare /\ UNCHANGED borrowed

Next == Evict \/ \E t \in Clients : Reuse(t) \/ Open(t) \/ Keep(t) \/ Close(t)

Spec == Init /\ [][Next]_<<borrowed, spare>>
=============================================================================
