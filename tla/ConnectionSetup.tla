---------------------------- MODULE ConnectionSetup ----------------------------
(***************************************************************************)
(* How a connection comes about: createConnection() of the HTTP client      *)
(* (src/src/http_client.cpp) and wsConnect() (src/src/ws_client.cpp).  Both *)
(* resolve the name, connect, and shake hands under one deadline.           *)
(*                                                                         *)
(* getaddrinfo() cannot be interrupted: it runs in a coroutine of its own,  *)
(* with which the caller shares a DnsResolveState that it polls, and which  *)
(* may finish, on another thread, long after the caller gave up, or never.  *)
(*                                                                         *)
(* now is the time since the call; a timer fires when it is due.  Once the  *)
(* call is over, neither time nor the kind of the stream matter any more,   *)
(* and now, limit and tls are reset.                                        *)
(***************************************************************************)
EXTENDS Integers, Sequences

CONSTANTS
    ConnectTimeout,  \* RequestConfig, WsClientConfig::connectTimeout
    PollInterval,    \* of the look-up, 100 ms
    HttpFloor,       \* what a phase of createConnection gets after the deadline: 1 s
    WsFloor          \* the same of wsConnect: 1 ms, less than the unit of time

ASSUME SetupAssumption ==
    /\ ConnectTimeout \in Nat /\ PollInterval \in Nat \ {0}
    /\ HttpFloor \in Nat /\ WsFloor \in Nat

VARIABLES
    ws,      \* wsConnect, or createConnection
    tls,     \* wss or https
    phase,   \* "url", "dns", then a phase of todo, then "connected", "failed" or "cancelled"
    todo,    \* the phases after this one
    now,
    limit,   \* when the timer of this await is due
    lost,    \* the timer of this await fired in vain
    lookup   \* DnsResolveState: [result, done]

setupVars == <<ws, tls, phase, todo, now, limit, lost, lookup>>

Plan == IF tls THEN IF ws THEN <<"tcp", "tls", "ws">> ELSE <<"tcp", "tls">>
               ELSE IF ws THEN <<"tcp", "ws">> ELSE <<"tcp">>
Outcomes == {"connected", "failed", "cancelled"}
Handshakes == {"tcp", "tls", "ws"}
Floor == IF ws THEN WsFloor ELSE HttpFloor
Deadline == ConnectTimeout

\* The end of the last poll that begins before the deadline.
LastPoll == Deadline + PollInterval

SetupTypeOK ==
    /\ ws \in BOOLEAN /\ tls \in BOOLEAN /\ lost \in BOOLEAN
    /\ phase \in {"url", "dns"} \cup Handshakes \cup Outcomes
    /\ todo \in UNION {[1 .. n -> Handshakes] : n \in 0 .. 3}
    /\ now \in 0 .. LastPoll + 3 * Floor /\ limit \in 0 .. LastPoll + 3 * Floor
    /\ lookup \in [result : {"none", "endpoints", "error"}, done : BOOLEAN]

SetupInit ==
    /\ ws \in BOOLEAN /\ tls \in BOOLEAN
    /\ phase = IF ws THEN "url" ELSE "dns"
    /\ todo = Plan
    /\ now = 0 /\ limit = 0 /\ lost = FALSE
    /\ lookup = [result |-> "none", done |-> FALSE]

-----------------------------------------------------------------------------
Ends(outcome) ==
    /\ phase' = outcome /\ todo' = <<>> /\ now' = 0 /\ limit' = 0
    /\ tls' = FALSE /\ lost' = FALSE
    /\ UNCHANGED <<ws, lookup>>

\* A bug: each phase has the whole of connectTimeout.
remainingAfresh == ConnectTimeout

remainingMs == IF now >= Deadline THEN Floor ELSE Deadline - now

\* The next phase begins with what is left of the time; after the last the client exists.
Proceed ==
    IF todo = <<>> THEN Ends("connected")
    ELSE /\ phase' = Head(todo) /\ todo' = Tail(todo)
         /\ limit' = now + remainingMs /\ lost' = FALSE
         /\ UNCHANGED <<ws, tls, now, lookup>>

\* wsConnect takes the URL apart: no scheme, host or port of a ws URL, no connection.
ParseUrl ==
    /\ phase = "url"
    /\ \/ phase' = "dns" /\ UNCHANGED <<ws, tls, todo, now, limit, lost, lookup>>
       \/ Ends("failed")

\* waitDnsResolve: a turn of its loop.
Poll ==
    /\ phase = "dns" /\ now = limit
    /\ IF ~lookup.done
       THEN IF now >= Deadline THEN Ends("failed")
            ELSE /\ limit' = now + PollInterval
                 /\ UNCHANGED <<ws, tls, phase, todo, now, lost, lookup>>
       ELSE IF lookup.result = "error" THEN Ends("failed") ELSE Proceed

\* async_connect and the handshakes.
PhaseDone == phase \in Handshakes /\ Proceed
PhaseFails == phase \in Handshakes /\ Ends("failed")

\* cancel_after: asio reports it like a cancellation, and what the helper around the
\* phases, which is not in this repository, makes of it is left open.
PhaseTimesOut ==
    /\ phase \in Handshakes /\ now = limit /\ ~lost
    /\ Ends("failed") \/ Ends("cancelled")

\* Over an ssl::stream the cancellation may go astray (http_client.cpp:65): the timer
\* has fired and the operation waits on.  From here its time is not counted.
CancellationLost ==
    /\ tls /\ phase \in {"tls", "ws"} /\ now = limit /\ ~lost
    /\ lost' = TRUE
    /\ UNCHANGED <<ws, tls, phase, todo, now, limit, lookup>>

\* Beast's own handshake timer, which configureStream leaves at 30 s, closes the socket.
HandshakeTimesOut == lost /\ phase = "ws" /\ Ends("failed")

\* The caller cancels while the call awaits something.
CancelSetup == phase \in {"dns"} \cup Handshakes /\ Ends("cancelled")

Looking == phase # "url"

\* A bug: done is set before the results are there.
DoneFirst ==
    /\ Looking /\ ~lookup.done
    /\ lookup' = [lookup EXCEPT !.done = TRUE]
    /\ UNCHANGED <<ws, tls, phase, todo, now, limit, lost>>

\* startDnsResolve: getaddrinfo() returns and its results are stored ...
Resolved ==
    /\ Looking /\ lookup.result = "none"
    /\ \E r \in {"endpoints", "error"} : lookup' = [lookup EXCEPT !.result = r]
    /\ UNCHANGED <<ws, tls, phase, todo, now, limit, lost>>

\* ... and done is set, with release semantics.
ResolveDone ==
    /\ Looking /\ lookup.result # "none" /\ ~lookup.done
    /\ lookup' = [lookup EXCEPT !.done = TRUE]
    /\ UNCHANGED <<ws, tls, phase, todo, now, limit, lost>>

\* Time does not pass a timer that is due.
Tick ==
    /\ phase \in {"dns"} \cup Handshakes /\ now < limit
    /\ now' = now + 1
    /\ UNCHANGED <<ws, tls, phase, todo, limit, lost, lookup>>

SetupNext ==
    \/ ParseUrl \/ Poll \/ PhaseDone \/ PhaseFails
    \/ PhaseTimesOut \/ CancellationLost \/ HandshakeTimesOut \/ CancelSetup
    \/ Resolved \/ ResolveDone \/ Tick

SetupSpec == SetupInit /\ [][SetupNext]_setupVars

-----------------------------------------------------------------------------
(* Properties *)

\* The header has the three phases share one deadline that is "exactly" the worst total
\* (http_client.h:62).  They do not: a poll and every late phase's floor go beyond it.
TotalInTime == ~ws /\ phase \notin Outcomes => now <= ConnectTimeout

\* How far the set-up goes beyond connectTimeout: by a poll, and by the floor of each
\* phase that begins late.  Three phases never take three times as long.
OverrunBounded ==
    /\ phase = "dns" => now < LastPoll
    /\ phase \in Handshakes =>
         now < LastPoll + Floor * (IF phase = "tcp" THEN 1 ELSE IF phase = "tls" THEN 2 ELSE 3)

\* No phase begins, and no client exists, on a look-up that has not finished with
\* endpoints, whichever thread it runs on and however late it is.
NeedsEndpoints ==
    phase \in Handshakes \cup {"connected"} => lookup = [result |-> "endpoints", done |-> TRUE]
=============================================================================
