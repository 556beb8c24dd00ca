------------------------------ MODULE HttpServer ------------------------------
(***************************************************************************)
(* The life of an HttpServer (src/src/http_server.cpp): start() or          *)
(* startAsync(), the accept loop with its count of connections, the         *)
(* coroutines that serve them, and stop(), which any thread or a handler    *)
(* may call at any time.                                                    *)
(*                                                                         *)
(* With start() each worker has an io_context and a thread of its own; the  *)
(* accept loop runs on worker 0.  With startAsync() everything runs on the  *)
(* one executor of the caller, here context 0, which stop() does not stop.  *)
(* One thread runs a context, so its coroutines interleave only at awaits;  *)
(* the steps of the accept loop between two awaits are separate actions     *)
(* because other threads run between them.                                  *)
(***************************************************************************)
EXTENDS Integers, FiniteSets

CONSTANTS
    Clients,         \* the clients 1 .. Clients connect in this order
    Workers,         \* Config::ioThreads
    MaxConnections,  \* Config::maxConnections
    MaxRequests,     \* Config::maxRequestsPerConnection, not 0
    AbortsReported   \* the acceptor reports a client that is gone before it is accepted:
                     \* asio's enable_connection_aborted, off unless it is set

ASSUME ServerAssumption ==
    /\ Clients \in Nat /\ Workers \in Nat \ {0}
    /\ MaxConnections \in Nat /\ MaxRequests \in Nat \ {0}
    /\ AbortsReported \in BOOLEAN

VARIABLES
    mode,       \* "threads": start(); "async": startAsync()
    mainPc,     \* the thread in start()
    stopPc,     \* the thread in stop()
    stopper,    \* the connection whose handler called stop(), or NoConn
    stopped_,
    acceptor_,  \* "none", "open" or "closed"
    toStop,     \* the workers the second loop of stop() goes through
    ctx,        \* [Contexts -> [guard, stopped, thread]]
    loop,       \* the accept loop: "none", "head", "accept", "sleep", "check",
                \* "count", "dispatch" or "done"
    held,       \* the connection the accept loop has in its hands
    activeConnections_,
    nextWorker_,
    conn        \* [Conns -> [st, at, requests, keepAlive, late]]

vars == <<mode, mainPc, stopPc, stopper, toStop, stopped_, acceptor_, ctx, loop, held,
          activeConnections_, nextWorker_, conn>>
mainVars == <<mode, mainPc>>
stopVars == <<stopPc, stopper, toStop>>
loopVars == <<loop, held, nextWorker_>>

Conns == 1 .. Clients
NoConn == 0
Contexts == 0 .. Workers - 1
Phases == {"idle", "checked", "build", "listen", "launch", "join", "returned", "threw"}
Serving == {"queued", "read", "handle", "write"}

(* A connection: st, "away", "backlog", "held" by the accept loop, one of    *)
(* Serving, "closed" or "dropped"; at, its context; requests read; keepAlive, *)
(* of the response; late, responses written after stopped_ was set.          *)
Conn == [st : Serving \cup {"away", "backlog", "held", "closed", "dropped"}, at : Contexts,
         requests : 0 .. MaxRequests, keepAlive : BOOLEAN, late : Nat]

TypeOK ==
    /\ mode \in {"threads", "async"} /\ mainPc \in Phases
    /\ stopPc \in {"idle", "acceptor", "guards", "scan", "contexts", "drain", "done"}
    /\ stopper \in Conns \cup {NoConn} /\ toStop \in SUBSET Contexts
    /\ stopped_ \in BOOLEAN /\ acceptor_ \in {"none", "open", "closed"}
    /\ ctx \in [Contexts -> [guard : BOOLEAN, stopped : BOOLEAN,
                             thread : {"unbuilt", "none", "running", "done"}]]
    /\ loop \in {"none", "head", "accept", "sleep", "check", "count", "dispatch", "done"}
    /\ held \in Conns \cup {NoConn}
    /\ activeConnections_ \in 0 .. Cardinality(Conns) /\ nextWorker_ \in Contexts
    /\ conn \in [Conns -> Conn]

Init ==
    /\ mode \in {"threads", "async"} /\ mainPc = "idle"
    /\ stopPc = "idle" /\ stopper = NoConn /\ toStop = {}
    /\ stopped_ = FALSE /\ acceptor_ = "none"
    /\ ctx = [w \in Contexts |-> [guard |-> FALSE, stopped |-> FALSE, thread |-> "unbuilt"]]
    /\ loop = "none" /\ held = NoConn
    /\ activeConnections_ = 0 /\ nextWorker_ = 0
    /\ conn = [c \in Conns |-> [st |-> "away", at |-> 0, requests |-> 0,
                                keepAlive |-> FALSE, late |-> 0]]

-----------------------------------------------------------------------------
(* start() and startAsync() *)

Start(from, to) == mainPc = from /\ mainPc' = to /\ UNCHANGED <<mode, stopVars>>

StartCheck ==
    /\ Start("idle", IF stopped_ THEN "returned" ELSE "checked")
    /\ UNCHANGED <<stopped_, acceptor_, ctx, loopVars, activeConnections_, conn>>

StartReset ==
    /\ Start("checked", IF mode = "async" THEN "listen" ELSE "build")
    /\ stopped_' = FALSE
    /\ UNCHANGED <<acceptor_, ctx, loopVars, activeConnections_, conn>>

\* workers_ as another thread sees it: the workers built so far, each with its guard.
Built == {w \in Contexts : ctx[w].thread # "unbuilt"}

BuildWorker ==
    /\ Start("build", "build") /\ Built # Contexts
    /\ \E w \in Contexts \ Built :
         /\ \A v \in Contexts \ Built : w <= v
         /\ ctx' = [ctx EXCEPT ![w].guard = TRUE, ![w].thread = "none"]
    /\ UNCHANGED <<stopped_, acceptor_, loopVars, activeConnections_, conn>>

AllBuilt ==
    /\ Start("build", "listen") /\ Built = Contexts
    /\ UNCHANGED <<stopped_, acceptor_, ctx, loopVars, activeConnections_, conn>>

\* Open the acceptor and spawn the accept loop.
Listen ==
    /\ Start("listen", IF mode = "async" THEN "returned" ELSE "launch")
    /\ acceptor_' = "open" /\ loop' = "head"
    /\ UNCHANGED <<stopped_, ctx, held, nextWorker_, activeConnections_, conn>>

\* The address does not resolve, or the port is in use.
ListenFails ==
    /\ Start("listen", "threw")
    /\ UNCHANGED <<stopped_, acceptor_, ctx, loopVars, activeConnections_, conn>>

Launch ==
    /\ Start("launch", "join")
    /\ ctx' = [w \in Contexts |-> [ctx[w] EXCEPT !.thread = "running"]]
    /\ UNCHANGED <<stopped_, acceptor_, loopVars, activeConnections_, conn>>

Join ==
    /\ \A w \in Contexts : ctx[w].thread = "done"
    /\ Start("join", "returned")
    /\ UNCHANGED <<stopped_, acceptor_, ctx, loopVars, activeConnections_, conn>>

-----------------------------------------------------------------------------
(* The threads *)

InLoopStep == loop \in {"check", "count", "dispatch"}
InStop == stopPc \notin {"idle", "done"}

\* The thread of context w is in stop(), called by a handler.
StoppingOn(w) == InStop /\ stopper # NoConn /\ conn[stopper].at = w

\* Context w can run the next handler in its queue.
Runs(w) ==
    /\ IF mode = "async" THEN w = 0 ELSE ctx[w].thread = "running" /\ ~ctx[w].stopped
    /\ ~StoppingOn(w)
    /\ w = 0 => ~InLoopStep

HasWork(w) ==
    \/ ctx[w].guard
    \/ \E c \in Conns : conn[c].st \in Serving /\ conn[c].at = w
    \/ w = 0 /\ loop \notin {"none", "done"}

\* io_context::run() returns: stopped, or out of work.
ThreadDone(w) ==
    /\ ctx[w].thread = "running" /\ ~StoppingOn(w) /\ ~(w = 0 /\ InLoopStep)
    /\ ctx[w].stopped \/ ~HasWork(w)
    /\ ctx' = [ctx EXCEPT ![w].thread = "done"]
    /\ UNCHANGED <<mainVars, stopVars, stopped_, acceptor_, loopVars, activeConnections_, conn>>

-----------------------------------------------------------------------------
(* stop() *)

\* A bug: a server that does not listen (yet) is left alone.
StopBeginListening(s) ==
    /\ stopPc = "idle"
    /\ s # NoConn => conn[s].st = "handle" /\ Runs(conn[s].at)
    /\ stopper' = s /\ stopped_' = TRUE
    /\ stopPc' = IF stopped_ \/ acceptor_ # "open" THEN "done" ELSE "acceptor"
    /\ UNCHANGED <<mainVars, toStop, acceptor_, ctx, loopVars, activeConnections_, conn>>

StopBegin(s) ==
    /\ stopPc = "idle"
    /\ s # NoConn => conn[s].st = "handle" /\ Runs(conn[s].at)
    /\ stopper' = s /\ stopped_' = TRUE
    /\ stopPc' = IF stopped_ THEN "done" ELSE "acceptor"
    /\ UNCHANGED <<mainVars, toStop, acceptor_, ctx, loopVars, activeConnections_, conn>>

StopAcceptor ==
    /\ stopPc = "acceptor" /\ stopPc' = "guards"
    /\ acceptor_' = IF acceptor_ = "open" THEN "closed" ELSE acceptor_
    /\ UNCHANGED <<mainVars, stopper, toStop, stopped_, ctx, loopVars, activeConnections_, conn>>

\* workers_ is empty with startAsync().  start() may be building it on its own thread,
\* and each of the two loops takes the workers that are there when it begins.
StopGuards ==
    /\ stopPc = "guards" /\ stopPc' = "scan"
    /\ ctx' = [w \in Contexts |-> [ctx[w] EXCEPT !.guard = FALSE]]
    /\ UNCHANGED <<mainVars, stopper, toStop, stopped_, acceptor_, loopVars,
                   activeConnections_, conn>>

StopScan ==
    /\ stopPc = "scan" /\ stopPc' = "contexts"
    /\ toStop' = Built
    /\ UNCHANGED <<mainVars, stopper, stopped_, acceptor_, ctx, loopVars,
                   activeConnections_, conn>>

StopContext ==
    /\ stopPc = "contexts"
    /\ IF toStop = {} THEN stopPc' = "drain" /\ UNCHANGED <<toStop, ctx>>
       ELSE /\ UNCHANGED stopPc
            /\ \E w \in toStop : /\ \A v \in toStop : w <= v
                                 /\ toStop' = toStop \ {w}
                                 /\ ctx' = [ctx EXCEPT ![w].stopped = TRUE]
    /\ UNCHANGED <<mainVars, stopper, stopped_, acceptor_, loopVars, activeConnections_, conn>>

\* No connection is active, or the 500 polls of 2 ms are over.
StopDrain ==
    /\ stopPc = "drain" /\ stopPc' = "done"
    /\ UNCHANGED <<mainVars, stopper, toStop, stopped_, acceptor_, ctx, loopVars,
                   activeConnections_, conn>>

-----------------------------------------------------------------------------
(* acceptLoop() and acceptLoopAsync() *)

Connect(c) ==
    /\ conn[c].st = "away" /\ \A d \in 1 .. c - 1 : conn[d].st # "away"
    /\ acceptor_ = "open"
    /\ conn' = [conn EXCEPT ![c].st = "backlog"]
    /\ UNCHANGED <<mainVars, stopVars, stopped_, acceptor_, ctx, loopVars, activeConnections_>>

LoopHead ==
    /\ loop = "head" /\ Runs(0)
    /\ loop' = IF stopped_ THEN "done" ELSE "accept"
    /\ UNCHANGED <<mainVars, stopVars, stopped_, acceptor_, ctx, held, nextWorker_,
                   activeConnections_, conn>>

AcceptDone(c) ==
    /\ loop = "accept" /\ Runs(0) /\ acceptor_ = "open"
    /\ conn[c].st = "backlog" /\ \A d \in 1 .. c - 1 : conn[d].st # "backlog"
    /\ held' = c /\ loop' = "check"
    /\ conn' = [conn EXCEPT ![c].st = "held"]
    /\ UNCHANGED <<mainVars, stopVars, stopped_, acceptor_, ctx, nextWorker_, activeConnections_>>

\* A bug: any error ends the loop.
AcceptFailEndsLoop ==
    /\ loop = "accept" /\ Runs(0)
    /\ loop' = "done"
    /\ UNCHANGED <<mainVars, stopVars, stopped_, acceptor_, ctx, held, nextWorker_,
                   activeConnections_, conn>>

\* operation_aborted when stop() closed the acceptor under the wait, and connection_aborted
\* if the acceptor reports that, end the loop; another error, say too many open files or
\* an acceptor closed before, makes it sleep and retry.
AcceptFail ==
    /\ loop = "accept" /\ Runs(0)
    /\ loop' \in {"sleep"} \cup (IF acceptor_ = "closed" \/ AbortsReported
                               THEN {"done"} ELSE {})
    /\ UNCHANGED <<mainVars, stopVars, stopped_, acceptor_, ctx, held, nextWorker_,
                   activeConnections_, conn>>

Retry ==
    /\ loop = "sleep" /\ Runs(0)
    /\ loop' = IF stopped_ THEN "done" ELSE "head"
    /\ UNCHANGED <<mainVars, stopVars, stopped_, acceptor_, ctx, held, nextWorker_,
                   activeConnections_, conn>>

LoopOver == held' = NoConn /\ loop' = IF stopped_ THEN "done" ELSE "head"

CheckLimit ==
    /\ loop = "check"
    /\ IF activeConnections_ >= MaxConnections
       THEN LoopOver /\ conn' = [conn EXCEPT ![held].st = "dropped"]
       ELSE loop' = "count" /\ UNCHANGED <<held, conn>>
    /\ UNCHANGED <<mainVars, stopVars, stopped_, acceptor_, ctx, nextWorker_, activeConnections_>>

Spawn(w) == /\ LoopOver
            /\ conn' = [conn EXCEPT ![held].st = "queued", ![held].at = w]

\* fetch_add; startAsync spawns at once, start() picks a worker.
Count ==
    /\ loop = "count"
    /\ activeConnections_' = activeConnections_ + 1
    /\ IF mode = "async" THEN Spawn(0) ELSE loop' = "dispatch" /\ UNCHANGED <<held, conn>>
    /\ UNCHANGED <<mainVars, stopVars, stopped_, acceptor_, ctx, nextWorker_>>

\* A bug: the count is not taken back when the acceptor is closed.
DispatchLeaks ==
    /\ loop = "dispatch"
    /\ nextWorker_' = (nextWorker_ + 1) % Workers
    /\ IF acceptor_ = "closed"
       THEN LoopOver /\ conn' = [conn EXCEPT ![held].st = "dropped"]
       ELSE Spawn(nextWorker_)
    /\ UNCHANGED <<mainVars, stopVars, stopped_, acceptor_, ctx, activeConnections_>>

\* A bug: the modulus is left out.
DispatchUnwrapped ==
    /\ loop = "dispatch"
    /\ nextWorker_' = nextWorker_ + 1
    /\ IF acceptor_ = "closed"
       THEN /\ LoopOver /\ conn' = [conn EXCEPT ![held].st = "dropped"]
            /\ activeConnections_' = activeConnections_ - 1
       ELSE Spawn(nextWorker_) /\ UNCHANGED activeConnections_
    /\ UNCHANGED <<mainVars, stopVars, stopped_, acceptor_, ctx>>

\* stop() may have closed the acceptor since: local_endpoint() fails.
Dispatch ==
    /\ loop = "dispatch"
    /\ nextWorker_' = (nextWorker_ + 1) % Workers
    /\ IF acceptor_ = "closed"
       THEN /\ LoopOver /\ conn' = [conn EXCEPT ![held].st = "dropped"]
            /\ activeConnections_' = activeConnections_ - 1
       ELSE Spawn(nextWorker_) /\ UNCHANGED activeConnections_
    /\ UNCHANGED <<mainVars, stopVars, stopped_, acceptor_, ctx>>

-----------------------------------------------------------------------------
(* serveTcp() and serve() *)

At(c, st) == conn[c].st = st /\ Runs(conn[c].at)
Goes(c, st) == conn' = [conn EXCEPT ![c].st = st] /\ UNCHANGED activeConnections_

Closed(r) == [st |-> "closed", at |-> 0, requests |-> 0, keepAlive |-> FALSE, late |-> r.late]

\* The coroutine ends, by return or exception: ~ConnectionGuard.
Ends(c) == /\ conn' = [conn EXCEPT ![c] = Closed(@)]
           /\ activeConnections_' = activeConnections_ - 1

ServeBegin(c) ==
    /\ At(c, "queued") /\ Goes(c, "read")
    /\ UNCHANGED <<mainVars, stopVars, stopped_, acceptor_, ctx, loopVars>>

ReadRequest(c) ==
    /\ At(c, "read")
    /\ conn' = [conn EXCEPT ![c].st = "handle", ![c].requests = @ + 1]
    /\ UNCHANGED <<mainVars, stopVars, stopped_, acceptor_, ctx, loopVars, activeConnections_>>

\* No request in time, the client has closed, or the request is refused.
ReadFails(c) ==
    /\ At(c, "read") /\ Ends(c)
    /\ UNCHANGED <<mainVars, stopVars, stopped_, acceptor_, ctx, loopVars>>

\* An SSE or WebSocket route, or a cancelled handler: no response follows.
HandlerEnds(c) ==
    /\ At(c, "handle") /\ Ends(c)
    /\ UNCHANGED <<mainVars, stopVars, stopped_, acceptor_, ctx, loopVars>>

Respond(c) ==
    /\ At(c, "handle")
    /\ \E k \in BOOLEAN : conn' = [conn EXCEPT ![c].st = "write",
                                               ![c].keepAlive = k /\ ~stopped_]
    /\ UNCHANGED <<mainVars, stopVars, stopped_, acceptor_, ctx, loopVars, activeConnections_>>

\* A bug: stopped_ is read only when the response is built.
AgainOnceBuilt(c) == conn[c].keepAlive /\ conn[c].requests < MaxRequests

\* The condition of the loop and the limit at its head.
Again(c) == conn[c].keepAlive /\ ~stopped_ /\ conn[c].requests < MaxRequests

Written(c) ==
    /\ At(c, "write")
    /\ LET late == conn[c].late + (IF stopped_ THEN 1 ELSE 0)
           sent == [conn[c] EXCEPT !.st = "read", !.keepAlive = FALSE, !.late = late]
       IN  IF Again(c) THEN conn' = [conn EXCEPT ![c] = sent] /\ UNCHANGED activeConnections_
           ELSE /\ conn' = [conn EXCEPT ![c] = Closed(sent)]
                /\ activeConnections_' = activeConnections_ - 1
    /\ UNCHANGED <<mainVars, stopVars, stopped_, acceptor_, ctx, loopVars>>

WriteFails(c) ==
    /\ At(c, "write") /\ Ends(c)
    /\ UNCHANGED <<mainVars, stopVars, stopped_, acceptor_, ctx, loopVars>>

-----------------------------------------------------------------------------
Main == \/ StartReset \/ BuildWorker \/ AllBuilt \/ Listen \/ ListenFails \/ Launch \/ Join
Stop == StopAcceptor \/ StopGuards \/ StopScan \/ StopContext \/ StopDrain
Loop == \/ LoopHead \/ AcceptFail \/ Retry \/ CheckLimit \/ Count \/ Dispatch
        \/ \E c \in Conns : AcceptDone(c)
Serve(c) == \/ ServeBegin(c) \/ ReadRequest(c) \/ ReadFails(c) \/ HandlerEnds(c)
            \/ Respond(c) \/ Written(c) \/ WriteFails(c)

Next ==
    \/ StartCheck \/ Main \/ Stop \/ Loop
    \/ \E s \in Conns \cup {NoConn} : StopBegin(s)
    \/ \E w \in Contexts : ThreadDone(w)
    \/ \E c \in Conns : Connect(c) \/ Serve(c)

\* The threads run, handlers return, requests have deadlines, and an accept that
\* fails now and then does not fail for ever.  Nobody has to call start() or stop().
\* A connection has finitely many steps, so one fairness for all of them will do.
Spec ==
    /\ Init /\ [][Next]_vars
    /\ WF_vars(Main) /\ WF_vars(Stop) /\ WF_vars(Loop)
    /\ WF_vars(\E w \in Contexts : ThreadDone(w)) /\ WF_vars(\E c \in Conns : Serve(c))
    /\ SF_vars(\E c \in Conns : AcceptDone(c))

-----------------------------------------------------------------------------
(* Properties *)

\* The connections that have been counted and have not ended.
Counted == {c \in Conns : conn[c].st \in Serving \/ (c = held /\ loop = "dispatch")}

\* The count is that of the connections spawned and not yet over, on every worker
\* and in every order of accept, end and stop, and it never exceeds maxConnections.
Admission ==
    activeConnections_ = Cardinality(Counted) /\ activeConnections_ <= MaxConnections

\* Once stop() has set stopped_, a connection writes at most one more response.
OneMoreAfterStop == \A c \in Conns : conn[c].late <= 1

\* start() blocks until the server is stopped, and no longer, unless stop() comes while
\* start() is between its test of stopped_ and the last worker it builds.
StopEndsStart ==
    [](stopPc # "idle" => mainPc \notin {"checked", "build"}) =>
        (mainPc = "join" /\ stopPc = "done" ~> mainPc = "returned")

\* http_server.h:134 lets any thread call stop(), at no matter what moment of start().
StopAlwaysEndsStart == mainPc = "join" /\ stopPc = "done" ~> mainPc = "returned"

\* A client that connects is accepted and served to an end, or dropped at the
\* limit, on whichever worker it lands, unless somebody stops the server.
ConnectionEnds ==
    \A c \in Conns :
        conn[c].st = "backlog" ~> conn[c].st \in {"closed", "dropped"} \/ stopPc # "idle"

\* http_server.cpp:187: stop() cancels what is pending, and the serve() loops see
\* it and exit.
ServesEndOnStop ==
    \A c \in Conns : conn[c].st \in Serving /\ stopped_ ~> conn[c].st = "closed"
=============================================================================
