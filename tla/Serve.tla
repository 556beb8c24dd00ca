-------------------------------- MODULE Serve --------------------------------
(***************************************************************************)
(* HttpServer::serve(): one keep-alive connection, from the first byte of   *)
(* a request to the shutdown of the sending side, with the SseWriter, the   *)
(* WebSocket upgrade and the dispatch through XXRouter, whose routes and    *)
(* cache other threads and other connections change meanwhile               *)
(* (src/include/utilxx/http_server.h).                                      *)
(*                                                                         *)
(* What the server has sent is the sequence wire of tokens:                 *)
(*   continue   100 Continue                                                *)
(*   response   a whole response with Connection: keep-alive                *)
(*   closing    a whole response with Connection: close                     *)
(*   head, chunk, end   header, chunk frame and last chunk of an SSE stream *)
(*   upgrade    101 Switching Protocols                                     *)
(*   cut        a write given up: some part of the next token, or nothing   *)
(*   fin        the sending side is shut down, closed, or its peer gone     *)
(*                                                                         *)
(* An SSE handler is assumed to obey the comment of writeResponse() (72):   *)
(* it does not use the writer after it, but to close it.  Nothing forbids   *)
(* it to write on after a write has returned false.                         *)
(***************************************************************************)
EXTENDS XXRouter

CONSTANTS
    Requests,    \* [method, path, upgrade, close] of what clients ask
    SseRoutes, SsePostRoutes, WsRoutes,   \* sets of paths
    EmptyHandlers, \* pairs <<route, method>> that are given an empty std::function
    MaxRequests, \* Config::maxRequestsPerConnection, 0 for any number
    MaxEvents    \* bound: chunks of an SSE stream, and writes of a connection given up

Streams(r) ==
    \/ r.method = "GET" /\ r.path \in SseRoutes
    \/ r.method = "POST" /\ r.path \in SsePostRoutes

Upgrades(r) == r.method = "GET" /\ r.upgrade /\ r.path \in WsRoutes

ASSUME ServeAssumption ==
    /\ \A r \in Requests : r.path \in Queries \/ Streams(r) \/ Upgrades(r)
    /\ {"GET", "HEAD"} \subseteq Methods /\ EmptyHandlers \subseteq Routes \X Methods
    /\ MaxRequests \in Nat /\ MaxEvents \in Nat

VARIABLES
    pc,
    requestCount,
    req,
    resp,      \* [status, keepAlive, allow]
    stopped,   \* HttpServer::stopped_
    writer,    \* [headerSent, responseSent] of the SseWriterImpl
    wire,
    asked,     \* methods a refusal has looked up for Allow
    changed    \* history: the routes have changed since the request was read

connVars == <<pc, requestCount, req, resp, stopped, writer, wire>>
refusalVars == <<asked, changed>>
serveVars == <<connVars, refusalVars>>
routerVars == <<tree, handles, cache, found>>
allVars == <<serveVars, routerVars>>

NoRequest == [method |-> "none", path |-> Root, upgrade |-> FALSE, close |-> FALSE]
NoResponse == [status |-> 0, keepAlive |-> TRUE, allow |-> {}]
Unwritten == [headerSent |-> FALSE, responseSent |-> FALSE]

Answers == {"response", "closing", "head", "upgrade"}
Tokens == Answers \cup {"continue", "chunk", "end", "cut", "fin"}
Count(tokens) == Cardinality({k \in DOMAIN wire : wire[k] \in tokens})
Closed == Count({"fin"}) > 0

ServeTypeOK ==
    /\ TypeOK
    /\ pc \in {"loop", "header", "continue", "body", "bad", "dispatch", "sse", "ws",
               "fallback", "refuse", "handler", "respond", "write", "end", "over"}
    /\ requestCount \in Nat /\ (MaxRequests > 0 => requestCount <= MaxRequests)
    /\ req \in Requests \cup {NoRequest}
    /\ resp \in [status : {0, 200, 404, 405, 500}, keepAlive : BOOLEAN, allow : SUBSET Methods]
    /\ stopped \in BOOLEAN
    /\ writer \in [headerSent : BOOLEAN, responseSent : BOOLEAN]
    /\ wire \in Seq(Tokens) /\ Count({"chunk"}) <= MaxEvents
    /\ asked \subseteq Methods /\ changed \in BOOLEAN

ServeInit ==
    /\ Init
    /\ pc = "loop" /\ requestCount = 0 /\ req = NoRequest /\ resp = NoResponse
    /\ stopped = FALSE /\ writer = Unwritten /\ wire = <<>>
    /\ asked = {} /\ changed = FALSE

-----------------------------------------------------------------------------
(* Writing: async_write of some tokens under cancel_after *)

Sent(tokens) == ~Closed /\ wire' = wire \o tokens

\* What a write that does not finish may have sent.
Parts(tokens) == {wire \o SubSeq(tokens, 1, k) \o <<"cut">> : k \in 0 .. Len(tokens) - 1}

\* cancel_after: the connection is still there.
TimedOut(tokens) == ~Closed /\ wire' \in Parts(tokens)

\* The connection is gone.
Broken(tokens) ==
    wire' \in IF Closed THEN {wire} ELSE {Append(w, "fin") : w \in Parts(tokens)}

Shutdown == wire' = IF Closed THEN wire ELSE Append(wire, "fin")

\* The frame of serve() goes, and the stream with it.
Over == pc' = "over" /\ req' = NoRequest /\ resp' = NoResponse /\ writer' = Unwritten

-----------------------------------------------------------------------------
(* Reading a request *)

AnotherAllowed == MaxRequests > 0 => requestCount < MaxRequests

LoopHead ==
    /\ pc = "loop"
    /\ IF AnotherAllowed
       THEN requestCount' = requestCount + 1 /\ pc' = "header"
       ELSE UNCHANGED requestCount /\ pc' = "end"
    /\ UNCHANGED <<req, resp, stopped, writer, wire>>

ReadHeader ==
    /\ pc = "header"
    /\ pc' \in {"continue", "body"}   \* with and without Expect: 100-continue
    /\ UNCHANGED <<requestCount, req, resp, stopped, writer, wire>>

SendContinue ==
    /\ pc = "continue"
    /\ \/ Sent(<<"continue">>) /\ pc' = "body"
       \/ TimedOut(<<"continue">>) /\ pc' = "end"
       \/ Broken(<<"continue">>) /\ pc' = "bad"
    /\ UNCHANGED <<requestCount, req, resp, stopped, writer>>

ReadBody ==
    /\ pc = "body"
    /\ req' \in Requests /\ resp' = NoResponse
    /\ pc' = "dispatch"
    /\ UNCHANGED <<requestCount, stopped, writer, wire>>

\* The end of the stream and timeouts end the loop, anything else is answered.
ReadFails ==
    /\ pc \in {"header", "body"}
    /\ pc' \in {"end", "bad"}
    /\ UNCHANGED <<requestCount, req, resp, stopped, writer, wire>>

\* 400, 413 or 431; a failed write leaves serve() as an exception.
AnswerBadRequest ==
    /\ pc = "bad"
    /\ \/ Sent(<<"closing">>) /\ pc' = "end" /\ UNCHANGED <<req, resp, writer>>
       \/ Broken(<<"closing">>) /\ Over
    /\ UNCHANGED <<requestCount, stopped>>

-----------------------------------------------------------------------------
(* Dispatch: SSE routes, then WebSocket, then the router *)

Dispatch ==
    /\ pc = "dispatch" /\ (Streams(req) \/ Upgrades(req))
    /\ pc' = IF Streams(req) THEN "sse" ELSE "ws"
    /\ UNCHANGED <<requestCount, req, resp, stopped, writer, wire>>

\* A handler that was found can be called: *handler is not empty.
Callable(node, m) == node # NoNode /\ <<node, m>> \notin EmptyHandlers

\* Where a lookup for method m leads; only one that finds nothing is repeated for HEAD.
After(node, m, again) ==
    IF Callable(node, m) THEN "handler"
    ELSE IF node = NoNode /\ again THEN "fallback" ELSE "refuse"

\* A bug: no fallback.
NeverFallsBack(m) == FALSE
FallsBack(m) == m = "HEAD"

\* Routing a request leaves the connection alone but for pc and resp.
Routing == UNCHANGED <<requestCount, req, stopped, writer, wire, changed>>

\* The first get(); a method that is none of the nine is not looked up.
Route ==
    /\ pc = "dispatch" /\ ~Streams(req) /\ ~Upgrades(req)
    /\ \/ /\ req.method \in Methods
          /\ get(req.path, req.method, FALSE)
          /\ pc' = After(found', req.method, FallsBack(req.method))
       \/ /\ req.method \notin Methods
          /\ pc' = "refuse" /\ UNCHANGED routerVars
    /\ Routing /\ UNCHANGED <<resp, asked>>

\* The second get(), of a HEAD that nothing is registered for.
RouteAsGet ==
    /\ pc = "fallback"
    /\ get(req.path, "GET", FALSE) /\ pc' = After(found', "GET", FALSE)
    /\ Routing /\ UNCHANGED <<resp, asked>>

\* A refused request: getNocache() for one method after the other, in any order.
AskForAllow ==
    /\ pc = "refuse"
    /\ \E m \in Methods \ asked :
         /\ asked' = asked \cup {m}
         /\ resp' = IF getNocache(req.path, m, FALSE) = NoNode THEN resp
                    ELSE [resp EXCEPT !.allow = @ \cup {m}]
    /\ Routing /\ UNCHANGED <<pc, routerVars>>

\* 405 with Allow, or 404.
Refuse ==
    /\ pc = "refuse" /\ asked = Methods
    /\ resp' = [resp EXCEPT !.status = IF resp.allow # {} THEN 405 ELSE 404,
                            !.keepAlive = FALSE]
    /\ pc' = "respond" /\ asked' = {}
    /\ Routing /\ UNCHANGED routerVars

\* An exception other than a cancellation becomes a 500.
HandlerEnds ==
    /\ pc = "handler"
    /\ resp' \in [status : {200}, keepAlive : BOOLEAN, allow : {{}}]
                   \cup {[status |-> 500, keepAlive |-> FALSE, allow |-> {}]}
    /\ pc' = "respond"
    /\ UNCHANGED <<requestCount, req, stopped, writer, wire>>

\* A cancellation, from any handler, leaves serve() as an exception.
HandlerCancelled ==
    /\ pc \in {"handler", "sse", "ws"}
    /\ Shutdown /\ Over
    /\ UNCHANGED <<requestCount, stopped>>

Respond ==
    /\ pc = "respond"
    /\ resp' = [resp EXCEPT !.keepAlive = @ /\ ~stopped /\ ~req.close]
    /\ pc' = "write"
    /\ UNCHANGED <<requestCount, req, stopped, writer, wire>>

\* The response is out; the loop goes on, or ends.
Written ==
    /\ pc = "write"
    /\ Sent(IF resp.keepAlive THEN <<"response">> ELSE <<"closing">>)
    /\ pc' = IF resp.keepAlive /\ ~stopped THEN "loop" ELSE "end"
    /\ req' = NoRequest /\ resp' = NoResponse
    /\ UNCHANGED <<requestCount, stopped, writer>>

\* A write that fails or times out leaves serve() as an exception.
WriteFails ==
    /\ pc = "write"
    /\ Broken(IF resp.keepAlive THEN <<"response">> ELSE <<"closing">>) /\ Over
    /\ UNCHANGED <<requestCount, stopped>>

ShutdownSend ==
    /\ pc = "end"
    /\ Shutdown /\ Over
    /\ UNCHANGED <<requestCount, stopped>>

-----------------------------------------------------------------------------
(* SseWriterImpl, in the hands of an SSE handler *)

Write(tokens, ok) == IF ok THEN Sent(tokens) ELSE TimedOut(tokens) \/ Broken(tokens)

MayUse == pc = "sse" /\ ~writer.responseSent

\* writeEvent, writeChunk: the first one sends the header as well.
doWrite ==
    /\ MayUse /\ Count({"chunk"}) < MaxEvents /\ Count({"cut"}) < MaxEvents
    /\ \E ok \in BOOLEAN :
         /\ Write(IF writer.headerSent THEN <<"chunk">> ELSE <<"head", "chunk">>, ok)
         /\ writer' = [writer EXCEPT !.headerSent = TRUE]
    /\ UNCHANGED <<pc, requestCount, req, resp, stopped>>

\* A bug: a stream that has begun is not looked at.
MayRespondOnce == ~writer.responseSent
MayRespond == ~writer.headerSent /\ ~writer.responseSent

\* The body of writeResponse(): refused, written, or given up.
RespondWhole(ok) ==
    IF MayRespond
    THEN /\ Write(<<"closing">>, ok)
         /\ writer' = [writer EXCEPT !.responseSent = TRUE]
    ELSE UNCHANGED <<writer, wire>>

writeResponse ==
    /\ MayUse
    /\ \E ok \in BOOLEAN : RespondWhole(ok)
    /\ UNCHANGED <<pc, requestCount, req, resp, stopped>>

\* The last chunk, if a stream has begun, goes out or not; then the shutdown.
close ==
    /\ pc = "sse"
    /\ LET begun == writer.headerSent /\ ~writer.responseSent
           ends == IF begun THEN {Append(wire, "end")} \cup Parts(<<"end">>) ELSE {wire}
       IN  wire' \in IF Closed THEN {wire} ELSE {Append(w, "fin") : w \in ends}
    /\ UNCHANGED <<pc, requestCount, req, resp, stopped, writer>>

\* A bug: the loop goes on as after any other response.
SseReturnsToLoop ==
    /\ pc = "sse" /\ pc' = "loop"
    /\ UNCHANGED <<requestCount, req, resp, stopped, writer, wire>>

\* After the handler serve() leaves its loop whatever became of the stream.
SseReturns ==
    /\ pc = "sse" /\ pc' = "end"
    /\ UNCHANGED <<requestCount, req, resp, stopped, writer, wire>>

\* serve() answers an exception with a 500, if nothing has been written.
SseThrows ==
    /\ pc = "sse" /\ pc' = "end"
    /\ \E ok \in BOOLEAN : RespondWhole(ok)
    /\ UNCHANGED <<requestCount, req, resp, stopped>>

-----------------------------------------------------------------------------
(* WebSocket: the stream has moved, its destruction closes it *)

Accept ==
    /\ pc = "ws" /\ Count({"upgrade"}) = 0
    /\ Sent(<<"upgrade">>)
    /\ UNCHANGED <<pc, requestCount, req, resp, stopped, writer>>

\* The upgrade fails, Beast answers one that is malformed, or the handler ends, with or
\* without an exception.
WsEnds ==
    /\ pc = "ws"
    /\ IF Count({"upgrade"}) = 1 THEN Shutdown
       ELSE \/ Broken(<<"upgrade">>)
            \/ ~Closed /\ wire' = wire \o <<"closing", "fin">>
    /\ Over
    /\ UNCHANGED <<requestCount, stopped>>

-----------------------------------------------------------------------------
(* The rest of the program *)

stop ==
    /\ ~stopped /\ stopped' = TRUE
    /\ UNCHANGED <<pc, requestCount, req, resp, writer, wire>>

\* Bound: not once the connection is over.
RouterChanges ==
    /\ pc # "over" /\ Next
    /\ changed' = (changed \/ (pc \in {"dispatch", "fallback", "refuse"}
                               /\ <<tree', handles'>> # <<tree, handles>>))
    /\ UNCHANGED <<connVars, asked>>

Reading == LoopHead \/ ReadHeader \/ SendContinue \/ ReadBody \/ ReadFails \/ AnswerBadRequest
Answering == HandlerEnds \/ HandlerCancelled \/ Respond \/ Written \/ WriteFails \/ ShutdownSend
Streaming == doWrite \/ writeResponse \/ close \/ SseReturns \/ SseThrows

ServeNext ==
    \/ (Reading \/ Dispatch \/ Answering \/ Streaming \/ Accept \/ WsEnds \/ stop)
         /\ changed' = (changed /\ pc' \in {"dispatch", "fallback", "refuse"})
         /\ UNCHANGED <<routerVars, asked>>
    \/ Route \/ RouteAsGet \/ AskForAllow \/ Refuse
    \/ RouterChanges

ServeSpec == ServeInit /\ [][ServeNext]_allVars

-----------------------------------------------------------------------------
(* Properties *)

\* What may follow a token on a connection: after a write given up, only the shutdown.
MayFollow(t, next) ==
    \/ next = "fin" /\ t # "fin"
    \/ next = "cut" /\ t \in {"continue", "response", "head", "chunk"}
    \/ next \in Answers /\ t \in {"continue", "response"}
    \/ next = "continue" /\ t = "response"
    \/ next \in {"chunk", "end"} /\ t \in {"head", "chunk"}

\* What a handler and close() still write after a write that was given up.
StillSent(t, next) == t = "cut" /\ next \in {"chunk", "end", "cut"}

\* Whatever handlers, timeouts and stop() do, the bytes of a connection are HTTP up to
\* the first write that is given up: no second response into a stream, nothing after a
\* response that announced the close, one header and one end to a stream, nothing after
\* the shutdown.  Behind such a write no answer begins, of this or of another request:
\* what may be there are chunks and the end of the same stream (see LastChunkHasHeader).
HttpUntilCut ==
    /\ wire # <<>> => MayFollow("response", wire[1])
    /\ \A k \in 1 .. Len(wire) - 1 :
         MayFollow(wire[k], wire[k + 1]) \/ StillSent(wire[k], wire[k + 1])

\* close() writes the last chunk of a stream that has begun, which is to say that its
\* header has been sent (http_server.h:231).
LastChunkHasHeader ==
    \A k \in DOMAIN wire : wire[k] = "end" => \E j \in 1 .. k - 1 : wire[j] = "head"

\* Requests are answered in order and once: when one is read all before it have been
\* answered, whole, and none is answered twice.
OneAnswerEach ==
    /\ Count(Answers) <= requestCount
    /\ pc \in {"header", "continue", "body", "dispatch", "handler", "respond", "write"} =>
         Count(Answers) = requestCount - 1 /\ Count({"cut", "chunk", "fin"}) = 0

Registered == {m \in Methods : getNocache(req.path, m, FALSE) # NoNode}

\* The lookup that decides: HEAD asks for GET where no HEAD is registered.
Decisive == IF req.method = "HEAD" /\ "HEAD" \notin Registered THEN "GET" ELSE req.method

Decided == pc \in {"dispatch", "fallback", "refuse"} /\ pc' \in {"handler", "respond"}

\* However routes and cache have changed before it, a request during whose dispatch the
\* routes stay as they are is called or refused as they say: it reaches a handler if and
\* only if there is one for it and that is not empty; refused, it gets a 404 if nothing
\* is registered for its path, and else a 405 whose Allow is exactly what is.
RefusalIsTruthful ==
    [][Decided /\ ~changed =>
        /\ pc' = "handler" <=>
             Decisive \in Registered /\ Callable(getNocache(req.path, Decisive, FALSE), Decisive)
        /\ pc' = "respond" => /\ resp'.allow = Registered
                              /\ resp'.status = IF Registered = {} THEN 404 ELSE 405]_allVars

\* A 405 lists in Allow the methods the resource supports (http_server.h:607): those a
\* request for its path would not have been refused with.
AllowIsSupport ==
    [][Refuse /\ ~changed /\ resp'.status = 405 =>
        LET other(m) == [req EXCEPT !.method = m]
            called(m) == Callable(getNocache(req.path, m, FALSE), m)
        IN  resp'.allow = {m \in Methods :
                             \/ Streams(other(m)) \/ called(m)
                             \/ m = "HEAD" /\ "HEAD" \notin Registered /\ called("GET")}]_allVars
=============================================================================
