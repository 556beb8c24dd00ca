----------------------------- MODULE HttpRequest -----------------------------
(***************************************************************************)
(* One call of HttpClient::requestAsync (src/src/http_client.cpp) against  *)
(* one endpoint: the redirect loop, the attempts of each hop, exchange()   *)
(* and the return of the connection, with a server that may close any      *)
(* connection at any time and with other requests that use the same idle   *)
(* bucket of the pool.  acquire() and release() appear by what they do to  *)
(* that bucket; the limit and the waiting are in HttpConnectionPool.       *)
(*                                                                         *)
(* pc                                                                      *)
(*   "hop"     top of the redirect loop                                    *)
(*   "acquire" waiting for a connection                                    *)
(*   "write"   in exchange(), writing the request                          *)
(*   "read"    in exchange(), reading the response                         *)
(*   "check"   the attempts are over, deciding about a redirect            *)
(*   "done"    the result has been returned                                *)
(***************************************************************************)
EXTENDS Integers, Sequences, SequencesExt

CONSTANTS FollowRedirect,  \* RequestConfig::followRedirect
          IdleBound        \* idle connections other requests leave in the bucket

VARIABLES
    pc,
    usePool,        \* RequestConfig::keepAlive
    tls,            \* an https URL
    redirectCount,
    attempt,
    withBody,       \* the current method is the caller's, with the caller's body
    conn,           \* the connection in use
    idle,           \* the idle bucket, the youngest connection last
    slots,          \* slots of the pool this request owns
    result,         \* "none", "ok" or "error"
    response,       \* how the server answered the last successful exchange
    lost,           \* the deadline of the operation under way has gone by unheard
    runs            \* ghost: the hops whose request the server executed, in order

vars == <<pc, usePool, tls, redirectCount, attempt, withBody, conn, idle, slots,
          result, response, lost, runs>>

(* A connection: fresh, as in PooledConnection; up, the server still has it  *)
(* open; phase, how far the server is with the request on it: "quiet" (none  *)
(* outstanding), "sent", "run" (executed), "part" or "full" (response bytes  *)
(* on the wire).                                                             *)
Phases == {"quiet", "sent", "run", "part", "full"}
Connection == [fresh : BOOLEAN, up : BOOLEAN, phase : Phases]
None == [fresh |-> TRUE, up |-> FALSE, phase |-> "quiet"]
New == [fresh |-> TRUE, up |-> TRUE, phase |-> "quiet"]

\* 301, 302, 303 / 307, 308 / any other status or no Location.
Kinds == {"toGet", "same", "final"}
Response == [kind : Kinds, keepAlive : BOOLEAN]

TypeOK ==
    /\ pc \in {"hop", "acquire", "write", "read", "check", "done"}
    /\ usePool \in BOOLEAN /\ tls \in BOOLEAN /\ lost \in BOOLEAN
    /\ redirectCount \in 0 .. FollowRedirect
    /\ attempt \in 0 .. 1
    /\ withBody \in BOOLEAN
    /\ conn \in Connection
    /\ idle \in Seq(Connection)
    /\ slots \in 0 .. 1
    /\ result \in {"none", "ok", "error"}
    /\ response \in Response
    /\ runs \in Seq([hop : 0 .. FollowRedirect, attempt : 0 .. 1, withBody : BOOLEAN,
                     answered : BOOLEAN])

Init ==
    /\ pc = "hop"
    /\ usePool \in BOOLEAN /\ tls \in BOOLEAN /\ lost = FALSE
    /\ redirectCount = 0 /\ attempt = 0
    /\ withBody = TRUE
    /\ conn = None
    /\ idle = <<>>
    /\ slots = 0
    /\ result = "none"
    /\ response = [kind |-> "final", keepAlive |-> FALSE]
    /\ runs = <<>>

-----------------------------------------------------------------------------
(* The hop and its connection *)

\* A new round of the redirect loop; an invalid URL ends the request.
StartHop ==
    /\ pc = "hop"
    /\ attempt' = 0
    /\ \/ result' = "none" /\ pc' = "acquire"
       \/ result' = "error" /\ pc' = "done"
    /\ UNCHANGED <<usePool, tls, redirectCount, withBody, conn, idle, slots, response,
                   runs, lost>>

MaxAttempts == IF usePool THEN 2 ELSE 1

\* pool.acquire() finds an idle connection.
AcquireReuse ==
    /\ pc = "acquire" /\ ~lost /\ usePool /\ idle # <<>>
    /\ conn' = [Last(idle) EXCEPT !.fresh = FALSE]
    /\ idle' = Front(idle)
    /\ slots' = slots + 1
    /\ pc' = "write"
    /\ UNCHANGED <<usePool, tls, redirectCount, attempt, withBody, result, response, runs,
                   lost>>

\* A new connection, through the pool or without it.
AcquireNew ==
    /\ pc = "acquire" /\ (lost \/ (usePool => idle = <<>>))
    /\ conn' = New
    /\ slots' = IF usePool THEN slots + 1 ELSE slots
    /\ pc' = "write"
    /\ lost' = FALSE
    /\ UNCHANGED <<usePool, tls, redirectCount, attempt, withBody, idle, result, response,
                   runs>>

\* Connecting failed, or the request was cancelled while it waited: acquire()
\* has returned the slot itself.
AcquireFail ==
    /\ pc = "acquire"
    /\ result' = "error" /\ pc' = "done"
    /\ lost' = FALSE
    /\ UNCHANGED <<usePool, tls, redirectCount, attempt, withBody, conn, idle, slots,
                   response, runs>>

-----------------------------------------------------------------------------
(* exchange() *)

\* The request leaves; with the server gone, the kernel may still take it.
WriteOk ==
    /\ pc = "write"
    /\ conn' = [conn EXCEPT !.phase = "sent"]
    /\ pc' = "read"
    /\ lost' = FALSE
    /\ UNCHANGED <<usePool, tls, redirectCount, attempt, withBody, idle, slots, result,
                   response, runs>>

\* pool.release(): the slot goes back, and the connection if it is reusable.
Release(c, reusable) ==
    /\ conn' = None
    /\ slots' = IF usePool THEN slots - 1 ELSE slots
    /\ idle' = IF usePool /\ reusable THEN Append(idle, c) ELSE idle

\* A bug: the body is not waited for.
HeaderArrived == conn.phase \in {"part", "full"}

\* parser.is_done()
ResponseArrived == conn.phase = "full"

\* The connection after the read: whatever has not arrived yet is still to come.
AfterRead == [conn EXCEPT !.phase = IF @ = "full" THEN "quiet" ELSE @]

\* The whole response has been read.
ReadOk ==
    /\ pc = "read" /\ ResponseArrived
    /\ response' \in Response
    /\ Release(AfterRead, response'.keepAlive)
    /\ result' = "ok" /\ pc' = "check"
    /\ lost' = FALSE
    /\ UNCHANGED <<usePool, tls, redirectCount, attempt, withBody, runs>>

\* A bug: the reads have no deadline.
TimesOutWriting == ~lost /\ pc = "write"

\* The operation under way has a cancel_after deadline, and hears of it.
TimesOut == ~lost /\ pc \in {"write", "read"}

(* What write and read can throw.  "truncated" is the runtime_error made of  *)
(* partial_message; a reset may come at any point of the response; "timeout" *)
(* stands for the other errors that are not retried (cancellation, bad data). *)
Error(e) ==
    /\ pc \in {"write", "read"}
    /\ \/ e = "timeout" /\ TimesOut
       \/ e = "reset" /\ ~conn.up
       \/ e = "end_of_stream" /\ pc = "read" /\ ~conn.up /\ conn.phase \in {"sent", "run"}
       \/ e = "truncated" /\ pc = "read" /\ ~conn.up /\ conn.phase = "part"
Errors == {"end_of_stream", "reset", "truncated", "timeout"}

isPoolRetryableError(e) == e \in {"end_of_stream", "reset"}

\* The catch blocks around exchange(): retry once on a reused connection that
\* the server has closed, otherwise close the connection and report.
Retries(e) == /\ usePool /\ ~conn.fresh
              /\ attempt + 1 < MaxAttempts
              /\ isPoolRetryableError(e)

Retry(e) ==
    /\ Error(e) /\ Retries(e)
    /\ Release(conn, FALSE)
    /\ attempt' = attempt + 1
    /\ pc' = "acquire"
    /\ lost' = FALSE
    /\ UNCHANGED <<usePool, tls, redirectCount, withBody, result, response, runs>>

Fail(e) ==
    /\ Error(e) /\ ~Retries(e)
    /\ Release(conn, FALSE)
    /\ result' = "error" /\ pc' = "done"
    /\ lost' = FALSE
    /\ UNCHANGED <<usePool, tls, redirectCount, attempt, withBody, response, runs>>

\* Over TLS the cancellation of cancel_after can be lost on its way through
\* ssl::stream (http_client.cpp:65): a handshake, write or read whose peer is silent
\* then has no deadline any more.
CancellationLost ==
    /\ tls /\ ~lost
    /\ pc \in {"write", "read"} \/ (pc = "acquire" /\ (usePool => idle = <<>>))
    /\ lost' = TRUE
    /\ UNCHANGED <<pc, usePool, tls, redirectCount, attempt, withBody, conn, idle, slots,
                   result,
                   response, runs>>

-----------------------------------------------------------------------------
(* Redirects *)

Redirects == redirectCount < FollowRedirect /\ response.kind # "final"

\* A bug: only the latest redirect decides about the body.
BodyAfterLast(kind) == kind # "toGet"

\* The next hop has the caller's method and body; 301, 302 and 303 drop them.
BodyAfter(kind) == withBody /\ kind # "toGet"

Redirect ==
    /\ pc = "check" /\ Redirects
    /\ redirectCount' = redirectCount + 1
    /\ withBody' = BodyAfter(response.kind)
    /\ pc' = "hop"
    /\ UNCHANGED <<usePool, tls, attempt, conn, idle, slots, result, response, runs, lost>>

Finish ==
    /\ pc = "check" /\ ~Redirects
    /\ pc' = "done"
    /\ UNCHANGED <<usePool, tls, redirectCount, attempt, withBody, conn, idle, slots, result,
                   response, runs, lost>>

-----------------------------------------------------------------------------
(* The server and the other users of the bucket *)

\* The server executes the request it has received.
ServerRuns ==
    /\ conn.up /\ conn.phase = "sent"
    /\ conn' = [conn EXCEPT !.phase = "run"]
    /\ runs' = Append(runs, [hop |-> redirectCount, attempt |-> attempt,
                             withBody |-> withBody, answered |-> FALSE])
    /\ UNCHANGED <<pc, usePool, tls, redirectCount, attempt, withBody, idle, slots, result,
                   response, lost>>

\* It sends a part of the response, then the rest.
ServerAnswers ==
    /\ conn.up /\ conn.phase \in {"run", "part"}
    /\ conn' = [conn EXCEPT !.phase = IF @ = "run" THEN "part" ELSE "full"]
    /\ runs' = [runs EXCEPT ![Len(runs)].answered = TRUE]
    /\ UNCHANGED <<pc, usePool, tls, redirectCount, attempt, withBody, idle, slots, result,
                   response, lost>>

ServerCloses ==
    /\ conn.up
    /\ conn' = [conn EXCEPT !.up = FALSE]
    /\ UNCHANGED <<pc, usePool, tls, redirectCount, attempt, withBody, idle, slots, result,
                   response,
                   runs, lost>>

ServerClosesIdle(i) ==
    /\ i \in DOMAIN idle /\ idle[i].up
    /\ idle' = [idle EXCEPT ![i].up = FALSE]
    /\ UNCHANGED <<pc, usePool, tls, redirectCount, attempt, withBody, conn, slots, result,
                   response,
                   runs, lost>>

\* Another request leaves a connection, or takes the youngest one; idle
\* connections that expire or are cleared disappear in the same way.
OtherReleases ==
    /\ Len(idle) < IdleBound
    /\ idle' = Append(idle, New)
    /\ UNCHANGED <<pc, usePool, tls, redirectCount, attempt, withBody, conn, slots, result,
                   response,
                   runs, lost>>

OtherTakes ==
    /\ idle # <<>>
    /\ idle' = Front(idle)
    /\ UNCHANGED <<pc, usePool, tls, redirectCount, attempt, withBody, conn, slots, result,
                   response,
                   runs, lost>>

-----------------------------------------------------------------------------
Client ==
    \/ StartHop
    \/ AcquireReuse \/ AcquireNew \/ AcquireFail
    \/ WriteOk \/ ReadOk
    \/ \E e \in Errors : Retry(e) \/ Fail(e)
    \/ Redirect \/ Finish

Environment ==
    \/ ServerRuns \/ ServerAnswers \/ ServerCloses
    \/ \E i \in 1 .. IdleBound + 1 : ServerClosesIdle(i)
    \/ OtherReleases \/ OtherTakes

Next == Client \/ CancellationLost \/ Environment

\* An operation without a deadline, against a server that neither answers nor closes.
Hangs == lost /\ (pc = "acquire" \/ (conn.up /\ ~ResponseArrived))

\* Every await of the client has a deadline (cancel_after, kPoolWaitTimeout, the
\* connect deadline), so the client does not stay where it is for ever unless that
\* deadline was lost and it hangs; nothing is assumed of the server.  That
\* the queue of the pool serves it is ServedUnlessOvertaken of HttpConnectionPool.
Spec == Init /\ [][Next]_vars /\ WF_vars(Client /\ ~Hangs)

-----------------------------------------------------------------------------
(* Properties *)

\* Every path out of exchange() (success, retry, system error, any other
\* exception) gives the slot back once, and requests without the pool own none.
SlotReturned == slots = IF usePool /\ pc \in {"write", "read"} THEN 1 ELSE 0

\* A connection goes back to the pool only between messages: no response of an
\* abandoned request (timeout, truncation) can reach the next borrower.
IdleQuiescent == \A i \in DOMAIN idle : idle[i].phase = "quiet"

\* The same, seen by the borrower: what it reads answers its own request.
AnswerIsMine ==
    pc \in {"write", "read"} /\ conn.phase \in {"run", "part", "full"} =>
        /\ pc = "read"
        /\ Last(runs).hop = redirectCount /\ Last(runs).attempt = attempt

\* Once a 301, 302 or 303 was followed the body is not sent again, by a later
\* 307 or by a retry.
BodyNotReplayed ==
    \A i, j \in DOMAIN runs : i < j /\ ~runs[i].withBody => ~runs[j].withBody

\* Whatever the server does or fails to do, requestAsync returns, through every chain
\* of retries and redirects, or hangs in an operation whose deadline ssl::stream has
\* lost.  A plain http request always returns.
RequestReturns ==
    /\ <>(pc = "done") \/ <>[]lost
    /\ tls \/ <>(pc = "done")

\* http_client.h:69 and :71: every write and every read of a request has a deadline, so
\* that no server can hold it for ever.
DeadlinesHold == <>(pc = "done")

\* http_client.cpp:265 and :341: the one retry after a dead idle connection goes over a
\* new connection.  The second acquire() may find another idle one.
RetriesOnNew == attempt = 1 /\ pc \in {"write", "read"} => conn.fresh

\* http_client.cpp:266 and :355: a request whose response has begun to arrive is
\* not sent again, so that it is not executed twice.
NotRunAgain ==
    \A i, j \in DOMAIN runs : i < j /\ runs[i].hop = runs[j].hop => ~runs[i].answered
=============================================================================
