------------------------------ MODULE SseRequest ------------------------------
(***************************************************************************)
(* One call of HttpClient::requestSseAsync (src/src/http_client.cpp) with   *)
(* the operation timeout runSseOpWithTimeout, on one io_context thread,    *)
(* against a server that streams chunks and may stop or close at any time. *)
(*                                                                         *)
(* The timer of an operation: when it expires its handler enters the ready *)
(* queue of the io_context, and from then on cancel() cannot take it back. *)
(* The reactor queues the completion of a socket operation before a timer  *)
(* that expired in the same poll, so an operation can still complete with  *)
(* its timer handler queued; that handler then runs late, when its         *)
(* operation is over.  Handlers run in FIFO order, so it runs before the   *)
(* next operation completes.                                               *)
(*                                                                         *)
(* pc: "acquire", the operation under way ("write", "header", "errbody",   *)
(* "body"), or "done".                                                     *)
(***************************************************************************)
EXTENDS Integers, Sequences, SequencesExt

CONSTANT Chunks  \* pieces of the body the server can send

ASSUME SseAssumption == Chunks \in Nat

VARIABLES
    pc,
    usePool,    \* RequestConfig::keepAlive
    lost,       \* the deadline of a TLS handshake has gone by unheard
    attempt,
    fresh,      \* PooledConnection::fresh
    closed,     \* our end of the stream: "no", "now" (closed while the current
                \* operation was under way) or "before" (before it began)
    slots,      \* slots of the pool this request owns
    parsed,     \* chunks of the body parsed so far
    isDone,     \* parser.is_done()
    timer,      \* of the current operation: "none", "armed" or "queued"
    timedOut,   \* the current operation's flag
    late,       \* a handler of a finished operation is in the ready queue
    calls,      \* the calls of onChunk
    outcome,    \* "none", "ok", "timeout", "error" or "http" (429 or non-2xx)
    pooled,     \* the connection went back to the idle bucket
    stray,      \* ghost: a timer handler ran after its operation had ended
    server      \* the server's end of the connection

vars == <<pc, usePool, lost, attempt, fresh, closed, slots, parsed, isDone, timer, timedOut,
          late, calls, outcome, pooled, stray, server>>

(* The server: up, it has not closed; got, the request has been written;     *)
(* head, the response header is out; status, "ok" for a 2xx, "error" for 429   *)
(* and the rest; framed, the body has a length or is chunked; sent, chunks   *)
(* out; ended, the end of the body is out; keepAlive, as the header says.    *)
Statuses == {"ok", "error"}
Server == [up : BOOLEAN, got : BOOLEAN, head : BOOLEAN, status : Statuses,
           framed : BOOLEAN, sent : 0 .. Chunks, ended : BOOLEAN, keepAlive : BOOLEAN]
Listening(s) == s.up /\ ~s.got /\ ~s.head /\ s.sent = 0 /\ ~s.ended
Call == [attempt : 0 .. 1, from : 1 .. Chunks, to : 1 .. Chunks, stop : BOOLEAN]

Ops == {"write", "header", "errbody", "body"}

TypeOK ==
    /\ pc \in Ops \cup {"acquire", "done"}
    /\ usePool \in BOOLEAN /\ attempt \in 0 .. 1
    /\ lost \in BOOLEAN
    /\ fresh \in BOOLEAN /\ closed \in {"no", "now", "before"} /\ slots \in 0 .. 1
    /\ parsed \in 0 .. Chunks /\ isDone \in BOOLEAN
    /\ timer \in {"none", "armed", "queued"} /\ timedOut \in BOOLEAN /\ late \in BOOLEAN
    /\ calls \in Seq(Call)
    /\ outcome \in {"none", "ok", "timeout", "error", "http"}
    /\ pooled \in BOOLEAN /\ stray \in BOOLEAN
    /\ server \in Server

Init ==
    /\ pc = "acquire"
    /\ usePool \in BOOLEAN /\ attempt = 0
    /\ lost = FALSE
    /\ fresh = TRUE /\ closed = "before" /\ slots = 0
    /\ parsed = 0 /\ isDone = FALSE
    /\ timer = "none" /\ timedOut = FALSE /\ late = FALSE
    /\ calls = <<>> /\ outcome = "none"
    /\ pooled = FALSE /\ stray = FALSE
    /\ server \in {s \in Server : Listening(s) /\ s.framed /\ s.keepAlive /\ s.status = "ok"}

-----------------------------------------------------------------------------
(* runSseOpWithTimeout *)

\* A bug: the operation has no timer.
StartUntimed(op) == /\ pc' = op /\ timer' = "none" /\ timedOut' = FALSE
                    /\ closed' = IF closed = "no" \/ pc = "acquire" THEN "no" ELSE "before"

\* Start an operation, with a timer of its own.
StartOp(op) == /\ pc' = op /\ timer' = "armed" /\ timedOut' = FALSE
               /\ closed' = IF closed = "no" \/ pc = "acquire" THEN "no" ELSE "before"

\* stream.lowest_layer().close()
Closed == IF closed = "before" THEN "before" ELSE "now"

\* The operation is over (TimerCleanup): cancel() reaches the timer only if its
\* handler is not queued yet.
EndTimer == late' = (timer = "queued")

Expire ==
    /\ timer = "armed"
    /\ timer' = "queued"
    /\ UNCHANGED <<pc, usePool, lost, attempt, fresh, closed, slots, parsed, isDone,
                   timedOut, late, calls, outcome, pooled, stray, server>>

\* The handler of the current operation: close the stream under it.
TimerFires ==
    /\ timer = "queued" /\ ~late
    /\ timer' = "none" /\ timedOut' = TRUE /\ closed' = Closed
    /\ UNCHANGED <<pc, usePool, lost, attempt, fresh, slots, parsed, isDone, late, calls,
                   outcome, pooled, stray, server>>

\* The handler of an operation that has ended: it closes the stream all the same.
\* After a retry on another idle connection the stream it holds by reference is
\* destroyed: it closes nothing, or what now lives at that address.
LateFires ==
    /\ late
    /\ late' = FALSE /\ stray' = TRUE
    /\ \/ closed' = Closed
       \/ attempt > 0 /\ pc = "write" /\ closed' = closed
    /\ UNCHANGED <<pc, usePool, lost, attempt, fresh, slots, parsed, isDone, timer,
                   timedOut, calls, outcome, pooled, server>>

-----------------------------------------------------------------------------
(* The end of an attempt: release() of the connection *)

\* A bug: the slot is given back by requests that took none, too.
GiveBackAlways(reusable) ==
    /\ slots' = slots - 1
    /\ pooled' = (usePool /\ reusable)
    /\ closed' = IF pooled' THEN "no" ELSE "before"
    /\ timer' = "none" /\ timedOut' = FALSE

GiveBack(reusable) ==
    /\ slots' = IF usePool THEN slots - 1 ELSE slots
    /\ pooled' = (usePool /\ reusable)
    /\ closed' = IF pooled' THEN "no" ELSE "before"
    /\ timer' = "none" /\ timedOut' = FALSE

\* A bug: the catch (...) block forgets release().
ThrowKeepingSlot(o) ==
    /\ slots' = slots /\ pooled' = FALSE /\ closed' = "before"
    /\ timer' = "none" /\ timedOut' = FALSE
    /\ outcome' = o /\ pc' = "done"

Throw(o) ==
    /\ GiveBack(FALSE)
    /\ outcome' = o /\ pc' = "done"

\* An attempt gets a connection: an idle one, at once, which the server may have
\* closed; or a new one, after queued handlers have run.
Acquire ==
    /\ pc = "acquire"
    /\ fresh' \in (IF usePool THEN BOOLEAN ELSE {TRUE})
    /\ fresh' => ~late
    /\ lost => fresh'
    /\ lost' = FALSE
    /\ server' \in {s \in Server : /\ ~s.got /\ ~s.head /\ s.sent = 0 /\ ~s.ended
                                   /\ fresh' => s.up}
    /\ slots' = IF usePool THEN slots + 1 ELSE slots
    /\ parsed' = 0 /\ isDone' = FALSE
    /\ StartOp("write")
    /\ UNCHANGED <<usePool, attempt, late, calls, outcome, pooled, stray>>

AcquireFail ==
    /\ pc = "acquire" /\ ~late
    /\ outcome' = "error" /\ pc' = "done"
    /\ lost' = FALSE
    /\ UNCHANGED <<usePool, attempt, fresh, closed, slots, parsed, isDone, timer, timedOut,
                   late, calls, pooled, stray, server>>

\* The handshake of a new https connection is under cancel_after, whose cancellation
\* ssl::stream can lose (http_client.cpp:65).
CancellationLost ==
    /\ pc = "acquire" /\ ~lost
    /\ lost' = TRUE
    /\ UNCHANGED <<pc, usePool, attempt, fresh, closed, slots, parsed, isDone, timer, timedOut,
                   late, calls, outcome, pooled, stray, server>>

-----------------------------------------------------------------------------
(* doSseExchange: the operations that succeed *)

\* The operation completes: before its timer's handler, or queued just behind it.
Completes(op) == pc = op /\ ~late /\ closed # "before" /\ EndTimer

\* A completion behind the timer's handler is reported as the timeout it is.
OpTooLate ==
    /\ pc \in Ops /\ timedOut
    /\ Completes(pc)
    /\ Throw("timeout")
    /\ UNCHANGED <<usePool, lost, attempt, fresh, parsed, isDone, calls, stray, server>>

Written ==
    /\ Completes("write") /\ ~timedOut
    /\ server' = [server EXCEPT !.got = TRUE]
    /\ StartOp("header")
    /\ UNCHANGED <<usePool, lost, attempt, fresh, slots, parsed, isDone, calls, outcome,
                   pooled, stray>>

\* A bug: the position in the stream is not looked at.
ReusableAnywhere(done) == server.keepAlive /\ closed = "no"

\* The connection may go back to the pool: the stream was read to its end, the
\* header allows it, and release() finds the socket open.
Reusable(done) == done /\ server.keepAlive /\ closed = "no"

\* The header is there; a response without a body is complete at once.
HeaderRead ==
    /\ Completes("header") /\ ~timedOut /\ server.head
    /\ IF server.status # "ok"
       THEN /\ StartOp("errbody")
            /\ UNCHANGED <<slots, isDone, outcome, pooled>>
       ELSE \/ /\ StartOp("body")
               /\ UNCHANGED <<slots, isDone, outcome, pooled>>
            \/ /\ server.framed /\ server.ended /\ server.sent = 0
               /\ isDone' = TRUE
               /\ GiveBack(Reusable(TRUE))
               /\ outcome' = "ok" /\ pc' = "done"
    /\ UNCHANGED <<usePool, lost, attempt, fresh, parsed, calls, stray, server>>

\* A bug: a close inside a framed body is taken for its end.
BodyEndOrClose(n) == n = server.sent /\ (server.ended \/ ~server.up)

\* n is all of the body: a body without framing ends where the server closes.
BodyEnd(n) == n = server.sent /\ (server.ended \/ (~server.framed /\ ~server.up))

\* The body of a 429 or other non-2xx response is complete: the call throws.
ErrorBodyRead ==
    /\ Completes("errbody") /\ ~timedOut
    /\ BodyEnd(server.sent)
    /\ Throw("http")
    /\ UNCHANGED <<usePool, lost, attempt, fresh, parsed, isDone, calls, stray, server>>

LoopEnds(done, stop) == done \/ stop

CallWith(n, stop) == [attempt |-> attempt, from |-> parsed + 1, to |-> n, stop |-> stop]

\* One async_read_some, which parses the chunks up to n and the end of the body if
\* it is there, and the flushBody() after it: new data goes to onChunk, which may
\* ask to stop; stopping inside the body closes the connection (stopReading).
BodyRead(n, done, stop) ==
    /\ Completes("body") /\ ~timedOut
    /\ n \in parsed .. server.sent /\ (done => BodyEnd(n)) /\ (n > parsed \/ done)
    /\ stop => n > parsed
    /\ parsed' = n /\ isDone' = done
    /\ calls' = IF n = parsed THEN calls ELSE Append(calls, CallWith(n, stop))
    /\ IF LoopEnds(done, stop)
       THEN GiveBack(Reusable(done)) /\ outcome' = "ok" /\ pc' = "done"
       ELSE StartOp("body") /\ UNCHANGED <<slots, outcome, pooled>>
    /\ UNCHANGED <<usePool, lost, attempt, fresh, stray, server>>

\* onChunk throws.
ChunkThrows(n) ==
    /\ Completes("body") /\ ~timedOut
    /\ n \in parsed + 1 .. server.sent
    /\ parsed' = n /\ calls' = Append(calls, CallWith(n, FALSE))
    /\ Throw("error")
    /\ UNCHANGED <<usePool, lost, attempt, fresh, isDone, stray, server>>

-----------------------------------------------------------------------------
(* The operations that fail *)

AnyDelivered == \E i \in DOMAIN calls : calls[i].attempt = attempt
MaxAttempts == IF usePool THEN 2 ELSE 1
isPoolRetryableError(e) == e \in {"end_of_stream", "reset"}

(* "aborted": the stream was closed under the operation or before it.         *)
(* "truncated": beast's partial_message or a TLS truncation.                  *)
Error(e) ==
    /\ pc \in Ops /\ ~late
    /\ \/ e = "aborted" /\ closed # "no"
       \/ /\ ~server.up /\ closed # "before"
          /\ \/ e = "reset"
             \/ e = "end_of_stream" /\ pc = "header" /\ ~server.head
             \/ /\ e = "truncated" /\ ~server.ended
                /\ \/ pc = "header" /\ ~server.head
                   \/ pc \in {"errbody", "body"} /\ server.framed
Errors == {"aborted", "reset", "end_of_stream", "truncated"}

\* A bug: an attempt that has delivered data is retried.
RetriesDelivered(e) == /\ ~timedOut
                       /\ usePool /\ ~fresh
                       /\ attempt + 1 < MaxAttempts
                       /\ isPoolRetryableError(e)

\* A bug: the flag of the timer is not looked at in the catch block.
RetriesTimedOut(e) == /\ usePool /\ ~fresh
                      /\ attempt + 1 < MaxAttempts
                      /\ ~AnyDelivered
                      /\ isPoolRetryableError(e)

Retries(e) == /\ ~timedOut
              /\ usePool /\ ~fresh
              /\ attempt + 1 < MaxAttempts
              /\ ~AnyDelivered
              /\ isPoolRetryableError(e)

Retry(e) ==
    /\ Error(e) /\ Retries(e)
    /\ EndTimer /\ GiveBack(FALSE)
    /\ attempt' = attempt + 1 /\ pc' = "acquire"
    /\ UNCHANGED <<usePool, lost, fresh, parsed, isDone, calls, outcome, stray, server>>

Fail(e) ==
    /\ Error(e) /\ ~Retries(e)
    /\ EndTimer
    /\ Throw(IF timedOut THEN "timeout" ELSE "error")
    /\ UNCHANGED <<usePool, lost, attempt, fresh, parsed, isDone, calls, stray, server>>

\* The caller cancels the operation, or what the server sent is not HTTP.
Aborted ==
    /\ pc \in Ops /\ ~late /\ closed = "no"
    /\ EndTimer /\ Throw("error")
    /\ UNCHANGED <<usePool, lost, attempt, fresh, parsed, isDone, calls, stray, server>>

-----------------------------------------------------------------------------
(* The server *)

ServerSends ==
    /\ server.up /\ server.got /\ ~server.ended
    /\ \/ ~server.head /\ server' = [server EXCEPT !.head = TRUE]
       \/ server.head /\ server.sent < Chunks /\ server' = [server EXCEPT !.sent = @ + 1]
       \/ server.head /\ server.framed /\ server' = [server EXCEPT !.ended = TRUE]
    /\ UNCHANGED <<pc, usePool, lost, attempt, fresh, closed, slots, parsed, isDone, timer,
                   timedOut, late, calls, outcome, pooled, stray>>

ServerCloses ==
    /\ server.up
    /\ server' = [server EXCEPT !.up = FALSE]
    /\ UNCHANGED <<pc, usePool, lost, attempt, fresh, closed, slots, parsed, isDone, timer,
                   timedOut, late, calls, outcome, pooled, stray>>

Client ==
    \/ Acquire \/ AcquireFail
    \/ OpTooLate \/ Written \/ HeaderRead \/ ErrorBodyRead
    \/ \E n \in 0 .. Chunks, done, stop \in BOOLEAN : BodyRead(n, done, stop)
    \/ \E n \in 1 .. Chunks : ChunkThrows(n)
    \/ \E e \in Errors : Retry(e) \/ Fail(e)
    \/ TimerFires \/ LateFires

Next == Client \/ CancellationLost \/ Expire \/ Aborted \/ ServerSends \/ ServerCloses

\* The io_context runs its handlers and timers expire; the server owes nothing, and a
\* handshake whose deadline was lost owes nothing either.
Spec == Init /\ [][Next]_vars /\ WF_vars(Client /\ ~lost) /\ WF_vars(Expire)

-----------------------------------------------------------------------------
(* Properties *)

\* The slot is owned exactly while an operation is under way: every way out of
\* doSseExchange gives it back once.
SlotReturned == slots = IF usePool /\ pc \in Ops THEN 1 ELSE 0

\* The caller sees the chunks of one response, each once and in order, and none after it
\* asked to stop: a retry never delivers again what an earlier attempt delivered.
DeliveredOnce ==
    \A i \in DOMAIN calls :
        /\ calls[i].attempt = calls[1].attempt
        /\ calls[i].from = IF i = 1 THEN 1 ELSE calls[i - 1].to + 1
        /\ calls[i].stop => i = Len(calls)

\* A connection goes back to the pool only with its response read to the end and
\* the server willing to keep it: no rest of a stream meets the next borrower.
PooledAtBoundary == pooled => isDone /\ server.keepAlive /\ parsed = server.sent

\* A call that returns normally without having been asked to stop has delivered
\* every chunk of the response: a stream cut short is never taken for a whole one.
OkIsComplete ==
    outcome = "ok" /\ (\A i \in DOMAIN calls : ~calls[i].stop) =>
        /\ server.framed => server.ended
        /\ server.sent = IF calls = <<>> THEN 0 ELSE Last(calls).to

\* An operation whose own timer has closed the stream ends the call as a timeout:
\* not as a success, not as a plain error, not with a retry.
TimeoutIsReported == [][timedOut /\ pc' # pc => outcome' = "timeout"]_vars

\* Whatever the server does, requestSseAsync returns: closing the stream ends every
\* operation of the exchange, over TLS too.  Only a TLS handshake before it can hang.
SseReturns == <>(pc = "done") \/ <>[]lost

\* http_client.h:250: once onChunk has asked to stop the connection is cut at once.
StopDisconnects == calls # <<>> /\ Last(calls).stop => ~pooled

\* http_client.cpp:88 and :131: the timer's handler does not run once its
\* operation is over, so it never closes a stream it no longer guards.
NoStrayClose == ~stray
=============================================================================
