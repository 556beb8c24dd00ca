---------------------------- MODULE MCHttpClient ----------------------------
(***************************************************************************)
(* One call of HttpClient for TLC: of requestSseAsync or of requestAsync.   *)
(* They do not meet but in the pool: the other one rests in one state.      *)
(***************************************************************************)
EXTENDS SseRequest

CONSTANTS FollowRedirect, IdleBound

ASSUME RequestAssumption == FollowRedirect \in Nat /\ IdleBound \in Nat

VARIABLES
    call,
    reqPc, reqPool, reqTls, redirectCount, reqAttempt, withBody, conn, idle, reqSlots, result,
    response, reqLost, runs   \* HttpRequest

requestVars == <<reqPc, reqPool, reqTls, redirectCount, reqAttempt, withBody, conn, idle,
                 reqSlots, result, response, reqLost, runs>>
callVars == <<call, vars, requestVars>>

Request == INSTANCE HttpRequest WITH pc <- reqPc, usePool <- reqPool, tls <- reqTls,
                                     attempt <- reqAttempt, slots <- reqSlots, lost <- reqLost

RestRequest ==
    /\ reqPc = "done" /\ reqPool = FALSE /\ reqTls = FALSE /\ redirectCount = 0 /\ reqAttempt = 0
    /\ reqLost = FALSE
    /\ withBody = TRUE /\ conn = Request!None /\ idle = <<>> /\ reqSlots = 0 /\ result = "ok"
    /\ response = [kind |-> "final", keepAlive |-> FALSE] /\ runs = <<>>
RestSse ==
    /\ pc = "done" /\ usePool = FALSE /\ lost = FALSE /\ attempt = 0 /\ fresh = TRUE
    /\ closed = "before"
    /\ slots = 0 /\ parsed = 0 /\ isDone = FALSE /\ timer = "none" /\ timedOut = FALSE
    /\ late = FALSE /\ calls = <<>> /\ outcome = "error" /\ pooled = FALSE /\ stray = FALSE
    /\ server = [up |-> FALSE, got |-> FALSE, head |-> FALSE, status |-> "ok", framed |-> TRUE,
                 sent |-> 0, ended |-> FALSE, keepAlive |-> TRUE]

CallInit ==
    \/ call = "request" /\ Request!Init /\ RestSse
    \/ call = "sse" /\ Init /\ RestRequest

CallNext ==
    /\ UNCHANGED call
    /\ \/ call = "request" /\ Request!Next /\ UNCHANGED vars
       \/ call = "sse" /\ Next /\ UNCHANGED requestVars

\* As in HttpRequest and SseRequest.
CallFairness ==
    /\ WF_callVars(call = "request" /\ Request!Client /\ ~Request!Hangs /\ UNCHANGED <<call, vars>>)
    /\ WF_callVars(call = "sse" /\ Client /\ ~lost /\ UNCHANGED <<call, requestVars>>)
    /\ WF_callVars(call = "sse" /\ Expire /\ UNCHANGED <<call, requestVars>>)

CallSpec == CallInit /\ [][CallNext]_callVars /\ CallFairness

\* requestAsync: every way out of exchange() gives the slot back, once, and a connection
\* with no rest of a response on it; the response a call reads answers its own request.
ExchangeIsClean ==
    call = "request" =>
        Request!TypeOK /\ Request!SlotReturned /\ Request!IdleQuiescent /\ Request!AnswerIsMine

\* requestAsync: a body that a redirect dropped is not sent again.
BodyNotReplayed == call = "request" => Request!BodyNotReplayed

\* Both calls return, whatever the server does, unless ssl::stream loses a deadline.
CallReturns == Request!RequestReturns /\ SseReturns
=============================================================================
