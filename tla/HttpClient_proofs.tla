--------------------------- MODULE HttpClient_proofs ---------------------------
(***************************************************************************)
(* Proofs about one call of HttpClient, for any followRedirect, any number  *)
(* of idle connections of others and any number of chunks: about            *)
(* requestSseAsync, about requestAsync (the operators of HttpRequest are    *)
(* written Request!...), and about the call as a whole, which is one of the *)
(* two. Of an SSE call, what onChunk has seen is tied to the position in    *)
(* the body (Delivery), and how a call that is over left the stream to the  *)
(* server's end of it, which the server cannot change any more (Boundary,   *)
(* Completion).                                                             *)
(***************************************************************************)
EXTENDS MCHttpClient, SequenceTheorems, TLAPS

(* requestSseAsync *)

\* Nothing is decided before the call is over.
Undecided == pc # "done" => outcome = "none" /\ ~pooled

\* Only an operation has a timer, and one that has fired has closed the stream.
Timing ==
    /\ timer # "none" => pc \in Ops
    /\ timedOut => pc \in Ops /\ closed # "no"

\* Where the last call of onChunk ended.
DeliveredTo == IF calls = <<>> THEN 0 ELSE Last(calls).to

\* The type invariant in three parts.
Control ==
    /\ pc \in Ops \cup {"acquire", "done"} /\ closed \in {"no", "now", "before"}
    /\ timer \in {"none", "armed", "queued"}
    /\ outcome \in {"none", "ok", "timeout", "error", "http"}
Flags ==
    /\ usePool \in BOOLEAN /\ fresh \in BOOLEAN /\ isDone \in BOOLEAN /\ timedOut \in BOOLEAN
    /\ late \in BOOLEAN /\ pooled \in BOOLEAN /\ stray \in BOOLEAN /\ lost \in BOOLEAN
Data ==
    /\ parsed \in 0 .. Chunks /\ calls \in Seq(Call) /\ server \in Server
    /\ attempt \in 0 .. 1 /\ slots \in 0 .. 1

NoStop == \A i \in DOMAIN calls : ~calls[i].stop

\* Calls are of the current attempt; an attempt begins without any, and inside the body
\* what is parsed has been delivered.
Delivery ==
    /\ \A i \in DOMAIN calls : calls[i].attempt = attempt
    /\ pc = "acquire" => calls = <<>>
    /\ pc \in {"write", "header", "errbody"} => calls = <<>> /\ parsed = 0
    /\ pc = "body" => parsed = DeliveredTo /\ NoStop

\* The server will send no more of this response.
NoMore == server.ended \/ (~server.framed /\ ~server.up)

Boundary == pooled => isDone /\ server.keepAlive /\ parsed = server.sent /\ NoMore

Completion == outcome = "ok" /\ NoStop => NoMore /\ server.sent = DeliveredTo

IInv ==
    /\ TypeOK /\ SlotReturned /\ Undecided /\ Timing
    /\ Delivery /\ DeliveredOnce /\ Boundary /\ Completion

-----------------------------------------------------------------------------
(* One more call of onChunk *)

LEMMA OneMoreCall ==
    ASSUME IInv, pc = "body", NEW n \in Nat, n \in parsed + 1 .. server.sent,
           NEW stop \in BOOLEAN, calls' = Append(calls, CallWith(n, stop)),
           attempt' = attempt
    PROVE  /\ calls' \in Seq(Call) /\ DeliveredOnce'
           /\ \A i \in DOMAIN calls' : calls'[i].attempt = attempt
           /\ calls' # <<>> /\ Last(calls').to = n
           /\ NoStop' <=> ~stop
<1> DEFINE c == CallWith(n, stop)
<1>1. /\ parsed \in Nat /\ server.sent \in 0 .. Chunks /\ calls \in Seq(Call)
      /\ attempt \in 0 .. 1 /\ Chunks \in Nat
  BY SseAssumption DEF IInv, TypeOK, Server
<1>2. c \in Call /\ c.from = parsed + 1 /\ c.to = n /\ c.stop = stop /\ c.attempt = attempt
  BY <1>1 DEF CallWith, Call
<1> HIDE DEF c
<1>3. /\ calls' \in Seq(Call) /\ Len(calls') = Len(calls) + 1 /\ Len(calls) \in Nat
      /\ DOMAIN calls' = 1 .. Len(calls) + 1 /\ DOMAIN calls = 1 .. Len(calls)
      /\ \A i \in 1 .. Len(calls) : calls'[i] = calls[i]
      /\ calls'[Len(calls) + 1] = c
  BY <1>1, <1>2 DEF c
<1>4. calls' # <<>> /\ Last(calls') = c
  BY <1>3 DEF Last
<1>5. parsed = DeliveredTo /\ NoStop /\ \A i \in DOMAIN calls : calls[i].attempt = attempt
  BY DEF IInv, Delivery
<1>6. calls = <<>> <=> Len(calls) = 0
  BY <1>1
<1>7. Len(calls) # 0 => parsed = calls[Len(calls)].to
  BY <1>5, <1>6 DEF DeliveredTo, Last
<1>8. Len(calls) = 0 => parsed = 0
  BY <1>5, <1>6 DEF DeliveredTo
<1>9. \A i \in DOMAIN calls' : calls'[i].attempt = attempt
  BY <1>2, <1>3, <1>5
<1>10. \A i \in DOMAIN calls' : calls'[i].stop => i = Len(calls')
  BY <1>3, <1>5 DEF NoStop
<1>11. ASSUME NEW i \in DOMAIN calls'
       PROVE  calls'[i].from = IF i = 1 THEN 1 ELSE calls'[i - 1].to + 1
  <2>1. CASE i \in 1 .. Len(calls)
    <3>1. calls[i].from = IF i = 1 THEN 1 ELSE calls[i - 1].to + 1
      BY <1>3, <2>1 DEF IInv, DeliveredOnce
    <3>2. i # 1 => i - 1 \in 1 .. Len(calls)
      BY <1>3, <2>1
    <3> QED  BY <1>3, <2>1, <3>1, <3>2
  <2>2. CASE i = Len(calls) + 1
    <3>1. CASE Len(calls) = 0
      BY <1>2, <1>3, <1>8, <2>2, <3>1
    <3>2. CASE Len(calls) # 0
      <4>1. i - 1 = Len(calls) /\ i # 1 /\ Len(calls) \in 1 .. Len(calls)
        BY <1>3, <2>2, <3>2
      <4> QED  BY <1>2, <1>3, <1>7, <2>2, <3>2, <4>1
    <3> QED  BY <3>1, <3>2
  <2> QED  BY <1>3, <1>11, <2>1, <2>2
<1>12. DeliveredOnce'
  <2>1. 1 \in DOMAIN calls'
    BY <1>3
  <2> QED  BY <1>9, <1>10, <1>11, <2>1 DEF DeliveredOnce
<1>13. NoStop' <=> ~stop
  BY <1>2, <1>3, <1>5 DEF NoStop
<1> QED  BY <1>2, <1>3, <1>4, <1>9, <1>12, <1>13

-----------------------------------------------------------------------------
(* The inductive invariant *)

LEMMA InitInv == Init => IInv
<1> SUFFICES ASSUME Init PROVE IInv
  OBVIOUS
<1>1. TypeOK
  <2>1. Control
    BY SseAssumption DEF TypeOK, Control, Init, Server, Listening, Ops
  <2>2. Flags
    BY SseAssumption DEF TypeOK, Flags, Init, Server, Listening, Ops
  <2>3. Data
    BY SseAssumption DEF TypeOK, Data, Init, Server, Listening, Ops
  <2> QED  BY <2>1, <2>2, <2>3 DEF TypeOK, Control, Flags, Data
<1>2. calls = <<>> /\ DOMAIN calls = {}
  BY DEF Init
<1> QED  BY <1>1, <1>2 DEF Init, IInv, SlotReturned, Undecided, Timing, Delivery, DeliveredOnce,
            Boundary, Completion, Ops

\* An attempt that ends without a result to deliver: the call throws.
LEMMA ThrowInv ==
    ASSUME IInv, pc \in Ops, NEW o \in {"timeout", "error", "http"}, Throw(o),
           UNCHANGED <<usePool, lost, attempt, fresh, isDone, stray, server>>, late' \in BOOLEAN,
           parsed' \in 0 .. Chunks, calls' \in Seq(Call), DeliveredOnce',
           \A i \in DOMAIN calls' : calls'[i].attempt = attempt
    PROVE  IInv'
<1>1. TypeOK'
  <2>1. Control'
    BY DEF TypeOK, Control, IInv, Throw, GiveBack, SlotReturned
  <2>2. Flags'
    BY DEF TypeOK, Flags, IInv, Throw, GiveBack, SlotReturned
  <2>3. Data'
    BY DEF TypeOK, Data, IInv, Throw, GiveBack, SlotReturned
  <2> QED  BY <2>1, <2>2, <2>3 DEF TypeOK, Control, Flags, Data
<1>2. SlotReturned' /\ Undecided' /\ Timing' /\ Boundary' /\ Completion' /\ Delivery'
  BY DEF IInv, TypeOK, Throw, GiveBack, SlotReturned, Undecided, Timing, Boundary, Completion,
         Delivery, Ops
<1> QED  BY <1>1, <1>2 DEF IInv

LEMMA StepInv == IInv /\ [Next]_vars => IInv'
<1> SUFFICES ASSUME IInv, [Next]_vars PROVE IInv'
  OBVIOUS
<1> USE SseAssumption
<1>0. Chunks \in Nat /\ TypeOK
  BY DEF IInv
<1>1. CASE Acquire
  <2>1. TypeOK'
    <3>1. Control'
      BY <1>0, <1>1 DEF TypeOK, Control, Acquire, StartOp, Server, Ops, IInv, SlotReturned
    <3>2. Flags'
      BY <1>0, <1>1 DEF TypeOK, Flags, Acquire, StartOp, Server, Ops, IInv, SlotReturned
    <3>3. Data'
      BY <1>0, <1>1 DEF TypeOK, Data, Acquire, StartOp, Server, Ops, IInv, SlotReturned
    <3> QED  BY <3>1, <3>2, <3>3 DEF TypeOK, Control, Flags, Data
  <2>2. SlotReturned' /\ Undecided' /\ Timing' /\ Boundary' /\ DeliveredOnce'
    BY <1>1 DEF Acquire, StartOp, Ops, IInv, SlotReturned, Undecided, Timing, Boundary, Delivery,
                DeliveredOnce
  <2>3. Delivery' /\ Completion'
    BY <1>1 DEF Acquire, StartOp, IInv, Delivery, Completion, Undecided
  <2> QED  BY <2>1, <2>2, <2>3 DEF IInv
<1>2. CASE AcquireFail
  <2>1. TypeOK'
    <3>1. Control'
      BY <1>0, <1>2 DEF TypeOK, Control, AcquireFail
    <3>2. Flags'
      BY <1>0, <1>2 DEF TypeOK, Flags, AcquireFail
    <3>3. Data'
      BY <1>0, <1>2 DEF TypeOK, Data, AcquireFail
    <3> QED  BY <3>1, <3>2, <3>3 DEF TypeOK, Control, Flags, Data
  <2>2. SlotReturned' /\ Undecided' /\ Timing' /\ Boundary' /\ Delivery' /\ Completion'
    BY <1>2 DEF AcquireFail, Ops, IInv, SlotReturned, Undecided, Timing, Boundary, Delivery,
                Completion
  <2> QED  BY <1>2, <2>1, <2>2 DEF IInv, AcquireFail, DeliveredOnce
<1>3. CASE OpTooLate
  BY <1>0, <1>3, ThrowInv DEF OpTooLate, Completes, EndTimer, IInv, Delivery, DeliveredOnce, TypeOK
<1>4. CASE Written
  <2>1. TypeOK'
    <3>1. Control'
      BY <1>0, <1>4 DEF TypeOK, Control, Written, Completes, EndTimer, StartOp, Server, Ops
    <3>2. Flags'
      BY <1>0, <1>4 DEF TypeOK, Flags, Written, Completes, EndTimer, StartOp, Server, Ops
    <3>3. Data'
      BY <1>0, <1>4 DEF TypeOK, Data, Written, Completes, EndTimer, StartOp, Server, Ops
    <3> QED  BY <3>1, <3>2, <3>3 DEF TypeOK, Control, Flags, Data
  <2>2. SlotReturned' /\ Undecided' /\ Timing' /\ Boundary' /\ Delivery' /\ Completion'
    BY <1>4 DEF Written, Completes, StartOp, Ops, IInv, SlotReturned, Undecided, Timing, Boundary,
                Delivery, Completion
  <2> QED  BY <1>4, <2>1, <2>2 DEF IInv, Written, DeliveredOnce
<1>5. CASE HeaderRead
  <2>0. /\ pc = "header" /\ calls = <<>> /\ parsed = 0 /\ calls' = calls /\ parsed' = parsed
        /\ server' = server /\ usePool' = usePool /\ attempt' = attempt
    BY <1>5 DEF HeaderRead, Completes, IInv, Delivery
  <2>1. CASE StartOp("errbody") /\ UNCHANGED <<slots, isDone, outcome, pooled>>
    <3>1. TypeOK'
      <4>1. Control'
        BY <1>0, <1>5, <2>1 DEF TypeOK, Control, HeaderRead, Completes, EndTimer, StartOp, Ops
      <4>2. Flags'
        BY <1>0, <1>5, <2>1 DEF TypeOK, Flags, HeaderRead, Completes, EndTimer, StartOp, Ops
      <4>3. Data'
        BY <1>0, <1>5, <2>1 DEF TypeOK, Data, HeaderRead, Completes, EndTimer, StartOp, Ops
      <4> QED  BY <4>1, <4>2, <4>3 DEF TypeOK, Control, Flags, Data
    <3>2. SlotReturned' /\ Undecided' /\ Timing' /\ Boundary' /\ Delivery' /\ Completion'
      BY <2>0, <2>1 DEF StartOp, Ops, IInv, SlotReturned, Undecided, Timing, Boundary, Delivery,
                        Completion
    <3> QED  BY <2>0, <3>1, <3>2 DEF IInv, DeliveredOnce
  <2>2. CASE StartOp("body") /\ UNCHANGED <<slots, isDone, outcome, pooled>>
    <3>1. TypeOK'
      <4>1. Control'
        BY <1>0, <1>5, <2>2 DEF TypeOK, Control, HeaderRead, Completes, EndTimer, StartOp, Ops
      <4>2. Flags'
        BY <1>0, <1>5, <2>2 DEF TypeOK, Flags, HeaderRead, Completes, EndTimer, StartOp, Ops
      <4>3. Data'
        BY <1>0, <1>5, <2>2 DEF TypeOK, Data, HeaderRead, Completes, EndTimer, StartOp, Ops
      <4> QED  BY <4>1, <4>2, <4>3 DEF TypeOK, Control, Flags, Data
    <3>2. SlotReturned' /\ Undecided' /\ Timing' /\ Boundary' /\ Completion'
      BY <2>0, <2>2 DEF StartOp, Ops, IInv, SlotReturned, Undecided, Timing, Boundary, Completion
    <3>3. Delivery'
      BY <2>0, <2>2 DEF StartOp, Delivery, DeliveredTo, NoStop
    <3> QED  BY <2>0, <3>1, <3>2, <3>3 DEF IInv, DeliveredOnce
  <2>3. CASE /\ server.framed /\ server.ended /\ server.sent = 0
             /\ isDone' = TRUE
             /\ GiveBack(Reusable(TRUE))
             /\ outcome' = "ok" /\ pc' = "done"
    <3>1. TypeOK'
      <4>1. Control'
        BY <1>0, <1>5, <2>3 DEF TypeOK, Control, HeaderRead, Completes, EndTimer, GiveBack,
                                Reusable, Ops, IInv, SlotReturned, Server
      <4>2. Flags'
        BY <1>0, <1>5, <2>3 DEF TypeOK, Flags, HeaderRead, Completes, EndTimer, GiveBack,
                                Reusable, Ops, IInv, SlotReturned, Server
      <4>3. Data'
        BY <1>0, <1>5, <2>3 DEF TypeOK, Data, HeaderRead, Completes, EndTimer, GiveBack,
                                Reusable, Ops, IInv, SlotReturned, Server
      <4> QED  BY <4>1, <4>2, <4>3 DEF TypeOK, Control, Flags, Data
    <3>2. SlotReturned' /\ Undecided' /\ Timing' /\ Delivery'
      BY <1>0, <2>0, <2>3 DEF GiveBack, Ops, IInv, SlotReturned, Undecided, Timing, Delivery, TypeOK
    <3>3. Boundary'
      BY <2>0, <2>3 DEF GiveBack, Reusable, Boundary, NoMore
    <3>4. Completion'
      BY <2>0, <2>3 DEF Completion, NoMore, DeliveredTo
    <3> QED  BY <2>0, <3>1, <3>2, <3>3, <3>4 DEF IInv, DeliveredOnce
  <2> QED  BY <1>5, <2>1, <2>2, <2>3 DEF HeaderRead
<1>6. CASE ErrorBodyRead
  BY <1>0, <1>6, ThrowInv DEF ErrorBodyRead, Completes, EndTimer, IInv, Delivery, DeliveredOnce,
                              TypeOK, Ops
<1>7. ASSUME NEW n \in 0 .. Chunks, NEW done \in BOOLEAN, NEW stop \in BOOLEAN,
             BodyRead(n, done, stop)
      PROVE  IInv'
  <2>1. /\ pc = "body" /\ n \in parsed .. server.sent /\ (done => BodyEnd(n))
        /\ parsed' = n /\ isDone' = done /\ (stop => n > parsed)
        /\ UNCHANGED <<usePool, lost, attempt, fresh, stray, server>>
        /\ late' \in BOOLEAN /\ parsed \in Nat /\ n \in Nat /\ server.sent \in Nat
    BY <1>0, <1>7 DEF BodyRead, Completes, EndTimer, TypeOK, Server
  <2>2. /\ calls' \in Seq(Call) /\ DeliveredOnce'
        /\ \A i \in DOMAIN calls' : calls'[i].attempt = attempt
        /\ n = DeliveredTo' /\ (NoStop' <=> ~stop)
    <3>1. CASE n = parsed
      <4>1. calls' = calls
        BY <1>7, <3>1 DEF BodyRead
      <4>2. parsed = DeliveredTo /\ NoStop /\ ~stop
        BY <2>1, <3>1 DEF IInv, Delivery
      <4>3. DeliveredTo' = DeliveredTo /\ NoStop' = NoStop
        BY <4>1 DEF DeliveredTo, NoStop
      <4>4. DeliveredOnce'
        BY <4>1 DEF IInv, DeliveredOnce
      <4>5. \A i \in DOMAIN calls' : calls'[i].attempt = attempt
        BY <4>1 DEF IInv, Delivery
      <4> QED  BY <1>0, <3>1, <4>1, <4>2, <4>3, <4>4, <4>5 DEF TypeOK
    <3>2. CASE n # parsed
      <4>1. n \in parsed + 1 .. server.sent /\ calls' = Append(calls, CallWith(n, stop))
        BY <1>7, <2>1, <3>2 DEF BodyRead
      <4> QED  BY <2>1, <4>1, OneMoreCall DEF DeliveredTo
    <3> QED  BY <3>1, <3>2
  <2>3. CASE LoopEnds(done, stop)
    <3>1. GiveBack(Reusable(done)) /\ outcome' = "ok" /\ pc' = "done"
      BY <1>7, <2>3 DEF BodyRead
    <3>2. TypeOK'
      <4>1. Control'
        BY <1>0, <2>1, <2>2, <3>1 DEF TypeOK, Control, GiveBack, Reusable, Ops, IInv,
                                      SlotReturned, Server
      <4>2. Flags'
        BY <1>0, <2>1, <2>2, <3>1 DEF TypeOK, Flags, GiveBack, Reusable, Ops, IInv,
                                      SlotReturned, Server
      <4>3. Data'
        BY <1>0, <2>1, <2>2, <3>1 DEF TypeOK, Data, GiveBack, Reusable, Ops, IInv,
                                      SlotReturned, Server
      <4> QED  BY <4>1, <4>2, <4>3 DEF TypeOK, Control, Flags, Data
    <3>3. SlotReturned' /\ Undecided' /\ Timing' /\ Delivery'
      BY <1>0, <2>1, <2>2, <3>1 DEF GiveBack, Ops, IInv, SlotReturned, Undecided, Timing, Delivery,
                                    TypeOK
    <3>4. Boundary'
      BY <2>1, <3>1 DEF GiveBack, Reusable, Boundary, NoMore, BodyEnd
    <3>5. Completion'
      BY <2>1, <2>2, <2>3 DEF LoopEnds, Completion, NoMore, BodyEnd
    <3> QED  BY <2>2, <3>2, <3>3, <3>4, <3>5 DEF IInv
  <2>4. CASE ~LoopEnds(done, stop)
    <3>1. StartOp("body") /\ UNCHANGED <<slots, outcome, pooled>>
      BY <1>7, <2>4 DEF BodyRead
    <3>2. TypeOK'
      <4>1. Control'
        BY <1>0, <2>1, <2>2, <3>1 DEF TypeOK, Control, StartOp, Ops
      <4>2. Flags'
        BY <1>0, <2>1, <2>2, <3>1 DEF TypeOK, Flags, StartOp, Ops
      <4>3. Data'
        BY <1>0, <2>1, <2>2, <3>1 DEF TypeOK, Data, StartOp, Ops
      <4> QED  BY <4>1, <4>2, <4>3 DEF TypeOK, Control, Flags, Data
    <3>3. SlotReturned' /\ Undecided' /\ Timing' /\ Boundary' /\ Completion'
      BY <2>1, <3>1 DEF StartOp, Ops, IInv, SlotReturned, Undecided, Timing, Boundary, Completion
    <3>4. Delivery'
      BY <2>1, <2>2, <2>4, <3>1 DEF StartOp, Delivery, LoopEnds
    <3> QED  BY <2>2, <3>2, <3>3, <3>4 DEF IInv
  <2> QED  BY <2>3, <2>4
<1>8. ASSUME NEW n \in 1 .. Chunks, ChunkThrows(n) PROVE IInv'
  <2>1. /\ pc = "body" /\ n \in parsed + 1 .. server.sent /\ n \in Nat /\ late' \in BOOLEAN
        /\ calls' = Append(calls, CallWith(n, FALSE)) /\ attempt' = attempt /\ parsed' = n
    BY <1>0, <1>8 DEF ChunkThrows, Completes, EndTimer
  <2>2. /\ calls' \in Seq(Call) /\ DeliveredOnce'
        /\ \A i \in DOMAIN calls' : calls'[i].attempt = attempt
    BY <2>1, OneMoreCall
  <2>3. parsed' \in 0 .. Chunks
    BY <1>0, <2>1
  <2> QED  BY <1>0, <1>8, <2>1, <2>2, <2>3, ThrowInv DEF ChunkThrows, Ops
<1>9. ASSUME NEW e \in Errors, Retry(e) PROVE IInv'
  <2>1. /\ pc \in Ops /\ usePool /\ attempt = 0 /\ attempt' = 1 /\ pc' = "acquire" /\ ~timedOut
        /\ late' \in BOOLEAN /\ slots' = 0 /\ pooled' = FALSE /\ closed' = "before"
        /\ timer' = "none" /\ timedOut' = FALSE
        /\ UNCHANGED <<usePool, lost, fresh, parsed, isDone, calls, outcome, stray, server>>
    BY <1>0, <1>9 DEF Retry, Error, Retries, MaxAttempts, EndTimer, GiveBack, TypeOK, IInv,
                      SlotReturned
  <2>2. calls = <<>>
    <3>1. \A i \in DOMAIN calls : calls[i].attempt = attempt
      BY DEF IInv, Delivery
    <3>2. DOMAIN calls = {}
      BY <1>9, <3>1 DEF Retry, Retries, AnyDelivered
    <3> QED  BY <1>0, <3>2 DEF TypeOK
  <2>3. TypeOK'
    <3>1. Control'
      BY <1>0, <2>1 DEF TypeOK, Control
    <3>2. Flags'
      BY <1>0, <2>1 DEF TypeOK, Flags
    <3>3. Data'
      BY <1>0, <2>1 DEF TypeOK, Data
    <3> QED  BY <3>1, <3>2, <3>3 DEF TypeOK, Control, Flags, Data
  <2>4. SlotReturned' /\ Undecided' /\ Timing' /\ Boundary' /\ Delivery' /\ Completion'
    BY <2>1, <2>2 DEF Ops, IInv, SlotReturned, Undecided, Timing, Boundary, Delivery, Completion
  <2> QED  BY <2>1, <2>2, <2>3, <2>4 DEF IInv, DeliveredOnce
<1>10. ASSUME NEW e \in Errors, Fail(e) PROVE IInv'
  <2>1. \E o \in {"timeout", "error", "http"} : Throw(o)
    BY <1>10 DEF Fail
  <2> QED  BY <1>0, <1>10, <2>1, ThrowInv DEF Fail, Error, EndTimer, IInv, Delivery, DeliveredOnce,
                                            TypeOK
<1>11. CASE TimerFires
  BY <1>0, <1>11 DEF TimerFires, Closed, IInv, TypeOK, SlotReturned, Undecided, Timing, Boundary,
       Delivery, DeliveredOnce, Completion, DeliveredTo, NoStop, NoMore, Ops
<1>12. CASE LateFires
  <2>1. closed' \in {closed, Closed} /\ Closed \in {"now", "before"}
    BY <1>12 DEF LateFires, Closed
  <2>2. late' = FALSE /\ stray' = TRUE
        /\ UNCHANGED <<pc, usePool, lost, attempt, fresh, slots, parsed, isDone, timer, timedOut,
                       calls, outcome, pooled, server>>
    BY <1>12 DEF LateFires
  <2>3. TypeOK'
    <3>1. Control'
      BY <1>0, <2>1, <2>2 DEF TypeOK, Control
    <3>2. Flags'
      BY <1>0, <2>2 DEF TypeOK, Flags
    <3>3. Data'
      BY <1>0, <2>2 DEF TypeOK, Data
    <3> QED  BY <3>1, <3>2, <3>3 DEF TypeOK, Control, Flags, Data
  <2>4. SlotReturned' /\ Undecided' /\ Timing' /\ Delivery' /\ DeliveredOnce' /\ Boundary'
        /\ Completion'
    BY <2>1, <2>2 DEF IInv, SlotReturned, Undecided, Timing, Boundary, Delivery, DeliveredOnce,
                      Completion, DeliveredTo, NoStop, NoMore
  <2> QED  BY <2>3, <2>4 DEF IInv
<1>13. CASE Expire
  BY <1>0, <1>13 DEF Expire, IInv, TypeOK, SlotReturned, Undecided, Timing, Boundary,
       Delivery, DeliveredOnce, Completion, DeliveredTo, NoStop, NoMore, Ops
<1>14. CASE Aborted
  BY <1>0, <1>14, ThrowInv DEF Aborted, EndTimer, IInv, Delivery, DeliveredOnce, TypeOK
<1>15. CASE ServerSends
  <2>1. TypeOK'
    <3>1. Control'
      BY <1>0, <1>15 DEF TypeOK, Control, ServerSends, Server
    <3>2. Flags'
      BY <1>0, <1>15 DEF TypeOK, Flags, ServerSends, Server
    <3>3. server' \in Server
      <4>2. CASE server' = [server EXCEPT !.head = TRUE]
        BY <1>0, <4>2 DEF TypeOK, Server
      <4>3. CASE server.sent < Chunks /\ server' = [server EXCEPT !.sent = @ + 1]
        BY <1>0, <4>3 DEF TypeOK, Server
      <4>4. CASE server' = [server EXCEPT !.ended = TRUE]
        BY <1>0, <4>4 DEF TypeOK, Server
      <4> QED  BY <1>15, <4>2, <4>3, <4>4 DEF ServerSends
    <3>4. Data'
      BY <1>0, <1>15, <3>3 DEF TypeOK, Data, ServerSends
    <3> QED  BY <3>1, <3>2, <3>4 DEF TypeOK, Control, Flags, Data
  <2>2. SlotReturned' /\ Undecided' /\ Timing' /\ Delivery' /\ DeliveredOnce'
    BY <1>15 DEF ServerSends, IInv, SlotReturned, Undecided, Timing, Delivery, DeliveredOnce,
                 DeliveredTo, NoStop
  <2>3. ~NoMore /\ pooled' = pooled
    BY <1>15 DEF ServerSends, NoMore
  <2>4. Boundary' /\ Completion'
    BY <1>15, <2>3 DEF ServerSends, IInv, Boundary, Completion, NoStop
  <2> QED  BY <2>1, <2>2, <2>4 DEF IInv
<1>16. CASE ServerCloses
  <2>1. TypeOK'
    <3>1. Control'
      BY <1>0, <1>16 DEF TypeOK, Control, ServerCloses, Server
    <3>2. Flags'
      BY <1>0, <1>16 DEF TypeOK, Flags, ServerCloses, Server
    <3>3. Data'
      BY <1>0, <1>16 DEF TypeOK, Data, ServerCloses, Server
    <3> QED  BY <3>1, <3>2, <3>3 DEF TypeOK, Control, Flags, Data
  <2>2. /\ server'.ended = server.ended /\ server'.sent = server.sent
        /\ server'.keepAlive = server.keepAlive /\ NoMore => NoMore'
    BY <1>0, <1>16 DEF ServerCloses, TypeOK, Server, NoMore
  <2> QED  BY <1>16, <2>1, <2>2 DEF ServerCloses, IInv, SlotReturned, Undecided, Timing, Boundary,
              Delivery, DeliveredOnce, Completion, DeliveredTo, NoStop
<1>17. CASE UNCHANGED vars
  BY <1>0, <1>17 DEF vars, IInv, TypeOK, SlotReturned, Undecided, Timing, Boundary,
       Delivery, DeliveredOnce, Completion, DeliveredTo, NoStop, NoMore, Ops
<1>18. CASE CancellationLost
  BY <1>0, <1>18 DEF CancellationLost, IInv, TypeOK, SlotReturned, Undecided, Timing, Boundary,
       Delivery, DeliveredOnce, Completion, DeliveredTo, NoStop, NoMore, Ops
<1> QED  BY <1>1, <1>2, <1>3, <1>4, <1>5, <1>6, <1>7, <1>8, <1>9, <1>10, <1>11, <1>12, <1>13,
            <1>14, <1>15, <1>16, <1>17, <1>18 DEF Next, Client
-----------------------------------------------------------------------------
(* requestAsync: the invariant *)

\* Outside of exchange() there is no connection, and nothing is outstanding on one
\* before the request has been written.
Outstanding ==
    /\ reqPc \notin {"write", "read"} => conn = Request!None
    /\ conn.phase # "quiet" => reqPc = "read"

\* The last request the server executed is the current attempt's, if one is under way.
LastRun ==
    conn.phase \in {"run", "part", "full"} =>
        /\ runs # <<>>
        /\ runs[Len(runs)].hop = redirectCount /\ runs[Len(runs)].attempt = reqAttempt

\* Nobody has the body any more once a request went out without it.
BodyGone == \A i \in DOMAIN runs : ~runs[i].withBody => ~withBody

\* The type invariant but for what has only two values.
RequestData ==
    /\ reqPc \in {"hop", "acquire", "write", "read", "check", "done"}
    /\ redirectCount \in 0 .. FollowRedirect
    /\ reqAttempt \in 0 .. 1
    /\ withBody \in BOOLEAN
    /\ conn \in Request!Connection
    /\ idle \in Seq(Request!Connection)
    /\ reqSlots \in 0 .. 1
    /\ result \in {"none", "ok", "error"}
    /\ response \in Request!Response
    /\ runs \in Seq([hop : 0 .. FollowRedirect, attempt : 0 .. 1, withBody : BOOLEAN,
                     answered : BOOLEAN])

RequestInv ==
    /\ Request!TypeOK /\ Request!SlotReturned /\ Request!IdleQuiescent
    /\ Outstanding /\ LastRun /\ BodyGone /\ Request!BodyNotReplayed

-----------------------------------------------------------------------------
(* Sequences of connections *)

LEMMA FrontIs ==
    ASSUME NEW S, NEW s \in Seq(S), s # <<>>
    PROVE  /\ Request!Front(s) \in Seq(S) /\ s[Len(s)] \in S
           /\ Request!Last(s) = s[Len(s)] /\ Len(s) \in DOMAIN s
           /\ \A i \in DOMAIN Request!Front(s) : i \in DOMAIN s /\ Request!Front(s)[i] = s[i]
<1>1. Len(s) \in Nat \ {0} /\ DOMAIN s = 1 .. Len(s)
  OBVIOUS
<1> QED  BY <1>1 DEF Request!Front, Request!Last

LEMMA AppendIs ==
    ASSUME NEW S, NEW s \in Seq(S), NEW e \in S
    PROVE  /\ Append(s, e) \in Seq(S) /\ Append(s, e) # <<>>
           /\ Len(Append(s, e)) = Len(s) + 1
           /\ DOMAIN Append(s, e) = 1 .. Len(s) + 1 /\ DOMAIN s = 1 .. Len(s) /\ Len(s) \in Nat
           /\ \A i \in 1 .. Len(s) : Append(s, e)[i] = s[i]
           /\ Append(s, e)[Len(s) + 1] = e
  OBVIOUS

-----------------------------------------------------------------------------
(* requestAsync *)

LEMMA RequestInit == Request!Init => RequestInv
<1> SUFFICES ASSUME Request!Init PROVE RequestInv
  OBVIOUS
<1>1. Request!TypeOK
  <2>1. RequestData
    BY RequestAssumption DEF Request!Init, RequestData, Request!None, Request!Connection,
       Request!Phases, Request!Response, Request!Kinds
  <2>2. reqPool \in BOOLEAN /\ reqTls \in BOOLEAN /\ reqLost \in BOOLEAN
    BY DEF Request!Init
  <2> QED  BY <2>1, <2>2 DEF RequestData, Request!TypeOK
<1>2. DOMAIN idle = {} /\ DOMAIN runs = {} /\ conn.phase = "quiet"
  BY DEF Request!Init, Request!None
<1>3. reqPc = "hop" /\ reqSlots = 0 /\ conn = Request!None
  BY DEF Request!Init
<1>4. Request!SlotReturned /\ Request!IdleQuiescent /\ Outstanding /\ LastRun
  BY <1>2, <1>3 DEF Request!SlotReturned, Request!IdleQuiescent, Outstanding, LastRun
<1>5. BodyGone /\ Request!BodyNotReplayed
  BY <1>2 DEF BodyGone, Request!BodyNotReplayed
<1> QED  BY <1>1, <1>4, <1>5 DEF RequestInv

\* The connection goes back, or is closed.
LEMMA ReleaseKeeps ==
    ASSUME RequestInv, reqPc \in {"write", "read"}, NEW c \in Request!Connection,
           NEW reusable \in BOOLEAN, reusable => c.phase = "quiet", Request!Release(c, reusable),
           reqPc' \notin {"write", "read"}, UNCHANGED reqPool
    PROVE  /\ conn' \in Request!Connection /\ conn' = Request!None /\ conn'.phase = "quiet"
           /\ reqSlots' = 0 /\ Request!SlotReturned'
           /\ idle' \in Seq(Request!Connection) /\ Request!IdleQuiescent'
<1>1. conn' = Request!None /\ Request!None \in Request!Connection /\ Request!None.phase = "quiet"
  BY DEF Request!Release, Request!None, Request!Connection, Request!Phases
<1>2. reqSlots' = 0 /\ Request!SlotReturned'
  BY DEF RequestInv, Request!SlotReturned, Request!Release
<1>3. idle' \in Seq(Request!Connection) /\ Request!IdleQuiescent'
  <2>1. CASE idle' = idle
    BY <2>1 DEF RequestInv, Request!TypeOK, Request!IdleQuiescent
  <2>2. CASE reusable /\ idle' = Append(idle, c)
    BY <2>2, AppendIs DEF RequestInv, Request!TypeOK, Request!IdleQuiescent
  <2> QED  BY <2>1, <2>2 DEF Request!Release
<1> QED  BY <1>1, <1>2, <1>3
\* Runs stay as they are, and so does the attempt they are of, or it is over.
LEMMA SameRuns ==
    ASSUME RequestInv, UNCHANGED runs, withBody' => withBody
    PROVE  BodyGone' /\ Request!BodyNotReplayed'
BY DEF RequestInv, BodyGone, Request!BodyNotReplayed

\* What is never assigned, and what has only the two values.
LEMMA RequestFlags ==
    ASSUME RequestInv, [Request!Next]_requestVars
    PROVE  reqPool' \in BOOLEAN /\ reqTls' \in BOOLEAN /\ reqLost' \in BOOLEAN
<1>0. reqPool \in BOOLEAN /\ reqTls \in BOOLEAN /\ reqLost \in BOOLEAN
  BY DEF RequestInv, Request!TypeOK
<1>1. UNCHANGED <<reqPool, reqTls>>
  BY DEF Request!Next, Request!Client, Request!Environment, requestVars, Request!StartHop,
     Request!AcquireReuse, Request!AcquireNew, Request!AcquireFail, Request!WriteOk, Request!ReadOk,
     Request!Retry, Request!Fail, Request!Redirect, Request!Finish, Request!CancellationLost,
     Request!ServerRuns, Request!ServerAnswers, Request!ServerCloses, Request!ServerClosesIdle,
     Request!OtherReleases, Request!OtherTakes
<1>2. reqLost' = reqLost \/ reqLost' = FALSE \/ reqLost' = TRUE
  BY DEF Request!Next, Request!Client, Request!Environment, requestVars, Request!StartHop,
     Request!AcquireReuse, Request!AcquireNew, Request!AcquireFail, Request!WriteOk, Request!ReadOk,
     Request!Retry, Request!Fail, Request!Redirect, Request!Finish, Request!CancellationLost,
     Request!ServerRuns, Request!ServerAnswers, Request!ServerCloses, Request!ServerClosesIdle,
     Request!OtherReleases, Request!OtherTakes
<1> QED  BY <1>0, <1>1, <1>2

LEMMA RequestTyped ==
    ASSUME RequestInv, [Request!Next]_requestVars, RequestData'
    PROVE  Request!TypeOK'
BY RequestFlags DEF RequestData, Request!TypeOK

LEMMA RequestStep == RequestInv /\ [Request!Next]_requestVars => RequestInv'
<1> SUFFICES ASSUME RequestInv, [Request!Next]_requestVars PROVE RequestInv'
  OBVIOUS
<1>0. Request!TypeOK /\ FollowRedirect \in Nat /\ IdleBound \in Nat
  BY RequestAssumption DEF RequestInv
<1>1. CASE Request!StartHop \/ Request!AcquireFail \/ Request!Finish \/ Request!Redirect
  <2>0. redirectCount' \in 0 .. FollowRedirect /\ withBody' \in BOOLEAN
    <3>1. CASE Request!Redirect
      BY <1>0, <3>1 DEF Request!Redirect, Request!Redirects, Request!BodyAfter, Request!TypeOK
    <3> QED  BY <1>0, <1>1, <3>1 DEF Request!StartHop, Request!AcquireFail, Request!Finish,
                Request!TypeOK
  <2>1. Request!TypeOK'
    <3>1. RequestData'
      BY <1>0, <1>1, <2>0 DEF Request!StartHop, Request!AcquireFail, Request!Finish,
         Request!Redirect, Request!TypeOK, RequestData
    <3> QED  BY <3>1, RequestTyped
  <2>2. BodyGone' /\ Request!BodyNotReplayed'
    BY <1>0, <1>1, SameRuns DEF Request!StartHop, Request!AcquireFail, Request!Finish,
       Request!Redirect, Request!BodyAfter, Request!TypeOK
  <2>3. conn.phase = "quiet" /\ UNCHANGED <<conn, idle>>
    BY <1>1 DEF Request!StartHop, Request!AcquireFail, Request!Finish, Request!Redirect,
       RequestInv, Outstanding
  <2>4. Request!SlotReturned' /\ Request!IdleQuiescent' /\ Outstanding' /\ LastRun'
    BY <1>1, <2>3 DEF Request!StartHop, Request!AcquireFail, Request!Finish, Request!Redirect,
       RequestInv, Request!SlotReturned, Request!IdleQuiescent, Outstanding, LastRun
  <2> QED  BY <2>1, <2>2, <2>4 DEF RequestInv
<1>2. CASE Request!AcquireReuse
  <2>1. /\ idle \in Seq(Request!Connection) /\ idle # <<>>
        /\ conn' = [idle[Len(idle)] EXCEPT !.fresh = FALSE] /\ idle' = Request!Front(idle)
    BY <1>0, <1>2 DEF Request!AcquireReuse, Request!TypeOK, Request!Last
  <2>2. /\ idle' \in Seq(Request!Connection) /\ Request!IdleQuiescent'
        /\ conn' \in Request!Connection /\ conn'.phase = "quiet"
    <3>1. PICK c \in Request!Connection :
            conn' = [c EXCEPT !.fresh = FALSE] /\ c.phase = "quiet"
      BY <2>1, FrontIs DEF RequestInv, Request!IdleQuiescent
    <3>2. conn' \in Request!Connection /\ conn'.phase = "quiet"
      BY <3>1 DEF Request!Connection
    <3>3. Request!Front(idle) \in Seq(Request!Connection)
      BY <2>1, FrontIs
    <3>4. ASSUME NEW i \in DOMAIN Request!Front(idle) PROVE Request!Front(idle)[i].phase = "quiet"
      BY <2>1, FrontIs DEF RequestInv, Request!IdleQuiescent
    <3> QED  BY <2>1, <3>2, <3>3, <3>4 DEF Request!IdleQuiescent
  <2>3. reqSlots = 0 /\ reqSlots' = 1 /\ reqPc' = "write" /\ reqPool
    BY <1>2 DEF Request!AcquireReuse, RequestInv, Request!SlotReturned
  <2>4. Request!TypeOK'
    <3>1. RequestData'
      BY <1>0, <1>2, <2>2, <2>3 DEF Request!AcquireReuse, Request!TypeOK, RequestData
    <3> QED  BY <3>1, RequestTyped
  <2>5. BodyGone' /\ Request!BodyNotReplayed'
    BY <1>2, SameRuns DEF Request!AcquireReuse
  <2> QED  BY <1>2, <2>2, <2>3, <2>4, <2>5 DEF Request!AcquireReuse, RequestInv,
              Request!SlotReturned, Outstanding, LastRun
<1>3. CASE Request!AcquireNew
  <2>1. /\ conn' = Request!New /\ Request!New \in Request!Connection
        /\ Request!New.phase = "quiet" /\ UNCHANGED idle
    BY <1>3 DEF Request!AcquireNew, Request!New, Request!Connection, Request!Phases
  <2>2. Request!TypeOK'
    <3>1. RequestData'
      BY <1>0, <1>3, <2>1 DEF Request!AcquireNew, Request!TypeOK, RequestData, RequestInv,
         Request!SlotReturned
    <3> QED  BY <3>1, RequestTyped
  <2>3. BodyGone' /\ Request!BodyNotReplayed'
    BY <1>3, SameRuns DEF Request!AcquireNew
  <2> QED  BY <1>3, <2>1, <2>2, <2>3 DEF Request!AcquireNew, RequestInv,
              Request!SlotReturned, Request!IdleQuiescent, Outstanding, LastRun
<1>4. CASE Request!WriteOk
  <2>1. conn' = [conn EXCEPT !.phase = "sent"] /\ conn' \in Request!Connection
        /\ conn'.phase = "sent"
    BY <1>0, <1>4 DEF Request!WriteOk, Request!TypeOK, Request!Connection, Request!Phases
  <2>2. Request!TypeOK'
    <3>1. RequestData'
      BY <1>0, <1>4, <2>1 DEF Request!WriteOk, Request!TypeOK, RequestData
    <3> QED  BY <3>1, RequestTyped
  <2>3. BodyGone' /\ Request!BodyNotReplayed'
    BY <1>4, SameRuns DEF Request!WriteOk
  <2> QED  BY <1>4, <2>1, <2>2, <2>3 DEF Request!WriteOk, RequestInv,
              Request!SlotReturned, Request!IdleQuiescent, Outstanding, LastRun
<1>5. CASE Request!ReadOk
  <2>1. /\ Request!AfterRead \in Request!Connection /\ Request!AfterRead.phase = "quiet"
        /\ response' \in Request!Response /\ response'.keepAlive \in BOOLEAN
    BY <1>0, <1>5 DEF Request!ReadOk, Request!ResponseArrived, Request!AfterRead,
       Request!TypeOK, Request!Connection, Request!Phases, Request!Response
  <2>2. /\ conn' \in Request!Connection /\ conn' = Request!None /\ conn'.phase = "quiet"
        /\ reqSlots' = 0 /\ Request!SlotReturned'
        /\ idle' \in Seq(Request!Connection) /\ Request!IdleQuiescent'
    BY <1>5, <2>1, ReleaseKeeps DEF Request!ReadOk
  <2>3. Request!TypeOK'
    <3>1. RequestData'
      BY <1>0, <1>5, <2>1, <2>2 DEF Request!ReadOk, Request!TypeOK, RequestData
    <3> QED  BY <3>1, RequestTyped
  <2>4. BodyGone' /\ Request!BodyNotReplayed'
    BY <1>5, SameRuns DEF Request!ReadOk
  <2> QED  BY <1>5, <2>2, <2>3, <2>4 DEF Request!ReadOk, RequestInv, Outstanding, LastRun
<1>6. ASSUME NEW e \in Request!Errors, Request!Retry(e) \/ Request!Fail(e) PROVE RequestInv'
  <2>1. Request!Release(conn, FALSE) /\ reqPc \in {"write", "read"}
        /\ reqPc' \in {"acquire", "done"} /\ UNCHANGED <<reqPool, runs, withBody>>
    BY <1>6 DEF Request!Retry, Request!Fail, Request!Error
  <2>2. /\ conn' \in Request!Connection /\ conn' = Request!None /\ conn'.phase = "quiet"
        /\ reqSlots' = 0 /\ Request!SlotReturned'
        /\ idle' \in Seq(Request!Connection) /\ Request!IdleQuiescent'
    BY <1>0, <2>1, ReleaseKeeps DEF Request!TypeOK
  <2>3. Request!TypeOK'
    <3>1. reqAttempt' \in 0 .. 1 /\ result' \in {"none", "ok", "error"}
      <4>1. CASE Request!Retry(e)
        BY <1>0, <4>1 DEF Request!Retry, Request!Retries, Request!MaxAttempts, Request!TypeOK
      <4>2. CASE Request!Fail(e)
        BY <1>0, <4>2 DEF Request!Fail, Request!TypeOK
      <4> QED  BY <1>6, <4>1, <4>2
    <3>2. UNCHANGED <<redirectCount, response>>
      BY <1>6 DEF Request!Retry, Request!Fail
    <3>3. RequestData'
      BY <1>0, <2>1, <2>2, <3>1, <3>2 DEF Request!TypeOK, RequestData
    <3> QED  BY <3>3, RequestTyped
  <2>4. BodyGone' /\ Request!BodyNotReplayed'
    BY <2>1, SameRuns
  <2> QED  BY <2>1, <2>2, <2>3, <2>4 DEF RequestInv, Outstanding, LastRun
<1>7. CASE Request!ServerRuns
  <2> DEFINE run == [hop |-> redirectCount, attempt |-> reqAttempt, withBody |-> withBody,
                     answered |-> FALSE]
             Run == [hop : 0 .. FollowRedirect, attempt : 0 .. 1, withBody : BOOLEAN,
                     answered : BOOLEAN]
  <2>1. /\ runs \in Seq(Run) /\ run \in Run /\ runs' = Append(runs, run)
        /\ conn' = [conn EXCEPT !.phase = "run"] /\ conn.phase = "sent"
    BY <1>0, <1>7 DEF Request!ServerRuns, Request!TypeOK
  <2>2. conn' \in Request!Connection /\ conn'.phase = "run" /\ reqPc = "read"
    BY <1>0, <2>1 DEF Request!TypeOK, Request!Connection, Request!Phases, RequestInv, Outstanding
  <2>3. run.hop = redirectCount /\ run.attempt = reqAttempt /\ run.withBody = withBody
    OBVIOUS
  <2> HIDE DEF run, Run
  <2>4. /\ runs' \in Seq(Run) /\ runs' # <<>> /\ runs'[Len(runs')] = run
        /\ DOMAIN runs' = 1 .. Len(runs) + 1 /\ DOMAIN runs = 1 .. Len(runs) /\ Len(runs) \in Nat
        /\ \A i \in 1 .. Len(runs) : runs'[i] = runs[i]
        /\ runs'[Len(runs) + 1] = run
    BY <2>1, AppendIs
  <2>5. Request!TypeOK'
    <3>1. RequestData'
      BY <1>0, <1>7, <2>2, <2>4 DEF Request!ServerRuns, Request!TypeOK, RequestData, Run
    <3> QED  BY <3>1, RequestTyped
  <2>6. BodyGone' /\ Request!BodyNotReplayed'
    BY <1>7, <2>3, <2>4 DEF Request!ServerRuns, RequestInv, BodyGone, Request!BodyNotReplayed
  <2> QED  BY <1>7, <2>2, <2>3, <2>4, <2>5, <2>6 DEF Request!ServerRuns, RequestInv,
              Request!SlotReturned, Request!IdleQuiescent, Outstanding, LastRun
<1>8. CASE Request!ServerAnswers
  <2>1. /\ conn' \in Request!Connection /\ conn'.phase \in {"part", "full"}
        /\ conn.phase \in {"run", "part"} /\ reqPc = "read"
    BY <1>0, <1>8 DEF Request!ServerAnswers, Request!TypeOK, Request!Connection, Request!Phases,
       RequestInv, Outstanding
  <2>2. /\ DOMAIN runs' = DOMAIN runs /\ Len(runs') = Len(runs) /\ runs' # <<>> /\ runs # <<>>
        /\ \A i \in DOMAIN runs : /\ runs'[i].hop = runs[i].hop
                                  /\ runs'[i].attempt = runs[i].attempt
                                  /\ runs'[i].withBody = runs[i].withBody
        /\ runs' \in Seq([hop : 0 .. FollowRedirect, attempt : 0 .. 1, withBody : BOOLEAN,
                          answered : BOOLEAN])
    <3> DEFINE Run == [hop : 0 .. FollowRedirect, attempt : 0 .. 1, withBody : BOOLEAN,
                       answered : BOOLEAN]
    <3>1. runs \in Seq(Run) /\ runs # <<>> /\ runs' = [runs EXCEPT ![Len(runs)].answered = TRUE]
      BY <1>0, <1>8, <2>1 DEF Request!ServerAnswers, Request!TypeOK, RequestInv, LastRun
    <3>2. Len(runs) \in DOMAIN runs /\ Len(runs) \in Nat
      BY <3>1
    <3>3. ASSUME NEW r \in Run
          PROVE  /\ [r EXCEPT !.answered = TRUE] \in Run
                 /\ [r EXCEPT !.answered = TRUE].hop = r.hop
                 /\ [r EXCEPT !.answered = TRUE].attempt = r.attempt
                 /\ [r EXCEPT !.answered = TRUE].withBody = r.withBody
      OBVIOUS
    <3> HIDE DEF Run
    <3>4. PICK r \in Run : r = runs[Len(runs)]
      BY <3>1, <3>2
    <3>5. runs' = [runs EXCEPT ![Len(runs)] = [r EXCEPT !.answered = TRUE]]
      BY <3>1, <3>4
    <3>6. PICK a \in Run : /\ runs' = [runs EXCEPT ![Len(runs)] = a]
                           /\ a.hop = r.hop /\ a.attempt = r.attempt /\ a.withBody = r.withBody
      BY <3>3, <3>5
    <3>7. runs' \in Seq(Run) /\ Len(runs') = Len(runs)
      <4>1. Len(runs) \in 1 .. Len(runs) /\ runs \in Seq(Run) /\ a \in Run
        BY <3>1, <3>2, <3>6
      <4>2. /\ [runs EXCEPT ![Len(runs)] = a] \in Seq(Run)
            /\ Len([runs EXCEPT ![Len(runs)] = a]) = Len(runs)
        BY <4>1, ExceptSeq
      <4> QED  BY <3>6, <4>2
    <3>8. runs' # <<>> /\ DOMAIN runs' = DOMAIN runs
      BY <3>1, <3>2, <3>7
    <3> QED  BY <3>1, <3>2, <3>4, <3>6, <3>7, <3>8 DEF Run
  <2>3. Len(runs) \in DOMAIN runs
    BY <1>0, <2>2 DEF Request!TypeOK
  <2>4. Request!TypeOK'
    <3>1. RequestData'
      BY <1>0, <1>8, <2>1, <2>2 DEF Request!ServerAnswers, Request!TypeOK, RequestData
    <3> QED  BY <3>1, RequestTyped
  <2>5. BodyGone' /\ Request!BodyNotReplayed'
    BY <1>8, <2>2 DEF Request!ServerAnswers, RequestInv, BodyGone, Request!BodyNotReplayed
  <2> QED  BY <1>8, <2>1, <2>2, <2>3, <2>4, <2>5 DEF Request!ServerAnswers, RequestInv,
              Request!SlotReturned, Request!IdleQuiescent, Outstanding, LastRun
<1>9. CASE Request!ServerCloses
  <2>1. /\ conn' \in Request!Connection /\ conn'.phase = conn.phase /\ conn.up
    BY <1>0, <1>9 DEF Request!ServerCloses, Request!TypeOK, Request!Connection
  <2>2. Request!TypeOK'
    <3>1. RequestData'
      BY <1>0, <1>9, <2>1 DEF Request!ServerCloses, Request!TypeOK, RequestData
    <3> QED  BY <3>1, RequestTyped
  <2>3. BodyGone' /\ Request!BodyNotReplayed'
    BY <1>9, SameRuns DEF Request!ServerCloses
  <2>4. reqPc \in {"write", "read"}
    BY <1>0, <2>1 DEF RequestInv, Outstanding, Request!None
  <2> QED  BY <1>9, <2>1, <2>2, <2>3, <2>4 DEF Request!ServerCloses, RequestInv,
              Request!SlotReturned, Request!IdleQuiescent, Outstanding, LastRun
<1>10. CASE \/ \E k \in 1 .. IdleBound + 1 : Request!ServerClosesIdle(k)
            \/ Request!OtherReleases \/ Request!OtherTakes
  <2>1. UNCHANGED <<reqPc, reqPool, reqTls, redirectCount, reqAttempt, withBody, conn, reqSlots,
                    result, response, reqLost, runs>>
    BY <1>10 DEF Request!ServerClosesIdle, Request!OtherReleases, Request!OtherTakes
  <2>2. idle' \in Seq(Request!Connection) /\ Request!IdleQuiescent'
    <3>0. idle \in Seq(Request!Connection) /\ \A i \in DOMAIN idle : idle[i].phase = "quiet"
      BY <1>0 DEF Request!TypeOK, RequestInv, Request!IdleQuiescent
    <3>1. ASSUME NEW k \in 1 .. IdleBound + 1, Request!ServerClosesIdle(k)
          PROVE  idle' \in Seq(Request!Connection) /\ Request!IdleQuiescent'
      <4>1. k \in DOMAIN idle /\ idle' = [idle EXCEPT ![k].up = FALSE]
        BY <3>1 DEF Request!ServerClosesIdle
      <4>2. idle[k] \in Request!Connection
        BY <3>0, <4>1
      <4>3. [idle[k] EXCEPT !.up = FALSE] \in Request!Connection
            /\ [idle[k] EXCEPT !.up = FALSE].phase = idle[k].phase
        BY <4>2 DEF Request!Connection
      <4> QED  BY <3>0, <4>1, <4>2, <4>3 DEF Request!IdleQuiescent
    <3>2. CASE Request!OtherReleases
      <4>1. Request!New \in Request!Connection /\ Request!New.phase = "quiet"
        BY DEF Request!New, Request!Connection, Request!Phases
      <4> QED  BY <3>0, <3>2, <4>1, AppendIs DEF Request!OtherReleases, Request!IdleQuiescent
    <3>3. CASE Request!OtherTakes
      BY <3>0, <3>3, FrontIs DEF Request!OtherTakes, Request!IdleQuiescent
    <3> QED  BY <1>10, <3>1, <3>2, <3>3
  <2>3. Request!TypeOK'
    <3>1. RequestData'
      BY <1>0, <2>1, <2>2 DEF Request!TypeOK, RequestData
    <3> QED  BY <3>1, RequestTyped
  <2>4. BodyGone' /\ Request!BodyNotReplayed'
    BY <2>1, SameRuns
  <2> QED  BY <2>1, <2>2, <2>3, <2>4 DEF RequestInv, Request!SlotReturned, Outstanding, LastRun
<1>11. CASE UNCHANGED requestVars
  BY <1>11 DEF requestVars, RequestInv, Request!TypeOK, Request!SlotReturned,
     Request!IdleQuiescent, Outstanding, LastRun, BodyGone, Request!BodyNotReplayed
<1>12. CASE Request!CancellationLost
  BY <1>0, <1>12 DEF Request!CancellationLost, RequestInv, Request!TypeOK, Request!SlotReturned,
     Request!IdleQuiescent, Outstanding, LastRun, BodyGone, Request!BodyNotReplayed
<1> QED  BY <1>1, <1>2, <1>3, <1>4, <1>5, <1>6, <1>7, <1>8, <1>9, <1>10, <1>11, <1>12
         DEF Request!Next, Request!Client, Request!Environment

-----------------------------------------------------------------------------
(* The call, one or the other *)

CallInv ==
    /\ call = "request" => RequestInv
    /\ IInv

\* The SSE call that is not made rests in a state of the invariant.
LEMMA RestInv == RestSse => IInv
<1> SUFFICES ASSUME RestSse PROVE IInv
  OBVIOUS
<1>1. server \in Server /\ calls \in Seq(Call)
  <2>1. /\ server = [up |-> FALSE, got |-> FALSE, head |-> FALSE, status |-> "ok",
                     framed |-> TRUE, sent |-> 0, ended |-> FALSE, keepAlive |-> TRUE]
        /\ calls = <<>>
    BY DEF RestSse
  <2>2. 0 \in 0 .. Chunks /\ "ok" \in Statuses
    BY SseAssumption DEF Statuses
  <2> QED  BY <2>1, <2>2 DEF Server
<1>2. TypeOK
  <2>1. 0 \in 0 .. Chunks
    BY SseAssumption
  <2>2. Control
    BY DEF RestSse, Control
  <2>3. Flags
    BY DEF RestSse, Flags
  <2>4. Data
    BY <1>1, <2>1 DEF RestSse, Data
  <2> QED  BY <2>2, <2>3, <2>4 DEF TypeOK, Control, Flags, Data
<1>3. DOMAIN calls = {}
  BY DEF RestSse
<1> QED
  BY <1>2, <1>3 DEF RestSse, IInv, SlotReturned, Undecided, Timing, Delivery, DeliveredOnce,
     Boundary, Completion, Ops

LEMMA CallInvHolds == CallSpec => []CallInv
<1>1. CallInit => CallInv
  BY RequestInit, RestInv, InitInv DEF CallInit, CallInv
<1>2. CallInv /\ [CallNext]_callVars => CallInv'
  <2> SUFFICES ASSUME CallInv, [CallNext]_callVars PROVE CallInv'
    OBVIOUS
  <2>1. call' = call
    BY DEF CallNext, callVars
  <2>2. call = "request" => [Request!Next]_requestVars
    BY DEF CallNext, callVars
  <2>3. [Next]_vars
    BY DEF CallNext, callVars
  <2> QED  BY <2>1, <2>2, <2>3, RequestStep, StepInv DEF CallInv
<1> QED  BY <1>1, <1>2, PTL DEF CallSpec

-----------------------------------------------------------------------------
(* Theorems *)

\* In every state of a call the SSE half is in its invariant.
LEMMA SseInvHolds == CallSpec => []IInv
<1>1. CallInv => IInv
  BY DEF CallInv
<1> QED  BY <1>1, CallInvHolds, PTL

\* The type invariant, for any number of chunks.
THEOREM TypeCorrect == CallSpec => []TypeOK
  BY SseInvHolds, PTL DEF IInv

\* Every way out of doSseExchange() gives the slot back, once.
THEOREM SlotIsReturned == CallSpec => []SlotReturned
  BY SseInvHolds, PTL DEF IInv

\* onChunk sees the chunks of one response, once and in order, and is left alone after it
\* asked to stop.
THEOREM DeliversOnce == CallSpec => []DeliveredOnce
  BY SseInvHolds, PTL DEF IInv

\* Only a connection that stands between two responses goes back to the pool.
THEOREM PoolsAtBoundary == CallSpec => []PooledAtBoundary
<1>1. IInv => PooledAtBoundary
  BY DEF IInv, Boundary, PooledAtBoundary
<1> QED  BY <1>1, SseInvHolds, PTL

\* A call that ends well, without having been asked to stop, has delivered everything.
THEOREM CompleteIfOk == CallSpec => []OkIsComplete
<1>1. IInv => OkIsComplete
  <2> SUFFICES ASSUME IInv, outcome = "ok", \A i \in DOMAIN calls : ~calls[i].stop
               PROVE  /\ server.framed => server.ended
                      /\ server.sent = IF calls = <<>> THEN 0 ELSE Last(calls).to
    BY DEF OkIsComplete
  <2>1. NoMore /\ server.sent = DeliveredTo
    BY DEF IInv, Completion, NoStop
  <2> QED  BY <2>1 DEF NoMore, DeliveredTo
<1> QED  BY <1>1, SseInvHolds, PTL

\* An operation that its own timer has ended is reported as a timeout.
THEOREM TimeoutsAreReported == CallSpec => TimeoutIsReported
<1>1. ASSUME IInv, [Next]_vars PROVE [timedOut /\ pc' # pc => outcome' = "timeout"]_vars
  <2> SUFFICES ASSUME Next, timedOut, pc' # pc PROVE outcome' = "timeout"
    BY <1>1 DEF vars
  <2>1. pc \in Ops /\ pc # "acquire" /\ closed # "no"
    BY <1>1 DEF IInv, Timing, Ops
  <2>2. CASE OpTooLate
    BY <2>2 DEF OpTooLate, Throw
  <2>3. ASSUME NEW e \in Errors, Retry(e) \/ Fail(e) PROVE outcome' = "timeout"
    BY <2>3 DEF Retry, Retries, Fail, Throw
  <2>4. CASE Acquire \/ AcquireFail \/ Aborted
    BY <2>1, <2>4 DEF Acquire, AcquireFail, Aborted
  <2>5. CASE Written \/ HeaderRead \/ ErrorBodyRead
    BY <2>5 DEF Written, HeaderRead, ErrorBodyRead
  <2>6. ASSUME NEW n \in 0 .. Chunks, NEW done \in BOOLEAN, NEW stop \in BOOLEAN,
               BodyRead(n, done, stop) \/ ChunkThrows(n)
        PROVE  FALSE
    BY <2>6 DEF BodyRead, ChunkThrows
  <2>7. 1 .. Chunks \subseteq 0 .. Chunks
    BY SseAssumption
  <2>8. CASE TimerFires \/ LateFires \/ Expire \/ CancellationLost \/ ServerSends \/ ServerCloses
    BY <2>8 DEF TimerFires, LateFires, Expire, CancellationLost, ServerSends, ServerCloses
  <2> QED  BY <2>2, <2>3, <2>4, <2>5, <2>6, <2>7, <2>8 DEF Next, Client
<1>2. [CallNext]_callVars => [Next]_vars
  BY DEF CallNext, callVars
<1> QED  BY <1>1, <1>2, SseInvHolds, PTL DEF CallSpec, TimeoutIsReported

\* requestAsync gives its slot back whichever way it leaves exchange(), returns only quiet
\* connections to the pool, and reads no answer but its own request's.
THEOREM ExchangesAreClean == CallSpec => []ExchangeIsClean
<1>1. CallInv => ExchangeIsClean
  BY DEF CallInv, RequestInv, ExchangeIsClean, Request!AnswerIsMine, Outstanding, LastRun, Request!Last
<1> QED  BY <1>1, CallInvHolds, PTL

\* A body that a redirect has dropped goes out neither with a later hop nor with a retry.
THEOREM BodyStaysDropped == CallSpec => []BodyNotReplayed
<1>1. CallInv => BodyNotReplayed
  BY DEF CallInv, RequestInv, BodyNotReplayed
<1> QED  BY <1>1, CallInvHolds, PTL
=============================================================================
