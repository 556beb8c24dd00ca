------------------------------- MODULE WsClient -------------------------------
(***************************************************************************)
(* One WsClient (src/src/ws_client.cpp) on the executor it is bound to: the *)
(* coroutines that send, ping, close and receive through one Impl, against  *)
(* abort(), the destruction of the object, timeouts, cancellation and the   *)
(* peer.  At most one call of each kind is under way, as the stream below   *)
(* (beast's websocket::stream) demands; calls of different kinds overlap.   *)
(*                                                                         *)
(* A call captures impl_ when it is made ("called") and runs later: it ends *)
(* at once or waits on the stream ("waiting").  An operation ends on the    *)
(* stream before the coroutine that awaits it goes on and sets closed_; in  *)
(* between the other calls see a stream that fails and a client that is     *)
(* open.                                                                   *)
(*                                                                         *)
(* What the peer sends is a sequence of chunks, Parts of them to a message. *)
(***************************************************************************)
EXTENDS Integers, Sequences, FiniteSets, SequencesExt

CONSTANTS
    Parts,        \* async_read_some / async_write_some calls per message
    MaxMessages,  \* messages the peer can send
    MaxSends,     \* messages the client sends
    MaxCalls      \* calls under way at once

ASSUME WsAssumption ==
    Parts \in Nat \ {0} /\ MaxMessages \in Nat /\ MaxSends \in Nat /\ MaxCalls \in Nat

VARIABLES
    handle,     \* the WsClient object exists
    closed_,    \* Impl::closed_
    socket,     \* the lowest layer has not been closed by closeTransport
    stream,     \* beast's status: "open", "closing" (our close frame is out),
                \* or "failed" (failed or closed: nothing works any more)
    pc,         \* [Ops -> {"idle", "called", "waiting"} or, of an operation that ends,
                \*          "ending" (with an error) or one of EndsByPeer (recv)]
    begun,      \* recv: chunks consumed when the call began
    pos,        \* chunks of the peer consumed so far
    got,        \* results of recv that are messages
    sending,    \* messages begun by sendText/sendBinary
    part,       \* parts of the message under way written so far
    wire,       \* data frames on the wire, as <<message, part>>
    cancelled,  \* ghost: the caller cancelled a send, ping or close
    peer        \* [out: chunks sent, close: its close frame is out]

vars == <<handle, closed_, socket, stream, pc, begun, pos, got, sending, part, wire,
          cancelled, peer>>
recvVars == <<begun, pos, got>>
sendVars == <<sending, part, wire>>

Ops == {"recv", "send", "ping", "close"}

\* async_read_some answers a close frame ("closing") or a frame that it does not take
\* ("refusing") and shuts the transport down; after the first it is done ("closed").
EndsByPeer == {"closing", "refusing", "closed"}
Chunks == Parts * MaxMessages
Data == [type : {"data"}, from : 1 .. Chunks, to : 1 .. Chunks]
Close == [type |-> "close"]

TypeOK ==
    /\ handle \in BOOLEAN /\ closed_ \in BOOLEAN /\ socket \in BOOLEAN
    /\ stream \in {"open", "closing", "failed"}
    /\ pc \in [Ops -> {"idle", "called", "waiting", "ending"} \cup EndsByPeer]
    /\ begun \in 0 .. Chunks /\ pos \in 0 .. Chunks /\ got \in Seq(Data \cup {Close})
    /\ sending \in 0 .. MaxSends /\ part \in 0 .. Parts
    /\ wire \in Seq((1 .. MaxSends) \X (1 .. Parts))
    /\ cancelled \in BOOLEAN
    /\ peer \in [out : 0 .. Chunks, close : BOOLEAN]

\* wsConnect or wrapAcceptedWs has returned the client.
Init ==
    /\ handle = TRUE /\ closed_ = FALSE /\ socket = TRUE /\ stream = "open"
    /\ pc = [o \in Ops |-> "idle"]
    /\ begun = 0 /\ pos = 0 /\ got = <<>>
    /\ sending = 0 /\ part = 0 /\ wire = <<>>
    /\ cancelled = FALSE
    /\ peer = [out |-> 0, close |-> FALSE]

-----------------------------------------------------------------------------
(* The calls *)

usable == ~closed_

Return(o) == pc' = [pc EXCEPT ![o] = "idle"]

Call(o) ==
    /\ handle /\ pc[o] = "idle"
    /\ o = "send" => sending < MaxSends
    /\ Cardinality({p \in Ops : pc[p] # "idle"}) < MaxCalls
    /\ pc' = [pc EXCEPT ![o] = "called"]
    /\ UNCHANGED <<handle, closed_, socket, stream, recvVars, sendVars, cancelled, peer>>

\* "connection closed"; closeOnImpl returns success here.
Refuse(o) ==
    /\ pc[o] = "called" /\ ~usable
    /\ Return(o)
    /\ UNCHANGED <<handle, closed_, socket, stream, recvVars, sendVars, cancelled, peer>>

\* "ping payload too large"
PingTooLarge ==
    /\ pc["ping"] = "called" /\ usable
    /\ Return("ping")
    /\ UNCHANGED <<handle, closed_, socket, stream, recvVars, sendVars, cancelled, peer>>

\* A bug: a new message goes on at the offset of the last one.
BeginAtOldOffset(o) ==
    /\ pc[o] = "called" /\ usable
    /\ pc' = [pc EXCEPT ![o] = "waiting"]
    /\ begun' = IF o = "recv" THEN pos ELSE begun
    /\ sending' = IF o = "send" THEN sending + 1 ELSE sending
    /\ closed_' = (closed_ \/ o = "close")
    /\ UNCHANGED <<handle, socket, stream, pos, got, part, wire, cancelled, peer>>

\* The call starts its operation on the stream; a close marks the client closed first.
Begin(o) ==
    /\ pc[o] = "called" /\ usable
    /\ pc' = [pc EXCEPT ![o] = "waiting"]
    /\ begun' = IF o = "recv" THEN pos ELSE begun
    /\ IF o = "send" THEN sending' = sending + 1 /\ part' = 0 ELSE UNCHANGED <<sending, part>>
    /\ closed_' = (closed_ \/ o = "close")
    /\ UNCHANGED <<handle, socket, stream, pos, got, wire, cancelled, peer>>

-----------------------------------------------------------------------------
(* Operations that progress: beast's stream as the code uses it (external)   *)

Works(o) == pc[o] = "waiting" /\ socket /\ stream # "failed"

MessageDone(n) == n % Parts = 0

\* One async_read_some; the call returns when the message is done.
RecvChunk ==
    /\ Works("recv") /\ pos < peer.out
    /\ pos' = pos + 1
    /\ IF MessageDone(pos')
       THEN /\ got' = Append(got, [type |-> "data", from |-> begun + 1, to |-> pos'])
            /\ Return("recv")
       ELSE UNCHANGED <<got, pc>>
    /\ UNCHANGED <<handle, closed_, socket, stream, begun, sendVars, cancelled, peer>>

\* The peer's close frame, or a frame against the protocol or beyond maxMessageSize:
\* inside async_read_some beast closes the stream and awaits its reply ...
PeerEnds ==
    /\ Works("recv")
    /\ pc' = [pc EXCEPT !["recv"] =
                IF pos = peer.out /\ peer.close THEN "closing" ELSE "refusing"]
    /\ stream' = "closing"
    /\ UNCHANGED <<handle, closed_, socket, recvVars, sendVars, cancelled, peer>>

\* ... and the shutdown of the transport, before the operation is done.
TornDown ==
    /\ pc["recv"] = "closing" /\ socket
    /\ pc' = [pc EXCEPT !["recv"] = "closed"]
    /\ stream' = "failed"
    /\ UNCHANGED <<handle, closed_, socket, recvVars, sendVars, cancelled, peer>>

\* A bug: the close frame is returned like any other message.
RecvCloseOpen ==
    /\ pc["recv"] = "closed"
    /\ closed_' = closed_
    /\ got' = Append(got, Close)
    /\ Return("recv")
    /\ UNCHANGED <<handle, socket, stream, begun, pos, sendVars, cancelled, peer>>

\* error::closed, in recv: the peer's close frame is a message, and the end.
RecvClose ==
    /\ pc["recv"] = "closed"
    /\ closed_' = TRUE
    /\ got' = Append(got, Close)
    /\ Return("recv")
    /\ UNCHANGED <<handle, socket, stream, begun, pos, sendVars, cancelled, peer>>

\* One async_write_some; not once the close frame is out.
SendChunk ==
    /\ Works("send") /\ stream = "open"
    /\ part' = part + 1
    /\ wire' = Append(wire, <<sending, part'>>)
    /\ IF part' = Parts THEN Return("send") ELSE UNCHANGED pc
    /\ UNCHANGED <<handle, closed_, socket, stream, recvVars, sending, cancelled, peer>>

PingDone ==
    /\ Works("ping") /\ stream = "open"
    /\ Return("ping")
    /\ UNCHANGED <<handle, closed_, socket, stream, recvVars, sendVars, cancelled, peer>>

CloseFrameOut ==
    /\ Works("close") /\ stream = "open"
    /\ stream' = "closing"
    /\ UNCHANGED <<handle, closed_, socket, pc, recvVars, sendVars, cancelled, peer>>

\* The peer's close frame: async_close reads it itself when no recv is under way.
CloseDone ==
    /\ Works("close") /\ stream = "closing" /\ peer.close
    /\ stream' = "failed"
    /\ Return("close")
    /\ UNCHANGED <<handle, closed_, socket, recvVars, sendVars, cancelled, peer>>

-----------------------------------------------------------------------------
(* Operations that fail *)

\* An operation that fails may break the stream.  Beast says that a cancelled read
\* does; nothing here relies on it.
Breaks == stream' \in {"failed", stream}

UnderWay(o) == pc[o] \in {"waiting", "closing", "refusing"}

\* The deadline of one read, write, ping or close (cancel_after), a transport that
\* is closed here or by the peer, a stream that has failed, a write while closing.
Fail(o) ==
    /\ UnderWay(o)
    /\ pc' = [pc EXCEPT ![o] = "ending"]
    /\ Breaks
    /\ UNCHANGED <<handle, closed_, socket, recvVars, sendVars, cancelled, peer>>

\* A bug: a failed send or ping leaves the client open.
FailedOpen(o) ==
    /\ pc[o] = "ending"
    /\ closed_' = (closed_ \/ o \in {"recv", "close"}) /\ Return(o)
    /\ UNCHANGED <<handle, socket, stream, recvVars, sendVars, cancelled, peer>>

\* A bug: a recv that gives up leaves the connection as it was, as ws_client.h:47 has it.
FailedHealthy(o) ==
    /\ pc[o] = "ending"
    /\ closed_' = (closed_ \/ o # "recv") /\ Return(o)
    /\ UNCHANGED <<handle, socket, stream, recvVars, sendVars, cancelled, peer>>

\* Every way a call fails marks the client closed: the error handlers, the
\* branch for operation_aborted, and closeOnImpl before it began.
Failed(o) ==
    /\ pc[o] = "ending"
    /\ closed_' = TRUE /\ Return(o)
    /\ UNCHANGED <<handle, socket, stream, recvVars, sendVars, cancelled, peer>>

\* The caller cancels.  recv takes that for a timeout, so it is a failure like others;
\* the others rethrow, and whether the error handler runs is up to catchErrorAsync.
Cancel(o) ==
    /\ UnderWay(o) /\ o # "recv"
    /\ Breaks /\ Return(o)
    /\ closed_' \in {closed_, TRUE} /\ cancelled' = TRUE
    /\ UNCHANGED <<handle, socket, recvVars, sendVars, peer>>

-----------------------------------------------------------------------------
(* abort(), the destructor and move assignment; the peer *)

closeTransport == closed_' = TRUE /\ socket' = FALSE

Abort ==
    /\ handle
    /\ closeTransport
    /\ UNCHANGED <<handle, stream, pc, recvVars, sendVars, cancelled, peer>>

\* A bug: the destructor leaves the transport to whoever holds the Impl.
DestroyHandle ==
    /\ handle
    /\ handle' = FALSE
    /\ UNCHANGED <<closed_, socket, stream, pc, recvVars, sendVars, cancelled, peer>>

Destroy ==
    /\ handle
    /\ handle' = FALSE /\ closeTransport
    /\ UNCHANGED <<stream, pc, recvVars, sendVars, cancelled, peer>>

\* What the peer does once our end is gone reaches nobody.
PeerActs == socket /\ stream # "failed" /\ ~peer.close

PeerSends ==
    /\ PeerActs /\ peer.out < Chunks /\ peer.out - pos < Parts
    /\ peer' = [peer EXCEPT !.out = @ + 1]
    /\ UNCHANGED <<handle, closed_, socket, stream, pc, recvVars, sendVars, cancelled>>

PeerCloses ==
    /\ PeerActs
    /\ peer' = [peer EXCEPT !.close = TRUE]
    /\ UNCHANGED <<handle, closed_, socket, stream, pc, recvVars, sendVars, cancelled>>

-----------------------------------------------------------------------------
Start(o) == Begin(o) \/ Refuse(o)

Next ==
    \/ \E o \in Ops : Call(o) \/ Begin(o) \/ Refuse(o) \/ Fail(o) \/ Failed(o) \/ Cancel(o)
    \/ PingTooLarge
    \/ RecvChunk \/ PeerEnds \/ TornDown \/ RecvClose
    \/ SendChunk \/ PingDone \/ CloseFrameOut \/ CloseDone
    \/ Abort \/ Destroy
    \/ PeerSends \/ PeerCloses

\* The executor runs the coroutines, and an operation on a closed socket fails.  That
\* a deadline ends one is not assumed: over TLS cancel_after may do nothing.  The peer
\* and the caller owe nothing.
Fairness ==
    /\ \A o \in Ops : WF_vars(Start(o)) /\ WF_vars(Failed(o)) /\ WF_vars(~socket /\ Fail(o))
    /\ WF_vars(RecvClose)

Spec == Init /\ [][Next]_vars /\ Fairness

-----------------------------------------------------------------------------
(* Properties *)

\* recv returns the peer's messages whole, once each and in order, and the close
\* frame after the last: a call that gave up inside a message, for a timeout, a
\* cancellation or an abort, is never followed by one that returns the rest.
RecvWhole ==
    \A i \in DOMAIN got :
        IF got[i] = Close
        THEN i = Len(got) /\ i - 1 = peer.out \div Parts
        ELSE got[i].from = Parts * (i - 1) + 1 /\ got[i].to = Parts * i

\* On the wire a message begins only when the one before it is complete: a send
\* that gave up half way is the last.  A cancelled one is the caller's own doing.
SentWhole ==
    ~cancelled =>
        \A i \in DOMAIN wire :
            IF wire[i][2] = 1 THEN i = 1 \/ wire[i - 1][2] = Parts
                              ELSE i > 1 /\ wire[i - 1] = <<wire[i][1], wire[i][2] - 1>>

\* isOpen() says yes of a stream that closes or has failed only while the call that
\* met the end has not resumed: once the calls have returned nobody takes a dead
\* client for an open one, except where the caller cancelled the call.
OpenMeansUsable ==
    handle /\ ~closed_ /\ ~cancelled =>
        socket /\ (stream = "open" \/ \E o \in Ops : pc[o] \in {"ending"} \cup EndsByPeer)

\* abort(), or dropping the object, ends every call that is under way, though the peer
\* is silent and no deadline takes effect.
AbandonedCallsReturn == \A o \in Ops : ~(handle /\ socket) /\ pc[o] # "idle" ~> pc[o] = "idle"
=============================================================================
