---------------------------- MODULE WsClient_proofs ----------------------------
(***************************************************************************)
(* Proofs about a connection from its set-up on, for any timeout, poll      *)
(* interval and floors, any number of messages, of parts to a message and   *)
(* of calls at once.                                                       *)
(*                                                                         *)
(* Of the set-up one thing carries both results: a phase begins with the    *)
(* look-up finished, and its timer is due at the deadline, or, if that has  *)
(* passed, one floor after the end of the phase before it.                  *)
(*                                                                         *)
(* Of the client closed_ is what the argument turns on: a client that is    *)
(* open stands between two messages in both directions, or has the call      *)
(* under way that is inside one.                                           *)
(***************************************************************************)
EXTENDS MCWsClient, SequenceTheorems, TLAPS

-----------------------------------------------------------------------------
(* The set-up: createConnection and wsConnect *)

\* The phases that may be left while one is under way.
Rest ==
    /\ phase \in {"url", "dns"} =>
         todo \in {<<"tcp">>, <<"tcp", "tls">>, <<"tcp", "ws">>, <<"tcp", "tls", "ws">>}
    /\ phase = "tcp" => todo \in {<<>>, <<"tls">>, <<"ws">>, <<"tls", "ws">>}
    /\ phase = "tls" => todo \in {<<>>, <<"ws">>}
    /\ phase \in {"ws"} \cup Outcomes => todo = <<>>

\* No timer is passed.  Polls begin before the deadline; a later phase is due at the
\* deadline or by its floor behind the phase before it, which ends by then.
Due ==
    /\ now \in Nat /\ limit \in Nat
    /\ phase \in {"url"} \cup Outcomes => now = 0 /\ limit = 0
    /\ phase = "dns" => now <= limit /\ limit < LastPoll
    /\ phase = "tcp" => now <= limit /\ limit < LastPoll + Floor
    /\ phase = "tls" => now <= limit /\ limit < LastPoll + Floor + Floor
    /\ phase = "ws" => now <= limit /\ limit < LastPoll + Floor + Floor + Floor

\* done is set once the results are there.
LookedUp == lookup.done => lookup.result # "none"

SetupInv == SetupTypeOK /\ NeedsEndpoints /\ LookedUp /\ Due /\ Rest

-----------------------------------------------------------------------------
LEMMA FloorType == ASSUME ws \in BOOLEAN
                   PROVE  /\ Floor \in Nat /\ Deadline \in Nat /\ LastPoll \in Nat
                          /\ Deadline < LastPoll
  BY SetupAssumption DEF Floor, Deadline, LastPoll

Todos == {<<>>, <<"tcp">>, <<"tls">>, <<"ws">>, <<"tcp", "tls">>, <<"tcp", "ws">>,
          <<"tls", "ws">>, <<"tcp", "tls", "ws">>}

LEMMA TodoType == \A t \in Todos : t \in UNION {[1 .. n -> Handshakes] : n \in 0 .. 3}
<1> SUFFICES ASSUME NEW t \in Todos
             PROVE  \E n \in 0 .. 3 : t \in [1 .. n -> Handshakes]
  OBVIOUS
<1>1. CASE t = <<>>
  <2>1. t \in [1 .. 0 -> Handshakes]
    BY <1>1
  <2> QED  BY <2>1
<1>2. CASE t \in {<<"tcp">>, <<"tls">>, <<"ws">>}
  <2>1. t \in [1 .. 1 -> Handshakes]
    BY <1>2 DEF Handshakes
  <2> QED  BY <2>1
<1>3. CASE t \in {<<"tcp", "tls">>, <<"tcp", "ws">>, <<"tls", "ws">>}
  <2>1. t \in [1 .. 2 -> Handshakes]
    BY <1>3 DEF Handshakes
  <2> QED  BY <2>1
<1>4. CASE t = <<"tcp", "tls", "ws">>
  <2>1. t \in [1 .. 3 -> Handshakes]
    BY <1>4 DEF Handshakes
  <2> QED  BY <2>1
<1> QED  BY <1>1, <1>2, <1>3, <1>4 DEF Todos

LEMMA SetupInitInv == SetupInit => SetupInv
<1> SUFFICES ASSUME SetupInit PROVE SetupInv
  OBVIOUS
<1>1. todo \in {<<"tcp">>, <<"tcp", "tls">>, <<"tcp", "ws">>, <<"tcp", "tls", "ws">>}
  BY DEF SetupInit, Plan
<1>2. todo \in Todos
  BY <1>1 DEF Todos
<1>3. ws \in BOOLEAN /\ tls \in BOOLEAN /\ lost \in BOOLEAN
      /\ phase \in {"url", "dns"} /\ now = 0 /\ limit = 0
      /\ lookup = [result |-> "none", done |-> FALSE]
  BY DEF SetupInit
<1>4. Floor \in Nat /\ Deadline \in Nat /\ LastPoll \in Nat /\ Deadline < LastPoll
  BY <1>3, FloorType
<1>5. SetupTypeOK
  <2>1. todo \in UNION {[1 .. n -> Handshakes] : n \in 0 .. 3}
    BY <1>2, TodoType
  <2>2. 0 \in 0 .. LastPoll + 3 * Floor
    BY <1>4
  <2> QED  BY <1>3, <2>1, <2>2 DEF SetupTypeOK
<1>6. NeedsEndpoints /\ LookedUp /\ Due
  BY <1>3, <1>4 DEF NeedsEndpoints, LookedUp, Due, Handshakes, Outcomes
<1>7. Rest
  BY <1>1, <1>3 DEF Rest, Outcomes
<1> QED  BY <1>5, <1>6, <1>7 DEF SetupInv

\* The call is over.
LEMMA EndsKeeps ==
    ASSUME SetupInv, NEW outcome \in Outcomes, Ends(outcome),
           outcome = "connected" => lookup = [result |-> "endpoints", done |-> TRUE]
    PROVE  SetupInv'
<1>1. /\ ws' = ws /\ tls' \in BOOLEAN /\ lost' \in BOOLEAN
      /\ phase' \in Outcomes /\ todo' = <<>> /\ now' = 0 /\ limit' = 0
      /\ lookup' = lookup /\ phase' = outcome
  BY DEF Ends
<1>2. Floor' = Floor /\ LastPoll' = LastPoll /\ Floor \in Nat /\ LastPoll \in Nat
  BY <1>1, FloorType DEF SetupInv, SetupTypeOK, Floor, LastPoll, Deadline
<1>3. SetupTypeOK'
  <2>1. (todo \in UNION {[1 .. n -> Handshakes] : n \in 0 .. 3})'
    BY <1>1, TodoType DEF Todos
  <2>2. 0 \in 0 .. LastPoll + 3 * Floor
    BY <1>2
  <2> QED  BY <1>1, <1>2, <2>1, <2>2 DEF SetupInv, SetupTypeOK
<1>4. NeedsEndpoints' /\ LookedUp' /\ Due'
  BY <1>1, <1>2 DEF SetupInv, NeedsEndpoints, LookedUp, Due, Handshakes, Outcomes
<1>5. Rest'
  BY <1>1 DEF Rest, Outcomes
<1> QED  BY <1>3, <1>4, <1>5 DEF SetupInv

\* The next phase: it begins with endpoints, and with a timer that is due in time.
LEMMA ProceedKeeps ==
    ASSUME SetupInv, phase \in {"dns"} \cup Handshakes, Proceed,
           lookup = [result |-> "endpoints", done |-> TRUE]
    PROVE  SetupInv'
<1>1. CASE todo = <<>>
  BY <1>1, EndsKeeps DEF Proceed, Outcomes
<1>2. CASE todo # <<>>
  <2>1. /\ phase' = Head(todo) /\ todo' = Tail(todo) /\ limit' = now + remainingMs
        /\ ws' = ws /\ tls' = tls /\ lost' \in BOOLEAN /\ now' = now /\ lookup' = lookup
    BY <1>2 DEF Proceed
  <2>2. /\ Floor' = Floor /\ LastPoll' = LastPoll /\ Floor \in Nat /\ LastPoll \in Nat
        /\ Deadline \in Nat /\ Deadline < LastPoll /\ now \in Nat
    BY <2>1, FloorType DEF SetupInv, SetupTypeOK, Due, Floor, LastPoll, Deadline
  <2>3. limit' \in Nat /\ now <= limit' /\ (limit' < LastPoll \/ limit' = now + Floor)
    BY <2>1, <2>2 DEF remainingMs
  <2>4. \/ phase = "dns" /\ phase' = "tcp" /\ todo' \in {<<>>, <<"tls">>, <<"ws">>, <<"tls", "ws">>}
        \/ phase = "tcp" /\ phase' = "tls" /\ todo' \in {<<>>, <<"ws">>}
        \/ phase \in {"tcp", "tls"} /\ phase' = "ws" /\ todo' = <<>>
    <3>1. /\ Head(<<"tcp">>) = "tcp" /\ Tail(<<"tcp">>) = <<>>
          /\ Head(<<"tls">>) = "tls" /\ Tail(<<"tls">>) = <<>>
          /\ Head(<<"ws">>) = "ws" /\ Tail(<<"ws">>) = <<>>
      OBVIOUS
    <3>2. /\ Head(<<"tcp", "tls">>) = "tcp" /\ Tail(<<"tcp", "tls">>) = <<"tls">>
          /\ Head(<<"tcp", "ws">>) = "tcp" /\ Tail(<<"tcp", "ws">>) = <<"ws">>
          /\ Head(<<"tls", "ws">>) = "tls" /\ Tail(<<"tls", "ws">>) = <<"ws">>
      OBVIOUS
    <3>3. Head(<<"tcp", "tls", "ws">>) = "tcp" /\ Tail(<<"tcp", "tls", "ws">>) = <<"tls", "ws">>
      OBVIOUS
    <3>4. CASE phase = "dns"
      <4>1. todo \in {<<"tcp">>, <<"tcp", "tls">>, <<"tcp", "ws">>, <<"tcp", "tls", "ws">>}
        BY <3>4 DEF SetupInv, Rest, Outcomes
      <4> QED  BY <2>1, <3>1, <3>2, <3>3, <3>4, <4>1
    <3>5. CASE phase = "tcp"
      <4>1. todo \in {<<"tls">>, <<"ws">>, <<"tls", "ws">>}
        BY <1>2, <3>5 DEF SetupInv, Rest, Outcomes
      <4> QED  BY <2>1, <3>1, <3>2, <3>5, <4>1
    <3>6. CASE phase = "tls"
      <4>1. todo = <<"ws">>
        BY <1>2, <3>6 DEF SetupInv, Rest, Outcomes
      <4> QED  BY <2>1, <3>1, <3>6, <4>1
    <3>7. CASE phase = "ws"
      BY <1>2, <3>7 DEF SetupInv, Rest, Outcomes
    <3> QED  BY <3>4, <3>5, <3>6, <3>7 DEF Handshakes
  <2>5. phase' \in Handshakes /\ Rest'
    BY <2>4 DEF Handshakes, Rest, Outcomes
  <2>6. Due'
    <3>1. CASE phase = "dns" /\ phase' = "tcp"
      BY <2>1, <2>2, <2>3, <3>1 DEF SetupInv, Due, Outcomes
    <3>2. CASE phase = "tcp" /\ phase' = "tls"
      BY <2>1, <2>2, <2>3, <3>2 DEF SetupInv, Due, Outcomes
    <3>3. CASE phase \in {"tcp", "tls"} /\ phase' = "ws"
      BY <2>1, <2>2, <2>3, <3>3 DEF SetupInv, Due, Outcomes
    <3> QED  BY <2>4, <3>1, <3>2, <3>3
  <2>7. limit' <= LastPoll + 3 * Floor
    BY <2>2, <2>5, <2>6 DEF Due, Handshakes
  <2>8. SetupTypeOK'
    <3>1. (todo \in UNION {[1 .. n -> Handshakes] : n \in 0 .. 3})'
      <4>1. todo' \in Todos
        BY <2>4 DEF Todos
      <4> QED  BY <4>1, TodoType
    <3>2. limit' \in 0 .. LastPoll + 3 * Floor /\ now' \in 0 .. LastPoll + 3 * Floor
      BY <2>1, <2>2, <2>3, <2>7
    <3> QED  BY <2>1, <2>2, <2>5, <3>1, <3>2 DEF SetupInv, SetupTypeOK
  <2>9. NeedsEndpoints' /\ LookedUp'
    BY <2>1 DEF NeedsEndpoints, LookedUp
  <2> QED  BY <2>5, <2>6, <2>8, <2>9 DEF SetupInv
<1> QED  BY <1>1, <1>2

LEMMA SetupStepInv == SetupInv /\ [SetupNext]_setupVars => SetupInv'
<1> SUFFICES ASSUME SetupInv, [SetupNext]_setupVars PROVE SetupInv'
  OBVIOUS
<1>0. /\ SetupTypeOK /\ Due /\ Floor \in Nat /\ LastPoll \in Nat /\ Deadline \in Nat
      /\ PollInterval \in Nat /\ LastPoll = Deadline + PollInterval
  BY FloorType, SetupAssumption DEF SetupInv, SetupTypeOK, LastPoll
<1>1. CASE ParseUrl
  <2>1. CASE Ends("failed")
    BY <2>1, EndsKeeps DEF Outcomes
  <2>2. CASE phase' = "dns" /\ UNCHANGED <<ws, tls, todo, now, limit, lost, lookup>>
    <3>1. SetupTypeOK'
      BY <1>0, <2>2 DEF SetupTypeOK, LastPoll, Deadline, Floor
    <3>2. NeedsEndpoints' /\ LookedUp' /\ Rest'
      BY <1>1, <2>2 DEF ParseUrl, SetupInv, NeedsEndpoints, LookedUp, Rest, Outcomes, Handshakes
    <3>3. Due'
      BY <1>0, <1>1, <2>2, FloorType DEF ParseUrl, SetupTypeOK, Due, Outcomes,
                                            LastPoll, Deadline, Floor
    <3> QED  BY <3>1, <3>2, <3>3 DEF SetupInv
  <2> QED  BY <1>1, <2>1, <2>2 DEF ParseUrl
<1>2. CASE Poll
  <2>1. CASE Ends("failed")
    BY <2>1, EndsKeeps DEF Outcomes
  <2>2. CASE lookup.done /\ lookup.result # "error" /\ Proceed
    <3>1. lookup = [result |-> "endpoints", done |-> TRUE]
      BY <1>0, <2>2 DEF SetupInv, LookedUp, SetupTypeOK
    <3> QED  BY <1>2, <2>2, <3>1, ProceedKeeps DEF Poll
  <2>3. CASE /\ now < Deadline /\ limit' = now + PollInterval
             /\ UNCHANGED <<ws, tls, phase, todo, now, lost, lookup>>
    <3>1. limit' \in Nat /\ now <= limit' /\ limit' < LastPoll
      BY <1>0, <2>3 DEF Due
    <3>2. Due'
      BY <1>0, <1>2, <2>3, <3>1 DEF Poll, Due, Outcomes, LastPoll, Deadline
    <3>3. SetupTypeOK'
      <4>1. limit' \in 0 .. LastPoll + 3 * Floor
        BY <1>0, <3>1
      <4> QED  BY <1>0, <2>3, <4>1 DEF SetupTypeOK, LastPoll, Deadline, Floor
    <3>4. NeedsEndpoints' /\ LookedUp' /\ Rest'
      BY <2>3 DEF SetupInv, NeedsEndpoints, LookedUp, Rest, Outcomes
    <3> QED  BY <3>2, <3>3, <3>4 DEF SetupInv
  <2>4. now < Deadline \/ now >= Deadline
    BY <1>0 DEF Due
  <2> QED  BY <1>2, <2>1, <2>2, <2>3, <2>4 DEF Poll
<1>3. CASE PhaseDone
  <2>1. lookup = [result |-> "endpoints", done |-> TRUE]
    BY <1>3 DEF PhaseDone, SetupInv, NeedsEndpoints
  <2> QED  BY <1>3, <2>1, ProceedKeeps DEF PhaseDone
<1>4. CASE PhaseFails \/ PhaseTimesOut \/ HandshakeTimesOut \/ CancelSetup
  BY <1>4, EndsKeeps DEF PhaseFails, PhaseTimesOut, HandshakeTimesOut, CancelSetup, Outcomes
<1>5. CASE Resolved \/ ResolveDone
  <2>1. /\ UNCHANGED <<ws, tls, phase, todo, now, limit, lost>> /\ ~lookup.done
        /\ lookup' \in [result : {"none", "endpoints", "error"}, done : BOOLEAN]
        /\ lookup'.done => lookup'.result # "none"
    BY <1>0, <1>5 DEF Resolved, ResolveDone, SetupTypeOK, SetupInv, LookedUp
  <2>2. SetupTypeOK' /\ Due' /\ LookedUp'
    BY <1>0, <2>1 DEF SetupTypeOK, Due, LookedUp, LastPoll, Deadline, Floor
  <2>3. NeedsEndpoints' /\ Rest'
    <3>1. phase \notin Handshakes \cup {"connected"}
      BY <2>1 DEF SetupInv, NeedsEndpoints
    <3> QED  BY <2>1, <3>1 DEF SetupInv, NeedsEndpoints, Rest, Outcomes
  <2> QED  BY <2>2, <2>3 DEF SetupInv
<1>6. CASE Tick
  <2>1. /\ now' = now + 1 /\ now < limit /\ UNCHANGED <<ws, tls, phase, todo, limit, lost, lookup>>
        /\ phase \in {"dns"} \cup Handshakes
    BY <1>6 DEF Tick
  <2>2. now' \in Nat /\ now' <= limit /\ now' \in 0 .. LastPoll + 3 * Floor
    BY <1>0, <2>1 DEF Due, SetupTypeOK
  <2>3. SetupTypeOK'
    BY <1>0, <2>1, <2>2 DEF SetupTypeOK, LastPoll, Deadline, Floor
  <2>4. Due'
    BY <1>0, <2>1, <2>2 DEF Due, LastPoll, Deadline, Floor, Outcomes, Handshakes
  <2>5. NeedsEndpoints' /\ LookedUp' /\ Rest'
    BY <2>1 DEF SetupInv, NeedsEndpoints, LookedUp, Rest, Outcomes
  <2> QED  BY <2>3, <2>4, <2>5 DEF SetupInv
<1>7. CASE CancellationLost \/ UNCHANGED setupVars
  <2>1. /\ UNCHANGED <<ws, tls, phase, todo, now, limit, lookup>> /\ lost' \in BOOLEAN
    BY <1>0, <1>7 DEF CancellationLost, setupVars, SetupTypeOK
  <2> QED
    BY <2>1 DEF SetupInv, SetupTypeOK, NeedsEndpoints, LookedUp, Due, Rest, Outcomes,
                LastPoll, Deadline, Floor
<1> QED  BY <1>1, <1>2, <1>3, <1>4, <1>5, <1>6, <1>7 DEF SetupNext

-----------------------------------------------------------------------------
(* The client: where its calls stand *)

\* Only the peer's chunks are read, and a send is called when messages are left.
SendBounds == /\ pc["send"] = "called" => sending < MaxSends
              /\ pc["send"] = "waiting" => sending \in 1 .. MaxSends /\ part < Parts
Bounds == pos <= peer.out /\ SendBounds

\* A close marks the client before it begins.
CloseMarks == pc["close"] = "waiting" => closed_

Ending == \E o \in Ops : pc[o] \in {"ending"} \cup EndsByPeer
OpenUsable == ~closed_ /\ ~cancelled => socket /\ (stream = "open" \/ Ending)

\* Where recv stands: inside message Len(got) + 1, or between two.
NoClose == \A i \in DOMAIN got : got[i] # Close
Reading == /\ NoClose /\ begun = Parts * Len(got)
           /\ begun <= pos /\ pos < begun + Parts
Boundary == NoClose /\ pos = Parts * Len(got)
InRecv == pc["recv"] \notin {"idle", "called"}
AtClose == pc["recv"] \in {"closing", "closed"}
ReadPosition ==
    /\ InRecv => Reading
    /\ ~InRecv /\ ~closed_ => Boundary
    /\ AtClose => pos = peer.out /\ peer.close
    /\ ~NoClose => peer.close

\* Where send stands: the last frame on the wire ends a message, or is the one
\* before the next of the message under way.
LastEnds == wire = <<>> \/ wire[Len(wire)][2] = Parts
Inside == wire # <<>> /\ wire[Len(wire)] = <<sending, part>>
WritePosition ==
    ~cancelled =>
        /\ pc["send"] = "waiting" => IF part = 0 THEN LastEnds ELSE Inside
        /\ pc["send"] \in {"idle", "called"} /\ ~closed_ => LastEnds

IInv == /\ TypeOK /\ Bounds /\ CloseMarks /\ OpenUsable
        /\ ReadPosition /\ RecvWhole /\ WritePosition /\ SentWhole

-----------------------------------------------------------------------------
(* Chunks and messages *)

\* A position has one message and one place in it.
LEMMA PlaceInMessage ==
    ASSUME NEW k \in Nat, NEW r \in 0 .. Parts - 1
    PROVE  (Parts * k + r) \div Parts = k /\ (Parts * k + r) % Parts = r
<1>1. Parts \in Nat \ {0}
  BY WsAssumption
<1> HIDE DEF WsAssumption
<1>2. (Parts * k + r) \div Parts = k
  BY <1>1, Z3T(20)
<1>3. (Parts * k + r) % Parts = r
  BY <1>1, Z3T(20)
<1> QED
  BY <1>2, <1>3

\* A read ends a message exactly when it takes the last of its chunks.
LEMMA EndOfMessage ==
    ASSUME NEW k \in Nat, NEW n \in Nat, Parts * k < n, n <= Parts * k + Parts
    PROVE  MessageDone(n) <=> n = Parts * (k + 1)
<1>1. Parts \in Nat \ {0} /\ Parts * k \in Nat /\ Parts * (k + 1) = Parts * k + Parts
  BY WsAssumption
<1>2. CASE n = Parts * (k + 1)
  <2>1. n = Parts * (k + 1) + 0 /\ 0 \in 0 .. Parts - 1
    BY <1>1, <1>2
  <2> QED
    BY <1>2, <2>1, PlaceInMessage DEF MessageDone
<1>3. CASE n # Parts * (k + 1)
  <2>1. n = Parts * k + (n - Parts * k) /\ n - Parts * k \in 1 .. Parts - 1
    BY <1>1, <1>3
  <2>2. n % Parts = n - Parts * k
    BY <2>1, PlaceInMessage
  <2> QED
    BY <1>3, <2>1, <2>2 DEF MessageDone
<1> QED
  BY <1>2, <1>3

LEMMA ChunksNat == Chunks \in Nat
BY WsAssumption DEF Chunks

-----------------------------------------------------------------------------
(* Steps that only start, refuse or end a call, and what else they leave alone *)

\* A call whose operation fails, which resumes after that, or which the caller cancels.
GivesUp(o) ==
    /\ \/ UnderWay(o) /\ pc' = [pc EXCEPT ![o] = "ending"] /\ closed_' = closed_
          /\ cancelled' = cancelled
       \/ pc[o] = "ending" /\ Return(o) /\ closed_' = TRUE /\ cancelled' = cancelled
       \/ UnderWay(o) /\ o # "recv" /\ Return(o) /\ closed_' \in BOOLEAN
          /\ (closed_ => closed_') /\ cancelled' = TRUE
    /\ stream' \in {stream, "failed"}
    /\ UNCHANGED <<handle, socket, recvVars, sendVars, peer>>

LEMMA FailOrCancel ==
    ASSUME NEW o \in Ops, TypeOK, Fail(o) \/ Failed(o) \/ Cancel(o)
    PROVE  GivesUp(o)
<1>1. CASE Fail(o)
  BY <1>1 DEF Fail, Breaks, GivesUp
<1>2. CASE Failed(o)
  BY <1>2 DEF Failed, GivesUp
<1>3. CASE Cancel(o)
  <2>1. closed_' \in BOOLEAN /\ (closed_ => closed_')
    <3>1. closed_ \in BOOLEAN /\ closed_' \in {closed_, TRUE}
      BY <1>3 DEF Cancel, TypeOK
    <3> QED
      BY <3>1, Zenon
  <2>2. stream' \in {stream, "failed"}
    BY <1>3 DEF Cancel, Breaks
  <2> QED
    BY <1>3, <2>1, <2>2, Zenon DEF Cancel, GivesUp
<1> QED
  BY <1>1, <1>2, <1>3

Aborted == /\ closed_' = TRUE /\ socket' = FALSE /\ handle' \in BOOLEAN
           /\ UNCHANGED <<stream, pc, recvVars, sendVars, cancelled, peer>>

\* What is left of Next once the calls' own steps are named.
LEMMA Kinds ==
    ASSUME TypeOK, [Next]_vars
    PROVE  \/ \E o \in Ops : Call(o) \/ Begin(o) \/ Refuse(o) \/ GivesUp(o)
           \/ PingTooLarge \/ RecvChunk \/ PeerEnds \/ TornDown \/ RecvClose \/ SendChunk
           \/ PingDone \/ CloseFrameOut \/ CloseDone
           \/ Aborted \/ PeerSends \/ PeerCloses \/ UNCHANGED vars
<1>1. Abort \/ Destroy => Aborted
  BY DEF Abort, Destroy, closeTransport, Aborted, TypeOK
<1> QED
  BY <1>1, FailOrCancel DEF Next

-----------------------------------------------------------------------------
(* Types, bounds and the marks of a call *)

ControlOK ==
    /\ handle \in BOOLEAN /\ closed_ \in BOOLEAN /\ socket \in BOOLEAN
    /\ stream \in {"open", "closing", "failed"}
    /\ pc \in [Ops -> {"idle", "called", "waiting", "ending"} \cup EndsByPeer]
    /\ cancelled \in BOOLEAN
    /\ peer \in [out : 0 .. Chunks, close : BOOLEAN]
ReadOK == begun \in 0 .. Chunks /\ pos \in 0 .. Chunks /\ got \in Seq(Data \cup {Close})
WriteOK == /\ sending \in 0 .. MaxSends /\ part \in 0 .. Parts
           /\ wire \in Seq((1 .. MaxSends) \X (1 .. Parts))

LEMMA TypeParts == TypeOK <=> ControlOK /\ ReadOK /\ WriteOK
BY DEF TypeOK, ControlOK, ReadOK, WriteOK

LEMMA ControlKept ==
    ASSUME TypeOK, [Next]_vars
    PROVE  ControlOK'
<1> USE DEF ControlOK, TypeOK, recvVars, sendVars, Return, usable
<1>1. ASSUME NEW o \in Ops, Call(o) \/ Begin(o) \/ Refuse(o) \/ GivesUp(o)
      PROVE  ControlOK'
  <2>1. CASE Call(o)
    BY <1>1, <2>1 DEF Call
  <2>2. CASE Begin(o)
    <3>1. closed_' \in BOOLEAN
      BY <2>2, Zenon DEF Begin
    <3> QED
      BY <1>1, <2>2, <3>1 DEF Begin
  <2>3. CASE Refuse(o)
    BY <1>1, <2>3 DEF Refuse
  <2>4. CASE GivesUp(o)
    BY <1>1, <2>4 DEF GivesUp
  <2> QED
    BY <1>1, <2>1, <2>2, <2>3, <2>4
<1>2. CASE RecvChunk \/ PeerEnds \/ TornDown \/ RecvClose \/ SendChunk
  <2>1. pc' \in [Ops -> {"idle", "called", "waiting", "ending"} \cup EndsByPeer]
    BY <1>2 DEF RecvChunk, PeerEnds, TornDown, RecvClose, SendChunk, EndsByPeer
  <2> QED
    BY <1>2, <2>1 DEF RecvChunk, PeerEnds, TornDown, RecvClose, SendChunk
<1>3. CASE PingTooLarge \/ PingDone \/ CloseFrameOut \/ CloseDone
  BY <1>3 DEF PingTooLarge, PingDone, CloseFrameOut, CloseDone
<1>4. CASE Aborted \/ UNCHANGED vars
  BY <1>4 DEF Aborted, vars
<1>5. CASE PeerSends
  <2>1. peer' \in [out : 0 .. Chunks, close : BOOLEAN]
    <3>1. peer.out + 1 \in 0 .. Chunks
      BY <1>5, ChunksNat DEF PeerSends, PeerActs
    <3> QED
      BY <1>5, <3>1 DEF PeerSends
  <2> QED
    BY <1>5, <2>1 DEF PeerSends
<1>6. CASE PeerCloses
  BY <1>6 DEF PeerCloses
<1> QED
  BY <1>1, <1>2, <1>3, <1>4, <1>5, <1>6, Kinds

\* What a step does that takes no part in reading: a call of recv that it ends
\* leaves the client closed.
ReadAlone ==
    /\ UNCHANGED recvVars
    /\ InRecv' => InRecv
    /\ ~closed_' => ~closed_ /\ (InRecv => InRecv')
    /\ AtClose' => AtClose \/ (pos = peer.out /\ peer.close)
    /\ peer.close => peer' = peer
    /\ peer.out <= peer'.out

LEMMA ReadSide ==
    ASSUME TypeOK, [Next]_vars
    PROVE  RecvChunk \/ RecvClose \/ Begin("recv") \/ ReadAlone
<1> USE DEF recvVars, sendVars, ReadAlone, InRecv, AtClose, Return, usable, TypeOK, Ops
<1>1. ASSUME NEW o \in Ops, Call(o) \/ Refuse(o) \/ GivesUp(o)
      PROVE  ReadAlone
  <2>1. CASE Call(o) \/ Refuse(o)
    BY <2>1 DEF Call, Refuse
  <2>2. CASE GivesUp(o)
    BY <2>2 DEF GivesUp, UnderWay
  <2> QED
    BY <1>1, <2>1, <2>2
<1>2. ASSUME NEW o \in Ops \ {"recv"}, Begin(o)
      PROVE  ReadAlone
  BY <1>2 DEF Begin
<1>3. CASE PingTooLarge \/ SendChunk \/ PingDone \/ CloseFrameOut \/ CloseDone
  BY <1>3 DEF PingTooLarge, SendChunk, PingDone, CloseFrameOut, CloseDone, Works
<1>4. CASE Aborted \/ UNCHANGED vars
  BY <1>4 DEF Aborted, vars
<1>5. CASE PeerSends
  <2>1. ~peer.close /\ peer'.out = peer.out + 1 /\ peer.out \in Int
    BY <1>5, ChunksNat DEF PeerSends, PeerActs
  <2> QED
    BY <1>5, <2>1 DEF PeerSends
<1>6. CASE PeerCloses
  <2>1. ~peer.close /\ peer'.out = peer.out /\ peer.out \in Int
    BY <1>6, ChunksNat DEF PeerCloses, PeerActs
  <2> QED
    BY <1>6, <2>1 DEF PeerCloses
<1>7. CASE PeerEnds
  BY <1>7 DEF PeerEnds, Works
<1>8. CASE TornDown
  BY <1>8 DEF TornDown
<1> QED
  BY <1>1, <1>2, <1>3, <1>4, <1>5, <1>6, <1>7, <1>8, Kinds

\* The same for writing, where the caller may have cancelled.
WriteAlone ==
    /\ UNCHANGED sendVars
    /\ pc'["send"] = "waiting" => pc["send"] = "waiting"
    /\ pc'["send"] = "called" => pc["send"] = "called" \/ sending < MaxSends
    /\ ~cancelled' => ~cancelled
    /\ ~cancelled' /\ ~closed_' =>
            ~closed_ /\ (pc'["send"] \in {"idle", "called"} => pc["send"] \in {"idle", "called"})

LEMMA WriteSide ==
    ASSUME TypeOK, [Next]_vars
    PROVE  SendChunk \/ Begin("send") \/ WriteAlone
<1> USE DEF recvVars, sendVars, WriteAlone, Return, usable, TypeOK, Ops
<1>1. ASSUME NEW o \in Ops, Call(o) \/ Refuse(o) \/ GivesUp(o)
      PROVE  WriteAlone
  <2>1. CASE Call(o) \/ Refuse(o)
    BY <2>1 DEF Call, Refuse
  <2>2. CASE GivesUp(o)
    BY <2>2 DEF GivesUp, UnderWay
  <2> QED
    BY <1>1, <2>1, <2>2
<1>2. ASSUME NEW o \in Ops \ {"send"}, Begin(o)
      PROVE  WriteAlone
  BY <1>2 DEF Begin
<1>3. CASE \/ PingTooLarge \/ RecvChunk \/ PeerEnds \/ TornDown \/ RecvClose
           \/ PingDone \/ CloseFrameOut \/ CloseDone
  BY <1>3 DEF PingTooLarge, RecvChunk, PeerEnds, TornDown, RecvClose, PingDone,
              CloseFrameOut, CloseDone, Works
<1>4. CASE Aborted \/ PeerSends \/ PeerCloses \/ UNCHANGED vars
  BY <1>4 DEF Aborted, PeerSends, PeerCloses, vars
<1> QED
  BY <1>1, <1>2, <1>3, <1>4, Kinds

LEMMA CloseSide ==
    ASSUME TypeOK, [Next]_vars, CloseMarks
    PROVE  CloseMarks'
<1> USE DEF recvVars, sendVars, CloseMarks, Return, usable, TypeOK, Ops
<1>1. ASSUME NEW o \in Ops, Call(o) \/ Begin(o) \/ Refuse(o) \/ GivesUp(o)
      PROVE  CloseMarks'
  <2>1. CASE Call(o) \/ Refuse(o)
    BY <2>1 DEF Call, Refuse
  <2>2. CASE Begin(o)
    <3>1. closed_' <=> closed_ \/ o = "close"
      BY <2>2, Zenon DEF Begin
    <3>2. pc' = [pc EXCEPT ![o] = "waiting"] /\ ~closed_
      BY <2>2 DEF Begin
    <3> QED
      BY <3>1, <3>2
  <2>3. CASE GivesUp(o)
    BY <2>3 DEF GivesUp, UnderWay
  <2> QED
    BY <1>1, <2>1, <2>2, <2>3
<1>2. CASE RecvChunk \/ PeerEnds \/ TornDown \/ RecvClose \/ SendChunk
  BY <1>2 DEF RecvChunk, PeerEnds, TornDown, RecvClose, SendChunk, Works
<1>3. CASE PingTooLarge \/ PingDone \/ CloseFrameOut \/ CloseDone
  BY <1>3 DEF PingTooLarge, PingDone, CloseFrameOut, CloseDone, Works
<1>4. CASE Aborted \/ PeerSends \/ PeerCloses \/ UNCHANGED vars
  BY <1>4 DEF Aborted, PeerSends, PeerCloses, vars
<1> QED
  BY <1>1, <1>2, <1>3, <1>4, Kinds

EndPoints == {"ending"} \cup EndsByPeer

\* A call other than one that ends may move without an end that is under way being lost.
LEMMA MovesOn ==
    ASSUME pc \in [Ops -> {"idle", "called", "waiting", "ending"} \cup EndsByPeer],
           NEW o \in Ops, NEW v, pc' = [pc EXCEPT ![o] = v], pc[o] \notin EndPoints \/ v \in EndPoints
    PROVE  (Ending => Ending') /\ (v \in EndPoints => Ending')
<1>1. pc'[o] = v /\ \A q \in Ops \ {o} : pc'[q] = pc[q]
  OBVIOUS
<1>2. v \in EndPoints => Ending'
  BY <1>1 DEF Ending, EndPoints
<1>3. ASSUME NEW q \in Ops, pc[q] \in EndPoints
      PROVE  Ending'
  <2>1. CASE q = o
    BY <1>2, <1>3, <2>1
  <2>2. CASE q # o
    BY <1>1, <1>3, <2>2 DEF Ending, EndPoints
  <2> QED
    BY <2>1, <2>2
<1> QED
  BY <1>2, <1>3 DEF Ending, EndPoints

\* A step that leaves the client open and uncancelled found it so, with its socket, and
\* where it does not leave an open stream open some call ends.
Sound ==
    \/ closed_' \/ cancelled'
    \/ /\ ~closed_ /\ ~cancelled /\ socket' = socket
       /\ Ending => Ending'
       /\ stream' = stream \/ Ending'

LEMMA Quiet ==
    ASSUME closed_' = closed_, cancelled' = cancelled, socket' = socket,
           stream' = stream \/ Ending', Ending => Ending'
    PROVE  Sound
BY Zenon DEF Sound

LEMMA UsableSide ==
    ASSUME TypeOK, [Next]_vars, CloseMarks, OpenUsable
    PROVE  OpenUsable'
<1> USE DEF recvVars, sendVars, CloseMarks, Return, usable, TypeOK
<1>1. ASSUME NEW o \in Ops, Call(o) \/ Begin(o) \/ Refuse(o) \/ GivesUp(o)
      PROVE  Sound
  <2>1. CASE Call(o)
    <3>1. Ending => Ending'
      BY <2>1, MovesOn DEF Call, EndPoints, EndsByPeer
    <3> QED
      BY <2>1, <3>1, Quiet DEF Call
  <2>2. CASE Begin(o)
    <3>1. Ending => Ending'
      BY <2>2, MovesOn DEF Begin, EndPoints, EndsByPeer
    <3>2. UNCHANGED <<socket, stream, cancelled>> /\ ~closed_
      BY <2>2 DEF Begin
    <3> QED
      BY <3>1, <3>2, closed_' \/ ~closed_' DEF Sound
  <2>3. CASE Refuse(o)
    BY <2>3 DEF Refuse, Sound
  <2>4. CASE GivesUp(o)
    <3>1. CASE UnderWay(o) /\ pc' = [pc EXCEPT ![o] = "ending"] /\ closed_' = closed_
               /\ cancelled' = cancelled
      <4>1. Ending'
        BY <3>1, MovesOn DEF EndPoints
      <4> QED
        BY <2>4, <3>1, <4>1, Quiet DEF GivesUp
    <3> QED
      BY <2>4, <3>1 DEF GivesUp, Sound
  <2> QED
    BY <1>1, <2>1, <2>2, <2>3, <2>4
<1>2. ASSUME RecvChunk \/ SendChunk \/ PingDone \/ PingTooLarge
      PROVE  Sound
  <2>1. PICK o \in Ops : pc[o] \in {"waiting", "called"}
                         /\ (pc' = pc \/ pc' = [pc EXCEPT ![o] = "idle"])
    BY <1>2 DEF RecvChunk, SendChunk, PingDone, PingTooLarge, Works, Ops
  <2>2. Ending => Ending'
    <3>1. CASE pc' = pc
      BY <3>1 DEF Ending
    <3>2. CASE pc' = [pc EXCEPT ![o] = "idle"]
      BY <2>1, <3>2, MovesOn DEF EndPoints, EndsByPeer
    <3> QED
      BY <2>1, <3>1, <3>2
  <2>3. closed_' = closed_ /\ cancelled' = cancelled /\ socket' = socket /\ stream' = stream
    BY <1>2 DEF RecvChunk, SendChunk, PingDone, PingTooLarge
  <2> QED
    BY <2>2, <2>3, Quiet
<1>3. ASSUME PeerEnds \/ TornDown
      PROVE  Sound
  <2>1. PICK v \in EndPoints : pc' = [pc EXCEPT !["recv"] = v]
    BY <1>3 DEF PeerEnds, TornDown, EndPoints, EndsByPeer
  <2>2. Ending'
    BY <2>1, MovesOn DEF Ops
  <2>3. closed_' = closed_ /\ cancelled' = cancelled /\ socket' = socket
    BY <1>3 DEF PeerEnds, TornDown
  <2> QED
    BY <2>2, <2>3, Quiet
<1>4. ASSUME RecvClose \/ CloseFrameOut \/ CloseDone \/ Aborted
      PROVE  Sound
  <2>1. closed_' = TRUE \/ (closed_ /\ closed_' = closed_)
    BY <1>4, Zenon DEF RecvClose, CloseFrameOut, CloseDone, Aborted, Works
  <2> QED
    BY <2>1, Zenon DEF Sound
<1>5. ASSUME PeerSends \/ PeerCloses \/ UNCHANGED vars
      PROVE  Sound
  <2>1. closed_' = closed_ /\ cancelled' = cancelled /\ socket' = socket /\ stream' = stream
        /\ pc' = pc
    BY <1>5 DEF PeerSends, PeerCloses, vars
  <2>2. Ending => Ending'
    BY <2>1 DEF Ending
  <2> QED
    BY <2>1, <2>2, Quiet
<1>6. Sound
  <2> HIDE DEF TypeOK, CloseMarks
  <2> QED
    BY <1>1, <1>2, <1>3, <1>4, <1>5, Kinds
<1> QED
  BY <1>6 DEF OpenUsable, Sound

-----------------------------------------------------------------------------
(* Reading *)

\* The invariant of the read side.
ReadInv == ReadOK /\ pos <= peer.out /\ ReadPosition /\ RecvWhole

LEMMA ReadAloneKeeps ==
    ASSUME TypeOK, ReadInv, ReadAlone, ControlOK'
    PROVE  ReadInv'
<1> USE DEF ReadAlone, recvVars, ReadInv, TypeOK, ControlOK
<1>1. ReadOK' /\ (pos <= peer.out)'
  BY ChunksNat DEF ReadOK
<1>2. ReadPosition'
  BY DEF ReadPosition, InRecv, AtClose, Reading, Boundary, NoClose
<1>3. RecvWhole'
  <2>1. CASE NoClose
    BY <2>1 DEF NoClose, RecvWhole
  <2>2. CASE ~NoClose
    BY <2>2 DEF ReadPosition, RecvWhole
  <2> QED
    BY <2>1, <2>2
<1> QED
  BY <1>1, <1>2, <1>3

LEMMA BeginReadKeeps ==
    ASSUME TypeOK, ReadInv, Begin("recv")
    PROVE  ReadInv'
<1> USE DEF ReadInv, TypeOK, recvVars
<1>1. /\ pos' = pos /\ got' = got /\ peer' = peer /\ begun' = pos
      /\ pc["recv"] = "called" /\ ~closed_ /\ pc' = [pc EXCEPT !["recv"] = "waiting"]
  BY DEF Begin, usable
<1>2. Boundary
  BY <1>1 DEF ReadPosition, InRecv
<1>3. Parts \in Nat \ {0}
  BY WsAssumption
<1>4. ReadOK' /\ (pos <= peer.out)' /\ RecvWhole'
  BY <1>1 DEF ReadOK, RecvWhole
<1>5. Reading'
  BY <1>1, <1>2, <1>3, ChunksNat DEF Boundary, Reading, NoClose
<1> QED
  BY <1>1, <1>4, <1>5 DEF ReadPosition, InRecv, AtClose, Reading, Ops

LEMMA RecvCloseKeeps ==
    ASSUME TypeOK, ReadInv, RecvClose
    PROVE  ReadInv'
<1> USE DEF ReadInv, TypeOK
<1>1. /\ pos' = pos /\ begun' = begun /\ peer' = peer /\ got' = Append(got, Close)
      /\ pc["recv"] = "closed" /\ pc'["recv"] = "idle" /\ closed_' = TRUE
  BY DEF RecvClose, Return, Ops
<1>2. Reading /\ pos = peer.out /\ peer.close
  BY <1>1 DEF ReadPosition, InRecv, AtClose
<1>3. ReadOK' /\ (pos <= peer.out)'
  BY <1>1 DEF ReadOK
<1>4. ReadPosition'
  BY <1>1, <1>2 DEF ReadPosition, InRecv, AtClose
<1>5. peer.out \div Parts = Len(got)
  <2>1. Len(got) \in Nat /\ Parts * Len(got) \in Nat /\ Parts \in Nat \ {0}
    BY WsAssumption
  <2>2. pos = Parts * Len(got) + (pos - Parts * Len(got))
        /\ pos - Parts * Len(got) \in 0 .. Parts - 1
    BY <1>2, <2>1, ChunksNat DEF Reading
  <2> QED
    BY <1>2, <2>1, <2>2, PlaceInMessage
<1>6. RecvWhole'
  <2>1. Len(got') = Len(got) + 1 /\ got'[Len(got) + 1] = Close
        /\ \A i \in 1 .. Len(got) : got'[i] = got[i]
    BY <1>1
  <2> QED
    BY <1>1, <1>2, <1>5, <2>1 DEF RecvWhole, Reading, NoClose
<1> QED
  BY <1>3, <1>4, <1>6

LEMMA RecvChunkKeeps ==
    ASSUME TypeOK, ReadInv, RecvChunk
    PROVE  ReadInv'
<1> USE DEF ReadInv, TypeOK
<1> DEFINE k == Len(got)
           message == [type |-> "data", from |-> begun + 1, to |-> pos']
<1>1. /\ pos' = pos + 1 /\ begun' = begun /\ peer' = peer /\ closed_' = closed_
      /\ pc["recv"] = "waiting" /\ pos < peer.out
  BY DEF RecvChunk, Works
<1>2. Reading /\ k \in Nat /\ Parts \in Nat \ {0} /\ Parts * k \in Nat
      /\ Parts * (k + 1) = Parts * k + Parts
  BY <1>1, WsAssumption DEF ReadPosition, InRecv
<1>3. /\ pos \in Nat /\ pos' \in Nat /\ begun = Parts * k
      /\ begun < pos' /\ pos' <= begun + Parts
  BY <1>1, <1>2, ChunksNat DEF Reading
<1>4. (pos <= peer.out)' /\ begun' \in 0 .. Chunks /\ pos' \in 0 .. Chunks
  BY <1>1, ChunksNat
<1>5. MessageDone(pos') <=> pos' = Parts * (k + 1)
  <2> HIDE DEF k, ReadInv, TypeOK
  <2> QED
    BY <1>2, <1>3, EndOfMessage
<1>6. CASE ~MessageDone(pos')
  <2>1. got' = got /\ pc' = pc
    BY <1>6 DEF RecvChunk
  <2>2. Reading'
    <3>1. begun <= pos' /\ pos' < begun + Parts
      <4> HIDE DEF k, ReadInv, TypeOK
      <4> QED
        BY <1>2, <1>3, <1>6, <1>5
    <3> QED
      BY <1>1, <1>2, <2>1, <3>1 DEF Reading, NoClose
  <2> QED
    BY <1>1, <1>4, <2>1, <2>2 DEF ReadOK, ReadPosition, InRecv, AtClose, Reading, RecvWhole
<1>7. CASE MessageDone(pos')
  <2>1. got' = Append(got, message) /\ pc'["recv"] = "idle"
    BY <1>7 DEF RecvChunk, Return, Ops
  <2>2. message \in Data /\ message # Close
    <3>1. message.type = "data" /\ Close.type = "close"
      BY DEF Close
    <3>2. message \in Data
      BY <1>1, <1>2, <1>4, ChunksNat DEF Data, Reading
    <3> QED
      BY <3>1, <3>2
  <2>3. message.from = Parts * k + 1 /\ message.to = Parts * (k + 1)
    BY <1>3, <1>7, <1>5
  <2> HIDE DEF message
  <2>4. Len(got') = k + 1 /\ got'[k + 1] = message /\ \A i \in 1 .. k : got'[i] = got[i]
    BY <2>1
  <2>5. ReadOK'
    BY <1>4, <2>1, <2>2 DEF ReadOK
  <2>6. Boundary'
    BY <1>2, <1>7, <1>5, <2>1, <2>2, <2>4 DEF Boundary, Reading, NoClose
  <2>7. RecvWhole'
    <3>1. ASSUME NEW i \in 1 .. k
          PROVE  got'[i] # Close /\ got'[i].from = Parts * (i - 1) + 1 /\ got'[i].to = Parts * i
      <4>1. i \in DOMAIN got /\ got[i] # Close
        BY <1>2 DEF Reading, NoClose
      <4>2. got[i].from = Parts * (i - 1) + 1 /\ got[i].to = Parts * i
        BY <4>1 DEF RecvWhole
      <4> HIDE DEF k, ReadInv, TypeOK
      <4> QED
        BY <2>4, <4>1, <4>2
    <3>2. got'[k + 1] # Close /\ got'[k + 1].from = Parts * k + 1
                             /\ got'[k + 1].to = Parts * (k + 1)
      BY <1>2, <2>2, <2>3, <2>4
    <3>3. DOMAIN got' = 1 .. k + 1
      BY <2>1
    <3> HIDE DEF k, ReadInv, TypeOK
    <3> SUFFICES ASSUME NEW i \in 1 .. k + 1
                 PROVE  got'[i] # Close /\ got'[i].from = Parts * (i - 1) + 1
                                       /\ got'[i].to = Parts * i
      BY <3>3 DEF RecvWhole
    <3>4. CASE i = k + 1
      <4>1. i - 1 = k
        BY <1>2, <3>4
      <4> QED
        BY <3>2, <3>4, <4>1
    <3>5. CASE i # k + 1
      <4>1. i \in 1 .. k
        BY <1>2, <3>5
      <4> QED
        BY <3>1, <4>1
    <3> QED
      BY <3>4, <3>5
  <2> QED
    BY <1>4, <2>1, <2>5, <2>6, <2>7 DEF ReadPosition, InRecv, AtClose, Boundary
<1> QED
  BY <1>6, <1>7

LEMMA ReadKept == TypeOK /\ ReadInv /\ [Next]_vars => ReadInv'
BY ReadSide, ReadAloneKeeps, BeginReadKeeps, RecvCloseKeeps, RecvChunkKeeps, ControlKept

-----------------------------------------------------------------------------
(* Writing *)

\* The invariant of the write side.
WriteInv == WriteOK /\ SendBounds /\ WritePosition /\ SentWhole

LEMMA WriteAloneKeeps ==
    ASSUME TypeOK, WriteInv, WriteAlone
    PROVE  WriteInv'
<1> USE DEF WriteAlone, sendVars, WriteInv, TypeOK
<1>1. WriteOK' /\ SendBounds'
  BY DEF WriteOK, SendBounds
<1>2. WritePosition'
  BY DEF WritePosition, LastEnds, Inside
<1>3. SentWhole'
  BY DEF SentWhole
<1> QED
  BY <1>1, <1>2, <1>3

LEMMA BeginSendKeeps ==
    ASSUME TypeOK, WriteInv, Begin("send")
    PROVE  WriteInv'
<1> USE DEF WriteInv, TypeOK, Ops
<1>1. /\ wire' = wire /\ cancelled' = cancelled /\ sending' = sending + 1 /\ part' = 0
      /\ pc["send"] = "called" /\ ~closed_ /\ pc' = [pc EXCEPT !["send"] = "waiting"]
  BY DEF Begin, usable
<1>2. Parts \in Nat \ {0} /\ MaxSends \in Nat
  BY WsAssumption
<1>3. sending' \in 1 .. MaxSends
  BY <1>1, <1>2 DEF SendBounds
<1>4. WriteOK' /\ SendBounds'
  BY <1>1, <1>2, <1>3 DEF WriteOK, SendBounds
<1>5. WritePosition' /\ SentWhole'
  BY <1>1 DEF WritePosition, LastEnds, SentWhole
<1> QED
  BY <1>4, <1>5

\* Frame i of w begins a message where another one ends, or goes on with its own.
InOrder(w, i) ==
    IF w[i][2] = 1 THEN i = 1 \/ w[i - 1][2] = Parts
                   ELSE i > 1 /\ w[i - 1] = <<w[i][1], w[i][2] - 1>>

LEMMA OldFrame ==
    ASSUME NEW v, NEW w, NEW i, v[i] = w[i], i = 1 \/ v[i - 1] = w[i - 1], InOrder(w, i)
    PROVE  InOrder(v, i)
<1>1. CASE v[i - 1] = w[i - 1]
  BY <1>1 DEF InOrder
<1>2. CASE i = 1
  BY <1>2 DEF InOrder
<1> QED
  BY <1>1, <1>2

LEMMA NewFrame ==
    ASSUME NEW v, NEW i, NEW m, NEW p \in Nat, v[i] = <<m, p + 1>>,
           IF p = 0 THEN i = 1 \/ v[i - 1][2] = Parts ELSE i > 1 /\ v[i - 1] = <<m, p>>
    PROVE  InOrder(v, i)
<1>1. v[i][1] = m /\ v[i][2] = p + 1 /\ (p + 1) - 1 = p /\ (p + 1 = 1 <=> p = 0)
  OBVIOUS
<1> QED
  BY <1>1 DEF InOrder

LEMMA SendChunkKeeps ==
    ASSUME TypeOK, WriteInv, SendChunk
    PROVE  WriteInv'
<1> USE DEF WriteInv, TypeOK, Ops
<1> DEFINE n == Len(wire)
           frame == <<sending, part + 1>>
<1>1. /\ part' = part + 1 /\ wire' = Append(wire, frame) /\ sending' = sending
      /\ cancelled' = cancelled /\ closed_' = closed_ /\ pc["send"] = "waiting"
      /\ IF part + 1 = Parts THEN pc' = [pc EXCEPT !["send"] = "idle"] ELSE pc' = pc
  BY DEF SendChunk, Works, Return
<1>2. Parts \in Nat \ {0} /\ MaxSends \in Nat /\ sending \in 1 .. MaxSends
      /\ part \in Nat /\ part < Parts
  BY <1>1, WsAssumption DEF SendBounds
<1>3. frame \in (1 .. MaxSends) \X (1 .. Parts)
  BY <1>2
<1>4. n \in Nat /\ Len(wire') = n + 1 /\ wire'[n + 1] = frame /\ wire' # <<>>
      /\ DOMAIN wire' = 1 .. n + 1 /\ \A i \in 1 .. n : wire'[i] = wire[i]
  BY <1>1
<1>5. WriteOK' /\ SendBounds'
  BY <1>1, <1>2, <1>3 DEF WriteOK, SendBounds
<1>6. WritePosition'
  <2>1. wire'[Len(wire')] = frame /\ frame[2] = part'
    BY <1>1, <1>4
  <2>2. CASE part + 1 = Parts
    BY <1>1, <1>2, <2>1, <2>2 DEF WritePosition, LastEnds, Inside
  <2>3. CASE part + 1 # Parts
    <3>1. pc'["send"] = "waiting" /\ part' # 0 /\ frame = <<sending', part'>>
      BY <1>1, <1>2, <2>3
    <3> QED
      BY <1>4, <2>1, <3>1 DEF WritePosition, Inside
  <2> QED
    BY <2>2, <2>3
<1>7. ASSUME ~cancelled, NEW i \in 1 .. n + 1
      PROVE  InOrder(wire', i)
  <2>1. IF part = 0 THEN n = 0 \/ wire[n][2] = Parts ELSE n > 0 /\ wire[n] = <<sending, part>>
    BY <1>1, <1>4, <1>7 DEF WritePosition, LastEnds, Inside
  <2>2. \A j \in 1 .. n : InOrder(wire, j)
    <3>1. DOMAIN wire = 1 .. n /\ SentWhole
      OBVIOUS
    <3> HIDE DEF n, WriteInv, TypeOK
    <3> QED
      BY <1>7, <3>1 DEF SentWhole, InOrder
  <2> HIDE DEF n, WriteInv, TypeOK
  <2>3. CASE i = n + 1
    <3>1. wire'[i] = frame /\ i - 1 = n /\ (n > 0 => i > 1 /\ wire'[n] = wire[n])
      BY <1>4, <2>3
    <3>2. IF part = 0 THEN i = 1 \/ wire'[i - 1][2] = Parts
                      ELSE i > 1 /\ wire'[i - 1] = <<sending, part>>
      <4>1. n = 0 \/ n > 0
        BY <1>4
      <4>2. n = 0 => i = 1
        BY <2>3
      <4> QED
        BY <2>1, <3>1, <4>1, <4>2
    <3> QED
      BY <1>2, <3>1, <3>2, NewFrame
  <2>4. CASE i # n + 1
    <3>1. i \in 1 .. n /\ (i = 1 \/ i - 1 \in 1 .. n)
      BY <1>4, <2>4
    <3> QED
      BY <1>4, <2>2, <3>1, OldFrame
  <2> QED
    BY <2>3, <2>4
<1>8. SentWhole'
  <2> HIDE DEF WriteInv, TypeOK
  <2> QED
    BY <1>1, <1>4, <1>7 DEF SentWhole, InOrder
<1> QED
  BY <1>5, <1>6, <1>8

LEMMA WriteKept == TypeOK /\ WriteInv /\ [Next]_vars => WriteInv'
BY WriteSide, WriteAloneKeeps, BeginSendKeeps, SendChunkKeeps

-----------------------------------------------------------------------------
(* One client, step by step *)

LEMMA Halves == IInv <=> ControlOK /\ ReadInv /\ WriteInv /\ CloseMarks /\ OpenUsable
BY TypeParts DEF IInv, ReadInv, WriteInv, Bounds

LEMMA InitKeeps == Init => IInv
<1> SUFFICES ASSUME Init
             PROVE  IInv
  OBVIOUS
<1> USE DEF Init
<1>1. peer \in [out : 0 .. Chunks, close : BOOLEAN]
  BY ChunksNat
<1>2. ControlOK /\ CloseMarks /\ OpenUsable
  BY <1>1 DEF ControlOK, CloseMarks, OpenUsable, Ops
<1>3. ReadInv
  BY ChunksNat, WsAssumption
  DEF ReadInv, ReadOK, ReadPosition, InRecv, AtClose, Boundary, NoClose, RecvWhole, Ops
<1>4. WriteInv
  BY WsAssumption DEF WriteInv, WriteOK, SendBounds, WritePosition, LastEnds, SentWhole, Ops
<1> QED
  BY <1>2, <1>3, <1>4, Halves

LEMMA StepKeeps == IInv /\ [Next]_vars => IInv'
<1> SUFFICES ASSUME IInv, [Next]_vars
             PROVE  IInv'
  OBVIOUS
<1>1. TypeOK /\ ReadInv /\ WriteInv /\ CloseMarks /\ OpenUsable
  BY Halves, TypeParts DEF ReadInv, WriteInv, IInv
<1>2. ControlOK' /\ ReadInv' /\ WriteInv' /\ CloseMarks' /\ OpenUsable'
  BY <1>1, ControlKept, ReadKept, WriteKept, CloseSide, UsableSide
<1>3. IInv' <=> (ControlOK /\ ReadInv /\ WriteInv /\ CloseMarks /\ OpenUsable)'
  BY Halves, PTL
<1> QED
  BY <1>2, <1>3

-----------------------------------------------------------------------------
(* From the set-up on *)

LEMMA AnyInitKeeps == AnyInit => IInv /\ SetupInv
<1>1. Accepted => SetupInv
  <2> SUFFICES ASSUME Accepted PROVE SetupInv
    OBVIOUS
  <2>1. /\ ws \in BOOLEAN /\ tls \in BOOLEAN /\ lost \in BOOLEAN /\ phase = "connected" /\ todo = <<>> /\ now = 0 /\ limit = 0
        /\ lookup = [result |-> "endpoints", done |-> TRUE]
    BY DEF Accepted
  <2>2. Floor \in Nat /\ LastPoll \in Nat /\ todo \in UNION {[1 .. n -> Handshakes] : n \in 0 .. 3}
    BY <2>1, FloorType, TodoType DEF Todos
  <2>3. SetupTypeOK
    BY <2>1, <2>2 DEF SetupTypeOK, Outcomes
  <2> QED
    BY <2>1, <2>3 DEF SetupInv, NeedsEndpoints, LookedUp, Due, Rest, Handshakes, Outcomes
<1> QED
  BY <1>1, InitKeeps, SetupInitInv DEF AnyInit

LEMMA AnyStepKeeps ==
    IInv /\ SetupInv /\ [AnyNext]_<<vars, setupVars>> => IInv' /\ SetupInv'
<1>1. [AnyNext]_<<vars, setupVars>> => [Next]_vars /\ [SetupNext]_setupVars
  BY DEF AnyNext
<1> QED
  BY <1>1, StepKeeps, SetupStepInv

LEMMA Invariant == AnySpec => [](IInv /\ SetupInv)
BY AnyInitKeeps, AnyStepKeeps, PTL DEF AnySpec

\* The variables of set-up and client keep their types, with the bounds that the first
\* sets to the time, whatever the calls, the peer and the caller do.
THEOREM TypeCorrect == AnySpec => [](TypeOK /\ SetupTypeOK)
<1>1. IInv /\ SetupInv => TypeOK /\ SetupTypeOK
  BY DEF IInv, SetupInv
<1> QED
  BY <1>1, Invariant, PTL

\* No phase begins, and no client exists, on a look-up that is not finished, on
\* whichever thread it runs.
THEOREM EndpointsFirst == AnySpec => []NeedsEndpoints
<1>1. SetupInv => NeedsEndpoints
  BY DEF SetupInv
<1> QED
  BY <1>1, Invariant, PTL

\* The whole set-up takes no longer than connectTimeout, one poll and the floors of its
\* phases, where no cancellation is lost.
THEOREM Overrun == AnySpec => []OverrunBounded
<1>1. SetupInv => OverrunBounded
  <2> SUFFICES ASSUME SetupInv PROVE OverrunBounded
    OBVIOUS
  <2>1. Floor \in Nat /\ LastPoll \in Nat /\ Due
    BY FloorType DEF SetupInv, SetupTypeOK
  <2>2. CASE phase = "tcp"
    BY <2>1, <2>2 DEF Due, OverrunBounded, Handshakes
  <2>3. CASE phase = "tls"
    BY <2>1, <2>3 DEF Due, OverrunBounded, Handshakes
  <2>4. CASE phase = "ws"
    BY <2>1, <2>4 DEF Due, OverrunBounded, Handshakes
  <2>5. CASE phase \notin Handshakes
    BY <2>1, <2>5 DEF Due, OverrunBounded
  <2> QED  BY <2>2, <2>3, <2>4, <2>5 DEF Handshakes
<1> QED
  BY <1>1, Invariant, PTL

\* recv returns the peer's messages whole, once each, in order, and the close frame
\* last: every way recv gives up inside a message closes the client.
THEOREM ReceivedWhole == AnySpec => []RecvWhole
<1>1. IInv => RecvWhole
  BY DEF IInv
<1> QED
  BY <1>1, Invariant, PTL

\* No message begins on the wire before the one in front of it is complete, as long
\* as the caller cancels nothing.
THEOREM WrittenWhole == AnySpec => []SentWhole
<1>1. IInv => SentWhole
  BY DEF IInv
<1> QED
  BY <1>1, Invariant, PTL

\* A client whose calls have returned and that says it is open has an open socket
\* and a stream that works.
THEOREM OpenIsUsable == AnySpec => []OpenMeansUsable
<1>1. IInv => OpenMeansUsable
  BY DEF IInv, OpenUsable, OpenMeansUsable, Ending
<1> QED
  BY <1>1, Invariant, PTL
=============================================================================
