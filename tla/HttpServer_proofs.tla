--------------------------- MODULE HttpServer_proofs ---------------------------
(***************************************************************************)
(* Proofs about HttpServer for any number of clients, workers, connections  *)
(* and requests, and for a stop() at any point of start().                  *)
(***************************************************************************)
EXTENDS HttpServer, FiniteSetTheorems, TLAPS

(* The inductive invariant, beside TypeOK and Admission.                     *)

\* The accept loop begins when start() spawns it.
LoopSpawned == mainPc \in {"idle", "checked", "build", "listen"} => loop = "none"

\* Between two awaits the loop has an accepted connection in its hands, ...
HoldsOne == InLoopStep => held \in Conns /\ conn[held].st = "held"

\* ... and only the loop raises the count, so what it has checked stays true.
RoomLeft == loop = "count" => activeConnections_ < MaxConnections

\* A connection that reads has requests left to it.
MayRead ==
    \A c \in Conns : conn[c].st \in {"away", "backlog", "held", "queued", "read"} =>
                        conn[c].requests < MaxRequests

IInv == TypeOK /\ LoopSpawned /\ HoldsOne /\ RoomLeft /\ MayRead /\ Admission

-----------------------------------------------------------------------------
(* The set of counted connections *)

LEMMA ConnsFinite == IsFiniteSet(Conns) /\ Cardinality(Conns) \in Nat
BY FS_Interval, FS_CardinalityType, ServerAssumption DEF Conns

LEMMA CountedFinite ==
    /\ IsFiniteSet(Counted) /\ Cardinality(Counted) \in 0 .. Cardinality(Conns)
    /\ IsFiniteSet(Counted') /\ Cardinality(Counted') \in 0 .. Cardinality(Conns)
<1>1. Counted \in SUBSET Conns /\ Counted' \in SUBSET Conns
  BY DEF Counted
<1> QED
  BY <1>1, ConnsFinite, FS_Subset, FS_CardinalityType

\* What a step may do to the count.
Joins(c) == /\ c \notin Counted /\ Counted' = Counted \cup {c}
            /\ activeConnections_' = activeConnections_ + 1
            /\ activeConnections_ < MaxConnections
Leaves(c) == /\ c \in Counted /\ Counted' = Counted \ {c}
             /\ activeConnections_' = activeConnections_ - 1
SameCount == Counted' = Counted /\ UNCHANGED activeConnections_

LEMMA AdmissionKept ==
    ASSUME Admission, SameCount \/ \E c : Joins(c) \/ Leaves(c)
    PROVE  Admission'
<1>1. Admission' <=> /\ activeConnections_' = Cardinality(Counted')
                     /\ activeConnections_' <= MaxConnections
  BY DEF Admission
<1>2. CASE SameCount
  BY <1>1, <1>2 DEF SameCount, Admission
<1>3. ASSUME NEW c, Joins(c)
      PROVE  Admission'
  BY <1>1, <1>3, CountedFinite, FS_AddElement, ConnsFinite, ServerAssumption DEF Joins, Admission
<1>4. ASSUME NEW c, Leaves(c)
      PROVE  Admission'
  BY <1>1, <1>4, CountedFinite, FS_RemoveElement, ConnsFinite, ServerAssumption
  DEF Leaves, Admission
<1> QED
  BY <1>2, <1>3, <1>4

-----------------------------------------------------------------------------
(* start(), stop() and the threads leave the connections and the loop alone *)

Quiet == UNCHANGED <<loopVars, activeConnections_, conn>>

LEMMA QuietKeeps ==
    ASSUME IInv, Quiet, UNCHANGED mainPc \/ LoopSpawned'
    PROVE  LoopSpawned' /\ HoldsOne' /\ RoomLeft' /\ MayRead' /\ SameCount
BY DEF Quiet, loopVars, IInv, LoopSpawned, HoldsOne, RoomLeft, MayRead, InLoopStep, SameCount,
       Counted

Others == StartCheck \/ StartReset \/ BuildWorker \/ AllBuilt \/ ListenFails \/ Launch \/ Join \/ Stop
          \/ (\E s \in Conns \cup {NoConn} : StopBegin(s)) \/ (\E w \in Contexts : ThreadDone(w))

LEMMA OthersQuiet ==
    ASSUME IInv, Others
    PROVE  Quiet /\ LoopSpawned'
<1> USE DEF Quiet, loopVars, IInv, LoopSpawned, Start, mainVars, stopVars
<1>1. CASE StartCheck \/ StartReset \/ BuildWorker \/ AllBuilt
  BY <1>1 DEF StartCheck, StartReset, BuildWorker, AllBuilt
<1>2. CASE ListenFails \/ Launch \/ Join
  BY <1>2 DEF ListenFails, Launch, Join
<1>3. CASE Stop
  BY <1>3 DEF Stop, StopAcceptor, StopGuards, StopScan, StopContext, StopDrain
<1>4. ASSUME NEW s \in Conns \cup {NoConn}, StopBegin(s)
      PROVE  Quiet /\ LoopSpawned'
  BY <1>4 DEF StopBegin
<1>5. ASSUME NEW w \in Contexts, ThreadDone(w)
      PROVE  Quiet /\ LoopSpawned'
  BY <1>5 DEF ThreadDone
<1> QED
  BY <1>1, <1>2, <1>3, <1>4, <1>5 DEF Others

ControlOK ==
    /\ mode \in {"threads", "async"} /\ mainPc \in Phases
    /\ stopPc \in {"idle", "acceptor", "guards", "scan", "contexts", "drain", "done"}
    /\ stopper \in Conns \cup {NoConn} /\ toStop \in SUBSET Contexts
    /\ stopped_ \in BOOLEAN /\ acceptor_ \in {"none", "open", "closed"}
    /\ ctx \in [Contexts -> [guard : BOOLEAN, stopped : BOOLEAN,
                             thread : {"unbuilt", "none", "running", "done"}]]

WorkOK ==
    /\ loop \in {"none", "head", "accept", "sleep", "check", "count", "dispatch", "done"}
    /\ held \in Conns \cup {NoConn}
    /\ nextWorker_ \in Contexts
    /\ conn \in [Conns -> Conn]

LEMMA TypeParts == TypeOK <=> /\ ControlOK /\ WorkOK
                              /\ activeConnections_ \in 0 .. Cardinality(Conns)
BY DEF TypeOK, ControlOK, WorkOK

LEMMA OthersTyped ==
    ASSUME ControlOK, Others
    PROVE  ControlOK'
<1> USE DEF ControlOK, Start, mainVars, stopVars, Phases
<1>1. CASE StartCheck \/ StartReset
  BY <1>1 DEF StartCheck, StartReset
<1>2. CASE BuildWorker \/ AllBuilt
  <2>1. CASE BuildWorker
    <3>1. PICK w \in Contexts : ctx' = [ctx EXCEPT ![w].guard = TRUE, ![w].thread = "none"]
      BY <2>1 DEF BuildWorker
    <3>2. UNCHANGED <<mode, stopPc, stopper, toStop, stopped_, acceptor_>> /\ mainPc' \in Phases
      BY <2>1 DEF BuildWorker
    <3> QED
      BY <3>1, <3>2
  <2>2. CASE AllBuilt
    BY <2>2 DEF AllBuilt
  <2> QED
    BY <1>2, <2>1, <2>2
<1>3. CASE ListenFails \/ Join
  BY <1>3 DEF ListenFails, Join
<1>4. CASE Launch
  BY <1>4 DEF Launch
<1>5. CASE StopAcceptor \/ StopDrain
  BY <1>5 DEF StopAcceptor, StopDrain
<1>6. CASE StopGuards
  BY <1>6 DEF StopGuards
<1>7. CASE StopScan \/ StopContext
  <2>1. CASE StopScan
    BY <2>1 DEF StopScan, Built
  <2>2. CASE StopContext /\ toStop = {}
    BY <2>2 DEF StopContext
  <2>3. CASE StopContext /\ toStop # {}
    <3>1. PICK w \in Contexts : ctx' = [ctx EXCEPT ![w].stopped = TRUE]
                              /\ toStop' = toStop \ {w}
      BY <2>3 DEF StopContext
    <3>2. UNCHANGED <<mode, mainPc, stopPc, stopper, stopped_, acceptor_>>
      BY <2>3 DEF StopContext
    <3> QED
      BY <3>1, <3>2
  <2> QED
    BY <1>7, <2>1, <2>2, <2>3
<1>8. ASSUME NEW s \in Conns \cup {NoConn}, StopBegin(s)
      PROVE  ControlOK'
  BY <1>8 DEF StopBegin
<1>9. ASSUME NEW w \in Contexts, ThreadDone(w)
      PROVE  ControlOK'
  BY <1>9 DEF ThreadDone
<1> QED
  BY <1>1, <1>2, <1>3, <1>4, <1>5, <1>6, <1>7, <1>8, <1>9 DEF Others, Stop

-----------------------------------------------------------------------------
(* The accept loop *)

ControlKept == UNCHANGED <<mainVars, stopVars, stopped_, acceptor_, ctx>>

Kept == LoopSpawned' /\ HoldsOne' /\ RoomLeft' /\ MayRead' /\ WorkOK'
        /\ (SameCount \/ \E c : Joins(c) \/ Leaves(c))

LEMMA ContextZero == 0 \in Contexts /\ (nextWorker_ \in Contexts => (nextWorker_ + 1) % Workers \in Contexts)
BY ServerAssumption DEF Contexts

\* A step of the loop between two states in which it has no counted connection.
LEMMA LoopWaits ==
    ASSUME IInv, Listen \/ LoopHead \/ AcceptFail \/ Retry
    PROVE  Kept
<1> USE DEF IInv, TypeOK, LoopSpawned, HoldsOne, RoomLeft, MayRead, InLoopStep, Start, mainVars,
            WorkOK, SameCount, Counted, Kept
<1>1. CASE Listen
  BY <1>1 DEF Listen
<1>2. CASE LoopHead
  BY <1>2 DEF LoopHead
<1>3. CASE AcceptFail
  BY <1>3 DEF AcceptFail
<1>4. CASE Retry
  BY <1>4 DEF Retry
<1> QED
  BY <1>1, <1>2, <1>3, <1>4

LEMMA ConnectKeeps ==
    ASSUME IInv, NEW c \in Conns, Connect(c)
    PROVE  Kept
<1>1. /\ conn[c].st = "away" /\ conn' = [conn EXCEPT ![c].st = "backlog"]
      /\ UNCHANGED <<mainPc, loop, held, nextWorker_, activeConnections_>>
  BY DEF Connect, mainVars, loopVars
<1>2. \A d \in Conns : d # c => conn'[d] = conn[d]
  BY <1>1 DEF IInv, TypeOK
<1>3. conn'[c] = [conn[c] EXCEPT !.st = "backlog"] /\ conn' \in [Conns -> Conn]
  BY <1>1 DEF IInv, TypeOK, Conn
<1>4. SameCount
  <2>1. conn[c].st \notin Serving /\ conn'[c].st \notin Serving
    BY <1>1, <1>3 DEF IInv, TypeOK, Conn, Serving
  <2> QED
    BY <1>1, <1>2, <2>1 DEF SameCount, Counted
<1>5. HoldsOne' /\ MayRead'
  BY <1>1, <1>2, <1>3 DEF IInv, TypeOK, HoldsOne, MayRead, InLoopStep, Conn
<1>6. LoopSpawned' /\ RoomLeft' /\ WorkOK'
  BY <1>1, <1>3 DEF IInv, TypeOK, LoopSpawned, RoomLeft, WorkOK
<1> QED
  BY <1>4, <1>5, <1>6 DEF Kept

LEMMA AcceptKeeps ==
    ASSUME IInv, NEW c \in Conns, AcceptDone(c)
    PROVE  Kept
<1>1. /\ loop = "accept" /\ conn[c].st = "backlog" /\ conn' = [conn EXCEPT ![c].st = "held"]
      /\ held' = c /\ loop' = "check"
      /\ UNCHANGED <<mainPc, nextWorker_, activeConnections_>>
  BY DEF AcceptDone, mainVars
<1>2. \A d \in Conns : d # c => conn'[d] = conn[d]
  BY <1>1 DEF IInv, TypeOK
<1>3. conn'[c] = [conn[c] EXCEPT !.st = "held"] /\ conn' \in [Conns -> Conn]
  BY <1>1 DEF IInv, TypeOK, Conn
<1>4. SameCount
  <2>1. conn[c].st \notin Serving /\ conn'[c].st \notin Serving
    BY <1>1, <1>3 DEF IInv, TypeOK, Conn, Serving
  <2> QED
    BY <1>1, <1>2, <2>1 DEF SameCount, Counted
<1>5. HoldsOne' /\ MayRead'
  BY <1>1, <1>2, <1>3 DEF IInv, TypeOK, HoldsOne, MayRead, InLoopStep, Conn
<1>6. LoopSpawned' /\ RoomLeft' /\ WorkOK'
  BY <1>1, <1>3 DEF IInv, TypeOK, LoopSpawned, RoomLeft, WorkOK
<1> QED
  BY <1>4, <1>5, <1>6 DEF Kept

\* LoopOver leaves nothing in the loop's hands.
LEMMA Over == LoopOver => held' = NoConn /\ loop' \in {"head", "done"}
BY DEF LoopOver

\* At the limit the accepted connection is dropped; below it there is room.
LEMMA CheckKeeps ==
    ASSUME IInv, CheckLimit
    PROVE  Kept
<1>1. held \in Conns /\ conn[held].st = "held" /\ loop = "check"
  BY DEF IInv, HoldsOne, InLoopStep, CheckLimit
<1>2. UNCHANGED <<mainPc, nextWorker_, activeConnections_>>
  BY DEF CheckLimit, mainVars
<1>3. CASE activeConnections_ >= MaxConnections
  <2>1. conn' = [conn EXCEPT ![held].st = "dropped"] /\ held' = NoConn /\ loop' \in {"head", "done"}
    BY <1>3, Over DEF CheckLimit
  <2>2. \A d \in Conns : d # held => conn'[d] = conn[d]
    BY <2>1 DEF IInv, TypeOK
  <2>3. conn'[held] = [conn[held] EXCEPT !.st = "dropped"] /\ conn' \in [Conns -> Conn]
    BY <1>1, <2>1 DEF IInv, TypeOK, Conn
  <2>4. conn'[held].st \notin Serving \cup {"away", "backlog", "held", "queued", "read"}
    BY <1>1, <2>3 DEF IInv, TypeOK, Conn, Serving
  <2>5. SameCount
    BY <1>1, <1>2, <2>1, <2>2, <2>4 DEF SameCount, Counted, Serving
  <2>6. MayRead'
    BY <2>2, <2>4 DEF IInv, MayRead
  <2> QED
    BY <1>1, <1>2, <2>1, <2>3, <2>5, <2>6
    DEF IInv, TypeOK, LoopSpawned, HoldsOne, RoomLeft, InLoopStep, WorkOK, Kept
<1>4. CASE ~(activeConnections_ >= MaxConnections)
  <2>1. loop' = "count" /\ UNCHANGED <<held, conn>>
    BY <1>4 DEF CheckLimit
  <2>2. activeConnections_ < MaxConnections
    <3>1. activeConnections_ \in Int /\ MaxConnections \in Int
      BY ConnsFinite, ServerAssumption DEF IInv, TypeOK
    <3> QED
      BY <1>4, <3>1
  <2> QED
    BY <1>1, <1>2, <2>1, <2>2
    DEF IInv, TypeOK, LoopSpawned, HoldsOne, RoomLeft, InLoopStep, WorkOK, Kept, SameCount,
        Counted, MayRead
<1> QED
  BY <1>3, <1>4

\* The held connection is spawned on a context.
LEMMA SpawnKeeps ==
    ASSUME IInv, NEW w \in Contexts, held \in Conns, conn[held].st = "held", loop # "none", Spawn(w)
    PROVE  /\ held' = NoConn /\ loop' \in {"head", "done"} /\ conn' \in [Conns -> Conn]
           /\ Counted' = Counted \cup {held}
           /\ MayRead'
<1>1. /\ conn' = [conn EXCEPT ![held].st = "queued", ![held].at = w]
      /\ held' = NoConn /\ loop' \in {"head", "done"}
  BY Over DEF Spawn
<1>2. \A d \in Conns : d # held => conn'[d] = conn[d]
  BY <1>1 DEF IInv, TypeOK
<1>3. conn'[held] = [conn[held] EXCEPT !.st = "queued", !.at = w] /\ conn' \in [Conns -> Conn]
  <2> DEFINE queued == [conn EXCEPT ![held].st = "queued"]
  <2>1. queued \in [Conns -> Conn] /\ queued[held] = [conn[held] EXCEPT !.st = "queued"]
    BY DEF IInv, TypeOK, Conn, Serving
  <2>2. conn' = [queued EXCEPT ![held].at = w]
    BY <1>1
  <2> HIDE DEF queued
  <2>3. conn' \in [Conns -> Conn] /\ conn'[held] = [queued[held] EXCEPT !.at = w]
    BY <2>1, <2>2 DEF Conn
  <2> QED
    BY <2>1, <2>3
<1>4. conn'[held].st = "queued" /\ conn'[held].requests = conn[held].requests
  BY <1>3 DEF IInv, TypeOK, Conn
<1>5. Counted' = Counted \cup {held}
  BY <1>1, <1>2, <1>4 DEF Counted, Serving, Conns, NoConn
<1>6. MayRead'
  BY <1>2, <1>4 DEF IInv, MayRead
<1> QED
  BY <1>1, <1>3, <1>5, <1>6

LEMMA CountKeeps ==
    ASSUME IInv, Count
    PROVE  Kept
<1>1. held \in Conns /\ conn[held].st = "held" /\ loop = "count"
  BY DEF IInv, HoldsOne, InLoopStep, Count
<1>2. UNCHANGED <<mainPc, nextWorker_>> /\ activeConnections_' = activeConnections_ + 1
  BY DEF Count, mainVars
<1>3. held \notin Counted /\ activeConnections_ < MaxConnections
  BY <1>1 DEF Counted, Serving, IInv, RoomLeft
<1>4. CASE Spawn(0)
  BY <1>1, <1>2, <1>3, <1>4, SpawnKeeps, ContextZero
  DEF IInv, TypeOK, LoopSpawned, HoldsOne, RoomLeft, InLoopStep, WorkOK, Kept, Joins
<1>5. CASE loop' = "dispatch" /\ UNCHANGED <<held, conn>>
  <2>1. Counted' = Counted \cup {held}
    BY <1>1, <1>5 DEF Counted
  <2> QED
    BY <1>1, <1>2, <1>3, <1>5, <2>1
    DEF IInv, TypeOK, LoopSpawned, HoldsOne, RoomLeft, InLoopStep, WorkOK, Kept, Joins, MayRead
<1> QED
  BY <1>4, <1>5 DEF Count

LEMMA DispatchKeeps ==
    ASSUME IInv, Dispatch
    PROVE  Kept
<1>1. held \in Conns /\ conn[held].st = "held" /\ loop = "dispatch"
  BY DEF IInv, HoldsOne, InLoopStep, Dispatch
<1>2. UNCHANGED mainPc /\ nextWorker_' \in Contexts /\ nextWorker_ \in Contexts
  BY ContextZero DEF Dispatch, mainVars, IInv, TypeOK
<1>3. held \in Counted
  BY <1>1 DEF Counted
<1>4. CASE acceptor_ = "closed"
  <2>1. /\ conn' = [conn EXCEPT ![held].st = "dropped"] /\ held' = NoConn
        /\ loop' \in {"head", "done"} /\ activeConnections_' = activeConnections_ - 1
    BY <1>4, Over DEF Dispatch
  <2>2. \A d \in Conns : d # held => conn'[d] = conn[d]
    BY <2>1 DEF IInv, TypeOK
  <2>3. conn'[held] = [conn[held] EXCEPT !.st = "dropped"] /\ conn' \in [Conns -> Conn]
    BY <1>1, <2>1 DEF IInv, TypeOK, Conn
  <2>4. conn'[held].st \notin Serving \cup {"away", "backlog", "held", "queued", "read"}
    BY <1>1, <2>3 DEF IInv, TypeOK, Conn, Serving
  <2>5. Leaves(held)
    BY <1>1, <1>3, <2>1, <2>2, <2>4 DEF Leaves, Counted, Serving
  <2>6. MayRead'
    BY <2>2, <2>4 DEF IInv, MayRead
  <2> QED
    BY <1>1, <1>2, <2>1, <2>3, <2>5, <2>6
    DEF IInv, TypeOK, LoopSpawned, HoldsOne, RoomLeft, InLoopStep, WorkOK, Kept
<1>5. CASE Spawn(nextWorker_) /\ UNCHANGED activeConnections_
  <2>1. /\ held' = NoConn /\ loop' \in {"head", "done"} /\ conn' \in [Conns -> Conn]
        /\ Counted' = Counted /\ MayRead'
    BY <1>1, <1>2, <1>3, <1>5, SpawnKeeps
  <2> QED
    BY <1>1, <1>2, <1>5, <2>1
    DEF IInv, TypeOK, LoopSpawned, HoldsOne, RoomLeft, InLoopStep, WorkOK, Kept, SameCount
<1> QED
  BY <1>4, <1>5 DEF Dispatch

-----------------------------------------------------------------------------
(* A connection *)

\* The record of one counted connection changes, and it is still counted or the
\* guard takes it back.
ConnStep(c, r) ==
    /\ conn[c].st \in Serving /\ r \in Conn
    /\ conn' = [conn EXCEPT ![c] = r]
    /\ \/ r.st \in Serving /\ UNCHANGED activeConnections_
       \/ r.st = "closed" /\ activeConnections_' = activeConnections_ - 1
    /\ r.st = "read" => r.requests < MaxRequests
    /\ r.st # "queued"
    /\ UNCHANGED <<mainPc, loopVars>>

LEMMA ConnStepKeeps ==
    ASSUME IInv, NEW c \in Conns, NEW r, ConnStep(c, r)
    PROVE  Kept
<1>1. UNCHANGED <<mainPc, loop, held, nextWorker_>> /\ r \in Conn
  BY DEF ConnStep, loopVars
<1>2. conn' \in [Conns -> Conn] /\ conn'[c] = r /\ \A d \in Conns : d # c => conn'[d] = conn[d]
  BY <1>1 DEF ConnStep, IInv, TypeOK
<1>3. c \in Counted /\ ~(InLoopStep /\ held = c)
  BY DEF ConnStep, Counted, IInv, HoldsOne, Serving
<1>4. SameCount \/ Leaves(c)
  <2>1. CASE r.st \in Serving /\ UNCHANGED activeConnections_
    BY <1>1, <1>2, <1>3, <2>1 DEF SameCount, Counted
  <2>2. CASE r.st = "closed" /\ activeConnections_' = activeConnections_ - 1
    BY <1>1, <1>2, <1>3, <2>2 DEF Leaves, Counted, InLoopStep, Serving
  <2> QED
    BY <2>1, <2>2 DEF ConnStep
<1>5. activeConnections_' <= activeConnections_
  <2>1. activeConnections_ \in Int
    BY ConnsFinite DEF IInv, TypeOK
  <2> QED
    BY <1>4, <2>1 DEF SameCount, Leaves
<1>6. RoomLeft'
  <2>1. activeConnections_ \in Int /\ activeConnections_' \in Int /\ MaxConnections \in Int
    BY <1>4, ConnsFinite, ServerAssumption DEF IInv, TypeOK, SameCount, Leaves
  <2> QED
    BY <1>1, <1>5, <2>1 DEF IInv, RoomLeft
<1>7. MayRead'
  BY <1>2 DEF IInv, MayRead, ConnStep, Serving
<1>8. LoopSpawned' /\ HoldsOne' /\ WorkOK'
  BY <1>1, <1>2, <1>3 DEF IInv, TypeOK, LoopSpawned, HoldsOne, InLoopStep, WorkOK
<1> QED
  BY <1>4, <1>6, <1>7, <1>8 DEF Kept

LEMMA EndsStep ==
    ASSUME IInv, NEW c \in Conns, conn[c].st \in Serving, Ends(c), UNCHANGED <<mainPc, loopVars>>
    PROVE  ConnStep(c, Closed(conn[c]))
<1>1. Closed(conn[c]) \in Conn /\ Closed(conn[c]).st = "closed"
  BY ServerAssumption DEF Closed, Conn, IInv, TypeOK, Contexts
<1> QED
  BY <1>1 DEF Ends, ConnStep, IInv, TypeOK, Serving

LEMMA ServeSteps ==
    ASSUME IInv, NEW c \in Conns, Serve(c)
    PROVE  \E r : ConnStep(c, r)
<1> USE DEF mainVars, At, Goes, Serving
<1>1. conn[c] \in Conn
  BY DEF IInv, TypeOK
<1>2. CASE ServeBegin(c)
  <2> DEFINE r == [conn[c] EXCEPT !.st = "read"]
  <2>1. r \in Conn /\ r.st = "read" /\ r.requests < MaxRequests
    BY <1>1, <1>2 DEF ServeBegin, Conn, IInv, MayRead
  <2> QED
    BY <1>2, <2>1 DEF ServeBegin, ConnStep, IInv, TypeOK
<1>3. CASE ReadRequest(c)
  <2> DEFINE r == [conn[c] EXCEPT !.st = "handle", !.requests = @ + 1]
  <2>1. conn[c].requests < MaxRequests
    BY <1>3 DEF ReadRequest, IInv, MayRead
  <2>2. r \in Conn /\ r.st = "handle"
    <3>1. conn[c].requests + 1 \in 0 .. MaxRequests
      BY <1>1, <2>1, ServerAssumption DEF Conn
    <3> QED
      BY <1>1, <3>1 DEF Conn
  <2>3. conn' = [conn EXCEPT ![c] = r]
    BY <1>3 DEF ReadRequest, IInv, TypeOK
  <2> QED
    BY <1>3, <2>2, <2>3 DEF ReadRequest, ConnStep
<1>4. CASE ReadFails(c) \/ HandlerEnds(c) \/ WriteFails(c)
  <2>1. ConnStep(c, Closed(conn[c]))
    BY <1>4, EndsStep DEF ReadFails, HandlerEnds, WriteFails
  <2> QED
    BY <2>1
<1>5. CASE Respond(c)
  <2>1. PICK k \in BOOLEAN :
          conn' = [conn EXCEPT ![c].st = "write", ![c].keepAlive = k /\ ~stopped_]
    BY <1>5 DEF Respond
  <2> DEFINE r == [conn[c] EXCEPT !.st = "write", !.keepAlive = k /\ ~stopped_]
  <2>2. r \in Conn /\ r.st = "write"
    BY <1>1 DEF Conn
  <2>3. conn' = [conn EXCEPT ![c] = r]
    BY <2>1 DEF IInv, TypeOK
  <2> QED
    BY <1>5, <2>2, <2>3 DEF Respond, ConnStep
<1>6. CASE Written(c)
  <2> DEFINE late == conn[c].late + (IF stopped_ THEN 1 ELSE 0)
             sent == [conn[c] EXCEPT !.st = "read", !.keepAlive = FALSE, !.late = late]
  <2>1. late \in Nat
    BY <1>1 DEF Conn
  <2>2. sent \in Conn /\ sent.st = "read" /\ sent.requests = conn[c].requests
    BY <1>1, <2>1 DEF Conn
  <2>3. conn[c].st = "write" /\ UNCHANGED <<mainPc, loopVars>>
    BY <1>6 DEF Written
  <2>4. CASE Again(c)
    <3>1. conn' = [conn EXCEPT ![c] = sent] /\ UNCHANGED activeConnections_
      BY <1>6, <2>4 DEF Written
    <3>2. sent.requests < MaxRequests
      BY <2>2, <2>4 DEF Again
    <3> HIDE DEF sent
    <3> QED
      BY <2>2, <2>3, <3>1, <3>2 DEF ConnStep
  <2>5. CASE ~Again(c)
    <3>1. conn' = [conn EXCEPT ![c] = Closed(sent)] /\ activeConnections_' = activeConnections_ - 1
      BY <1>6, <2>5 DEF Written
    <3> HIDE DEF sent
    <3>2. Closed(sent) \in Conn /\ Closed(sent).st = "closed"
      BY <2>2, ServerAssumption DEF Closed, Conn, Contexts
    <3> QED
      BY <2>3, <3>1, <3>2 DEF ConnStep
  <2> QED
    BY <2>4, <2>5
<1> QED
  BY <1>2, <1>3, <1>4, <1>5, <1>6 DEF Serve

-----------------------------------------------------------------------------
(* Every step *)

LEMMA WorkControl ==
    ASSUME ControlOK,
           Listen \/ Loop \/ \E c \in Conns : Connect(c) \/ Serve(c)
    PROVE  ControlOK'
<1> USE DEF ControlOK, mainVars, stopVars
<1>1. CASE Listen
  BY <1>1 DEF Listen, Start, stopVars, Phases
<1>2. CASE LoopHead \/ AcceptFail \/ Retry \/ CheckLimit \/ Count \/ Dispatch
  BY <1>2 DEF LoopHead, AcceptFail, Retry, CheckLimit, Count, Dispatch
<1>3. ASSUME NEW c \in Conns, AcceptDone(c) \/ Connect(c)
      PROVE  ControlOK'
  BY <1>3 DEF AcceptDone, Connect
<1>4. ASSUME NEW c \in Conns, Serve(c)
      PROVE  ControlOK'
  BY <1>4 DEF Serve, ServeBegin, ReadRequest, ReadFails, HandlerEnds, Respond, Written, WriteFails
<1> QED
  BY <1>1, <1>2, <1>3, <1>4 DEF Loop

LEMMA NextKeeps ==
    ASSUME IInv, [Next]_vars
    PROVE  ControlOK' /\ Kept
<1> USE DEF IInv
<1>1. ControlOK /\ WorkOK
  BY TypeParts
<1>2. CASE Others
  <2>1. Quiet /\ LoopSpawned'
    BY <1>2, OthersQuiet
  <2>2. WorkOK'
    BY <1>1, <2>1 DEF Quiet, loopVars, WorkOK
  <2> QED
    BY <1>1, <1>2, <2>1, <2>2, OthersTyped, QuietKeeps DEF Kept
<1>3. CASE Listen \/ Loop
  <2>1. Kept
    BY <1>3, LoopWaits, AcceptKeeps, CheckKeeps, CountKeeps, DispatchKeeps DEF Loop
  <2> QED
    BY <1>1, <1>3, <2>1, WorkControl
<1>4. ASSUME NEW c \in Conns, Connect(c) \/ Serve(c)
      PROVE  ControlOK' /\ Kept
  BY <1>1, <1>4, WorkControl, ConnectKeeps, ServeSteps, ConnStepKeeps
<1>5. CASE UNCHANGED vars
  <2>1. Quiet /\ UNCHANGED mainPc /\ ControlOK' /\ WorkOK'
    BY <1>1, <1>5 DEF vars, Quiet, loopVars, ControlOK, WorkOK
  <2> QED
    BY <2>1, QuietKeeps DEF Kept
<1> QED
  BY <1>2, <1>3, <1>4, <1>5 DEF Next, Main, Others

LEMMA InitKeeps == Init => IInv
<1> SUFFICES ASSUME Init
             PROVE  IInv
  OBVIOUS
<1>1. Counted = {}
  BY DEF Init, Counted, Serving
<1>2. Admission
  BY <1>1, FS_EmptySet, ServerAssumption DEF Init, Admission
<1>3. ControlOK /\ WorkOK
  <2>1. 0 \in Contexts /\ 0 \in 0 .. MaxRequests
    BY ServerAssumption DEF Contexts
  <2>2. conn \in [Conns -> Conn]
    BY <2>1 DEF Init, Conn
  <2> QED
    BY <2>1, <2>2 DEF Init, ControlOK, WorkOK, Phases
<1>4. activeConnections_ \in 0 .. Cardinality(Conns)
  BY ConnsFinite DEF Init
<1>5. LoopSpawned /\ HoldsOne /\ RoomLeft /\ MayRead
  BY ServerAssumption DEF Init, LoopSpawned, HoldsOne, RoomLeft, MayRead, InLoopStep
<1> QED
  BY <1>2, <1>3, <1>4, <1>5, TypeParts DEF IInv

LEMMA StepKeeps == IInv /\ [Next]_vars => IInv'
<1> SUFFICES ASSUME IInv, [Next]_vars
             PROVE  IInv'
  OBVIOUS
<1>1. ControlOK' /\ Kept
  BY NextKeeps
<1>2. Admission'
  BY <1>1, AdmissionKept DEF Kept, IInv
<1>3. activeConnections_' \in 0 .. Cardinality(Conns')
  BY <1>2, CountedFinite DEF Admission, Conns
<1>4. TypeOK'
  BY <1>1, <1>3 DEF Kept, TypeOK, ControlOK, WorkOK
<1> QED
  BY <1>1, <1>2, <1>4 DEF Kept, IInv

\* The types, for every number of clients, workers and connections.
THEOREM TypeCorrect == Spec => []TypeOK
<1>1. IInv => TypeOK
  BY DEF IInv
<1> QED
  BY <1>1, InitKeeps, StepKeeps, PTL DEF Spec

\* activeConnections_ counts the connections that are served, and never exceeds
\* maxConnections, whatever thread stop() is called on and at whatever moment of
\* start(): the test and the increment of the accept loop are not one atomic
\* operation, but only the accept loop increments.
THEOREM AdmissionHolds == Spec => []Admission
<1>1. IInv => Admission
  BY DEF IInv
<1> QED
  BY <1>1, InitKeeps, StepKeeps, PTL DEF Spec

-----------------------------------------------------------------------------
(* Responses after stop() *)

\* Only a connection that is over has written after stop(): the response that made
\* it late was its last.
LateIsLast ==
    \A c \in Conns : conn[c].late <= 1 /\ (conn[c].st # "closed" => conn[c].late = 0)

\* A connection whose late is left alone and that was not over before.
Untouched(d) == conn'[d].late = conn[d].late /\ (conn[d].st = "closed" => conn'[d].st = "closed")

LEMMA UntouchedLate ==
    ASSUME LateIsLast, \A d \in Conns : Untouched(d)
    PROVE  LateIsLast'
BY DEF LateIsLast, Untouched

LEMMA LoopUntouched ==
    ASSUME IInv, Listen \/ Loop \/ \E c \in Conns : Connect(c)
    PROVE  \A d \in Conns : Untouched(d)
<1> USE DEF IInv, TypeOK, Untouched
<1>1. CASE Listen
  BY <1>1 DEF Listen
<1>2. CASE LoopHead \/ AcceptFail \/ Retry
  BY <1>2 DEF LoopHead, AcceptFail, Retry
<1>3. ASSUME NEW c \in Conns, Connect(c) \/ AcceptDone(c), NEW d \in Conns
      PROVE  Untouched(d)
  <2>1. conn[c].st \in {"away", "backlog"} /\ conn[c] \in Conn
    BY <1>3 DEF Connect, AcceptDone
  <2>2. \E st : conn' = [conn EXCEPT ![c] = [@ EXCEPT !.st = st]]
    BY <1>3 DEF Connect, AcceptDone
  <2> QED
    BY <2>1, <2>2 DEF Conn
<1>4. ASSUME CheckLimit \/ Count \/ Dispatch, NEW d \in Conns
      PROVE  Untouched(d)
  <2>1. held \in Conns /\ conn[held].st = "held" /\ conn[held] \in Conn
    BY <1>4 DEF HoldsOne, InLoopStep, CheckLimit, Count, Dispatch
  <2>2. \/ UNCHANGED conn
        \/ conn' = [conn EXCEPT ![held].st = "dropped"]
        \/ \E w : conn' = [conn EXCEPT ![held].st = "queued", ![held].at = w]
    BY <1>4 DEF CheckLimit, Count, Dispatch, Spawn
  <2>3. conn'[d] = conn[d] \/ (d = held /\ conn'[d].late = conn[d].late)
    <3>1. CASE d # held
      BY <2>2, <3>1
    <3>2. CASE d = held /\ \E w : conn' = [conn EXCEPT ![held].st = "queued", ![held].at = w]
      <4>1. PICK w : conn' = [conn EXCEPT ![held].st = "queued", ![held].at = w]
        BY <3>2
      <4>2. conn'[held] = [[conn[held] EXCEPT !.st = "queued"] EXCEPT !.at = w]
        BY <2>1, <4>1
      <4> QED
        BY <2>1, <3>2, <4>2 DEF Conn
    <3>3. CASE d = held /\ ~\E w : conn' = [conn EXCEPT ![held].st = "queued", ![held].at = w]
      BY <2>1, <2>2, <3>3 DEF Conn
    <3> QED
      BY <3>1, <3>2, <3>3
  <2> QED
    BY <2>1, <2>3
<1> QED
  BY <1>1, <1>2, <1>3, <1>4 DEF Loop

LEMMA ServeLate ==
    ASSUME IInv, LateIsLast, NEW c \in Conns, Serve(c)
    PROVE  LateIsLast'
<1> USE DEF At, Goes, IInv, TypeOK
<1>1. conn[c] \in Conn /\ conn[c].st \in Serving
  BY DEF Serve, ServeBegin, ReadRequest, ReadFails, HandlerEnds, Respond, Written, WriteFails, Serving
<1>2. conn[c].late = 0
  BY <1>1 DEF LateIsLast, Serving
<1>3. CASE ~Written(c)
  <2>1. \A d \in Conns : d # c => conn'[d] = conn[d]
    BY <1>3 DEF Serve, ServeBegin, ReadRequest, ReadFails, HandlerEnds, Respond, WriteFails, Ends
  <2>2. conn'[c].late = 0
    <3>1. CASE ServeBegin(c) \/ ReadRequest(c)
      BY <1>1, <1>2, <3>1 DEF ServeBegin, ReadRequest, Conn
    <3>2. CASE ReadFails(c) \/ HandlerEnds(c) \/ WriteFails(c)
      BY <1>1, <1>2, <3>2 DEF ReadFails, HandlerEnds, WriteFails, Ends, Closed
    <3>3. CASE Respond(c)
      <4>1. PICK k \in BOOLEAN :
              conn' = [conn EXCEPT ![c].st = "write", ![c].keepAlive = k /\ ~stopped_]
        BY <3>3 DEF Respond
      <4>2. conn'[c] = [conn[c] EXCEPT !.st = "write", !.keepAlive = k /\ ~stopped_]
        BY <4>1
      <4> QED
        BY <1>1, <1>2, <4>2 DEF Conn
    <3> QED
      BY <1>3, <3>1, <3>2, <3>3 DEF Serve
  <2> QED
    BY <2>1, <2>2 DEF LateIsLast
<1>4. CASE Written(c)
  <2> DEFINE late == conn[c].late + (IF stopped_ THEN 1 ELSE 0)
             sent == [conn[c] EXCEPT !.st = "read", !.keepAlive = FALSE, !.late = late]
  <2>1. sent.late = late
    BY <1>1 DEF Conn
  <2>2. CASE Again(c)
    <3>1. conn' = [conn EXCEPT ![c] = sent]
      BY <1>4, <2>2 DEF Written
    <3>2. late = 0
      BY <1>2, <2>2 DEF Again
    <3> HIDE DEF sent, late
    <3> QED
      BY <2>1, <3>1, <3>2 DEF LateIsLast
  <2>3. CASE ~Again(c)
    <3>1. conn' = [conn EXCEPT ![c] = Closed(sent)]
      BY <1>4, <2>3 DEF Written
    <3>2. late <= 1
      BY <1>2
    <3> HIDE DEF sent, late
    <3>3. Closed(sent).late = late /\ Closed(sent).st = "closed"
      BY <2>1 DEF Closed
    <3> QED
      BY <3>1, <3>2, <3>3 DEF LateIsLast
  <2> QED
    BY <2>2, <2>3
<1> QED
  BY <1>3, <1>4

LEMMA NextLate == IInv /\ LateIsLast /\ [Next]_vars => LateIsLast'
<1> SUFFICES ASSUME IInv, LateIsLast, [Next]_vars
             PROVE  LateIsLast'
  OBVIOUS
<1>1. CASE Others \/ UNCHANGED vars
  <2>1. UNCHANGED conn
    BY <1>1, OthersQuiet DEF Quiet, vars
  <2> QED
    BY <2>1 DEF LateIsLast
<1>2. CASE Listen \/ Loop \/ \E c \in Conns : Connect(c)
  BY <1>2, LoopUntouched, UntouchedLate
<1>3. ASSUME NEW c \in Conns, Serve(c)
      PROVE  LateIsLast'
  BY <1>3, ServeLate
<1> QED
  BY <1>1, <1>2, <1>3 DEF Next, Main, Others

\* After stop() has set stopped_ a connection writes at most the one response it was
\* building: whatever the worker threads see of stopped_ and when.
THEOREM OneMoreResponse == Spec => []OneMoreAfterStop
<1>1. Init => LateIsLast
  BY DEF Init, LateIsLast
<1>2. LateIsLast => OneMoreAfterStop
  BY DEF LateIsLast, OneMoreAfterStop
<1> QED
  BY <1>1, <1>2, InitKeeps, StepKeeps, NextLate, PTL DEF Spec
=============================================================================
