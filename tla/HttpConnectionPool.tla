------------------------- MODULE HttpConnectionPool -------------------------
(***************************************************************************)
(* The keep-alive connection pool of src/src/http_client.cpp (class        *)
(* HttpConnectionPool), for one pool key (one endpoint).                   *)
(*                                                                         *)
(* The actors are the request coroutines ("tasks").  Each runs on one      *)
(* io_context; the pool is shared by all of them and protected by mtx_.    *)
(* A step of a task is one critical section of the pool together with the  *)
(* code up to the next lock, co_await or Timer::cancel() call, so the      *)
(* steps of tasks on different threads interleave exactly where the C++    *)
(* code lets them.  An io_context outside MultiThreaded is run by a single *)
(* thread: while one of its coroutines is between two suspension points    *)
(* (OnCpu) none of its other coroutines moves.                             *)
(*                                                                         *)
(* pc[t]                                                                   *)
(*   "idle"      no request is running                                     *)
(*   "acquire"   on the CPU, about to lock mtx_ at the top of acquire()    *)
(*   "connect"   suspended in createConnection(), owns a slot              *)
(*   "refused"   owns a slot, but was cancelled before createConnection()  *)
(*   "exchange"  acquire() returned: owns a slot and a connection          *)
(*   "arm"       on the CPU: waiter queued, its timer not yet started      *)
(*   "waiting"   suspended in the timer's async_wait()                     *)
(*   "woken"     the wait has completed, the coroutine is to be resumed    *)
(*   "notify"    on the CPU, mtx_ released, timers left to cancel()        *)
(*   "gone"      the io_context destroyed the frame; it owned no slot      *)
(*   "lost"      the io_context destroyed the frame while it owned a slot  *)
(***************************************************************************)
EXTENDS Integers, FiniteSets

CONSTANTS Tasks,          \* request coroutines
          Contexts,       \* io_contexts
          CtxOf,          \* the io_context each task runs on
          MaxOf,          \* RequestConfig::maxConcurrentConnections; 0 is "no limit"
          MaxLimit,       \* a bound on MaxOf
          MultiThreaded,  \* io_contexts run by more than one thread
          Destroyable,    \* io_contexts that may be destroyed while the pool lives
          Requests,       \* the number of requests each task makes
          Endless,        \* tasks that make requests for ever instead
          ClearBound      \* calls of clear()

ASSUME TasksFinite == IsFiniteSet(Tasks)
ASSUME ContextAssumption == /\ CtxOf \in [Tasks -> Contexts]
                            /\ MultiThreaded \subseteq Contexts
                            /\ Destroyable \subseteq Contexts
ASSUME LimitAssumption == /\ MaxLimit \in Nat
                          /\ MaxOf \in [Tasks -> 0 .. MaxLimit]
ASSUME BoundAssumption == /\ Requests \in [Tasks -> Nat]
                          /\ Endless \subseteq Tasks
                          /\ ClearBound \in Nat

VARIABLES
    pc,            \* where each task is, see above
    cancelled,     \* the task's cancellation state is set
    left,          \* requests the task may still make, if it is not in Endless
    active,        \* Entry::active, the slots in use
    idle,          \* per io_context: idle connections used within kPoolIdleTimeout
    expired,       \* per io_context: idle connections past kPoolIdleTimeout
    waiters,       \* Entry::waiters: the tasks whose Waiter object is listed,
    ahead,         \*   and, in list order, the ones in front of each of them
    waiterActive,  \* Waiter::active of the task's current Waiter object
    toCancel,      \* Waiters whose timer the task has popped and is to cancel()
    guarded,       \* io_contexts on which HttpPoolContextGuard is registered
    ctxState,      \* "run", "closing" (in ~io_context) or "gone"
    clears         \* calls of clear() still to come

taskVars  == <<pc, cancelled, left>>
connVars  == <<active, idle, expired>>
queueVars == <<waiters, ahead, waiterActive>>
ctxVars   == <<guarded, ctxState>>
vars == <<taskVars, connVars, queueVars, toCancel, ctxVars, clears>>

PCs == {"idle", "acquire", "connect", "refused", "exchange", "arm",
        "waiting", "woken", "notify", "gone", "lost"}

TypeOK ==
    /\ pc \in [Tasks -> PCs]
    /\ cancelled \in [Tasks -> BOOLEAN]
    /\ left \in [Tasks -> Nat]
    /\ active \in Nat
    /\ idle \in [Contexts -> Nat]
    /\ expired \in [Contexts -> Nat]
    /\ waiters \subseteq Tasks
    /\ ahead \in [Tasks -> SUBSET Tasks]
    /\ waiterActive \in [Tasks -> BOOLEAN]
    /\ toCancel \in [Tasks -> SUBSET Tasks]
    /\ guarded \subseteq Contexts
    /\ ctxState \in [Contexts -> {"run", "closing", "gone"}]
    /\ clears \in 0 .. ClearBound

Init ==
    /\ pc = [t \in Tasks |-> "idle"]
    /\ cancelled = [t \in Tasks |-> FALSE]
    /\ left = Requests
    /\ active = 0
    /\ idle = [c \in Contexts |-> 0]
    /\ expired = [c \in Contexts |-> 0]
    /\ waiters = {}
    /\ ahead = [t \in Tasks |-> {}]
    /\ waiterActive = [t \in Tasks |-> FALSE]
    /\ toCancel = [t \in Tasks |-> {}]
    /\ guarded = {}
    /\ ctxState = [c \in Contexts |-> "run"]
    /\ clears = ClearBound

-----------------------------------------------------------------------------
(* Scheduling *)

OnCpu(t) == pc[t] \in {"acquire", "refused", "arm", "notify"}

\* A thread of t's io_context is free to run t.
Runs(t) ==
    /\ ctxState[CtxOf[t]] = "run"
    /\ \/ CtxOf[t] \in MultiThreaded
       \/ \A u \in Tasks \ {t} : CtxOf[u] = CtxOf[t] => ~OnCpu(u)

-----------------------------------------------------------------------------
(* The waiter list *)

\* The list without the Waiters of S.
Unlist(S) ==
    /\ waiters' = waiters \ S
    /\ ahead' = [t \in Tasks |-> IF t \in S THEN {} ELSE ahead[t] \ S]
    /\ waiterActive' = [t \in Tasks |-> IF t \in S THEN FALSE ELSE waiterActive[t]]

\* waiters.push_back() of a new Waiter of t.
PushWaiter(t) ==
    /\ waiters' = waiters \cup {t}
    /\ ahead' = [ahead EXCEPT ![t] = waiters]
    /\ waiterActive' = [waiterActive EXCEPT ![t] = TRUE]

\* The Waiters release() and the failed acquire() pop: everything up to the
\* first active one, or the whole list when none is active.
FirstActive == {w \in waiters : waiterActive[w] /\ \A u \in ahead[w] : ~waiterActive[u]}
Popped == IF FirstActive = {} THEN waiters
          ELSE FirstActive \cup UNION {ahead[w] : w \in FirstActive}

\* A bug: the Waiter is marked but stays on the list.
DropWaiterListed(t) ==
    /\ waiterActive' = [waiterActive EXCEPT ![t] = FALSE]
    /\ toCancel' = [u \in Tasks |-> toCancel[u] \ {t}]
    /\ UNCHANGED <<waiters, ahead>>

\* ~WaiterGuard: a Waiter nobody has popped takes itself off the list.  Once
\* the Waiter is dead, cancelling its timer has no effect any more.
DropWaiter(t) ==
    /\ IF waiterActive[t] THEN Unlist({t}) ELSE UNCHANGED queueVars
    /\ toCancel' = [u \in Tasks |-> toCancel[u] \ {t}]

\* A bug: the popped Waiter's timer is not cancelled.
GiveBackSilently(t) ==
    /\ active' = IF active > 0 THEN active - 1 ELSE active
    /\ Unlist(Popped)
    /\ toCancel' = [toCancel EXCEPT ![t] = {}]
    /\ pc' = [pc EXCEPT ![t] = "notify"]

\* A bug: nobody is popped.
GiveBackAlone(t) ==
    /\ active' = IF active > 0 THEN active - 1 ELSE active
    /\ toCancel' = [toCancel EXCEPT ![t] = {}]
    /\ pc' = [pc EXCEPT ![t] = "notify"]
    /\ UNCHANGED queueVars

\* The end of release() and of the failed acquire(): give the slot back under
\* mtx_, pop one Waiter, cancel its timer after unlocking.
GiveBackSlot(t) ==
    /\ active' = IF active > 0 THEN active - 1 ELSE active
    /\ Unlist(Popped)
    /\ toCancel' = [toCancel EXCEPT ![t] = FirstActive]
    /\ pc' = [pc EXCEPT ![t] = "notify"]

-----------------------------------------------------------------------------
(* acquire() *)

\* A request reaches pool.acquire().
Request(t) ==
    /\ Runs(t) /\ pc[t] = "idle" /\ (t \in Endless \/ left[t] > 0)
    /\ left' = IF t \in Endless THEN left ELSE [left EXCEPT ![t] = @ - 1]
    /\ cancelled' = [cancelled EXCEPT ![t] = FALSE]
    /\ pc' = [pc EXCEPT ![t] = "acquire"]
    /\ UNCHANGED <<connVars, queueVars, toCancel, ctxVars, clears>>

\* A bug: the age of the connections is not looked at.
UsableAnyAge(c) == idle[c] + expired[c] > 0

Usable(c) == idle[c] > 0

\* A bug: the connection is handed out and stays in the bucket.
AcquireReuseShared(t) ==
    LET c == CtxOf[t] IN
    /\ Runs(t) /\ pc[t] = "acquire"
    /\ Usable(c)
    /\ active' = active + 1
    /\ pc' = [pc EXCEPT ![t] = "exchange"]
    /\ UNCHANGED <<cancelled, left, idle, expired, queueVars, toCancel, ctxVars, clears>>

\* The youngest idle connection of t's io_context is young enough.
AcquireReuse(t) ==
    LET c == CtxOf[t] IN
    /\ Runs(t) /\ pc[t] = "acquire"
    /\ Usable(c)
    /\ idle' = [idle EXCEPT ![c] = @ - 1]
    /\ active' = active + 1
    /\ pc' = [pc EXCEPT ![t] = "exchange"]
    /\ UNCHANGED <<cancelled, left, expired, queueVars, toCancel, ctxVars, clears>>

BelowMax(t) == MaxOf[t] = 0 \/ active < MaxOf[t]

\* A bug: the expired connections stay in the bucket.
AcquireCreateKeeping(t) ==
    LET c == CtxOf[t] IN
    /\ Runs(t) /\ pc[t] = "acquire"
    /\ ~Usable(c)
    /\ BelowMax(t)
    /\ active' = active + 1
    /\ pc' = [pc EXCEPT ![t] = IF cancelled[t] THEN "refused" ELSE "connect"]
    /\ UNCHANGED <<cancelled, left, idle, expired, queueVars, toCancel, ctxVars, clears>>

\* No usable idle connection (the expired ones are closed) and a free slot.
\* In a cancelled coroutine the co_await of createConnection() throws at once.
AcquireCreate(t) ==
    LET c == CtxOf[t] IN
    /\ Runs(t) /\ pc[t] = "acquire"
    /\ ~Usable(c)
    /\ expired' = [expired EXCEPT ![c] = 0]
    /\ BelowMax(t)
    /\ active' = active + 1
    /\ pc' = [pc EXCEPT ![t] = IF cancelled[t] THEN "refused" ELSE "connect"]
    /\ UNCHANGED <<cancelled, left, idle, queueVars, toCancel, ctxVars, clears>>

\* No usable idle connection and no free slot: queue a Waiter.
AcquireQueue(t) ==
    LET c == CtxOf[t] IN
    /\ Runs(t) /\ pc[t] = "acquire"
    /\ ~Usable(c)
    /\ expired' = [expired EXCEPT ![c] = 0]
    /\ ~BelowMax(t)
    /\ PushWaiter(t)
    /\ pc' = [pc EXCEPT ![t] = "arm"]
    /\ UNCHANGED <<cancelled, left, active, idle, toCancel, ctxVars, clears>>

\* A bug: no guard is registered.
ConnectUnguarded(t) ==
    /\ Runs(t) /\ pc[t] = "connect"
    /\ pc' = [pc EXCEPT ![t] = "exchange"]
    /\ UNCHANGED <<cancelled, left, connVars, queueVars, toCancel, ctxVars, clears>>

\* createConnection() returns; it has registered the io_context's guard.  (A
\* cancellation may come after its last operation completed.)
ConnectOk(t) ==
    /\ Runs(t) /\ pc[t] = "connect"
    /\ guarded' = guarded \cup {CtxOf[t]}
    /\ pc' = [pc EXCEPT ![t] = "exchange"]
    /\ UNCHANGED <<cancelled, left, connVars, queueVars, toCancel, ctxState, clears>>

\* A bug: the slot of a failed connect is not given back.
ConnectFailLeaks(t) ==
    /\ Runs(t) /\ pc[t] \in {"connect", "refused"}
    /\ pc' = [pc EXCEPT ![t] = "idle"]
    /\ UNCHANGED <<cancelled, left, connVars, queueVars, toCancel, ctxVars, clears>>

\* createConnection() throws: error, timeout or cancellation.
ConnectFail(t) ==
    /\ Runs(t) /\ pc[t] \in {"connect", "refused"}
    /\ GiveBackSlot(t)
    /\ UNCHANGED <<cancelled, left, idle, expired, ctxVars, clears>>

\* expires_after() and async_wait() on the Waiter's timer, after mtx_ was
\* released.  The co_await throws in a coroutine that is already cancelled.
Arm(t) ==
    /\ Runs(t) /\ pc[t] = "arm"
    /\ IF cancelled[t]
       THEN DropWaiter(t) /\ pc' = [pc EXCEPT ![t] = "idle"]
       ELSE UNCHANGED <<queueVars, toCancel>> /\ pc' = [pc EXCEPT ![t] = "waiting"]
    /\ UNCHANGED <<cancelled, left, connVars, ctxVars, clears>>

\* A bug: the timeout counts only for a Waiter that is still listed.
TimeoutListed(t) ==
    /\ ctxState[CtxOf[t]] = "run" /\ pc[t] = "waiting" /\ t \in waiters
    /\ pc' = [pc EXCEPT ![t] = "woken"]
    /\ UNCHANGED <<cancelled, left, connVars, queueVars, toCancel, ctxVars, clears>>

\* The back-up timeout kPoolWaitTimeout.
Timeout(t) ==
    /\ ctxState[CtxOf[t]] = "run" /\ pc[t] = "waiting"
    /\ pc' = [pc EXCEPT ![t] = "woken"]
    /\ UNCHANGED <<cancelled, left, connVars, queueVars, toCancel, ctxVars, clears>>

\* The waiting coroutine resumes: ~WaiterGuard, then the next round of the loop.
Wake(t) ==
    /\ Runs(t) /\ pc[t] = "woken"
    /\ DropWaiter(t)
    /\ pc' = [pc EXCEPT ![t] = "acquire"]
    /\ UNCHANGED <<cancelled, left, connVars, ctxVars, clears>>

-----------------------------------------------------------------------------
(* release(), clear() and the cancel() calls after the unlock *)

\* keep: the exchange left the connection reusable, and it is still open.
Release(t, keep) ==
    LET c == CtxOf[t] IN
    /\ Runs(t) /\ pc[t] = "exchange"
    /\ GiveBackSlot(t)
    /\ idle' = IF keep THEN [idle EXCEPT ![c] = @ + 1] ELSE idle
    /\ UNCHANGED <<cancelled, left, expired, ctxVars, clears>>

\* clearConnectionPool(), called on the thread of a task that has no request.
Clear(t) ==
    /\ Runs(t) /\ pc[t] = "idle" /\ clears > 0
    /\ clears' = clears - 1
    /\ idle' = [c \in Contexts |-> 0]
    /\ expired' = [c \in Contexts |-> 0]
    /\ toCancel' = [toCancel EXCEPT ![t] = {w \in waiters : waiterActive[w]}]
    /\ Unlist(waiters)
    /\ pc' = [pc EXCEPT ![t] = "notify"]
    /\ UNCHANGED <<cancelled, left, active, ctxVars>>

\* timer->cancel(): completes a wait that has started, and nothing else.
CancelTimer(t, w) ==
    /\ Runs(t) /\ pc[t] = "notify" /\ w \in toCancel[t]
    /\ toCancel' = [toCancel EXCEPT ![t] = @ \ {w}]
    /\ pc' = IF pc[w] = "waiting" THEN [pc EXCEPT ![w] = "woken"] ELSE pc
    /\ UNCHANGED <<cancelled, left, connVars, queueVars, ctxVars, clears>>

NotifyDone(t) ==
    /\ Runs(t) /\ pc[t] = "notify" /\ toCancel[t] = {}
    /\ pc' = [pc EXCEPT ![t] = "idle"]
    /\ UNCHANGED <<cancelled, left, connVars, queueVars, toCancel, ctxVars, clears>>

-----------------------------------------------------------------------------
(* The environment *)

\* The caller cancels the request; a suspended timer wait completes.
Cancel(t) ==
    /\ Runs(t) /\ pc[t] \in {"connect", "exchange", "waiting", "woken"} /\ ~cancelled[t]
    /\ cancelled' = [cancelled EXCEPT ![t] = TRUE]
    /\ pc' = IF pc[t] = "waiting" THEN [pc EXCEPT ![t] = "woken"] ELSE pc
    /\ UNCHANGED <<left, connVars, queueVars, toCancel, ctxVars, clears>>

\* Time passes: the idle connections of c that were released first expire first.
Expire(c) ==
    /\ idle[c] > 0
    /\ idle' = [idle EXCEPT ![c] = @ - 1]
    /\ expired' = [expired EXCEPT ![c] = @ + 1]
    /\ UNCHANGED <<taskVars, active, queueVars, toCancel, ctxVars, clears>>

\* ~io_context, once no thread runs it: the suspended frames are destroyed one
\* by one (the WaiterGuards run, the catch blocks that return slots do not),
\* then the guard, if it was registered, calls dropContext().
BeginDestroy(c) ==
    /\ c \in Destroyable /\ ctxState[c] = "run"
    /\ \A t \in Tasks : CtxOf[t] = c => ~OnCpu(t)
    /\ ctxState' = [ctxState EXCEPT ![c] = "closing"]
    /\ UNCHANGED <<taskVars, connVars, queueVars, toCancel, guarded, clears>>

DestroyFrame(t) ==
    /\ ctxState[CtxOf[t]] = "closing" /\ pc[t] \notin {"gone", "lost"}
    /\ pc' = [pc EXCEPT ![t] = IF @ \in {"connect", "refused", "exchange"} THEN "lost" ELSE "gone"]
    /\ DropWaiter(t)
    /\ UNCHANGED <<cancelled, left, connVars, ctxVars, clears>>

DropContext(c) ==
    /\ ctxState[c] = "closing"
    /\ \A t \in Tasks : CtxOf[t] = c => pc[t] \in {"gone", "lost"}
    /\ ctxState' = [ctxState EXCEPT ![c] = "gone"]
    /\ IF c \in guarded
       THEN /\ idle' = [idle EXCEPT ![c] = 0]
            /\ expired' = [expired EXCEPT ![c] = 0]
            /\ Unlist({w \in waiters : CtxOf[w] = c})
       ELSE UNCHANGED <<idle, expired, queueVars>>
    /\ UNCHANGED <<taskVars, active, toCancel, guarded, clears>>

-----------------------------------------------------------------------------
\* What the program does with the CPU, for one task.
Step(t) ==
    \/ Request(t)
    \/ AcquireReuse(t) \/ AcquireCreate(t) \/ AcquireQueue(t)
    \/ ConnectOk(t) \/ ConnectFail(t)
    \/ Arm(t) \/ Wake(t)
    \/ \E keep \in BOOLEAN : Release(t, keep)
    \/ \E w \in Tasks : CancelTimer(t, w)
    \/ NotifyDone(t)

Next ==
    \/ \E t \in Tasks : Step(t) \/ Timeout(t) \/ Cancel(t) \/ Clear(t) \/ DestroyFrame(t)
    \/ \E c \in Contexts : Expire(c) \/ BeginDestroy(c) \/ DropContext(c)

Spec == Init /\ [][Next]_vars

\* The scheduler of an io_context runs its ready handlers in FIFO order, so a
\* coroutine that is ready again and again gets its turn even if others run in
\* between.  Connecting and exchanging are taken to end: every await in them has a
\* deadline (which ssl::stream can lose: see Hangs of HttpRequest).
TaskFairness == \A t \in Tasks : SF_vars(Step(t))

\* A timer that has been armed fires.
TimerFairness == \A t \in Tasks : WF_vars(Timeout(t))

\* ~io_context, once entered, destroys every frame.
TeardownFairness == \A t \in Tasks : WF_vars(DestroyFrame(t))

\* Without the 30 s timer, and with it.
NotifiedSpec == Spec /\ TaskFairness
TimedSpec == Spec /\ TaskFairness /\ TimerFairness /\ TeardownFairness

-----------------------------------------------------------------------------
(* Properties *)

Holders == {t \in Tasks : pc[t] \in {"connect", "refused", "exchange", "lost"}}
HoldersOn(c) == {t \in Holders : CtxOf[t] = c}

\* Entry::active is the number of coroutines that own a slot, the ones whose
\* frame an io_context destroyed included: no path through acquire(), a failed
\* connect, a cancellation or release() returns a slot twice or not at all, and
\* the "if (active > 0)" of the decrements never has to hide an underflow.
SlotAccounting == active = Cardinality(Holders)

\* A Waiter is listed exactly as long as it is active, it belongs to a coroutine
\* that is in the wait, and the list is in a strict order: whatever the race of
\* release(), clear() and ~WaiterGuard, no Waiter is popped after its coroutine
\* left, none stays behind, and the front is unique.
QueueConsistent ==
    /\ \A t \in Tasks : t \in waiters <=> waiterActive[t]
    /\ \A t \in waiters : pc[t] \in {"arm", "waiting", "woken"}
    /\ \A t \in Tasks : ahead[t] \subseteq waiters \ {t}
    /\ \A t, u \in waiters : t = u \/ (t \in ahead[u] <=> u \notin ahead[t])
    /\ \A t \in Tasks : \A u \in ahead[t] : ahead[u] \subseteq ahead[t]

Limited == \A t \in Tasks : MaxOf[t] # 0

\* Entry::active never exceeds maxConcurrentConnections (http_client.h:292,
\* http_client.cpp:258).  The reuse path of acquire() does not look at the limit.
ConcurrencyCap == Limited => active <= MaxLimit

\* What the reuse path rests on: on one io_context, the slots in use and the
\* idle connections together stay within the limit.
PerContextBound ==
    Limited => \A c \in Contexts :
        Cardinality(HoldersOn(c)) + idle[c] + expired[c] <= MaxLimit

\* A coroutine asleep on its timer is either listed, so that a release can pop
\* it, or about to have its timer cancelled: it never depends on the 30 s
\* back-up timeout (http_client.cpp:344 and :408).
NoLostWakeup ==
    \A t \in Tasks : pc[t] = "waiting" =>
        t \in waiters \/ \E u \in Tasks : pc[u] = "notify" /\ t \in toCancel[u]

\* The coroutines on the way to a slot: about to look for one, or popped.
InFlight == {t \in Tasks : \/ pc[t] = "acquire"
                           \/ pc[t] \in {"arm", "waiting", "woken"} /\ ~waiterActive[t]}

\* While anyone is queued, every slot is in use or somebody is on the way to take
\* it: newcomers that overtake a popped waiter, cancelled waiters and failed
\* connects never leave a slot free with the others asleep.
WorkConserving == waiters # {} => active + Cardinality(InFlight) >= MaxLimit

\* The same for requests with limits of their own: a Waiter whose own limit is not
\* reached does not depend on the back-up timeout, since release() and a failed
\* connect wake as needed (http_client.cpp:344 and :408).
WakesAsNeeded == \A w \in waiters : active + Cardinality(InFlight) >= MaxOf[w]

\* A destroyed io_context leaves no idle socket in the pool (http_client.cpp:311).
NoDanglingIdle ==
    \A c \in Contexts : ctxState[c] = "gone" => idle[c] = 0 /\ expired[c] = 0

\* With one io_context the pool implements ConnectionLimit: the connections of
\* the endpoint, borrowed or idle, are handed out under one limit.
Total(f) == f[CHOOSE c \in Contexts : TRUE]
Limiter == INSTANCE ConnectionLimit WITH
    Clients <- Tasks, Limit <- MaxLimit,
    borrowed <- Holders, spare <- Total(idle) + Total(expired)
ImplementsLimit == Limiter!Spec

Ended(t) == pc[t] \in {"idle", "gone", "lost"}

\* Every request that reaches acquire() ends: the queue is first in, first out
\* and a wake-up is passed on exactly as needed (http_client.cpp:408).
RequestEnds == \A t \in Tasks : pc[t] = "acquire" ~> Ended(t)

\* Another request takes a slot while t, popped or just arrived, is on its way to
\* take one.
Overtaken(t) ==
    /\ t \in InFlight
    /\ \E u \in Tasks \ {t} : AcquireReuse(u) \/ AcquireCreate(u)

\* What the queue does promise: a request ends unless it is overtaken again and
\* again.  No place in the list, no release, no cancelled or failed neighbour
\* keeps it asleep, and no timer is needed.
ServedUnlessOvertaken ==
    \A t \in Tasks : []<><<Overtaken(t)>>_vars \/ (pc[t] = "acquire" ~> Ended(t))

\* A wake-up that was lost, spent on a request with a lower limit of its own or
\* sent to a destroyed io_context costs a time-out and never the request: unless
\* a destroyed io_context took a slot with it, a finite number of requests
\* (Endless = {}) all end, through as many rounds of the queue as it takes
\* (http_client.cpp:344).
RecoveredByTimer ==
    <>[](\A t \in Tasks : Ended(t) \/ \E u \in Tasks : pc[u] = "lost")
=============================================================================
