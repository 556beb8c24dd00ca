----------------------- MODULE HttpConnectionPool_proofs -----------------------
(* Theorems about the connection pool, for any number of tasks, io_contexts     *)
(* and requests.                                                                *)
EXTENDS HttpConnectionPool, FiniteSetTheorems, WellFoundedInduction, TLAPS

-----------------------------------------------------------------------------
(* Type correctness *)

LEMMA InitType == Init => TypeOK
  BY BoundAssumption DEF Init, TypeOK, PCs

\* Taking Waiters off the list, and giving a slot back, keep the types.
LEMMA UnlistType ==
  ASSUME TypeOK, NEW S, Unlist(S)
  PROVE  /\ waiters' \subseteq Tasks
         /\ ahead' \in [Tasks -> SUBSET Tasks]
         /\ waiterActive' \in [Tasks -> BOOLEAN]
  BY DEF TypeOK, Unlist

LEMMA DropWaiterType ==
  ASSUME TypeOK, NEW t \in Tasks, DropWaiter(t)
  PROVE  /\ waiters' \subseteq Tasks
         /\ ahead' \in [Tasks -> SUBSET Tasks]
         /\ waiterActive' \in [Tasks -> BOOLEAN]
         /\ toCancel' \in [Tasks -> SUBSET Tasks]
  <1>1. toCancel' \in [Tasks -> SUBSET Tasks]
    BY DEF TypeOK, DropWaiter
  <1>2. CASE waiterActive[t]
    BY <1>1, <1>2, UnlistType DEF DropWaiter
  <1>3. CASE ~waiterActive[t]
    BY <1>1, <1>3 DEF DropWaiter, queueVars, TypeOK
  <1> QED BY <1>2, <1>3

LEMMA GiveBackType ==
  ASSUME TypeOK, NEW t \in Tasks, GiveBackSlot(t)
  PROVE  /\ waiters' \subseteq Tasks
         /\ ahead' \in [Tasks -> SUBSET Tasks]
         /\ waiterActive' \in [Tasks -> BOOLEAN]
         /\ toCancel' \in [Tasks -> SUBSET Tasks]
         /\ active' \in Nat
         /\ pc' \in [Tasks -> PCs]
  <1>1. FirstActive \subseteq Tasks
    BY DEF FirstActive, TypeOK
  <1>2. toCancel' \in [Tasks -> SUBSET Tasks]
    BY <1>1 DEF GiveBackSlot, TypeOK
  <1>3. active' \in Nat /\ pc' \in [Tasks -> PCs]
    BY DEF GiveBackSlot, TypeOK, PCs
  <1> QED BY <1>2, <1>3, UnlistType DEF GiveBackSlot

LEMMA StepType ==
  ASSUME TypeOK, NEW t \in Tasks, Step(t)
  PROVE  TypeOK'
  <1> CtxOf[t] \in Contexts
    BY ContextAssumption
  <1> USE DEF TypeOK, PCs, connVars, queueVars, ctxVars
  <1>1. CASE Request(t)
    BY <1>1 DEF Request
  <1>2. CASE AcquireReuse(t)
    BY <1>2 DEF AcquireReuse, Usable
  <1>3. CASE AcquireCreate(t)
    BY <1>3 DEF AcquireCreate, Usable
  <1>4. CASE AcquireQueue(t)
    BY <1>4 DEF AcquireQueue, Usable, PushWaiter
  <1>5. CASE ConnectOk(t)
    BY <1>5 DEF ConnectOk
  <1>6. CASE ConnectFail(t)
    BY <1>6, GiveBackType DEF ConnectFail
  <1>7. CASE Arm(t)
    <2>1. CASE cancelled[t]
      BY <1>7, <2>1, DropWaiterType DEF Arm
    <2>2. CASE ~cancelled[t]
      BY <1>7, <2>2 DEF Arm
    <2> QED BY <2>1, <2>2
  <1>8. CASE Wake(t)
    BY <1>8, DropWaiterType DEF Wake
  <1>9. ASSUME NEW keep \in BOOLEAN, Release(t, keep)
        PROVE  TypeOK'
    BY <1>9, GiveBackType DEF Release
  <1>10. ASSUME NEW w \in Tasks, CancelTimer(t, w)
         PROVE  TypeOK'
    BY <1>10 DEF CancelTimer
  <1>11. CASE NotifyDone(t)
    BY <1>11 DEF NotifyDone
  <1> QED
    BY <1>1, <1>2, <1>3, <1>4, <1>5, <1>6, <1>7, <1>8, <1>9, <1>10, <1>11 DEF Step

LEMMA NextType == TypeOK /\ [Next]_vars => TypeOK'
  <1> SUFFICES ASSUME TypeOK, [Next]_vars
               PROVE  TypeOK'
    OBVIOUS
  <1> USE DEF TypeOK, PCs, taskVars, connVars, queueVars, ctxVars
  <1>1. ASSUME NEW t \in Tasks, Timeout(t)
        PROVE  TypeOK'
    BY <1>1 DEF Timeout
  <1>2. ASSUME NEW t \in Tasks, Cancel(t)
        PROVE  TypeOK'
    BY <1>2 DEF Cancel
  <1>3. ASSUME NEW t \in Tasks, Clear(t)
        PROVE  TypeOK'
    <2>1. clears' \in 0 .. ClearBound
      BY <1>3, BoundAssumption DEF Clear
    <2> QED BY <1>3, <2>1, UnlistType DEF Clear
  <1>4. ASSUME NEW t \in Tasks, DestroyFrame(t)
        PROVE  TypeOK'
    BY <1>4, DropWaiterType DEF DestroyFrame
  <1>5. ASSUME NEW c \in Contexts, Expire(c)
        PROVE  TypeOK'
    BY <1>5 DEF Expire
  <1>6. ASSUME NEW c \in Contexts, BeginDestroy(c)
        PROVE  TypeOK'
    BY <1>6 DEF BeginDestroy
  <1>7. ASSUME NEW c \in Contexts, DropContext(c)
        PROVE  TypeOK'
    <2>1. CASE c \in guarded
      BY <1>7, <2>1, UnlistType DEF DropContext
    <2>2. CASE c \notin guarded
      BY <1>7, <2>2 DEF DropContext
    <2> QED BY <2>1, <2>2
  <1>8. CASE UNCHANGED vars
    BY <1>8 DEF vars
  <1> QED
    BY <1>1, <1>2, <1>3, <1>4, <1>5, <1>6, <1>7, <1>8, StepType DEF Next

\* Every variable of the pool stays in its range.
THEOREM TypeCorrect == Spec => []TypeOK
  BY InitType, NextType, PTL DEF Spec

-----------------------------------------------------------------------------
(* Slots: every step leaves the slots alone, or one task takes one and counts  *)
(* it, or one task gives one back and counts that.                             *)

Joins(t) == /\ t \notin Holders /\ Holders' = Holders \cup {t}
            /\ active' = active + 1
Leaves(t) == /\ t \in Holders /\ Holders' = Holders \ {t}
             /\ active' = IF active > 0 THEN active - 1 ELSE active
SameSlots == Holders' = Holders /\ active' = active

LEMMA GiveBackLeaves ==
  ASSUME TypeOK, NEW t \in Tasks, t \in Holders, pc[t] # "lost", GiveBackSlot(t)
  PROVE  Leaves(t)
  BY DEF TypeOK, GiveBackSlot, Leaves, Holders

LEMMA StepSlots ==
  ASSUME TypeOK, NEW t \in Tasks, Step(t)
  PROVE  SameSlots \/ Joins(t) \/ Leaves(t)
  <1> USE DEF TypeOK, Holders
  <1>1. CASE Request(t)
    BY <1>1 DEF Request, connVars, SameSlots
  <1>2. CASE AcquireReuse(t)
    BY <1>2 DEF AcquireReuse, Usable, Joins
  <1>3. CASE AcquireCreate(t)
    BY <1>3 DEF AcquireCreate, Usable, Joins
  <1>4. CASE AcquireQueue(t)
    BY <1>4 DEF AcquireQueue, Usable, SameSlots
  <1>5. CASE ConnectOk(t)
    BY <1>5 DEF ConnectOk, connVars, SameSlots
  <1>6. CASE ConnectFail(t)
    BY <1>6, GiveBackLeaves DEF ConnectFail
  <1>7. CASE Arm(t)
    BY <1>7 DEF Arm, connVars, SameSlots
  <1>8. CASE Wake(t)
    BY <1>8 DEF Wake, connVars, SameSlots
  <1>9. ASSUME NEW keep \in BOOLEAN, Release(t, keep)
        PROVE  Leaves(t)
    BY <1>9, GiveBackLeaves DEF Release
  <1>10. ASSUME NEW w \in Tasks, CancelTimer(t, w)
         PROVE  SameSlots
    BY <1>10 DEF CancelTimer, connVars, SameSlots
  <1>11. CASE NotifyDone(t)
    BY <1>11 DEF NotifyDone, connVars, SameSlots
  <1> QED
    BY <1>1, <1>2, <1>3, <1>4, <1>5, <1>6, <1>7, <1>8, <1>9, <1>10, <1>11 DEF Step

LEMMA NextSlots ==
  ASSUME TypeOK, [Next]_vars
  PROVE  SameSlots \/ \E t \in Tasks : Joins(t) \/ Leaves(t)
  <1> USE DEF TypeOK, Holders, taskVars, connVars, SameSlots
  <1>1. ASSUME NEW t \in Tasks, Timeout(t)
        PROVE  SameSlots
    BY <1>1 DEF Timeout
  <1>2. ASSUME NEW t \in Tasks, Cancel(t)
        PROVE  SameSlots
    BY <1>2 DEF Cancel
  <1>3. ASSUME NEW t \in Tasks, Clear(t)
        PROVE  SameSlots
    BY <1>3 DEF Clear
  <1>4. ASSUME NEW t \in Tasks, DestroyFrame(t)
        PROVE  SameSlots
    BY <1>4 DEF DestroyFrame
  <1>5. ASSUME NEW c \in Contexts, Expire(c) \/ BeginDestroy(c) \/ DropContext(c)
        PROVE  SameSlots
    BY <1>5 DEF Expire, BeginDestroy, DropContext
  <1>6. CASE UNCHANGED vars
    BY <1>6 DEF vars
  <1> QED
    BY <1>1, <1>2, <1>3, <1>4, <1>5, <1>6, StepSlots DEF Next

LEMMA HoldersFinite == IsFiniteSet(Holders) /\ \A c \in Contexts : IsFiniteSet(HoldersOn(c))
  BY TasksFinite, FS_Subset DEF Holders, HoldersOn

LEMMA NextAccounting ==
  ASSUME TypeOK, SlotAccounting, [Next]_vars
  PROVE  SlotAccounting'
  <1>1. CASE SameSlots
    BY <1>1 DEF SameSlots, SlotAccounting
  <1>2. ASSUME NEW t \in Tasks, Joins(t)
        PROVE  SlotAccounting'
    BY <1>2, HoldersFinite, FS_AddElement DEF Joins, SlotAccounting
  <1>3. ASSUME NEW t \in Tasks, Leaves(t)
        PROVE  SlotAccounting'
    <2>1. Cardinality(Holders) \in Nat /\ Cardinality(Holders) > 0
      BY <1>3, HoldersFinite, FS_EmptySet, FS_CardinalityType DEF Leaves
    <2> QED BY <1>3, <2>1, HoldersFinite, FS_RemoveElement DEF Leaves, SlotAccounting
  <1> QED BY <1>1, <1>2, <1>3, NextSlots

LEMMA InitAccounting == Init => SlotAccounting
  <1> SUFFICES ASSUME Init PROVE SlotAccounting
    OBVIOUS
  <1>1. Holders = {} /\ active = 0
    BY DEF Init, Holders
  <1> QED BY <1>1, FS_EmptySet DEF SlotAccounting

\* Entry::active counts exactly the coroutines that own a slot.
THEOREM SlotsAccounted == Spec => []SlotAccounting
  <1>1. TypeOK /\ SlotAccounting /\ [Next]_vars => SlotAccounting'
    BY NextAccounting
  <1> QED BY <1>1, InitAccounting, TypeCorrect, PTL DEF Spec

-----------------------------------------------------------------------------
(* The limit.  Connections are opened only below the limit and with no idle    *)
(* connection on the same io_context, so slots and idle connections of one     *)
(* io_context stay within it.                                                  *)

\* What joining and leaving do to the number of holders on an io_context.
LEMMA JoinCount ==
  ASSUME NEW t \in Tasks, Joins(t), NEW c \in Contexts
  PROVE  Cardinality(HoldersOn(c)') =
           IF CtxOf[t] = c THEN Cardinality(HoldersOn(c)) + 1 ELSE Cardinality(HoldersOn(c))
  <1>1. CASE CtxOf[t] = c
    <2>1. HoldersOn(c)' = HoldersOn(c) \cup {t} /\ t \notin HoldersOn(c)
      BY <1>1 DEF Joins, HoldersOn
    <2> QED BY <1>1, <2>1, HoldersFinite, FS_AddElement
  <1>2. CASE CtxOf[t] # c
    BY <1>2 DEF Joins, HoldersOn
  <1> QED BY <1>1, <1>2

LEMMA LeaveCount ==
  ASSUME NEW t \in Tasks, Leaves(t), NEW c \in Contexts
  PROVE  Cardinality(HoldersOn(c)') =
           IF CtxOf[t] = c THEN Cardinality(HoldersOn(c)) - 1 ELSE Cardinality(HoldersOn(c))
  <1>1. CASE CtxOf[t] = c
    <2>1. HoldersOn(c)' = HoldersOn(c) \ {t} /\ t \in HoldersOn(c)
      BY <1>1 DEF Leaves, HoldersOn
    <2> QED BY <1>1, <2>1, HoldersFinite, FS_RemoveElement
  <1>2. CASE CtxOf[t] # c
    BY <1>2 DEF Leaves, HoldersOn
  <1> QED BY <1>1, <1>2

LEMMA HoldersOnCount ==
  ASSUME NEW c \in Contexts
  PROVE  /\ Cardinality(HoldersOn(c)) \in Nat
         /\ Cardinality(HoldersOn(c)) <= Cardinality(Holders)
  BY HoldersFinite, FS_CardinalityType, FS_Subset DEF HoldersOn

\* No io_context gains an idle connection.
IdleShrinks == \A c \in Contexts : idle[c]' + expired[c]' <= idle[c] + expired[c]

LEMMA StepIdle ==
  ASSUME TypeOK, NEW t \in Tasks, Step(t)
  PROVE  \/ AcquireReuse(t) \/ AcquireCreate(t) \/ ConnectFail(t)
         \/ \E keep \in BOOLEAN : Release(t, keep)
         \/ IdleShrinks /\ SameSlots
  <1> USE DEF TypeOK, Holders, IdleShrinks, SameSlots, connVars
  <1>1. CASE Request(t)
    BY <1>1 DEF Request
  <1>2. CASE AcquireQueue(t)
    BY <1>2 DEF AcquireQueue, Usable
  <1>3. CASE ConnectOk(t)
    BY <1>3 DEF ConnectOk
  <1>4. CASE Arm(t)
    BY <1>4 DEF Arm
  <1>5. CASE Wake(t)
    BY <1>5 DEF Wake
  <1>6. ASSUME NEW w \in Tasks, CancelTimer(t, w)
        PROVE  IdleShrinks /\ SameSlots
    BY <1>6 DEF CancelTimer
  <1>7. CASE NotifyDone(t)
    BY <1>7 DEF NotifyDone
  <1> QED BY <1>1, <1>2, <1>3, <1>4, <1>5, <1>6, <1>7 DEF Step

LEMMA NextIdle ==
  ASSUME TypeOK, [Next]_vars
  PROVE  \/ \E t \in Tasks : \/ AcquireReuse(t) \/ AcquireCreate(t) \/ ConnectFail(t)
                             \/ \E keep \in BOOLEAN : Release(t, keep)
         \/ IdleShrinks /\ SameSlots
  <1> USE DEF TypeOK, Holders, IdleShrinks, SameSlots, taskVars, connVars
  <1>1. ASSUME NEW t \in Tasks, Timeout(t)
        PROVE  IdleShrinks /\ SameSlots
    BY <1>1 DEF Timeout
  <1>2. ASSUME NEW t \in Tasks, Cancel(t)
        PROVE  IdleShrinks /\ SameSlots
    BY <1>2 DEF Cancel
  <1>3. ASSUME NEW t \in Tasks, Clear(t)
        PROVE  IdleShrinks /\ SameSlots
    BY <1>3 DEF Clear
  <1>4. ASSUME NEW t \in Tasks, DestroyFrame(t)
        PROVE  IdleShrinks /\ SameSlots
    BY <1>4 DEF DestroyFrame
  <1>5. ASSUME NEW c \in Contexts, Expire(c)
        PROVE  IdleShrinks /\ SameSlots
    BY <1>5 DEF Expire
  <1>6. ASSUME NEW c \in Contexts, BeginDestroy(c) \/ DropContext(c)
        PROVE  IdleShrinks /\ SameSlots
    BY <1>6 DEF BeginDestroy, DropContext
  <1>7. CASE UNCHANGED vars
    BY <1>7 DEF vars
  <1> QED BY <1>1, <1>2, <1>3, <1>4, <1>5, <1>6, <1>7, StepIdle DEF Next

LEMMA NextBound ==
  ASSUME TypeOK, SlotAccounting, PerContextBound, Limited, [Next]_vars
  PROVE  PerContextBound'
  <1> DEFINE Sum(c) == Cardinality(HoldersOn(c)) + idle[c] + expired[c]
  <1> SUFFICES ASSUME NEW c \in Contexts
               PROVE  Sum(c)' <= MaxLimit
    BY DEF PerContextBound
  <1>1. Sum(c) <= MaxLimit
    BY DEF PerContextBound
  <1>2. /\ Cardinality(HoldersOn(c)) \in Nat
        /\ idle[c] \in Nat /\ expired[c] \in Nat
        /\ MaxLimit \in Nat
    BY HoldersOnCount, LimitAssumption DEF TypeOK
  <1>3. ASSUME NEW t \in Tasks, AcquireReuse(t)
        PROVE  Sum(c)' <= MaxLimit
    <2>1. Joins(t)
      BY <1>3 DEF AcquireReuse, Usable, Joins, TypeOK, Holders
    <2>2. /\ idle[c]' = IF CtxOf[t] = c THEN idle[c] - 1 ELSE idle[c]
          /\ expired[c]' = expired[c]
      BY <1>3 DEF AcquireReuse, Usable, TypeOK
    <2> QED BY <1>1, <1>2, <2>1, <2>2, JoinCount
  <1>4. ASSUME NEW t \in Tasks, AcquireCreate(t)
        PROVE  Sum(c)' <= MaxLimit
    <2>1. Joins(t)
      BY <1>4 DEF AcquireCreate, Usable, Joins, TypeOK, Holders
    <2>2. CASE CtxOf[t] = c
      <3>1. idle[c]' = 0 /\ expired[c]' = 0
        BY <1>4, <2>2 DEF AcquireCreate, Usable, TypeOK
      <3>2. active < MaxLimit
        <4>1. active < MaxOf[t]
          BY <1>4 DEF AcquireCreate, BelowMax, Limited
        <4>2. active \in Nat /\ MaxOf[t] \in 0 .. MaxLimit
          BY LimitAssumption DEF TypeOK
        <4> QED BY <1>2, <4>1, <4>2
      <3>3. Cardinality(HoldersOn(c)) < MaxLimit
        BY <3>2, <1>2, HoldersOnCount, HoldersFinite, FS_CardinalityType DEF SlotAccounting
      <3> QED BY <1>2, <2>1, <2>2, <3>1, <3>3, JoinCount
    <2>3. CASE CtxOf[t] # c
      <3>1. idle[c]' = idle[c] /\ expired[c]' = expired[c]
        BY <1>4, <2>3 DEF AcquireCreate, Usable, TypeOK
      <3> QED BY <1>1, <2>1, <2>3, <3>1, JoinCount
    <2> QED BY <2>2, <2>3
  <1>5. ASSUME NEW t \in Tasks, NEW keep \in BOOLEAN, Release(t, keep)
        PROVE  Sum(c)' <= MaxLimit
    <2>1. Leaves(t)
      BY <1>5, GiveBackLeaves DEF Release, Holders
    <2>2. /\ idle[c]' \in Nat /\ expired[c]' = expired[c]
          /\ idle[c]' <= IF CtxOf[t] = c THEN idle[c] + 1 ELSE idle[c]
      BY <1>5 DEF Release, TypeOK
    <2> QED BY <1>1, <1>2, <2>1, <2>2, LeaveCount
  <1>6. ASSUME IdleShrinks, SameSlots \/ \E t \in Tasks : Leaves(t)
        PROVE  Sum(c)' <= MaxLimit
    <2>1. Cardinality(HoldersOn(c)') <= Cardinality(HoldersOn(c))
      <3>1. CASE SameSlots
        BY <1>2, <3>1 DEF SameSlots, HoldersOn
      <3>2. ASSUME NEW t \in Tasks, Leaves(t)
            PROVE  Cardinality(HoldersOn(c)') <= Cardinality(HoldersOn(c))
        BY <1>2, <3>2, LeaveCount
      <3> QED BY <1>6, <3>1, <3>2
    <2>2. Cardinality(HoldersOn(c)') \in Nat
      BY HoldersFinite, FS_CardinalityType, FS_Subset, TasksFinite DEF HoldersOn, Holders
    <2>3. idle[c]' \in Nat /\ expired[c]' \in Nat
      BY NextType DEF TypeOK
    <2> QED BY <1>1, <1>2, <1>6, <2>1, <2>2, <2>3 DEF IdleShrinks
  <1>7. ASSUME NEW t \in Tasks, ConnectFail(t)
        PROVE  IdleShrinks /\ Leaves(t)
    BY <1>7, GiveBackLeaves DEF ConnectFail, IdleShrinks, TypeOK, Holders
  <1> QED BY <1>3, <1>4, <1>5, <1>6, <1>7, NextIdle

LEMMA InitBound == Init => PerContextBound
  <1> SUFFICES ASSUME Init, NEW c \in Contexts
               PROVE  Cardinality(HoldersOn(c)) + idle[c] + expired[c] <= MaxLimit
    BY DEF PerContextBound
  <1>1. HoldersOn(c) = {} /\ idle[c] = 0 /\ expired[c] = 0
    BY DEF Init, HoldersOn, Holders
  <1> QED BY <1>1, FS_EmptySet, LimitAssumption

\* On each io_context, slots in use and idle connections together respect the limit.
THEOREM ContextBound == Spec => []PerContextBound
  <1>1. CASE Limited
    <2>1. TypeOK /\ SlotAccounting /\ PerContextBound /\ [Next]_vars => PerContextBound'
      BY <1>1, NextBound
    <2> QED BY <2>1, InitBound, TypeCorrect, SlotsAccounted, PTL DEF Spec
  <1>2. CASE ~Limited
    <2>1. PerContextBound
      BY <1>2 DEF PerContextBound
    <2> QED BY <2>1, PTL
  <1> QED BY <1>1, <1>2

\* With a single io_context the limit on the slots in use holds; the run
\* pool_cap shows that with two it does not.
THEOREM SingleContextCap ==
  ASSUME NEW c, Contexts = {c}
  PROVE  Spec => []ConcurrencyCap
  <1>1. TypeOK /\ SlotAccounting /\ PerContextBound => ConcurrencyCap
    <2> SUFFICES ASSUME TypeOK, SlotAccounting, PerContextBound, Limited
                 PROVE  active <= MaxLimit
      BY DEF ConcurrencyCap
    <2>1. HoldersOn(c) = Holders
      BY ContextAssumption DEF HoldersOn, Holders
    <2>2. Cardinality(Holders) + idle[c] + expired[c] <= MaxLimit
      BY <2>1 DEF PerContextBound
    <2> QED BY <2>2, LimitAssumption DEF SlotAccounting, TypeOK
  <1> QED BY <1>1, TypeCorrect, SlotsAccounted, ContextBound, PTL

-----------------------------------------------------------------------------
(* Refinement of ConnectionLimit.                                              *)

Spare == Total(idle) + Total(expired)

LEMMA SpareIs ==
  ASSUME NEW c, Contexts = {c}
  PROVE  Spare = idle[c] + expired[c] /\ Spare' = idle'[c] + expired'[c]
  BY DEF Spare, Total

\* Taking and giving back a slot map to the limiter's actions, the other steps to
\* Evict, which is a stutter when no idle connection is closed.
LEMMA StepImplements ==
  ASSUME NEW c, Contexts = {c}, Limited, TypeOK, SlotAccounting, [Next]_vars
  PROVE  [Limiter!Next]_<<Holders, Spare>>
  <1> c \in Contexts /\ \A t \in Tasks : CtxOf[t] = c
    BY ContextAssumption
  <1>0. /\ idle[c] \in Nat /\ expired[c] \in Nat /\ idle'[c] \in Nat /\ expired'[c] \in Nat
        /\ Spare = idle[c] + expired[c] /\ Spare' = idle'[c] + expired'[c]
    BY NextType, SpareIs DEF TypeOK
  <1> USE DEF Limiter!Next, Limiter!Reuse, Limiter!Open, Limiter!Keep, Limiter!Close,
              Limiter!Evict
  <1>1. ASSUME NEW t \in Tasks, AcquireReuse(t)
        PROVE  Limiter!Reuse(t)
    <2>1. Joins(t)
      BY <1>1 DEF AcquireReuse, Usable, Joins, TypeOK, Holders
    <2>2. idle[c] > 0 /\ idle'[c] = idle[c] - 1 /\ expired'[c] = expired[c]
      BY <1>1 DEF AcquireReuse, Usable, TypeOK
    <2> QED BY <1>0, <2>1, <2>2 DEF Joins, Spare
  <1>2. ASSUME NEW t \in Tasks, AcquireCreate(t)
        PROVE  Limiter!Open(t)
    <2>1. Joins(t)
      BY <1>2 DEF AcquireCreate, Usable, Joins, TypeOK, Holders
    <2>2. idle'[c] = 0 /\ expired'[c] = 0
      BY <1>2 DEF AcquireCreate, Usable, TypeOK
    <2>3. active < MaxOf[t]
      BY <1>2 DEF AcquireCreate, BelowMax, Limited
    <2>4. active < MaxLimit
      BY <2>3, LimitAssumption DEF TypeOK
    <2>5. Spare' = 0 /\ Spare' \in 0 .. Spare
      BY <1>0, <2>2
    <2>6. Cardinality(Holders) + Spare' < MaxLimit
      BY <2>4, <2>5 DEF SlotAccounting, TypeOK
    <2>7. Limiter!Cardinality(Holders) = Cardinality(Holders)
      BY DEF Limiter!Cardinality, Cardinality
    <2> QED BY <2>1, <2>5, <2>6, <2>7 DEF Joins, Spare
  <1>3. ASSUME NEW t \in Tasks, NEW keep \in BOOLEAN, Release(t, keep)
        PROVE  Limiter!Keep(t) \/ Limiter!Close(t)
    <2>1. Leaves(t)
      BY <1>3, GiveBackLeaves DEF Release, Holders
    <2>2. idle'[c] = (IF keep THEN idle[c] + 1 ELSE idle[c]) /\ expired'[c] = expired[c]
      BY <1>3 DEF Release, TypeOK
    <2> QED BY <1>0, <2>1, <2>2 DEF Leaves, Spare
  <1>4. ASSUME NEW t \in Tasks, ConnectFail(t)
        PROVE  Limiter!Close(t)
    <2>1. Leaves(t)
      BY <1>4, GiveBackLeaves DEF ConnectFail, Holders
    <2>2. idle' = idle /\ expired' = expired
      BY <1>4 DEF ConnectFail
    <2> QED BY <1>0, <2>1, <2>2 DEF Leaves, Spare
  <1>5. ASSUME IdleShrinks, SameSlots
        PROVE  Limiter!Evict
    <2>1. Spare' \in 0 .. Spare
      BY <1>0, <1>5 DEF IdleShrinks
    <2> QED BY <1>5, <2>1 DEF SameSlots, Spare
  <1>6. \/ \E t \in Tasks : \/ AcquireReuse(t) \/ AcquireCreate(t) \/ ConnectFail(t)
                           \/ \E keep \in BOOLEAN : Release(t, keep)
        \/ IdleShrinks /\ SameSlots
    BY NextIdle
  <1> QED BY <1>1, <1>2, <1>3, <1>4, <1>5, <1>6

\* With one io_context the pool hands out the connections of an endpoint under
\* one limit, whatever its waiters, timers, cancellations and clears do.
THEOREM Implements ==
  ASSUME NEW c, Contexts = {c}, Limited
  PROVE  Spec => ImplementsLimit
  <1>1. Init => Limiter!Init
    <2> SUFFICES ASSUME Init PROVE Holders = {} /\ Spare = 0
      BY DEF Limiter!Init, Spare
    <2> QED BY SpareIs DEF Init, Holders
  <1>2. TypeOK /\ SlotAccounting /\ [Next]_vars => [Limiter!Next]_<<Holders, Spare>>
    BY StepImplements
  <1> QED
    BY <1>1, <1>2, TypeCorrect, SlotsAccounted, PTL
    DEF Spec, ImplementsLimit, Limiter!Spec, Spare

-----------------------------------------------------------------------------
(* Idle connections and the io_context they live on                          *)

\* Only an io_context with a guard, which its first connection registers, has idle
\* connections or a coroutine that may leave one.
Guarded ==
    /\ \A c \in Contexts \ guarded : idle[c] = 0 /\ expired[c] = 0
    /\ \A t \in Tasks : pc[t] = "exchange" => CtxOf[t] \in guarded

LEMMA GiveBackGuards ==
  ASSUME TypeOK, Guarded, NEW t \in Tasks, GiveBackSlot(t), UNCHANGED guarded
  PROVE  \A u \in Tasks : pc'[u] = "exchange" => CtxOf[u] \in guarded'
  BY DEF TypeOK, Guarded, GiveBackSlot

LEMMA StepGuards ==
  ASSUME TypeOK, Guarded, NoDanglingIdle, NEW t \in Tasks, Step(t)
  PROVE  Guarded' /\ NoDanglingIdle'
  <1> CtxOf[t] \in Contexts
    BY ContextAssumption
  <1> USE DEF TypeOK, Guarded, NoDanglingIdle, connVars, queueVars, ctxVars
  <1>1. CASE Request(t) \/ Arm(t) \/ Wake(t) \/ NotifyDone(t) \/ \E w \in Tasks : CancelTimer(t, w)
    BY <1>1 DEF Request, Arm, Wake, NotifyDone, CancelTimer, DropWaiter
  <1>2. CASE AcquireReuse(t)
    BY <1>2 DEF AcquireReuse, Usable, Runs
  <1>3. CASE AcquireCreate(t) \/ AcquireQueue(t)
    BY <1>3 DEF AcquireCreate, AcquireQueue, Usable
  <1>4. CASE ConnectOk(t)
    BY <1>4 DEF ConnectOk
  <1>5. CASE ConnectFail(t)
    BY <1>5, GiveBackGuards DEF ConnectFail
  <1>6. ASSUME NEW keep \in BOOLEAN, Release(t, keep)
        PROVE  Guarded' /\ NoDanglingIdle'
    BY <1>6, GiveBackGuards DEF Release, Runs
  <1> QED
    BY <1>1, <1>2, <1>3, <1>4, <1>5, <1>6 DEF Step

LEMMA NextGuards ==
  ASSUME TypeOK, Guarded, NoDanglingIdle, [Next]_vars
  PROVE  Guarded' /\ NoDanglingIdle'
  <1> USE DEF TypeOK, Guarded, NoDanglingIdle, taskVars, connVars, queueVars, ctxVars
  <1>1. ASSUME NEW t \in Tasks, Timeout(t) \/ Cancel(t) \/ Clear(t) \/ DestroyFrame(t)
        PROVE  Guarded' /\ NoDanglingIdle'
    BY <1>1 DEF Timeout, Cancel, Clear, DestroyFrame
  <1>2. ASSUME NEW c \in Contexts, Expire(c) \/ BeginDestroy(c) \/ DropContext(c)
        PROVE  Guarded' /\ NoDanglingIdle'
    BY <1>2 DEF Expire, BeginDestroy, DropContext
  <1>3. CASE UNCHANGED vars
    BY <1>3 DEF vars
  <1> QED
    BY <1>1, <1>2, <1>3, StepGuards DEF Next

\* No idle socket outlives its io_context: what dropContext() is for, and the reason
\* why createConnection() registers the guard.
THEOREM NothingDangles == Spec => []NoDanglingIdle
  <1>1. Init => Guarded /\ NoDanglingIdle
    BY DEF Init, Guarded, NoDanglingIdle
  <1>2. /\ TypeOK /\ Guarded /\ NoDanglingIdle /\ [Next]_vars
        => Guarded' /\ NoDanglingIdle'
    BY NextGuards
  <1> QED
    BY <1>1, <1>2, TypeCorrect, PTL DEF Spec

-----------------------------------------------------------------------------
(* The list is in order, and lists exactly the active Waiters                  *)

QueueOrder ==
    /\ \A t \in Tasks : t \in waiters <=> waiterActive[t]
    /\ \A t \in Tasks : ahead[t] \subseteq waiters \ {t}
    /\ \A t, u \in waiters : t = u \/ (t \in ahead[u] <=> u \notin ahead[t])
    /\ \A t \in Tasks : \A u \in ahead[t] : ahead[u] \subseteq ahead[t]
InTheWait == \A t \in waiters : pc[t] \in {"arm", "waiting", "woken"}

LEMMA ConsistentParts == QueueConsistent <=> QueueOrder /\ InTheWait
  BY DEF QueueConsistent, QueueOrder, InTheWait

LEMMA UnlistOrder ==
  ASSUME TypeOK, QueueOrder, NEW S, Unlist(S)
  PROVE  QueueOrder'
  <1> USE DEF TypeOK, QueueOrder, Unlist
  <1>1. (\A t \in Tasks : t \in waiters <=> waiterActive[t])'
    OBVIOUS
  <1>2. (\A t \in Tasks : ahead[t] \subseteq waiters \ {t})'
    OBVIOUS
  <1>3. (\A t, u \in waiters : t = u \/ (t \in ahead[u] <=> u \notin ahead[t]))'
    OBVIOUS
  <1>4. (\A t \in Tasks : \A u \in ahead[t] : ahead[u] \subseteq ahead[t])'
    OBVIOUS
  <1> QED BY <1>1, <1>2, <1>3, <1>4

LEMMA PushOrder ==
  ASSUME TypeOK, QueueOrder, NEW t \in Tasks, t \notin waiters, PushWaiter(t)
  PROVE  QueueOrder'
  <1> USE DEF TypeOK, QueueOrder, PushWaiter
  <1>1. (\A u \in Tasks : u \in waiters <=> waiterActive[u])'
    OBVIOUS
  <1>2. (\A u \in Tasks : ahead[u] \subseteq waiters \ {u})'
    OBVIOUS
  <1>3. (\A u, v \in waiters : u = v \/ (u \in ahead[v] <=> v \notin ahead[u]))'
    OBVIOUS
  <1>4. (\A u \in Tasks : \A v \in ahead[u] : ahead[v] \subseteq ahead[u])'
    OBVIOUS
  <1> QED BY <1>1, <1>2, <1>3, <1>4

LEMMA DropOrder ==
  ASSUME TypeOK, QueueOrder, NEW t \in Tasks, DropWaiter(t)
  PROVE  /\ QueueOrder'
         /\ waiters' = waiters \ {t}
  <1>1. CASE waiterActive[t]
    BY <1>1, UnlistOrder DEF DropWaiter, Unlist
  <1>2. CASE ~waiterActive[t]
    BY <1>2 DEF DropWaiter, queueVars, QueueOrder
  <1> QED BY <1>1, <1>2

LEMMA GiveBackOrder ==
  ASSUME TypeOK, QueueOrder, InTheWait, NEW t \in Tasks,
         pc[t] \notin {"arm", "waiting", "woken"}, GiveBackSlot(t)
  PROVE  QueueOrder' /\ InTheWait'
  <1>1. QueueOrder' /\ waiters' \subseteq waiters
    BY UnlistOrder DEF GiveBackSlot, Unlist
  <1> QED BY <1>1 DEF GiveBackSlot, InTheWait, TypeOK

LEMMA StepQueue ==
  ASSUME TypeOK, QueueOrder, InTheWait, NEW t \in Tasks, Step(t)
  PROVE  QueueOrder' /\ InTheWait'
  <1> USE DEF TypeOK, InTheWait, queueVars
  <1>1. CASE Request(t) \/ AcquireReuse(t) \/ AcquireCreate(t) \/ ConnectOk(t) \/ NotifyDone(t)
    BY <1>1 DEF QueueOrder, Request, AcquireReuse, AcquireCreate, ConnectOk, NotifyDone
  <1>2. CASE AcquireQueue(t)
    <2>1. t \notin waiters
      BY <1>2 DEF AcquireQueue
    <2>2. QueueOrder'
      BY <1>2, <2>1, PushOrder DEF AcquireQueue
    <2> QED BY <1>2, <2>2 DEF AcquireQueue, PushWaiter
  <1>3. CASE ConnectFail(t)
    BY <1>3, GiveBackOrder DEF ConnectFail
  <1>4. CASE Arm(t)
    <2>1. CASE cancelled[t]
      BY <1>4, <2>1, DropOrder DEF Arm
    <2>2. CASE ~cancelled[t]
      BY <1>4, <2>2 DEF Arm, QueueOrder
    <2> QED BY <2>1, <2>2
  <1>5. CASE Wake(t)
    BY <1>5, DropOrder DEF Wake
  <1>6. ASSUME NEW keep \in BOOLEAN, Release(t, keep)
        PROVE  QueueOrder' /\ InTheWait'
    BY <1>6, GiveBackOrder DEF Release
  <1>7. ASSUME NEW w \in Tasks, CancelTimer(t, w)
        PROVE  QueueOrder' /\ InTheWait'
    BY <1>7 DEF CancelTimer, QueueOrder
  <1> QED BY <1>1, <1>2, <1>3, <1>4, <1>5, <1>6, <1>7 DEF Step

LEMMA NextQueue ==
  ASSUME TypeOK, QueueOrder, InTheWait, [Next]_vars
  PROVE  QueueOrder' /\ InTheWait'
  <1> USE DEF TypeOK, InTheWait, taskVars, queueVars
  <1>1. ASSUME NEW t \in Tasks, Timeout(t) \/ Cancel(t)
        PROVE  QueueOrder' /\ InTheWait'
    BY <1>1 DEF Timeout, Cancel, QueueOrder
  <1>2. ASSUME NEW t \in Tasks, Clear(t)
        PROVE  QueueOrder' /\ InTheWait'
    <2>1. QueueOrder'
      BY <1>2, UnlistOrder DEF Clear
    <2> QED BY <1>2, <2>1 DEF Clear, Unlist
  <1>3. ASSUME NEW t \in Tasks, DestroyFrame(t)
        PROVE  QueueOrder' /\ InTheWait'
    BY <1>3, DropOrder DEF DestroyFrame
  <1>4. ASSUME NEW c \in Contexts, Expire(c) \/ BeginDestroy(c)
        PROVE  QueueOrder' /\ InTheWait'
    BY <1>4 DEF Expire, BeginDestroy, QueueOrder
  <1>5. ASSUME NEW c \in Contexts, DropContext(c)
        PROVE  QueueOrder' /\ InTheWait'
    <2>1. CASE c \in guarded
      <3>1. QueueOrder'
        BY <1>5, <2>1, UnlistOrder DEF DropContext
      <3> QED BY <1>5, <2>1, <3>1 DEF DropContext, Unlist
    <2>2. CASE c \notin guarded
      BY <1>5, <2>2 DEF DropContext, QueueOrder
    <2> QED BY <2>1, <2>2
  <1>6. CASE UNCHANGED vars
    BY <1>6 DEF vars, QueueOrder
  <1> QED BY <1>1, <1>2, <1>3, <1>4, <1>5, <1>6, StepQueue DEF Next

\* The waiter list holds exactly the active Waiters, in a strict order.
THEOREM QueueIsConsistent == Spec => []QueueConsistent
  <1>1. Init => QueueConsistent
    BY DEF Init, QueueConsistent
  <1>2. TypeOK /\ QueueConsistent /\ [Next]_vars => QueueConsistent'
    <2> SUFFICES ASSUME TypeOK, QueueConsistent, [Next]_vars
                 PROVE  QueueConsistent'
      OBVIOUS
    <2>1. QueueOrder' /\ InTheWait'
      BY NextQueue, ConsistentParts
    <2> QED BY <2>1 DEF QueueConsistent, QueueOrder, InTheWait
  <1> QED BY <1>1, <1>2, TypeCorrect, PTL DEF Spec

-----------------------------------------------------------------------------
(* The front of the list                                                       *)

\* A list that is not empty has a front: among the sets ahead[w] one is minimal
\* under strict inclusion, and a Waiter in it would have a smaller one.
LEMMA FrontExists ==
  ASSUME TypeOK, QueueOrder, waiters # {}
  PROVE  \E w \in waiters : ahead[w] = {}
  <1> DEFINE Fronts == {ahead[w] : w \in waiters}
  <1>1. waiters \subseteq Tasks /\ ahead \in [Tasks -> SUBSET Tasks]
    BY DEF TypeOK
  <1>2. Fronts \subseteq FiniteSubsetsOf(Tasks) /\ Fronts # {}
    BY <1>1, TasksFinite, FS_FiniteSubsetsOfFinite
  <1>3. IsWellFoundedOn(StrictSubsetOrdering(Tasks), FiniteSubsetsOf(Tasks))
    BY FS_StrictSubsetOrderingWellFounded
  <1>4. PICK A \in Fronts : \A B \in Fronts : ~(<<B, A>> \in StrictSubsetOrdering(Tasks))
    <2> HIDE DEF Fronts
    <2> QED BY <1>2, <1>3, WFMin
  <1>5. PICK w \in waiters : A = ahead[w]
    BY <1>4
  <1>6. CASE ahead[w] # {}
    <2>1. PICK u \in ahead[w] : TRUE
      BY <1>6
    <2>2. u \in waiters /\ ahead[u] \subseteq ahead[w] /\ u \notin ahead[u]
      BY <1>1, <1>5, <2>1 DEF QueueOrder
    <2>3. ahead[u] \in SUBSET Tasks /\ ahead[w] \in SUBSET Tasks /\ ahead[u] # ahead[w]
      BY <1>1, <2>1, <2>2
    <2>4. <<ahead[u], ahead[w]>> \in StrictSubsetOrdering(Tasks)
      BY <2>2, <2>3 DEF StrictSubsetOrdering
    <2> QED BY <1>4, <1>5, <2>2, <2>4
  <1> QED BY <1>5, <1>6

\* What release() pops is the front, alone, and none only when nobody is listed.
LEMMA PopsFront ==
  ASSUME TypeOK, QueueOrder
  PROVE  /\ Popped = FirstActive
         /\ FirstActive \subseteq waiters
         /\ waiters # {} => \E w \in waiters : FirstActive = {w}
  <1>1. waiters \subseteq Tasks /\ \A w \in waiters : ahead[w] \subseteq waiters
    BY DEF TypeOK, QueueOrder
  <1>2. FirstActive = {w \in waiters : ahead[w] = {}}
    BY <1>1 DEF FirstActive, QueueOrder
  <1>3. waiters # {} => FirstActive # {}
    BY <1>2, FrontExists
  <1>4. \A v, w \in FirstActive : v = w
    BY <1>2 DEF QueueOrder
  <1>5. waiters # {} => \E w \in waiters : FirstActive = {w}
    BY <1>2, <1>3, <1>4
  <1>6. Popped = FirstActive
    BY <1>2, <1>3, <1>5 DEF Popped
  <1> QED BY <1>2, <1>5, <1>6

-----------------------------------------------------------------------------
(* Wake-ups when one thread runs every task: between queueing a Waiter and     *)
(* starting its timer nobody else moves, so no pop can fall into that window.  *)

OneThread == MultiThreaded = {} /\ Destroyable = {} /\ \E c : Contexts = {c}

AllRun == \A c \in Contexts : ctxState[c] = "run"
AloneOnCpu == \A t, u \in Tasks : OnCpu(t) /\ OnCpu(u) => t = u
ArmListed == \A t \in Tasks : pc[t] = "arm" => t \in waiters
WakeInv == AllRun /\ AloneOnCpu /\ ArmListed /\ NoLostWakeup

LEMMA RunsAlone ==
  ASSUME OneThread, TypeOK, NEW t \in Tasks, Runs(t)
  PROVE  \A u \in Tasks \ {t} : pc[u] \notin {"acquire", "refused", "arm", "notify"}
  BY ContextAssumption DEF OneThread, Runs, OnCpu

\* The pop of a step that gives a slot back: the front leaves the list, and it
\* is exactly what the step goes on to cancel.
LEMMA GiveBackWakes ==
  ASSUME OneThread, TypeOK, QueueOrder, InTheWait, WakeInv,
         NEW t \in Tasks, Runs(t), pc[t] \in {"connect", "refused", "exchange"}, GiveBackSlot(t),
         UNCHANGED ctxState
  PROVE  WakeInv'
  <1>1. /\ FirstActive \subseteq waiters
        /\ waiters' = waiters \ FirstActive
        /\ toCancel' = [toCancel EXCEPT ![t] = FirstActive]
        /\ pc' = [pc EXCEPT ![t] = "notify"]
    BY PopsFront DEF GiveBackSlot, Unlist
  <1>2. \A u \in Tasks \ {t} : pc[u] \notin {"acquire", "refused", "arm", "notify"}
    BY RunsAlone
  <1>3. NoLostWakeup'
    BY <1>1, <1>2 DEF WakeInv, NoLostWakeup, TypeOK
  <1> QED BY <1>1, <1>2, <1>3 DEF WakeInv, AllRun, AloneOnCpu, ArmListed, OnCpu, TypeOK

LEMMA StepWakes ==
  ASSUME OneThread, TypeOK, QueueOrder, InTheWait, WakeInv, NEW t \in Tasks, Step(t)
  PROVE  WakeInv'
  <1> DEFINE Others == \A u \in Tasks \ {t} : pc[u] \notin {"acquire", "refused", "arm", "notify"}
  <1> USE DEF TypeOK, WakeInv, AllRun, AloneOnCpu, ArmListed, NoLostWakeup, OnCpu,
              ctxVars, queueVars
  <1>1. CASE Request(t)
    <2>1. Others
      BY <1>1, RunsAlone DEF Request
    <2> QED BY <1>1, <2>1 DEF Request
  <1>2. CASE AcquireReuse(t)
    BY <1>2 DEF AcquireReuse
  <1>3. CASE AcquireCreate(t)
    BY <1>3 DEF AcquireCreate
  <1>4. CASE AcquireQueue(t)
    BY <1>4 DEF AcquireQueue, PushWaiter
  <1>5. CASE ConnectOk(t)
    BY <1>5 DEF ConnectOk
  <1>6. CASE ConnectFail(t)
    BY <1>6, GiveBackWakes DEF ConnectFail
  <1>7. CASE Arm(t)
    <2>1. Others /\ t \in waiters
      BY <1>7, RunsAlone DEF Arm
    <2>2. CASE cancelled[t]
      <3>1. /\ pc' = [pc EXCEPT ![t] = "idle"] /\ ctxState' = ctxState
            /\ waiters' = waiters \ {t}
        BY <1>7, <2>2, DropOrder DEF Arm
      <3>2. \A u \in Tasks : pc[u] = "waiting" => u \in waiters
        BY <1>7, <2>1 DEF Arm
      <3>3. NoLostWakeup'
        BY <3>1, <3>2
      <3> QED BY <2>1, <3>1, <3>3
    <2>3. CASE ~cancelled[t]
      BY <1>7, <2>1, <2>3 DEF Arm
    <2> QED BY <2>2, <2>3
  <1>8. CASE Wake(t)
    <2>1. Others
      BY <1>8, RunsAlone DEF Wake
    <2>2. /\ pc' = [pc EXCEPT ![t] = "acquire"] /\ ctxState' = ctxState
          /\ toCancel' = [u \in Tasks |-> toCancel[u] \ {t}]
          /\ waiters' = waiters \ {t}
      BY <1>8, DropOrder DEF Wake, DropWaiter
    <2> QED BY <1>8, <2>1, <2>2 DEF Wake
  <1>9. ASSUME NEW keep \in BOOLEAN, Release(t, keep)
        PROVE  WakeInv'
    BY <1>9, GiveBackWakes DEF Release
  <1>10. ASSUME NEW w \in Tasks, CancelTimer(t, w)
         PROVE  WakeInv'
    BY <1>10 DEF CancelTimer
  <1>11. CASE NotifyDone(t)
    BY <1>11 DEF NotifyDone
  <1> QED
    BY <1>1, <1>2, <1>3, <1>4, <1>5, <1>6, <1>7, <1>8, <1>9, <1>10, <1>11 DEF Step

LEMMA NextWakes ==
  ASSUME OneThread, TypeOK, QueueOrder, InTheWait, WakeInv, [Next]_vars
  PROVE  WakeInv'
  <1> USE DEF TypeOK, WakeInv, AllRun, AloneOnCpu, ArmListed, NoLostWakeup, OnCpu,
              taskVars, ctxVars, queueVars
  <1>1. ASSUME NEW t \in Tasks, Timeout(t) \/ Cancel(t)
        PROVE  WakeInv'
    BY <1>1 DEF Timeout, Cancel
  <1>2. ASSUME NEW t \in Tasks, Clear(t)
        PROVE  WakeInv'
    <2>1. \A u \in Tasks \ {t} : pc[u] \notin {"acquire", "refused", "arm", "notify"}
      BY <1>2, RunsAlone DEF Clear
    <2>2. {w \in waiters : waiterActive[w]} = waiters
      BY DEF QueueOrder
    <2>3. /\ toCancel' = [toCancel EXCEPT ![t] = waiters]
          /\ waiters' = {}
          /\ pc[t] = "idle" /\ pc' = [pc EXCEPT ![t] = "notify"]
          /\ UNCHANGED ctxState
      BY <1>2, <2>2 DEF Clear, Unlist
    <2>4. NoLostWakeup'
      BY <2>1, <2>3
    <2> QED BY <2>1, <2>3, <2>4
  <1>3. ASSUME NEW c \in Contexts, Expire(c)
        PROVE  WakeInv'
    BY <1>3 DEF Expire
  <1>4. ~\E c \in Contexts : BeginDestroy(c) \/ DropContext(c)
    BY DEF BeginDestroy, DropContext, OneThread
  <1>5. ~\E t \in Tasks : DestroyFrame(t)
    BY ContextAssumption DEF DestroyFrame
  <1>6. CASE UNCHANGED vars
    BY <1>6 DEF vars
  <1> QED BY <1>1, <1>2, <1>3, <1>4, <1>5, <1>6, StepWakes DEF Next

LEMMA WakeInvariant ==
  ASSUME OneThread
  PROVE  Spec => [](TypeOK /\ QueueConsistent /\ WakeInv)
  <1>1. Init => WakeInv
    BY DEF Init, WakeInv, AllRun, AloneOnCpu, ArmListed, NoLostWakeup, OnCpu
  <1>2. TypeOK /\ QueueConsistent /\ WakeInv /\ [Next]_vars => WakeInv'
    BY NextWakes, ConsistentParts
  <1> QED BY <1>1, <1>2, TypeCorrect, QueueIsConsistent, PTL DEF Spec

\* With one thread every sleeping waiter is listed, or its timer is about to be
\* cancelled; the back-up timeout is never what a wake-up depends on.
THEOREM WakeupsAreNotLost ==
  ASSUME OneThread
  PROVE  Spec => []NoLostWakeup
  <1>1. WakeInv => NoLostWakeup
    BY DEF WakeInv
  <1> QED BY <1>1, WakeInvariant, PTL

-----------------------------------------------------------------------------
(* Work conservation: nobody stays queued next to a free slot.                 *)

Uniform == \A t \in Tasks : MaxOf[t] = MaxLimit

LEMMA InFlightFinite == IsFiniteSet(InFlight) /\ Cardinality(InFlight) \in Nat
  BY TasksFinite, FS_Subset, FS_CardinalityType DEF InFlight

LEMMA InFlightFinitePrime == IsFiniteSet(InFlight') /\ Cardinality(InFlight') \in Nat
  BY TasksFinite, FS_Subset, FS_CardinalityType DEF InFlight

\* The steps that do not take or give back a slot and do not queue: the list
\* does not grow, and who is in flight stays so.
LEMMA QuietStep ==
  ASSUME TypeOK, WorkConserving,
         active' = active, waiters' \subseteq waiters, InFlight \subseteq InFlight'
  PROVE  WorkConserving'
  <1>1. Cardinality(InFlight) <= Cardinality(InFlight')
    BY InFlightFinitePrime, FS_Subset
  <1> QED
    BY <1>1, InFlightFinite, InFlightFinitePrime, LimitAssumption DEF WorkConserving, TypeOK

\* Taking a slot moves a task from in flight into the slots.
LEMMA TakingStep ==
  ASSUME TypeOK, WorkConserving, NEW t \in InFlight,
         active' = active + 1, waiters' = waiters, InFlight' = InFlight \ {t}
  PROVE  WorkConserving'
  <1>1. Cardinality(InFlight') = Cardinality(InFlight) - 1
    BY InFlightFinite, FS_RemoveElement
  <1> QED BY <1>1, InFlightFinite DEF WorkConserving, TypeOK

\* Giving a slot back puts the front of the list in flight.
LEMMA GivingStep ==
  ASSUME TypeOK, QueueOrder, InTheWait, WorkConserving,
         NEW t \in Tasks, pc[t] \in {"connect", "refused", "exchange"}, GiveBackSlot(t)
  PROVE  WorkConserving'
  <1>1. CASE waiters = {}
    <2>1. waiters' = {}
      BY <1>1 DEF GiveBackSlot, Unlist
    <2> QED BY <2>1 DEF WorkConserving
  <1>2. CASE waiters # {}
    <2>1. PICK w \in waiters : FirstActive = {w}
      BY <1>2, PopsFront
    <2>2. /\ waiters' = waiters \ {w}
          /\ waiterActive' = [u \in Tasks |-> IF u = w THEN FALSE ELSE waiterActive[u]]
          /\ pc' = [pc EXCEPT ![t] = "notify"]
      BY <2>1, PopsFront DEF GiveBackSlot, Unlist
    <2>3. w \in Tasks /\ pc[w] \in {"arm", "waiting", "woken"} /\ waiterActive[w]
      BY DEF TypeOK, QueueOrder, InTheWait
    <2>4. w \notin InFlight /\ InFlight' = InFlight \cup {w}
      BY <2>2, <2>3 DEF InFlight, TypeOK
    <2>5. Cardinality(InFlight') = Cardinality(InFlight) + 1
      BY <2>4, InFlightFinite, FS_AddElement
    <2>6. active' >= active - 1 /\ active' \in Nat
      BY GiveBackType DEF GiveBackSlot, TypeOK
    <2>7. active + Cardinality(InFlight) >= MaxLimit
      BY <1>2 DEF WorkConserving
    <2>8. active' + Cardinality(InFlight') >= MaxLimit
      BY <2>5, <2>6, <2>7, InFlightFinite, LimitAssumption DEF TypeOK
    <2> QED BY <2>8 DEF WorkConserving
  <1> QED BY <1>1, <1>2

LEMMA StepConserves ==
  ASSUME OneThread, Uniform, TypeOK, QueueOrder, InTheWait, WakeInv, WorkConserving,
         NEW t \in Tasks, Step(t)
  PROVE  WorkConserving'
  <1> USE DEF TypeOK, connVars, queueVars
  <1>1. CASE Request(t)
    <2>1. InFlight \subseteq InFlight'
      BY <1>1 DEF Request, InFlight
    <2> QED BY <1>1, <2>1, QuietStep DEF Request
  <1>2. CASE AcquireReuse(t)
    <2>1. t \in InFlight /\ InFlight' = InFlight \ {t}
      BY <1>2 DEF AcquireReuse, InFlight
    <2> QED BY <1>2, <2>1, TakingStep DEF AcquireReuse
  <1>3. CASE AcquireCreate(t)
    <2>1. t \in InFlight /\ InFlight' = InFlight \ {t}
      BY <1>3 DEF AcquireCreate, InFlight
    <2> QED BY <1>3, <2>1, TakingStep DEF AcquireCreate
  <1>4. CASE AcquireQueue(t)
    <2>1. active >= MaxLimit /\ active' = active
      BY <1>4, LimitAssumption DEF AcquireQueue, BelowMax, Uniform
    <2> QED BY <2>1, InFlightFinitePrime, LimitAssumption DEF WorkConserving
  <1>5. CASE ConnectOk(t)
    <2>1. InFlight \subseteq InFlight'
      BY <1>5 DEF ConnectOk, InFlight
    <2> QED BY <1>5, <2>1, QuietStep DEF ConnectOk
  <1>6. CASE ConnectFail(t)
    BY <1>6, GivingStep DEF ConnectFail
  <1>7. CASE Arm(t)
    <2>1. active' = active /\ pc[t] = "arm"
      BY <1>7 DEF Arm
    <2>2. CASE cancelled[t]
      <3>1. waiterActive[t]
        BY <2>1 DEF WakeInv, ArmListed, QueueOrder
      <3>2. /\ pc' = [pc EXCEPT ![t] = "idle"]
            /\ Unlist({t})
        BY <1>7, <2>2, <3>1 DEF Arm, DropWaiter
      <3>3. InFlight \subseteq InFlight' /\ waiters' \subseteq waiters
        BY <3>1, <3>2, <2>1 DEF InFlight, Unlist
      <3> QED BY <2>1, <3>3, QuietStep
    <2>3. CASE ~cancelled[t]
      <3>1. InFlight \subseteq InFlight' /\ waiters' \subseteq waiters
        BY <1>7, <2>3 DEF Arm, InFlight
      <3> QED BY <2>1, <3>1, QuietStep
    <2> QED BY <2>2, <2>3
  <1>8. CASE Wake(t)
    <2>1. waiters' \subseteq waiters
      BY <1>8, DropOrder DEF Wake
    <2>2. \A u \in Tasks : waiterActive'[u] => waiterActive[u]
      BY <1>8 DEF Wake, DropWaiter, Unlist
    <2>3. InFlight \subseteq InFlight'
      BY <1>8, <2>2 DEF Wake, InFlight
    <2> QED BY <1>8, <2>1, <2>3, QuietStep DEF Wake
  <1>9. ASSUME NEW keep \in BOOLEAN, Release(t, keep)
        PROVE  WorkConserving'
    BY <1>9, GivingStep DEF Release
  <1>10. ASSUME NEW w \in Tasks, CancelTimer(t, w)
         PROVE  WorkConserving'
    <2>1. InFlight \subseteq InFlight'
      BY <1>10 DEF CancelTimer, InFlight
    <2> QED BY <1>10, <2>1, QuietStep DEF CancelTimer
  <1>11. CASE NotifyDone(t)
    <2>1. InFlight \subseteq InFlight'
      BY <1>11 DEF NotifyDone, InFlight
    <2> QED BY <1>11, <2>1, QuietStep DEF NotifyDone
  <1> QED
    BY <1>1, <1>2, <1>3, <1>4, <1>5, <1>6, <1>7, <1>8, <1>9, <1>10, <1>11 DEF Step

LEMMA NextConserves ==
  ASSUME OneThread, Uniform, TypeOK, QueueOrder, InTheWait, WakeInv, WorkConserving, [Next]_vars
  PROVE  WorkConserving'
  <1> USE DEF TypeOK, taskVars, connVars, queueVars
  <1>1. ASSUME NEW t \in Tasks, Timeout(t) \/ Cancel(t)
        PROVE  WorkConserving'
    <2>1. InFlight \subseteq InFlight'
      BY <1>1 DEF Timeout, Cancel, InFlight
    <2> QED BY <1>1, <2>1, QuietStep DEF Timeout, Cancel
  <1>2. ASSUME NEW t \in Tasks, Clear(t)
        PROVE  WorkConserving'
    <2>1. waiters' = {}
      BY <1>2 DEF Clear, Unlist
    <2> QED BY <2>1 DEF WorkConserving
  <1>3. ASSUME NEW c \in Contexts, Expire(c)
        PROVE  WorkConserving'
    <2>1. InFlight \subseteq InFlight'
      BY <1>3 DEF Expire, InFlight
    <2> QED BY <1>3, <2>1, QuietStep DEF Expire
  <1>4. ~\E c \in Contexts : BeginDestroy(c) \/ DropContext(c)
    BY DEF BeginDestroy, DropContext, OneThread, WakeInv, AllRun
  <1>5. ~\E t \in Tasks : DestroyFrame(t)
    BY ContextAssumption DEF DestroyFrame, WakeInv, AllRun
  <1>6. CASE UNCHANGED vars
    BY <1>6 DEF vars, WorkConserving, InFlight
  <1> QED BY <1>1, <1>2, <1>3, <1>4, <1>5, <1>6, StepConserves DEF Next

\* With one thread and one limit for every request, whoever is queued waits for
\* slots that are all taken or about to be.
THEOREM WorkIsConserved ==
  ASSUME OneThread, Uniform
  PROVE  Spec => []WorkConserving
  <1>1. Init => WorkConserving
    BY DEF Init, WorkConserving
  <1>2. TypeOK /\ QueueConsistent /\ WakeInv /\ WorkConserving /\ [Next]_vars => WorkConserving'
    BY NextConserves, ConsistentParts
  <1> QED BY <1>1, <1>2, WakeInvariant, PTL DEF Spec
=============================================================================
