--------------------------- MODULE RuntimeProofs ---------------------------
(***************************************************************************)
(* Proofs about Runtime: its inductive invariant, for a pool of any size   *)
(* and any finite number of tasks, and the properties that follow from it. *)
(* There is one lemma per action, with one step per conjunct.              *)
(***************************************************************************)
EXTENDS Runtime, FiniteSetTheorems, TLAPS

\* The dictionary is finite, so its size is a number.
LEMMA FuturesFinite ==
  ASSUME TypeOK
  PROVE  /\ IsFiniteSet(futures)
         /\ Cardinality(futures) \in Nat
  <1>1. IsFiniteSet(futures)
    BY RuntimeAssumption, FS_Subset DEF TypeOK
  <1> QED
    BY <1>1, FS_CardinalityType

\* The timer takes the dispatch lock.
LEMMA TimerTickKeeps ==
  ASSUME IInv, TimerTick
  PROVE  IInv'
  <1> USE RuntimeAssumption DEF TimerTick, IInv, Goto, InDispatch, Dispatcher
  <1>1. TypeOK'
    BY DEF TypeOK
  <1>2. DispatchLocked'
    BY DEF DispatchLocked, TypeOK
  <1>3. SlotsReserved'
    BY DEF SlotsReserved
  <1>4. ClaimHeld'
    BY DEF ClaimHeld
  <1>5. ClaimsAccounted'
    BY DEF ClaimsAccounted, ClaimAccounted, HeldAt
  <1>6. ShutdownOrdered'
    BY DEF ShutdownOrdered, Closed
  <1>7. SlotsNoticed'
    BY DEF SlotsNoticed, SignalPending, Filling
  <1> QED
    BY <1>1, <1>2, <1>3, <1>4, <1>5, <1>6, <1>7

\* The refill thread gets the dispatch lock.
LEMMA RefillAcquireKeeps ==
  ASSUME IInv, RefillAcquire
  PROVE  IInv'
  <1> USE RuntimeAssumption DEF RefillAcquire, IInv, Goto, InDispatch, Dispatcher
  <1>1. TypeOK'
    BY DEF TypeOK
  <1>2. DispatchLocked'
    BY DEF DispatchLocked, TypeOK
  <1>3. SlotsReserved'
    BY DEF SlotsReserved
  <1>4. ClaimHeld'
    BY DEF ClaimHeld
  <1>5. ClaimsAccounted'
    BY DEF ClaimsAccounted, ClaimAccounted, HeldAt
  <1>6. ShutdownOrdered'
    BY DEF ShutdownOrdered, DispatchLocked, TypeOK
  <1>7. SlotsNoticed'
    BY DEF SlotsNoticed, SignalPending, Filling
  <1> QED
    BY <1>1, <1>2, <1>3, <1>4, <1>5, <1>6, <1>7

\* A dispatch counts the free slots: later futures only make room.
LEMMA ReadSlotsKeeps ==
  ASSUME IInv, NEW d \in Dispatcher, ReadSlots(d)
  PROVE  IInv'
  <1> USE RuntimeAssumption DEF ReadSlots, IInv, Goto, InDispatch, Dispatcher
  <1>0. Cardinality(futures) \in Nat
    BY FuturesFinite
  <1>1. TypeOK'
    BY <1>0 DEF TypeOK, AvailableSlots, SlotsReserved
  <1>2. DispatchLocked'
    BY DEF DispatchLocked
  <1>3. SlotsReserved'
    BY <1>0 DEF TypeOK, AvailableSlots, SlotsReserved
  <1>4. ClaimHeld'
    BY DEF ClaimHeld
  <1>5. ClaimsAccounted'
    BY DEF ClaimsAccounted, ClaimAccounted, HeldAt
  <1>6. ShutdownOrdered'
    BY DEF ShutdownOrdered, Closed
  <1>7. SlotsNoticed'
    BY <1>0 DEF SlotsNoticed, Filling, TypeOK, AvailableSlots
  <1> QED
    BY <1>1, <1>2, <1>3, <1>4, <1>5, <1>6, <1>7

\* A dispatch goes on or stops.
LEMMA CheckStoppingKeeps ==
  ASSUME IInv, NEW d \in Dispatcher, CheckStopping(d)
  PROVE  IInv'
  <1> USE RuntimeAssumption DEF CheckStopping, IInv, Goto, InDispatch, Dispatcher
  <1>0. Cardinality(futures) \in Nat
    BY FuturesFinite
  <1>1. TypeOK'
    BY DEF TypeOK
  <1>2. DispatchLocked'
    BY DEF DispatchLocked
  <1>3. SlotsReserved'
    BY <1>0 DEF TypeOK, SlotsReserved
  <1>4. ClaimHeld'
    BY DEF ClaimHeld
  <1>5. ClaimsAccounted'
    BY DEF ClaimsAccounted, ClaimAccounted, HeldAt
  <1>6. ShutdownOrdered'
    BY DEF ShutdownOrdered, Closed
  <1>7. SlotsNoticed'
    BY <1>0 DEF SlotsNoticed, SignalPending, Filling, TypeOK
  <1> QED
    BY <1>1, <1>2, <1>3, <1>4, <1>5, <1>6, <1>7

\* A task passes from the queue to the dispatch.
LEMMA ClaimTaskKeeps ==
  ASSUME IInv, NEW d \in Dispatcher, NEW t \in Task, ClaimTask(d, t)
  PROVE  IInv'
  <1> USE RuntimeAssumption DEF ClaimTask, IInv, Goto, InDispatch, Dispatcher
  <1>1. TypeOK'
    BY DEF TypeOK
  <1>2. DispatchLocked'
    BY DEF DispatchLocked
  <1>3. SlotsReserved'
    BY DEF SlotsReserved
  <1>4. ClaimHeld'
    BY DEF ClaimHeld, ClaimsAccounted, ClaimAccounted, TypeOK
  <1>5. ClaimsAccounted'
    BY DEF ClaimsAccounted, ClaimAccounted, TypeOK, HeldAt
  <1>6. ShutdownOrdered'
    BY DEF ShutdownOrdered, Closed
  <1>7. SlotsNoticed'
    <2>1. \A u \in Task : future'[u] = "done" <=> future[u] = "done"
      BY DEF ClaimsAccounted, ClaimAccounted
    <2>2. SignalPending => SignalPending'
      BY <2>1 DEF SignalPending
    <2>3. Filling => Filling'
      BY DEF Filling
    <2> QED
      BY <2>1, <2>2, <2>3 DEF SlotsNoticed
  <1> QED
    BY <1>1, <1>2, <1>3, <1>4, <1>5, <1>6, <1>7

\* The queue is empty.
LEMMA ClaimNothingKeeps ==
  ASSUME IInv, NEW d \in Dispatcher, ClaimNothing(d)
  PROVE  IInv'
  <1> USE RuntimeAssumption DEF ClaimNothing, IInv, Goto, InDispatch, Dispatcher
  <1>1. TypeOK'
    BY DEF TypeOK
  <1>2. DispatchLocked'
    BY DEF DispatchLocked
  <1>3. SlotsReserved'
    BY DEF SlotsReserved
  <1>4. ClaimHeld'
    BY DEF ClaimHeld
  <1>5. ClaimsAccounted'
    BY DEF ClaimsAccounted, ClaimAccounted, HeldAt
  <1>6. ShutdownOrdered'
    BY DEF ShutdownOrdered, Closed
  <1>7. SlotsNoticed'
    BY DEF SlotsNoticed
  <1> QED
    BY <1>1, <1>2, <1>3, <1>4, <1>5, <1>6, <1>7

\* An error releases the lock.
LEMMA ClaimErrorKeeps ==
  ASSUME IInv, NEW d \in Dispatcher, ClaimError(d)
  PROVE  IInv'
  <1> USE RuntimeAssumption DEF ClaimError, IInv, Goto, InDispatch, Dispatcher
  <1>1. TypeOK'
    BY DEF TypeOK
  <1>2. DispatchLocked'
    BY DEF DispatchLocked, TypeOK
  <1>3. SlotsReserved'
    BY DEF SlotsReserved
  <1>4. ClaimHeld'
    BY DEF ClaimHeld
  <1>5. ClaimsAccounted'
    BY DEF ClaimsAccounted, ClaimAccounted, HeldAt
  <1>6. ShutdownOrdered'
    BY DEF ShutdownOrdered, TypeOK, Closed
  <1>7. SlotsNoticed'
    BY DEF SlotsNoticed, TypeOK
  <1> QED
    BY <1>1, <1>2, <1>3, <1>4, <1>5, <1>6, <1>7

\* The pool is never closed here: the barrier waits for this dispatch.
LEMMA SubmitKeeps ==
  ASSUME IInv, NEW d \in Dispatcher, Submit(d)
  PROVE  IInv'
  <1> USE RuntimeAssumption DEF Submit, IInv, Goto, InDispatch, Dispatcher
  <1>1. TypeOK'
    BY DEF TypeOK
  <1>2. DispatchLocked'
    BY DEF DispatchLocked
  <1>3. SlotsReserved'
    BY DEF SlotsReserved
  <1>4. ClaimHeld'
    BY DEF ClaimHeld, ClaimsAccounted, ClaimAccounted, DispatchLocked, TypeOK
  <1>5. ClaimsAccounted'
    BY DEF ClaimsAccounted, ClaimAccounted, ClaimHeld, TypeOK, HeldAt, ShutdownOrdered
  <1>6. ShutdownOrdered'
    BY DEF ShutdownOrdered, Closed
  <1>7. SlotsNoticed'
    <2>1. \A u \in Task : future'[u] = "done" <=> future[u] = "done"
      BY DEF ClaimHeld
    <2>2. SignalPending => SignalPending'
      BY <2>1 DEF SignalPending
    <2>3. Filling => Filling'
      BY DEF Filling, ShutdownOrdered
    <2> QED
      BY <2>1, <2>2, <2>3 DEF SlotsNoticed
  <1> QED
    BY <1>1, <1>2, <1>3, <1>4, <1>5, <1>6, <1>7

\* One more future, for the iteration that had reserved its slot.
LEMMA RegisterKeeps ==
  ASSUME IInv, NEW d \in Dispatcher, Register(d)
  PROVE  IInv'
  <1> USE RuntimeAssumption DEF Register, IInv, Goto, InDispatch, Dispatcher
  <1>0. Cardinality(futures) \in Nat
    BY FuturesFinite
  <1>1. TypeOK'
    BY DEF TypeOK, ClaimHeld
  <1>2. DispatchLocked'
    BY DEF DispatchLocked
  <1>3. SlotsReserved'
    <2>1. Cardinality(futures') = Cardinality(futures) + 1
      BY FuturesFinite, FS_AddElement DEF ClaimHeld
    <2> QED
      BY <1>0, <2>1 DEF DispatchLocked, TypeOK, SlotsReserved
  <1>4. ClaimHeld'
    BY DEF ClaimHeld, DispatchLocked, TypeOK
  <1>5. ClaimsAccounted'
    BY DEF ClaimsAccounted, ClaimAccounted, ClaimHeld, TypeOK, HeldAt
  <1>6. ShutdownOrdered'
    BY DEF ShutdownOrdered, Closed
  <1>7. SlotsNoticed'
    <2>1. Cardinality(futures') = Cardinality(futures) + 1
      BY FuturesFinite, FS_AddElement DEF ClaimHeld
    <2>2. SignalPending => SignalPending'
      BY DEF SignalPending
    <2>3. Filling => Filling'
      BY <1>0, <2>1 DEF Filling, DispatchLocked, TypeOK
    <2> QED
      BY <1>0, <2>1, <2>2, <2>3, RuntimeAssumption DEF SlotsNoticed
  <1> QED
    BY <1>1, <1>2, <1>3, <1>4, <1>5, <1>6, <1>7

\* The future in the dictionary will call back.
LEMMA AttachKeeps ==
  ASSUME IInv, NEW d \in Dispatcher, Attach(d)
  PROVE  IInv'
  <1> USE RuntimeAssumption DEF Attach, IInv, Goto, InDispatch, Dispatcher
  <1>1. TypeOK'
    BY DEF TypeOK
  <1>2. DispatchLocked'
    BY DEF DispatchLocked
  <1>3. SlotsReserved'
    BY DEF SlotsReserved
  <1>4. ClaimHeld'
    BY DEF ClaimHeld, DispatchLocked, TypeOK
  <1>5. ClaimsAccounted'
    <2> SUFFICES ASSUME NEW t \in Task
                 PROVE  ClaimAccounted(t)'
      BY DEF ClaimsAccounted
    <2> USE DEF ClaimAccounted
    <2>1. CASE t = current[d]
      BY <2>1 DEF ClaimsAccounted, ClaimHeld, TypeOK, HeldAt
    <2>2. CASE t # current[d]
      <3>1. \A e \in Dispatcher : e # d => pc'[e] = pc[e]
        OBVIOUS
      <3>2. pc[d] = "attach" /\ pc'[d] \in {"inline", "check"}
        BY DEF TypeOK
      <3>3. /\ HeldAt(t, {"submit"}) => HeldAt(t, {"submit"})'
            /\ HeldAt(t, {"register"}) => HeldAt(t, {"register"})'
            /\ HeldAt(t, {"attach"}) => HeldAt(t, {"attach"})'
        BY <2>2, <3>1, <3>2 DEF HeldAt
      <3> QED
        BY <2>2, <3>3 DEF ClaimsAccounted
    <2> QED
      BY <2>1, <2>2
  <1>6. ShutdownOrdered'
    BY DEF ShutdownOrdered, Closed
  <1>7. SlotsNoticed'
    BY DEF SlotsNoticed, SignalPending, Filling
  <1> QED
    BY <1>1, <1>2, <1>3, <1>4, <1>5, <1>6, <1>7

\* The callback has run in the dispatch itself.
LEMMA InlineEndsKeeps ==
  ASSUME IInv, NEW d \in Dispatcher, InlineEnds(d)
  PROVE  IInv'
  <1> USE RuntimeAssumption DEF InlineEnds, IInv, Goto, InDispatch, Dispatcher
  <1>1. TypeOK'
    BY DEF TypeOK
  <1>2. DispatchLocked'
    BY DEF DispatchLocked
  <1>3. SlotsReserved'
    BY DEF SlotsReserved
  <1>4. ClaimHeld'
    BY DEF ClaimHeld
  <1>5. ClaimsAccounted'
    BY DEF ClaimsAccounted, ClaimAccounted, HeldAt
  <1>6. ShutdownOrdered'
    BY DEF ShutdownOrdered, Closed
  <1>7. SlotsNoticed'
    BY DEF SlotsNoticed, SignalPending, Filling
  <1> QED
    BY <1>1, <1>2, <1>3, <1>4, <1>5, <1>6, <1>7

\* The lock is given back.
LEMMA ReleaseKeeps ==
  ASSUME IInv, NEW d \in Dispatcher, Release(d)
  PROVE  IInv'
  <1> USE RuntimeAssumption DEF Release, IInv, Goto, InDispatch, Dispatcher
  <1>1. TypeOK'
    BY DEF TypeOK
  <1>2. DispatchLocked'
    BY DEF DispatchLocked, TypeOK
  <1>3. SlotsReserved'
    BY DEF SlotsReserved
  <1>4. ClaimHeld'
    BY DEF ClaimHeld
  <1>5. ClaimsAccounted'
    BY DEF ClaimsAccounted, ClaimAccounted, HeldAt
  <1>6. ShutdownOrdered'
    BY DEF ShutdownOrdered, Closed
  <1>7. SlotsNoticed'
    BY DEF SlotsNoticed, SignalPending, Filling
  <1> QED
    BY <1>1, <1>2, <1>3, <1>4, <1>5, <1>6, <1>7

\* A thread of the pool takes a task.
LEMMA StartKeeps ==
  ASSUME IInv, NEW t \in Task, Start(t)
  PROVE  IInv'
  <1> USE RuntimeAssumption DEF Start, IInv, Goto, InDispatch, Dispatcher
  <1>1. TypeOK'
    BY DEF TypeOK
  <1>2. DispatchLocked'
    BY DEF DispatchLocked
  <1>3. SlotsReserved'
    BY DEF SlotsReserved
  <1>4. ClaimHeld'
    BY DEF ClaimHeld
  <1>5. ClaimsAccounted'
    BY DEF ClaimsAccounted, ClaimAccounted, HeldAt
  <1>6. ShutdownOrdered'
    BY DEF ShutdownOrdered, Closed
  <1>7. SlotsNoticed'
    BY DEF SlotsNoticed, SignalPending, Filling
  <1> QED
    BY <1>1, <1>2, <1>3, <1>4, <1>5, <1>6, <1>7

\* A task is done, its callback yet to end.
LEMMA FinishKeeps ==
  ASSUME IInv, NEW t \in Task, Finish(t)
  PROVE  IInv'
  <1> USE RuntimeAssumption DEF Finish, IInv, Goto, InDispatch, Dispatcher
  <1>1. TypeOK'
    BY DEF TypeOK
  <1>2. DispatchLocked'
    BY DEF DispatchLocked
  <1>3. SlotsReserved'
    BY DEF SlotsReserved
  <1>4. ClaimHeld'
    BY DEF ClaimHeld
  <1>5. ClaimsAccounted'
    BY DEF ClaimsAccounted, ClaimAccounted, HeldAt
  <1>6. ShutdownOrdered'
    BY DEF ShutdownOrdered, Closed
  <1>7. SlotsNoticed'
    <2>1. callback[t] # "ended"
      BY DEF ClaimsAccounted, ClaimAccounted, ClaimHeld, HeldAt
    <2>2. SignalPending'
      BY <2>1 DEF SignalPending, TypeOK
    <2> QED
      BY <2>2 DEF SlotsNoticed
  <1> QED
    BY <1>1, <1>2, <1>3, <1>4, <1>5, <1>6, <1>7

\* The dictionary shrinks.
LEMMA PopFutureKeeps ==
  ASSUME IInv, NEW t \in Task, PopFuture(t)
  PROVE  IInv'
  <1> USE RuntimeAssumption DEF PopFuture, IInv, Goto, InDispatch, Dispatcher
  <1>0. Cardinality(futures) \in Nat
    BY FuturesFinite
  <1>1. TypeOK'
    BY DEF TypeOK
  <1>2. DispatchLocked'
    BY DEF DispatchLocked
  <1>3. SlotsReserved'
    <2>1. /\ Cardinality(futures') \in Nat
          /\ Cardinality(futures') <= Cardinality(futures)
      BY FuturesFinite, FS_Subset, FS_CardinalityType
    <2> QED
      BY <1>0, <2>1 DEF TypeOK, SlotsReserved
  <1>4. ClaimHeld'
    BY DEF ClaimHeld
  <1>5. ClaimsAccounted'
    BY DEF ClaimsAccounted, ClaimAccounted, HeldAt
  <1>6. ShutdownOrdered'
    BY DEF ShutdownOrdered, Closed
  <1>7. SlotsNoticed'
    BY DEF SlotsNoticed, SignalPending
  <1> QED
    BY <1>1, <1>2, <1>3, <1>4, <1>5, <1>6, <1>7

\* The callback ends and leaves a signal.
LEMMA SignalRefillKeeps ==
  ASSUME IInv, NEW t \in Task, SignalRefill(t)
  PROVE  IInv'
  <1> USE RuntimeAssumption DEF SignalRefill, IInv, Goto, InDispatch, Dispatcher
  <1>1. TypeOK'
    BY DEF TypeOK
  <1>2. DispatchLocked'
    BY DEF DispatchLocked
  <1>3. SlotsReserved'
    BY DEF SlotsReserved
  <1>4. ClaimHeld'
    BY DEF ClaimHeld
  <1>5. ClaimsAccounted'
    BY DEF ClaimsAccounted, ClaimAccounted, HeldAt
  <1>6. ShutdownOrdered'
    BY DEF ShutdownOrdered, Closed
  <1>7. SlotsNoticed'
    BY DEF SlotsNoticed, SignalPending
  <1> QED
    BY <1>1, <1>2, <1>3, <1>4, <1>5, <1>6, <1>7

\* The refill thread sees the signal.
LEMMA AwakeKeeps ==
  ASSUME IInv, Awake
  PROVE  IInv'
  <1> USE RuntimeAssumption DEF Awake, IInv, Goto, InDispatch, Dispatcher
  <1>1. TypeOK'
    BY DEF TypeOK
  <1>2. DispatchLocked'
    BY DEF DispatchLocked
  <1>3. SlotsReserved'
    BY DEF SlotsReserved
  <1>4. ClaimHeld'
    BY DEF ClaimHeld
  <1>5. ClaimsAccounted'
    BY DEF ClaimsAccounted, ClaimAccounted, HeldAt
  <1>6. ShutdownOrdered'
    BY DEF ShutdownOrdered, Closed
  <1>7. SlotsNoticed'
    BY DEF SlotsNoticed, SignalPending
  <1> QED
    BY <1>1, <1>2, <1>3, <1>4, <1>5, <1>6, <1>7

\* The signal is cleared, the refill thread is about to dispatch.
LEMMA ClearEventKeeps ==
  ASSUME IInv, ClearEvent
  PROVE  IInv'
  <1> USE RuntimeAssumption DEF ClearEvent, IInv, Goto, InDispatch, Dispatcher
  <1>1. TypeOK'
    BY DEF TypeOK
  <1>2. DispatchLocked'
    BY DEF DispatchLocked
  <1>3. SlotsReserved'
    BY DEF SlotsReserved
  <1>4. ClaimHeld'
    BY DEF ClaimHeld
  <1>5. ClaimsAccounted'
    BY DEF ClaimsAccounted, ClaimAccounted, HeldAt
  <1>6. ShutdownOrdered'
    BY DEF ShutdownOrdered, Closed
  <1>7. SlotsNoticed'
    BY DEF SlotsNoticed, SignalPending
  <1> QED
    BY <1>1, <1>2, <1>3, <1>4, <1>5, <1>6, <1>7

\* The refill thread waits for the lock, or ends when stopping.
LEMMA RefillOrEndKeeps ==
  ASSUME IInv, RefillOrEnd
  PROVE  IInv'
  <1> USE RuntimeAssumption DEF RefillOrEnd, IInv, Goto, InDispatch, Dispatcher
  <1>1. TypeOK'
    BY DEF TypeOK
  <1>2. DispatchLocked'
    BY DEF DispatchLocked, ShutdownOrdered
  <1>3. SlotsReserved'
    BY DEF SlotsReserved
  <1>4. ClaimHeld'
    BY DEF ClaimHeld
  <1>5. ClaimsAccounted'
    BY DEF ClaimsAccounted, ClaimAccounted, HeldAt, ShutdownOrdered
  <1>6. ShutdownOrdered'
    BY DEF ShutdownOrdered, Closed
  <1>7. SlotsNoticed'
    BY DEF SlotsNoticed, SignalPending, TypeOK
  <1> QED
    BY <1>1, <1>2, <1>3, <1>4, <1>5, <1>6, <1>7

\* Its dispatch is over.
LEMMA WaitAgainKeeps ==
  ASSUME IInv, WaitAgain
  PROVE  IInv'
  <1> USE RuntimeAssumption DEF WaitAgain, IInv, Goto, InDispatch, Dispatcher
  <1>1. TypeOK'
    BY DEF TypeOK
  <1>2. DispatchLocked'
    BY DEF DispatchLocked
  <1>3. SlotsReserved'
    BY DEF SlotsReserved
  <1>4. ClaimHeld'
    BY DEF ClaimHeld
  <1>5. ClaimsAccounted'
    BY DEF ClaimsAccounted, ClaimAccounted, HeldAt
  <1>6. ShutdownOrdered'
    BY DEF ShutdownOrdered, Closed
  <1>7. SlotsNoticed'
    BY DEF SlotsNoticed, SignalPending, Filling
  <1> QED
    BY <1>1, <1>2, <1>3, <1>4, <1>5, <1>6, <1>7

\* Shutdown begins.
LEMMA SetStoppingKeeps ==
  ASSUME IInv, SetStopping
  PROVE  IInv'
  <1> USE RuntimeAssumption DEF SetStopping, IInv, Goto, InDispatch, Dispatcher
  <1>1. TypeOK'
    BY DEF TypeOK
  <1>2. DispatchLocked'
    BY DEF DispatchLocked
  <1>3. SlotsReserved'
    BY DEF SlotsReserved
  <1>4. ClaimHeld'
    BY DEF ClaimHeld
  <1>5. ClaimsAccounted'
    BY DEF ClaimsAccounted, ClaimAccounted, HeldAt
  <1>6. ShutdownOrdered'
    BY DEF ShutdownOrdered, Closed
  <1>7. SlotsNoticed'
    BY DEF SlotsNoticed
  <1> QED
    BY <1>1, <1>2, <1>3, <1>4, <1>5, <1>6, <1>7

\* The refill thread is woken up to end.
LEMMA SignalStopKeeps ==
  ASSUME IInv, SignalStop
  PROVE  IInv'
  <1> USE RuntimeAssumption DEF SignalStop, IInv, Goto, InDispatch, Dispatcher
  <1>1. TypeOK'
    BY DEF TypeOK
  <1>2. DispatchLocked'
    BY DEF DispatchLocked
  <1>3. SlotsReserved'
    BY DEF SlotsReserved
  <1>4. ClaimHeld'
    BY DEF ClaimHeld
  <1>5. ClaimsAccounted'
    BY DEF ClaimsAccounted, ClaimAccounted, HeldAt
  <1>6. ShutdownOrdered'
    BY DEF ShutdownOrdered, Closed
  <1>7. SlotsNoticed'
    BY DEF SlotsNoticed, SignalPending
  <1> QED
    BY <1>1, <1>2, <1>3, <1>4, <1>5, <1>6, <1>7

\* The refill thread has ended.
LEMMA JoinRefillKeeps ==
  ASSUME IInv, JoinRefill
  PROVE  IInv'
  <1> USE RuntimeAssumption DEF JoinRefill, IInv, Goto, InDispatch, Dispatcher
  <1>1. TypeOK'
    BY DEF TypeOK
  <1>2. DispatchLocked'
    BY DEF DispatchLocked
  <1>3. SlotsReserved'
    BY DEF SlotsReserved
  <1>4. ClaimHeld'
    BY DEF ClaimHeld
  <1>5. ClaimsAccounted'
    BY DEF ClaimsAccounted, ClaimAccounted, HeldAt
  <1>6. ShutdownOrdered'
    BY DEF ShutdownOrdered, Closed
  <1>7. SlotsNoticed'
    BY DEF SlotsNoticed, SignalPending, Filling
  <1> QED
    BY <1>1, <1>2, <1>3, <1>4, <1>5, <1>6, <1>7

\* The lock is free: no dispatch is under way, and none will claim.
LEMMA BarrierKeeps ==
  ASSUME IInv, Barrier
  PROVE  IInv'
  <1> USE RuntimeAssumption DEF Barrier, IInv, Goto, InDispatch, Dispatcher
  <1>1. TypeOK'
    BY DEF TypeOK
  <1>2. DispatchLocked'
    BY DEF DispatchLocked
  <1>3. SlotsReserved'
    BY DEF SlotsReserved
  <1>4. ClaimHeld'
    BY DEF ClaimHeld
  <1>5. ClaimsAccounted'
    BY DEF ClaimsAccounted, ClaimAccounted, HeldAt
  <1>6. ShutdownOrdered'
    BY DEF ShutdownOrdered, DispatchLocked
  <1>7. SlotsNoticed'
    BY DEF SlotsNoticed, SignalPending, Filling
  <1> QED
    BY <1>1, <1>2, <1>3, <1>4, <1>5, <1>6, <1>7

\* The pool has finished what it had.
LEMMA DrainedKeeps ==
  ASSUME IInv, Drained
  PROVE  IInv'
  <1> USE RuntimeAssumption DEF Drained, IInv, Goto, InDispatch, Dispatcher
  <1>1. TypeOK'
    BY DEF TypeOK
  <1>2. DispatchLocked'
    BY DEF DispatchLocked
  <1>3. SlotsReserved'
    BY DEF SlotsReserved
  <1>4. ClaimHeld'
    BY DEF ClaimHeld
  <1>5. ClaimsAccounted'
    BY DEF ClaimsAccounted, ClaimAccounted, HeldAt
  <1>6. ShutdownOrdered'
    BY DEF ShutdownOrdered, ClaimsAccounted, ClaimAccounted, TypeOK, HeldAt, Closed
  <1>7. SlotsNoticed'
    BY DEF SlotsNoticed, SignalPending, Filling
  <1> QED
    BY <1>1, <1>2, <1>3, <1>4, <1>5, <1>6, <1>7

\* A step that changes nothing.
LEMMA StutterKeeps ==
  ASSUME IInv, UNCHANGED vars
  PROVE  IInv'
  <1> USE DEF IInv, vars
  <1>1. TypeOK' /\ DispatchLocked' /\ SlotsReserved'
    BY DEF TypeOK, DispatchLocked, InDispatch, SlotsReserved
  <1>2. ClaimHeld' /\ ClaimsAccounted'
    BY DEF ClaimHeld, ClaimsAccounted, ClaimAccounted, HeldAt
  <1>3. ShutdownOrdered' /\ SlotsNoticed'
    BY DEF ShutdownOrdered, Closed, SlotsNoticed, SignalPending, Filling
  <1> QED
    BY <1>1, <1>2, <1>3

\* At the start everything is idle and empty.
LEMMA InitKeeps == Init => IInv
  <1> SUFFICES ASSUME Init
               PROVE  IInv
    OBVIOUS
  <1> USE RuntimeAssumption DEF Init, Dispatcher
  <1>1. Cardinality(futures) = 0
    BY FS_EmptySet
  <1>2. TypeOK
    <2>1. slots \in [Dispatcher -> 0 .. MaxWorkers] /\ errors \in 0 .. MaxErrors
      OBVIOUS
    <2>2. /\ queue \subseteq Task /\ futures \subseteq Task
          /\ future \in [Task -> {"none", "claimed", "submitted", "running", "done", "lost"}]
          /\ callback \in [Task -> {"none", "added", "popped", "ended"}]
      OBVIOUS
    <2>3. /\ current \in [Dispatcher -> Task \cup {None}]
          /\ pc \in [Dispatcher -> {"idle", "acquire", "slots", "check", "claim", "submit", "register",
                                    "attach", "inline", "release"}]
      OBVIOUS
    <2> QED
      BY <2>1, <2>2, <2>3 DEF TypeOK
  <1>3. DispatchLocked /\ SlotsReserved /\ ClaimHeld
    BY <1>1 DEF DispatchLocked, InDispatch, ClaimHeld, SlotsReserved
  <1>4. ClaimsAccounted /\ ShutdownOrdered /\ SlotsNoticed
    BY DEF ClaimsAccounted, ClaimAccounted, ShutdownOrdered, SlotsNoticed
  <1> QED
    BY <1>2, <1>3, <1>4 DEF IInv

\* The invariant holds whatever the size of the pool and the number of tasks.
THEOREM Inductive == Spec => []IInv
  <1>1. IInv /\ [Next]_vars => IInv'
    <2> SUFFICES ASSUME IInv, [Next]_vars
                 PROVE  IInv'
      OBVIOUS
    <2>1. CASE TimerTick
      BY <2>1, TimerTickKeeps
    <2>2. ASSUME NEW d \in Dispatcher, Dispatch(d)
          PROVE  IInv'
      <3>1. CASE \E t \in Task : ClaimTask(d, t)
        BY <3>1, ClaimTaskKeeps
      <3>2. CASE ReadSlots(d) \/ CheckStopping(d) \/ ClaimNothing(d) \/ ClaimError(d)
        BY <3>2, ReadSlotsKeeps, CheckStoppingKeeps, ClaimNothingKeeps, ClaimErrorKeeps
      <3>3. CASE Submit(d) \/ Register(d) \/ Attach(d) \/ InlineEnds(d) \/ Release(d)
        BY <3>3, SubmitKeeps, RegisterKeeps, AttachKeeps, InlineEndsKeeps, ReleaseKeeps
      <3> QED
        BY <2>2, <3>1, <3>2, <3>3 DEF Dispatch
    <2>3. CASE \E t \in Task : Pool(t)
      BY <2>3, StartKeeps, FinishKeeps, PopFutureKeeps, SignalRefillKeeps DEF Pool
    <2>4. CASE RefillLoop
      BY <2>4, AwakeKeeps, ClearEventKeeps, RefillOrEndKeeps, RefillAcquireKeeps, WaitAgainKeeps DEF RefillLoop
    <2>5. CASE Shutdown
      BY <2>5, SetStoppingKeeps, SignalStopKeeps, JoinRefillKeeps, BarrierKeeps, DrainedKeeps DEF Shutdown
    <2>6. CASE UNCHANGED vars
      BY <2>6, StutterKeeps
    <2> QED
      BY <2>1, <2>2, <2>3, <2>4, <2>5, <2>6 DEF Next
  <1> QED
    BY <1>1, InitKeeps, PTL DEF Spec

\* Every reachable state is well typed: the slots of a dispatch stay between 0 and the
\* size of the pool.
THEOREM TypeCorrect == Spec => []TypeOK
  <1>1. IInv => TypeOK
    BY DEF IInv
  <1> QED
    BY <1>1, Inductive, PTL

\* Timer and refill thread never submit more tasks than the pool has threads.
THEOREM NeverOversubscribed == Spec => []NoOversubscription
  <1>1. ASSUME IInv
        PROVE  NoOversubscription
    <2> USE <1>1 DEF IInv
    <2>0. IsFiniteSet(futures) /\ Cardinality(futures) \in Nat
      BY FuturesFinite
    <2>1. CASE \E d \in Dispatcher : pc[d] = "register"
      <3>1. PICK d \in Dispatcher : pc[d] = "register"
        BY <2>1
      <3>2. Executing \subseteq futures \cup {current[d]}
        BY <3>1 DEF Executing, ClaimsAccounted, ClaimAccounted, HeldAt, DispatchLocked, InDispatch
      <3>3. /\ IsFiniteSet(futures \cup {current[d]})
            /\ Cardinality(futures \cup {current[d]}) = Cardinality(futures) + 1
        BY <2>0, <3>1, FS_AddElement DEF ClaimHeld
      <3>4. Cardinality(Executing) <= Cardinality(futures) + 1
        BY <3>2, <3>3, FS_Subset
      <3>5. slots[d] + Cardinality(futures) + 1 <= MaxWorkers /\ slots[d] \in Nat
        BY <3>1, RuntimeAssumption DEF TypeOK, SlotsReserved
      <3>6. Cardinality(Executing) \in Nat
        BY <3>2, <3>3, FS_Subset, FS_CardinalityType
      <3> QED
        BY <2>0, <3>4, <3>5, <3>6, RuntimeAssumption DEF NoOversubscription
    <2>2. CASE ~ \E d \in Dispatcher : pc[d] = "register"
      <3>1. Executing \subseteq futures
        BY <2>2 DEF Executing, ClaimsAccounted, ClaimAccounted, HeldAt
      <3>2. Cardinality(Executing) \in Nat /\ Cardinality(Executing) <= Cardinality(futures)
        BY <2>0, <3>1, FS_Subset, FS_CardinalityType
      <3> QED
        BY <2>0, <3>2, RuntimeAssumption DEF NoOversubscription, SlotsReserved
    <2> QED
      BY <2>1, <2>2
  <1> QED
    BY <1>1, Inductive, PTL

\* A shutdown in any step of a dispatch leaves no claimed task behind.
THEOREM NothingEverLost == Spec => []NothingLost
  <1>1. IInv => NothingLost
    BY DEF IInv, NothingLost, ClaimsAccounted, ClaimAccounted, ShutdownOrdered
  <1> QED
    BY <1>1, Inductive, PTL

\* No refill signal is lost: when the refill thread waits, nothing that waits has a
\* free slot.
THEOREM SignalsKept == Spec => []NoLostSignal
  <1>1. ASSUME IInv
        PROVE  NoLostSignal
    <2> USE <1>1, RuntimeAssumption DEF IInv
    <2> SUFFICES ASSUME refill = "wait", ~event, lock = None, ~stopping,
                        \E t \in Task : future[t] = "done",
                        \A t \in Task : future[t] # "done" \/ callback[t] = "ended",
                        errors = MaxErrors, queue # {}, Cardinality(futures) # MaxWorkers
                 PROVE  FALSE
      BY DEF NoLostSignal, TypeOK
    <2>1. pc["timer"] = "idle" /\ pc["refill"] = "idle"
      BY DEF DispatchLocked, InDispatch, Dispatcher, ShutdownOrdered
    <2>2. ~SignalPending /\ ~Filling
      BY <2>1 DEF SignalPending, Filling, Dispatcher
    <2>3. Cardinality(futures) < MaxWorkers
      BY FuturesFinite DEF SlotsReserved
    <2> QED
      BY <2>2, <2>3 DEF SlotsNoticed
  <1> QED
    BY <1>1, Inductive, PTL

\* The counts, the claimed tasks and the signals are right together, in whatever step
\* of a dispatch timer, refill thread, callbacks and shutdown meet.
THEOREM DispatchesSafe == Spec => []DispatchSafe
  <1>1. TypeOK /\ NoOversubscription /\ NothingLost /\ NoLostSignal => DispatchSafe
    BY DEF DispatchSafe
  <1> QED
    BY <1>1, TypeCorrect, NeverOversubscribed, NothingEverLost, SignalsKept, PTL
=============================================================================
