------------------------------ MODULE Runtime ------------------------------
(***************************************************************************)
(* The in-process side of execution, the same for collection and           *)
(* processing: a pool of threads, the dispatch under its lock, which the   *)
(* timer tries and the refill thread waits for, the callback of a finished *)
(* future, and the shutdown handshake. A task is claimed once here; what a *)
(* claim and an execution do to the database is in Collection and          *)
(* Processing.                                                             *)
(*                                                                         *)
(* A step ends where a thread gives up a lock or touches what another one  *)
(* may touch.                                                              *)
(***************************************************************************)
EXTENDS Naturals, FiniteSets

CONSTANTS
    Task,           \* claimable tasks
    MaxWorkers,     \* size of the pool
    None,           \* no task
    MaxErrors       \* bound: claims that end in a database error

Dispatcher == {"timer", "refill"}

ASSUME RuntimeAssumption ==
    /\ IsFiniteSet(Task)
    /\ MaxWorkers \in Nat \ {0}
    /\ None \notin Task \cup Dispatcher
    /\ MaxErrors \in Nat

VARIABLES
    queue,          \* tasks a claim would find
    future,         \* [Task -> state of its future]
    futures,        \* the _futures dictionary
    callback,       \* [Task -> progress of _task_finished]
    lock,           \* the holder of _dispatch_lock, or None
    event,          \* _refill_event is set
    stopping,       \* _stopping
    pc,             \* [Dispatcher -> where the thread is in its dispatch]
    slots,          \* [Dispatcher -> iterations left in its loop]
    current,        \* [Dispatcher -> the task it has claimed]
    refill,         \* where the refill thread is outside a dispatch
    shutdown,       \* where the shutdown is
    errors          \* errors still to come

vars == <<queue, future, futures, callback, lock, event, stopping, pc, slots, current,
          refill, shutdown, errors>>

TypeOK ==
    /\ queue \subseteq Task
    /\ future \in [Task -> {"none", "claimed", "submitted", "running", "done", "lost"}]
    /\ futures \subseteq Task
    /\ callback \in [Task -> {"none", "added", "popped", "ended"}]
    /\ lock \in Dispatcher \cup {None}
    /\ event \in BOOLEAN
    /\ stopping \in BOOLEAN
    /\ pc \in [Dispatcher -> {"idle", "acquire", "slots", "check", "claim", "submit", "register",
                              "attach", "inline", "release"}]
    /\ slots \in [Dispatcher -> 0 .. MaxWorkers]
    /\ current \in [Dispatcher -> Task \cup {None}]
    /\ refill \in {"wait", "clear", "check", "dispatch", "ended"}
    /\ shutdown \in {"no", "signal", "join", "barrier", "drain", "done"}
    /\ errors \in 0 .. MaxErrors

Init ==
    /\ queue = Task
    /\ future = [t \in Task |-> "none"]
    /\ futures = {}
    /\ callback = [t \in Task |-> "none"]
    /\ lock = None
    /\ event = FALSE
    /\ stopping = FALSE
    /\ pc = [d \in Dispatcher |-> "idle"]
    /\ slots = [d \in Dispatcher |-> 0]
    /\ current = [d \in Dispatcher |-> None]
    /\ refill = "wait"
    /\ shutdown = "no"
    /\ errors = MaxErrors

\* The pool takes no more work: shutdown has reached ThreadPoolExecutor.shutdown.
Closed == shutdown \in {"drain", "done"}

Goto(d, label) == pc' = [pc EXCEPT ![d] = label]

-----------------------------------------------------------------------------
(* Dispatch: dispatch and _dispatch with _fill_available_slots, wake and    *)
(* _wake in the processing runtime.                                         *)

\* The timer does not wait for the lock.
TimerTick ==
    /\ pc["timer"] = "idle"
    /\ lock = None
    /\ lock' = "timer"
    /\ Goto("timer", "slots")
    /\ UNCHANGED <<queue, future, futures, callback, event, stopping, slots, current, refill, shutdown, errors>>

RefillAcquire ==
    /\ pc["refill"] = "acquire"
    /\ lock = None
    /\ lock' = "refill"
    /\ Goto("refill", "slots")
    /\ UNCHANGED <<queue, future, futures, callback, event, stopping, slots, current, refill, shutdown, errors>>

AvailableSlots == IF stopping THEN 0 ELSE MaxWorkers - Cardinality(futures)

ReadSlots(d) ==
    /\ pc[d] = "slots"
    /\ slots' = [slots EXCEPT ![d] = AvailableSlots]
    /\ Goto(d, "check")
    /\ UNCHANGED <<queue, future, futures, callback, lock, event, stopping, current, refill, shutdown, errors>>

CheckStopping(d) ==
    /\ pc[d] = "check"
    /\ Goto(d, IF slots[d] = 0 \/ stopping THEN "release" ELSE "claim")
    /\ slots' = [slots EXCEPT ![d] = IF @ = 0 THEN 0 ELSE @ - 1]
    /\ UNCHANGED <<queue, future, futures, callback, lock, event, stopping, current, refill, shutdown, errors>>

\* claim_next
ClaimTask(d, t) ==
    /\ pc[d] = "claim"
    /\ t \in queue
    /\ queue' = queue \ {t}
    /\ future' = [future EXCEPT ![t] = "claimed"]
    /\ current' = [current EXCEPT ![d] = t]
    /\ Goto(d, "submit")
    /\ UNCHANGED <<futures, callback, lock, event, stopping, slots, refill, shutdown, errors>>

ClaimNothing(d) ==
    /\ pc[d] = "claim"
    /\ queue = {}
    /\ Goto(d, "release")
    /\ UNCHANGED <<queue, future, futures, callback, lock, event, stopping, slots, current, refill, shutdown, errors>>

\* Variant: an error leaves the dispatch lock taken.
ClaimErrorKeepsLock(d) ==
    /\ pc[d] \in {"slots", "claim"}
    /\ errors > 0
    /\ errors' = errors - 1
    /\ Goto(d, "idle")
    /\ refill' = IF d = "refill" THEN "ended" ELSE refill
    /\ UNCHANGED <<queue, future, futures, callback, lock, event, stopping, slots, current, shutdown>>

\* The capacity snapshot or claim_next raises: the lock is released, the timer
\* comes back, the refill thread has no handler and ends.
ClaimError(d) ==
    /\ pc[d] \in {"slots", "claim"}
    /\ errors > 0
    /\ errors' = errors - 1
    /\ lock' = None
    /\ Goto(d, "idle")
    /\ refill' = IF d = "refill" THEN "ended" ELSE refill
    /\ UNCHANGED <<queue, future, futures, callback, event, stopping, slots, current, shutdown>>

\* A closed pool raises: the task stays claimed and nobody executes it.
Submit(d) ==
    /\ pc[d] = "submit"
    /\ future' = [future EXCEPT ![current[d]] = IF Closed THEN "lost" ELSE "submitted"]
    /\ Goto(d, IF Closed THEN "release" ELSE "register")
    /\ UNCHANGED <<queue, futures, callback, lock, event, stopping, slots, current, refill, shutdown, errors>>

Register(d) ==
    /\ pc[d] = "register"
    /\ futures' = futures \cup {current[d]}
    /\ Goto(d, "attach")
    /\ UNCHANGED <<queue, future, callback, lock, event, stopping, slots, current, refill, shutdown, errors>>

\* add_done_callback runs the callback at once if the future is done.
Attach(d) ==
    LET t == current[d]
    IN  /\ pc[d] = "attach"
        /\ callback' = [callback EXCEPT ![t] = "added"]
        /\ Goto(d, IF future[t] = "done" THEN "inline" ELSE "check")
        /\ UNCHANGED <<queue, future, futures, lock, event, stopping, slots, current, refill, shutdown, errors>>

InlineEnds(d) ==
    /\ pc[d] = "inline"
    /\ callback[current[d]] = "ended"
    /\ Goto(d, "check")
    /\ UNCHANGED <<queue, future, futures, callback, lock, event, stopping, slots, current, refill, shutdown, errors>>

Release(d) ==
    /\ pc[d] = "release"
    /\ lock' = None
    /\ Goto(d, "idle")
    /\ UNCHANGED <<queue, future, futures, callback, event, stopping, slots, current, refill, shutdown, errors>>

Dispatch(d) ==
    \/ ReadSlots(d)
    \/ CheckStopping(d)
    \/ \E t \in Task : ClaimTask(d, t)
    \/ ClaimNothing(d)
    \/ ClaimError(d)
    \/ Submit(d)
    \/ Register(d)
    \/ Attach(d)
    \/ InlineEnds(d)
    \/ Release(d)

-----------------------------------------------------------------------------
(* The pool and _task_finished.                                            *)

\* A thread of the pool takes the task; it is busy until the callback ended.
Start(t) ==
    /\ future[t] = "submitted"
    /\ Cardinality({u \in Task : \/ future[u] = "running"
                                 \/ future[u] = "done" /\ callback[u] \in {"added", "popped"}}) < MaxWorkers
    /\ future' = [future EXCEPT ![t] = "running"]
    /\ UNCHANGED <<queue, futures, callback, lock, event, stopping, pc, slots, current, refill, shutdown, errors>>

\* The execution ends, with a result or an exception.
Finish(t) ==
    /\ future[t] = "running"
    /\ future' = [future EXCEPT ![t] = "done"]
    /\ UNCHANGED <<queue, futures, callback, lock, event, stopping, pc, slots, current, refill, shutdown, errors>>

PopFuture(t) ==
    /\ future[t] = "done"
    /\ callback[t] = "added"
    /\ callback' = [callback EXCEPT ![t] = "popped"]
    /\ futures' = futures \ {t}
    /\ UNCHANGED <<queue, future, lock, event, stopping, pc, slots, current, refill, shutdown, errors>>

\* Variant: the signal is given only if no dispatch is under way.
SignalWhenIdle(t) ==
    /\ callback[t] = "popped"
    /\ callback' = [callback EXCEPT ![t] = "ended"]
    /\ event' = (event \/ (~stopping /\ lock = None))
    /\ UNCHANGED <<queue, future, futures, lock, stopping, pc, slots, current, refill, shutdown, errors>>

SignalRefill(t) ==
    /\ callback[t] = "popped"
    /\ callback' = [callback EXCEPT ![t] = "ended"]
    /\ event' = (event \/ ~stopping)
    /\ UNCHANGED <<queue, future, futures, lock, stopping, pc, slots, current, refill, shutdown, errors>>

Pool(t) == Start(t) \/ Finish(t) \/ PopFuture(t) \/ SignalRefill(t)

-----------------------------------------------------------------------------
(* _refill_loop                                                            *)

Awake ==
    /\ refill = "wait"
    /\ event
    /\ refill' = "clear"
    /\ UNCHANGED <<queue, future, futures, callback, lock, event, stopping, pc, slots, current, shutdown, errors>>

ClearEvent ==
    /\ refill = "clear"
    /\ event' = FALSE
    /\ refill' = "check"
    /\ UNCHANGED <<queue, future, futures, callback, lock, stopping, pc, slots, current, shutdown, errors>>

\* Variant: the flag is not looked at.
RefillAlways ==
    /\ refill = "check"
    /\ refill' = "dispatch"
    /\ pc' = [pc EXCEPT !["refill"] = "acquire"]
    /\ UNCHANGED <<queue, future, futures, callback, lock, event, stopping, slots, current, shutdown, errors>>

RefillOrEnd ==
    /\ refill = "check"
    /\ refill' = IF stopping THEN "ended" ELSE "dispatch"
    /\ pc' = IF stopping THEN pc ELSE [pc EXCEPT !["refill"] = "acquire"]
    /\ UNCHANGED <<queue, future, futures, callback, lock, event, stopping, slots, current, shutdown, errors>>

WaitAgain ==
    /\ refill = "dispatch"
    /\ pc["refill"] = "idle"
    /\ refill' = "wait"
    /\ UNCHANGED <<queue, future, futures, callback, lock, event, stopping, pc, slots, current, shutdown, errors>>

RefillLoop == Awake \/ ClearEvent \/ RefillOrEnd \/ RefillAcquire \/ WaitAgain

-----------------------------------------------------------------------------
(* shutdown                                                                *)

SetStopping ==
    /\ shutdown = "no"
    /\ stopping' = TRUE
    /\ shutdown' = "signal"
    /\ UNCHANGED <<queue, future, futures, callback, lock, event, pc, slots, current, refill, errors>>

SignalStop ==
    /\ shutdown = "signal"
    /\ event' = TRUE
    /\ shutdown' = "join"
    /\ UNCHANGED <<queue, future, futures, callback, lock, stopping, pc, slots, current, refill, errors>>

JoinRefill ==
    /\ shutdown = "join"
    /\ refill = "ended"
    /\ shutdown' = "barrier"
    /\ UNCHANGED <<queue, future, futures, callback, lock, event, stopping, pc, slots, current, refill, errors>>

\* The dispatch lock is taken and given back.
Barrier ==
    /\ shutdown = "barrier"
    /\ lock = None
    /\ shutdown' = "drain"
    /\ UNCHANGED <<queue, future, futures, callback, lock, event, stopping, pc, slots, current, refill, errors>>

\* The threads of the pool finish what was submitted.
Drained ==
    /\ shutdown = "drain"
    /\ \A t \in Task : future[t] \notin {"submitted", "running"} /\ callback[t] \notin {"added", "popped"}
    /\ shutdown' = "done"
    /\ UNCHANGED <<queue, future, futures, callback, lock, event, stopping, pc, slots, current, refill, errors>>

Shutdown == SetStopping \/ SignalStop \/ JoinRefill \/ Barrier \/ Drained

-----------------------------------------------------------------------------
Next ==
    \/ TimerTick
    \/ \E d \in Dispatcher : Dispatch(d)
    \/ \E t \in Task : Pool(t)
    \/ RefillLoop
    \/ Shutdown

Spec == Init /\ [][Next]_vars

\* Threads run. The lock is fair enough for the refill thread and the shutdown,
\* which the timer would otherwise overtake for ever; nobody needs to shut down.
Fairness ==
    /\ \A d \in Dispatcher : WF_vars(Dispatch(d))
    /\ \A t \in Task : WF_vars(Pool(t))
    /\ SF_vars(RefillLoop)
    /\ WF_vars(SignalStop) /\ WF_vars(JoinRefill) /\ SF_vars(Barrier) /\ WF_vars(Drained)

FairSpec == Spec /\ Fairness

\* With the timer, which fires every five seconds.
TimedSpec == FairSpec /\ SF_vars(TimerTick)

-----------------------------------------------------------------------------
Executing == {t \in Task : future[t] \in {"submitted", "running"}}

\* Timer and refill thread together never submit more than the pool holds: no
\* claimed task waits behind another one in the pool.
NoOversubscription ==
    /\ Cardinality(futures) <= MaxWorkers
    /\ Cardinality(Executing) <= MaxWorkers

\* Shutdown leaves no task claimed with nobody to execute it, in whatever step of a
\* dispatch it comes: the next start would have to recover it.
NothingLost ==
    /\ \A t \in Task : future[t] # "lost"
    /\ shutdown = "done" => \A t \in Task : future[t] \in {"none", "done"} /\ t \notin futures

\* docs/02 section 6, 4: a finished task frees its slot and the slot is filled at
\* once, without the timer. When the refill thread is back to waiting with no signal
\* pending and no dispatch or callback under way, nothing is left to fill.
NoLostSignal ==
    /\ refill = "wait" /\ ~event /\ lock = None /\ ~stopping
    /\ \E t \in Task : future[t] = "done"
    /\ \A t \in Task : future[t] # "done" \/ callback[t] = "ended"
    => queue = {} \/ Cardinality(futures) = MaxWorkers \/ errors < MaxErrors

\* Timer, refill thread, callbacks and shutdown may meet in any step of a dispatch.
DispatchSafe == TypeOK /\ NoOversubscription /\ NothingLost /\ NoLostSignal

\* A shutdown that is asked for ends: the refill thread is woken up to end and no
\* thread waits for another that waits for it.
ShutdownEnds == shutdown # "no" ~> shutdown = "done"

\* With the timer every task is executed or the runtime is stopped, even if the
\* refill thread has ended with an error.
EverythingExecuted == \A t \in Task : <>(future[t] = "done" \/ stopping)
-----------------------------------------------------------------------------
(* The inductive invariant of NoOversubscription and NothingLost.          *)

InDispatch(d) == pc[d] \notin {"idle", "acquire"}

\* Whoever is in a dispatch has the lock, so it is alone there.
DispatchLocked ==
    /\ \A d \in Dispatcher : InDispatch(d) <=> lock = d
    /\ pc["timer"] # "acquire"

\* Between the count of the slots and the end of its loop a dispatch has room for
\* the tasks it may still submit, the claimed one included.
SlotsReserved ==
    /\ Cardinality(futures) <= MaxWorkers
    /\ \A d \in Dispatcher :
         /\ pc[d] \in {"check", "attach", "inline"} => slots[d] + Cardinality(futures) <= MaxWorkers
         /\ pc[d] \in {"claim", "submit", "register"} => slots[d] + Cardinality(futures) + 1 <= MaxWorkers

\* A dispatch holds a task from the claim to the callback.
ClaimHeld ==
    \A d \in Dispatcher :
        /\ pc[d] \in {"submit", "register", "attach", "inline"} => current[d] \in Task
        /\ pc[d] = "submit" => future[current[d]] = "claimed"
        /\ pc[d] \in {"register", "attach"} => future[current[d]] \in {"submitted", "running", "done"}
        /\ pc[d] = "register" => current[d] \notin futures
        /\ pc[d] \in {"submit", "register", "attach"} => callback[current[d]] = "none"

HeldAt(t, labels) == \E d \in Dispatcher : pc[d] \in labels /\ current[d] = t

\* Every claimed task is with a dispatch, with the pool or done, and every future in
\* the dictionary will call back.
ClaimAccounted(t) ==
    /\ t \in queue => future[t] = "none"
    /\ future[t] = "none" => callback[t] = "none"
    /\ future[t] # "lost"
    /\ future[t] = "claimed" => HeldAt(t, {"submit"})
    /\ future[t] \in {"submitted", "running"} => t \in futures \/ HeldAt(t, {"register"})
    /\ t \in futures => /\ future[t] \in {"submitted", "running", "done"}
                        /\ \/ callback[t] = "added"
                           \/ callback[t] = "none" /\ HeldAt(t, {"attach"})

ClaimsAccounted == \A t \in Task : ClaimAccounted(t)

\* The shutdown comes to the pool after the refill thread and the last dispatch
\* that could claim.
ShutdownOrdered ==
    /\ shutdown # "no" => stopping
    /\ shutdown \in {"barrier", "drain", "done"} => refill = "ended"
    /\ refill # "dispatch" => pc["refill"] = "idle"
    /\ Closed => \A d \in Dispatcher : pc[d] \in {"idle", "slots", "check", "release"}
    /\ shutdown = "done" => \A t \in Task : future[t] \in {"none", "done"} /\ t \notin futures

\* A signal is pending, or a callback that will give one.
SignalPending ==
    \/ event
    \/ refill \in {"clear", "check"} \/ pc["refill"] = "acquire"
    \/ \E t \in Task : future[t] = "done" /\ callback[t] # "ended"

\* A dispatch is under way that knows of every free slot.
Filling ==
    \E d \in Dispatcher :
        \/ pc[d] = "slots"
        \/ pc[d] \in {"check", "attach", "inline"} /\ slots[d] + Cardinality(futures) = MaxWorkers
        \/ pc[d] \in {"claim", "submit", "register"} /\ slots[d] + Cardinality(futures) + 1 = MaxWorkers

\* Once a task has finished, a task that waits beside a free slot is noticed.
SlotsNoticed ==
    /\ \E t \in Task : future[t] = "done"
    /\ ~stopping /\ errors = MaxErrors
    /\ queue # {} /\ Cardinality(futures) < MaxWorkers
    => SignalPending \/ Filling

IInv ==
    /\ TypeOK
    /\ DispatchLocked
    /\ SlotsReserved
    /\ ClaimHeld
    /\ ClaimsAccounted
    /\ ShutdownOrdered
    /\ SlotsNoticed
=============================================================================
