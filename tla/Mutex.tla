-------------------------------- MODULE Mutex --------------------------------
(***************************************************************************)
(* The sleeping mutex of kernel/locking/mutex.c with the decrementing fast *)
(* paths of asm-generic/mutex-dec.h and optimistic spinning.               *)
(*                                                                         *)
(* lock->count and lock->owner are accessed without lock->wait_lock by the *)
(* fast paths and the spinners, so every access to count that may change   *)
(* it is a step of its own, also inside the sections wait_lock protects.   *)
(* The queue of spinners is the one SpinQueue specifies and OsqLock        *)
(* implements: osq is the task whose turn it is to spin.                   *)
(***************************************************************************)
EXTENDS TaskState, FiniteSets

CONSTANTS Tasks,      \* the tasks that use the mutex
          NoTask,     \* NULL
          LockStates, \* the sleep states of the mutex_lock*() functions in use
          MaxBelow    \* bound: how far below 0 the count may be driven

ASSUME MutexAssumption ==
    /\ NoTask \notin Tasks
    /\ LockStates \subseteq SleepStates
    /\ MaxBelow \in Nat

VARIABLES count,      \* lock->count: 1 unlocked, 0 locked, negative: maybe waiters
          owner,      \* lock->owner
          wait_lock,  \* the task in a section protected by lock->wait_lock
          wait_list,  \* lock->wait_list
          osq,        \* the task that may spin
          pc,         \* where each task is
          seen,       \* the local variable owner of mutex_optimistic_spin()
          state,      \* the state argument of __mutex_lock_common()
          run,        \* task->state
          sig         \* the pending signal of each task

vars == <<count, owner, wait_lock, wait_list, osq, pc, seen, state, run, sig>>

Init ==
    /\ count = 1
    /\ owner = NoTask
    /\ wait_lock = NoTask
    /\ wait_list = <<>>
    /\ osq = NoTask
    /\ pc = [t \in Tasks |-> "out"]
    /\ seen = [t \in Tasks |-> NoTask]
    /\ state = [t \in Tasks |-> "uninterruptible"]
    /\ run = [t \in Tasks |-> "running"]
    /\ sig = [t \in Tasks |-> "none"]

At(t, p) == pc[t] = p
Goto(t, p) == pc' = [pc EXCEPT ![t] = p]

------------------------------------------------------------------------------
\* The fast paths: mutex_lock(), mutex_lock_interruptible() and
\* mutex_lock_killable() decrement the count whatever it was.
FastpathLock(t, st) ==
    /\ At(t, "out")
    /\ count > -MaxBelow
    /\ count' = count - 1
    /\ state' = [state EXCEPT ![t] = st]
    /\ Goto(t, IF count - 1 < 0 THEN "can_spin" ELSE "fast_owner")
    /\ UNCHANGED <<owner, wait_lock, wait_list, osq, seen, run, sig>>

\* mutex_trylock(): a failing call changes nothing.
Trylock(t) ==
    /\ At(t, "out")
    /\ count = 1
    /\ count' = 0
    /\ Goto(t, "fast_owner")
    /\ UNCHANGED <<owner, wait_lock, wait_list, osq, seen, state, run, sig>>

FastSetOwner(t) ==
    /\ At(t, "fast_owner")
    /\ owner' = t
    /\ Goto(t, "held")
    /\ UNCHANGED <<count, wait_lock, wait_list, osq, seen, state, run, sig>>

------------------------------------------------------------------------------
\* mutex_optimistic_spin().  Whether the owner runs on a CPU, whether a
\* reschedule is due and whether the task is a real-time one are free choices.

\* mutex_can_spin_on_owner()
CanSpin(t) ==
    /\ At(t, "can_spin")
    /\ \/ Goto(t, "osq_lock")
       \/ Goto(t, "slow")
    /\ UNCHANGED <<count, owner, wait_lock, wait_list, osq, seen, state, run, sig>>

OsqTurn(t) ==
    /\ At(t, "osq_lock")
    /\ osq = NoTask
    /\ osq' = t
    /\ Goto(t, "spin")
    /\ UNCHANGED <<count, owner, wait_lock, wait_list, seen, state, run, sig>>

OsqGiveUp(t) ==
    /\ At(t, "osq_lock")
    /\ Goto(t, "slow")
    /\ UNCHANGED <<count, owner, wait_lock, wait_list, osq, seen, state, run, sig>>

SpinReadOwner(t) ==
    /\ At(t, "spin")
    /\ seen' = [seen EXCEPT ![t] = owner]
    /\ Goto(t, IF owner = NoTask THEN "try" ELSE "on_owner")
    /\ UNCHANGED <<count, owner, wait_lock, wait_list, osq, state, run, sig>>

\* mutex_spin_on_owner() returns true when the owner has changed.
OwnerChanged(t) ==
    /\ At(t, "on_owner")
    /\ owner # seen[t]
    /\ Goto(t, "try")
    /\ UNCHANGED <<count, owner, wait_lock, wait_list, osq, seen, state, run, sig>>

\* The spinner stops: the owner sleeps or a reschedule is due; osq_unlock().
StopSpinning(t) ==
    /\ osq' = NoTask
    /\ seen' = [seen EXCEPT ![t] = NoTask]
    /\ Goto(t, "slow")
    /\ UNCHANGED <<count, owner, wait_lock, wait_list, state, run, sig>>

OwnerSleeps(t) ==
    /\ At(t, "on_owner")
    /\ owner = seen[t]
    /\ StopSpinning(t)

\* mutex_try_to_acquire(), a cmpxchg of the count from 1 to 0.
TryAcquire(t) ==
    /\ At(t, "try")
    /\ count = 1
    /\ count' = 0
    /\ Goto(t, "spin_owner")
    /\ UNCHANGED <<owner, wait_lock, wait_list, osq, seen, state, run, sig>>

TryFails(t) ==
    /\ At(t, "try")
    /\ count # 1
    /\ \/ /\ Goto(t, "spin")
          /\ UNCHANGED <<count, owner, wait_lock, wait_list, osq, seen, state, run, sig>>
       \/ /\ seen[t] = NoTask
          /\ StopSpinning(t)

SpinSetOwner(t) ==
    /\ At(t, "spin_owner")
    /\ owner' = t
    /\ osq' = NoTask
    /\ seen' = [seen EXCEPT ![t] = NoTask]
    /\ Goto(t, "held")
    /\ UNCHANGED <<count, wait_lock, wait_list, state, run, sig>>

------------------------------------------------------------------------------
\* __mutex_lock_common() from spin_lock_mutex() on.

\* mutex_is_locked() with wait_lock taken: if the mutex looks locked the task
\* queues.
SlowEnter(t) ==
    /\ At(t, "slow")
    /\ wait_lock = NoTask
    /\ wait_lock' = t
    /\ IF count = 1
       THEN Goto(t, "slow_xchg") /\ UNCHANGED wait_list
       ELSE Goto(t, "loop") /\ wait_list' = list_add_tail(wait_list, t)
    /\ UNCHANGED <<count, owner, osq, seen, state, run, sig>>

\* Faulty: the value xchg() returns is not looked at.
SlowXchgUnchecked(t) ==
    /\ At(t, "slow_xchg")
    /\ count' = 0
    /\ Goto(t, "set_owner")
    /\ UNCHANGED <<owner, wait_lock, wait_list, osq, seen, state, run, sig>>

\* xchg(&lock->count, 0) == 1.  A fast path may have run since the check.
SlowXchg(t) ==
    /\ At(t, "slow_xchg")
    /\ count' = 0
    /\ IF count = 1
       THEN Goto(t, "set_owner") /\ UNCHANGED wait_list
       ELSE Goto(t, "loop") /\ wait_list' = list_add_tail(wait_list, t)
    /\ UNCHANGED <<owner, wait_lock, osq, seen, state, run, sig>>

\* The rest of a pass that did not get the mutex: -EINTR or sleep.
FailOrSleep(t) ==
    /\ wait_lock' = NoTask
    /\ IF signal_pending_state(state[t], sig[t])
       THEN /\ wait_list' = list_del(wait_list, t)
            /\ Goto(t, "out")
            /\ UNCHANGED run
       ELSE /\ run' = [run EXCEPT ![t] = state[t]]
            /\ Goto(t, "sleep")
            /\ UNCHANGED wait_list
    /\ UNCHANGED <<owner, osq, seen, state, sig>>

LoopLocked(t) ==
    /\ At(t, "loop")
    /\ count < 0
    /\ FailOrSleep(t)
    /\ UNCHANGED count

LoopCheck(t) ==
    /\ At(t, "loop")
    /\ count >= 0
    /\ Goto(t, "loop_xchg")
    /\ UNCHANGED <<count, owner, wait_lock, wait_list, osq, seen, state, run, sig>>

\* Faulty: a queued task marks the mutex locked, not contended.
LoopXchgZero(t) ==
    /\ At(t, "loop_xchg")
    /\ count' = 0
    /\ \/ /\ count = 1
          /\ Goto(t, "dequeue")
          /\ UNCHANGED <<owner, wait_lock, wait_list, osq, seen, state, run, sig>>
       \/ /\ count # 1
          /\ FailOrSleep(t)

\* xchg(&lock->count, -1) == 1
LoopXchg(t) ==
    /\ At(t, "loop_xchg")
    /\ count' = -1
    /\ \/ /\ count = 1
          /\ Goto(t, "dequeue")
          /\ UNCHANGED <<owner, wait_lock, wait_list, osq, seen, state, run, sig>>
       \/ /\ count # 1
          /\ FailOrSleep(t)

WakeFromSleep(t) ==
    /\ At(t, "sleep")
    /\ run[t] = "running"
    /\ wait_lock = NoTask
    /\ wait_lock' = t
    /\ Goto(t, "loop")
    /\ UNCHANGED <<count, owner, wait_list, osq, seen, state, run, sig>>

\* mutex_remove_waiter(); the count goes to 0 when nobody else waits.
Dequeue(t) ==
    /\ At(t, "dequeue")
    /\ wait_list' = list_del(wait_list, t)
    /\ count' = IF wait_list' = <<>> THEN 0 ELSE count
    /\ Goto(t, "set_owner")
    /\ UNCHANGED <<owner, wait_lock, osq, seen, state, run, sig>>

SlowSetOwner(t) ==
    /\ At(t, "set_owner")
    /\ owner' = t
    /\ wait_lock' = NoTask
    /\ Goto(t, "held")
    /\ UNCHANGED <<count, wait_list, osq, seen, state, run, sig>>

------------------------------------------------------------------------------
\* mutex_unlock()

ClearOwner(t) ==
    /\ At(t, "held")
    /\ owner' = NoTask
    /\ Goto(t, "unlock")
    /\ UNCHANGED <<count, wait_lock, wait_list, osq, seen, state, run, sig>>

FastpathUnlock(t) ==
    /\ At(t, "unlock")
    /\ count' = count + 1
    /\ Goto(t, IF count + 1 <= 0 THEN "unlock_slow" ELSE "out")
    /\ UNCHANGED <<owner, wait_lock, wait_list, osq, seen, state, run, sig>>

\* __mutex_unlock_common_slowpath(): the mutex is released before wait_lock is
\* taken and the first waiter is woken.
UnlockSetCount(t) ==
    /\ At(t, "unlock_slow")
    /\ count' = 1
    /\ Goto(t, "unlock_wake")
    /\ UNCHANGED <<owner, wait_lock, wait_list, osq, seen, state, run, sig>>

UnlockWake(t) ==
    /\ At(t, "unlock_wake")
    /\ wait_lock = NoTask
    /\ run' = IF wait_list = <<>> THEN run
              ELSE [run EXCEPT ![Head(wait_list)] = "running"]
    /\ Goto(t, "out")
    /\ UNCHANGED <<count, owner, wait_lock, wait_list, osq, seen, state, sig>>

------------------------------------------------------------------------------
Signal(t, s) ==
    /\ sig[t] = "none"
    /\ sig' = [sig EXCEPT ![t] = s]
    /\ run' = [run EXCEPT ![t] = signal_wake_up(@, s)]
    /\ UNCHANGED <<count, owner, wait_lock, wait_list, osq, pc, seen, state>>

SignalHandled(t) ==
    /\ At(t, "out")
    /\ sig[t] # "none"
    /\ sig' = [sig EXCEPT ![t] = "none"]
    /\ UNCHANGED <<count, owner, wait_lock, wait_list, osq, pc, seen, state, run>>

StrayWakeUp(t) ==
    /\ run[t] # "running"
    /\ run' = [run EXCEPT ![t] = "running"]
    /\ UNCHANGED <<count, owner, wait_lock, wait_list, osq, pc, seen, state, sig>>

Call(t) == Trylock(t) \/ \E st \in LockStates : FastpathLock(t, st)

Step(t) ==
    \/ FastSetOwner(t) \/ CanSpin(t) \/ OsqTurn(t) \/ OsqGiveUp(t)
    \/ SpinReadOwner(t) \/ OwnerChanged(t) \/ OwnerSleeps(t)
    \/ TryAcquire(t) \/ TryFails(t) \/ SpinSetOwner(t)
    \/ SlowEnter(t) \/ SlowXchg(t) \/ LoopLocked(t) \/ LoopCheck(t) \/ LoopXchg(t)
    \/ WakeFromSleep(t) \/ Dequeue(t) \/ SlowSetOwner(t)
    \/ ClearOwner(t) \/ FastpathUnlock(t) \/ UnlockSetCount(t) \/ UnlockWake(t)

Environment(t) ==
    \/ \E s \in Signals \ {"none"} : Signal(t, s)
    \/ SignalHandled(t)
    \/ StrayWakeUp(t)

Next == \E t \in Tasks : Call(t) \/ Step(t) \/ Environment(t)

Spec == Init /\ [][Next]_vars

\* Runnable tasks are scheduled, owners unlock, and wait_lock, a ticket
\* spinlock, is granted in the end to everyone who spins on it.
Fairness ==
    \A t \in Tasks :
        /\ WF_vars(Step(t))
        /\ SF_vars(WakeFromSleep(t)) /\ SF_vars(SlowEnter(t)) /\ SF_vars(UnlockWake(t))

FairSpec == Spec /\ Fairness

------------------------------------------------------------------------------
PCs == {"out", "fast_owner", "can_spin", "osq_lock", "spin", "on_owner", "try",
        "spin_owner", "slow", "slow_xchg", "loop", "loop_xchg", "sleep", "dequeue",
        "set_owner", "held", "unlock", "unlock_slow", "unlock_wake"}

\* The mutex belongs to a task from the atomic operation on the count that gets
\* it to the one that gives it up.
Holding == {"fast_owner", "spin_owner", "dequeue", "set_owner", "held", "unlock",
            "unlock_slow"}

\* Each variable has the values that mutex.c gives it; count is at most 1.
TypeOK ==
    /\ count \in Int /\ count <= 1
    /\ owner \in Tasks \cup {NoTask}
    /\ wait_lock \in Tasks \cup {NoTask}
    /\ wait_list \in Seq(Tasks)
    /\ osq \in Tasks \cup {NoTask}
    /\ pc \in [Tasks -> PCs]
    /\ seen \in [Tasks -> Tasks \cup {NoTask}]
    /\ state \in [Tasks -> SleepStates]
    /\ run \in [Tasks -> RunStates]
    /\ sig \in [Tasks -> Signals]

\* Only one task can hold the mutex at a time (include/linux/mutex.h), through
\* any mix of fast path, trylock, spinning and sleeping acquisitions.
MutualExclusion ==
    \A t, u \in Tasks : pc[t] \in Holding /\ pc[u] \in Holding => t = u

\* lock->owner is only ever a task that holds the mutex: a spinner that reads it
\* never waits for a task that has nothing to release.
OwnerHolds == owner # NoTask => pc[owner] \in Holding

\* The list holds the stack cells of exactly the tasks that are queued.
ListHoldsLiveWaiters ==
    /\ IsInjective(wait_list)
    /\ Range(wait_list) = {t \in Tasks : pc[t] \in {"loop", "loop_xchg", "sleep", "dequeue"}}

\* No lost wake-up: when tasks are queued and the count does not say so (the next
\* unlock would take the fast path and wake nobody), then some queued task is
\* awake, or an unlocking task has still to wake the first one.
NoLostWakeUp ==
    count >= 0 /\ wait_list # <<>> =>
        \/ \E t \in Range(wait_list) : run[t] = "running"
        \/ \E t \in Tasks : pc[t] \in {"unlock_slow", "unlock_wake"}

\* From some point on nobody calls a lock function.
CallsStop == <>[][\A t \in Tasks : ~Call(t)]_vars

\* Every sleeping waiter gets the mutex or is interrupted, once new callers stop
\* taking it first (the mutex is not fair).
WaitersServed ==
    CallsStop => \A t \in Tasks : pc[t] = "sleep" ~> pc[t] \in {"held", "out"}
==============================================================================
