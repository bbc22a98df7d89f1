-------------------------------- MODULE RwSem --------------------------------
(***************************************************************************)
(* The reader/writer semaphore: the fast paths of asm-generic/rwsem.h and  *)
(* the slow paths of kernel/locking/rwsem-xadd.c with writer stealing,     *)
(* optimistic spinning and the killable writer.                            *)
(*                                                                         *)
(* sem->count is changed by fast paths and spinners that hold no lock, so  *)
(* every atomic operation on it is a step of its own, also inside the      *)
(* sections sem->wait_lock protects.  The queue of spinners is the one     *)
(* SpinQueue specifies.                                                    *)
(***************************************************************************)
EXTENDS TaskState, FiniteSets

CONSTANTS Tasks,      \* the tasks that use the semaphore
          NoTask,     \* NULL
          ActiveMask, \* RWSEM_ACTIVE_MASK, 2^32 - 1 in the code
          WriteStates, \* the sleep states of the down_write*() functions in use
          MaxKilled   \* bound: how many tasks get a fatal signal

ASSUME RwSemAssumption ==
    /\ NoTask \notin Tasks
    /\ IsFiniteSet(Tasks)
    /\ ActiveMask \in Nat /\ ActiveMask > 2 * Cardinality(Tasks)
    /\ WriteStates \subseteq {"uninterruptible", "killable"}
    /\ MaxKilled \in Nat

WaitingBias == -ActiveMask - 1
ReadBias == 1
WriteBias == WaitingBias + 1

\* count & RWSEM_ACTIVE_MASK
Active(n) == n % (ActiveMask + 1)

VARIABLES count,      \* sem->count
          owner,      \* sem->owner, set by writers only
          wait_lock,  \* the task in a section protected by sem->wait_lock
          wait_list,  \* sem->wait_list
          osq,        \* the task whose turn it is to spin
          pc,         \* where each task is
          fn,         \* the slow path function each task is in
          seen,       \* the local variable owner of rwsem_optimistic_spin()
          free,       \* the local variable count = RWSEM_WAITING_BIAS
          state,      \* the state argument of __rwsem_down_write_failed_common()
          run,        \* task->state
          killed      \* the tasks with a fatal signal pending

vars == <<count, owner, wait_lock, wait_list, osq, pc, fn, seen, free, state, run, killed>>
spin == <<osq, seen>>
wait == <<wait_lock, wait_list>>
local == <<fn, free, state>>

Init ==
    /\ count = 0
    /\ owner = NoTask
    /\ wait_lock = NoTask
    /\ wait_list = <<>>
    /\ osq = NoTask
    /\ pc = [t \in Tasks |-> "out"]
    /\ fn = [t \in Tasks |-> "none"]
    /\ seen = [t \in Tasks |-> NoTask]
    /\ free = [t \in Tasks |-> FALSE]
    /\ state = [t \in Tasks |-> "uninterruptible"]
    /\ run = [t \in Tasks |-> "running"]
    /\ killed = {}

At(t, p) == pc[t] = p
Goto(t, p) == pc' = [pc EXCEPT ![t] = p]
Enter(t, f) == fn' = [fn EXCEPT ![t] = f]

\* A caller outside; a killed task is on its way out and calls no more.
Caller(t) == At(t, "out") /\ t \notin killed

------------------------------------------------------------------------------
\* The fast paths.  A trylock that fails changes nothing.

\* down_read(): atomic_long_inc_return() <= 0 is contention.
DownRead(t) ==
    /\ Caller(t)
    /\ count' = count + ReadBias
    /\ Goto(t, IF count' <= 0 THEN "r_failed" ELSE "reading")
    /\ UNCHANGED <<owner, wait, spin, local, run, killed>>

DownReadTrylock(t) ==
    /\ Caller(t)
    /\ count >= 0
    /\ count' = count + ReadBias
    /\ Goto(t, "reading")
    /\ UNCHANGED <<owner, wait, spin, local, run, killed>>

\* down_write(), down_write_killable(); a failed attempt is undone at w_undo.
DownWrite(t, st) ==
    /\ Caller(t)
    /\ count' = count + WriteBias
    /\ state' = [state EXCEPT ![t] = st]
    /\ Goto(t, IF count' = WriteBias THEN "w_owner" ELSE "w_undo")
    /\ UNCHANGED <<owner, wait, spin, fn, free, run, killed>>

DownWriteTrylock(t) ==
    /\ Caller(t)
    /\ count = 0
    /\ count' = WriteBias
    /\ Goto(t, "w_owner")
    /\ UNCHANGED <<owner, wait, spin, local, run, killed>>

\* rwsem_set_owner() at the end of the down_write() functions.
SetOwner(t) ==
    /\ At(t, "w_owner")
    /\ owner' = t
    /\ Goto(t, "writing")
    /\ UNCHANGED <<count, wait, spin, local, run, killed>>

UpRead(t) ==
    /\ At(t, "reading")
    /\ count' = count - ReadBias
    /\ Goto(t, IF count' < -1 /\ Active(count') = 0 THEN "wake" ELSE "out")
    /\ UNCHANGED <<owner, wait, spin, local, run, killed>>

\* up_write() and downgrade_write() start with rwsem_clear_owner().
ClearOwner(t) ==
    /\ At(t, "writing")
    /\ owner' = NoTask
    /\ \/ Goto(t, "up_write")
       \/ Goto(t, "downgrade")
    /\ UNCHANGED <<count, wait, spin, local, run, killed>>

UpWrite(t) ==
    /\ At(t, "up_write")
    /\ count' = count - WriteBias
    /\ Goto(t, IF count' < 0 THEN "wake" ELSE "out")
    /\ UNCHANGED <<owner, wait, spin, local, run, killed>>

DowngradeWrite(t) ==
    /\ At(t, "downgrade")
    /\ count' = count - WaitingBias
    /\ Goto(t, IF count' < 0 THEN "downgrade_wake" ELSE "reading")
    /\ UNCHANGED <<owner, wait, spin, local, run, killed>>

------------------------------------------------------------------------------
\* __rwsem_do_wake(), with wait_lock held and wait_list not empty.

IsReader(t) == fn[t] = "read_failed"

\* The readers at the front of the list.
FrontReaders ==
    LET front == {n \in 1..Len(wait_list) : \A m \in 1..n : IsReader(wait_list[m])}
    IN  Cardinality(front)

\* What the function that called __rwsem_do_wake() does next.
AfterWake(t) ==
    CASE fn[t] = "read_failed" -> "r_state"
      [] fn[t] = "write_failed" -> "w_state"
      [] fn[t] = "wake" -> "out"
      [] fn[t] = "downgrade_wake" -> "reading"

Return(t) ==
    /\ Goto(t, AfterWake(t))
    /\ wait_lock' = IF fn[t] = "write_failed" THEN t ELSE NoTask
    /\ Enter(t, IF fn[t] \in {"read_failed", "write_failed"} THEN fn[t] ELSE "none")

\* A writer at the front is woken (RWSEM_WAKE_ANY), and must take the lock.
WakeWriter(t) ==
    /\ At(t, "do_wake")
    /\ ~IsReader(Head(wait_list))
    /\ run' = IF fn[t] \in {"read_failed", "wake"}
              THEN [run EXCEPT ![Head(wait_list)] = "running"] ELSE run
    /\ Return(t)
    /\ UNCHANGED <<count, owner, wait_list, spin, free, state, killed>>

\* Faulty: no look at the old count, so a writer that stole the lock is missed.
ReaderGrantUnchecked(t) ==
    /\ At(t, "do_wake")
    /\ IsReader(Head(wait_list))
    /\ Goto(t, "grant")
    /\ count' = IF fn[t] = "downgrade_wake" THEN count ELSE count + ReadBias
    /\ UNCHANGED <<owner, wait, spin, local, run, killed>>

\* try_reader_grant; the read lock the caller holds makes it superfluous for
\* RWSEM_WAKE_READ_OWNED.
TryReaderGrant(t) ==
    /\ At(t, "do_wake")
    /\ IsReader(Head(wait_list))
    /\ IF fn[t] = "downgrade_wake"
       THEN Goto(t, "grant") /\ UNCHANGED count
       ELSE /\ count' = count + ReadBias
            /\ Goto(t, IF count < WaitingBias THEN "undo_grant" ELSE "grant")
    /\ UNCHANGED <<owner, wait, spin, local, run, killed>>

\* A writer stole the lock; if it has left by now, try again.
UndoGrant(t) ==
    /\ At(t, "undo_grant")
    /\ count' = count - ReadBias
    /\ IF Active(count') # 0
       THEN Return(t)
       ELSE Goto(t, "do_wake") /\ UNCHANGED <<wait_lock, fn>>
    /\ UNCHANGED <<owner, wait_list, spin, free, state, run, killed>>

\* All the readers at the front get the lock: the count first, then every
\* waiter's task field is cleared, the reader woken and taken off the list.
GrantReaders(t) ==
    LET woken == FrontReaders
        tentative == IF fn[t] = "downgrade_wake" THEN 0 ELSE ReadBias
    IN  /\ At(t, "grant")
        /\ count' = count + woken * ReadBias - tentative
                    - (IF woken = Len(wait_list) THEN WaitingBias ELSE 0)
        /\ wait_list' = SubSeq(wait_list, woken + 1, Len(wait_list))
        /\ run' = [u \in Tasks |-> IF \E n \in 1..woken : wait_list[n] = u
                                   THEN "running" ELSE run[u]]
        /\ Return(t)
        /\ UNCHANGED <<owner, spin, free, state, killed>>

------------------------------------------------------------------------------
\* rwsem_down_read_failed()

\* Faulty: every queued reader adds a waiting bias.
ReadFailedBias(t) ==
    LET adjustment == WaitingBias - ReadBias
    IN  /\ At(t, "r_failed")
        /\ wait_lock = NoTask
        /\ wait_list' = list_add_tail(wait_list, t)
        /\ count' = count + adjustment
        /\ IF count' >= WaitingBias
           THEN Goto(t, "do_wake") /\ wait_lock' = t
           ELSE Goto(t, "r_state") /\ UNCHANGED wait_lock
        /\ Enter(t, "read_failed")
        /\ UNCHANGED <<owner, spin, free, state, run, killed>>

\* Faulty: the reader does not notice that the last locker left meanwhile.
ReadFailedSleeps(t) ==
    LET adjustment == (IF wait_list = <<>> THEN WaitingBias ELSE 0) - ReadBias
    IN  /\ At(t, "r_failed")
        /\ wait_lock = NoTask
        /\ wait_list' = list_add_tail(wait_list, t)
        /\ count' = count + adjustment
        /\ Goto(t, "r_state")
        /\ Enter(t, "read_failed")
        /\ UNCHANGED <<owner, wait_lock, spin, free, state, run, killed>>

ReadFailed(t) ==
    LET adjustment == (IF wait_list = <<>> THEN WaitingBias ELSE 0) - ReadBias
    IN  /\ At(t, "r_failed")
        /\ wait_lock = NoTask
        /\ wait_list' = list_add_tail(wait_list, t)
        /\ count' = count + adjustment
        /\ IF \/ count' = WaitingBias
              \/ count' > WaitingBias /\ adjustment # -ReadBias
           THEN Goto(t, "do_wake") /\ wait_lock' = t
           ELSE Goto(t, "r_state") /\ UNCHANGED wait_lock
        /\ Enter(t, "read_failed")
        /\ UNCHANGED <<owner, spin, free, state, run, killed>>

\* set_task_state() comes before the look at waiter.task, which
\* __rwsem_do_wake() clears in the step that takes the waiter off the list.
ReadSetState(t) ==
    /\ At(t, "r_state")
    /\ run' = [run EXCEPT ![t] = "uninterruptible"]
    /\ Goto(t, "r_check")
    /\ UNCHANGED <<count, owner, wait, spin, local, killed>>

ReadCheck(t) ==
    /\ At(t, "r_check")
    /\ IF t \in Range(wait_list)
       THEN Goto(t, "r_sleep") /\ UNCHANGED <<run, fn>>
       ELSE /\ Goto(t, "reading")
            /\ run' = [run EXCEPT ![t] = "running"]
            /\ Enter(t, "none")
    /\ UNCHANGED <<count, owner, wait, spin, free, state, killed>>

ReadWoken(t) ==
    /\ At(t, "r_sleep")
    /\ run[t] = "running"
    /\ Goto(t, "r_state")
    /\ UNCHANGED <<count, owner, wait, spin, local, run, killed>>

------------------------------------------------------------------------------
\* __rwsem_down_write_failed_common()

\* Undo the write bias of the fast path.
WriteUndo(t) ==
    /\ At(t, "w_undo")
    /\ count' = count - WriteBias
    /\ Goto(t, "can_spin")
    /\ UNCHANGED <<owner, wait, spin, local, run, killed>>

\* rwsem_optimistic_spin().  Whether the owner runs on a CPU, whether a
\* reschedule is due and whether the task is a real-time one are free choices.

\* rwsem_can_spin_on_owner(), and the entry into the queue of spinners.
CanSpin(t) ==
    /\ At(t, "can_spin")
    /\ \/ /\ owner # NoTask \/ Active(count) = 0
          /\ Goto(t, "osq_wait")
       \/ Goto(t, "w_failed")
    /\ UNCHANGED <<count, owner, wait, spin, local, run, killed>>

OsqTurn(t) ==
    /\ At(t, "osq_wait")
    /\ osq = NoTask
    /\ osq' = t
    /\ Goto(t, "spin")
    /\ UNCHANGED <<count, owner, wait, seen, local, run, killed>>

OsqGiveUp(t) ==
    /\ At(t, "osq_wait")
    /\ Goto(t, "w_failed")
    /\ UNCHANGED <<count, owner, wait, spin, local, run, killed>>

SpinReadOwner(t) ==
    /\ At(t, "spin")
    /\ seen' = [seen EXCEPT ![t] = owner]
    /\ Goto(t, IF owner = NoTask THEN "try" ELSE "on_owner")
    /\ UNCHANGED <<count, owner, wait, osq, local, run, killed>>

\* The end of rwsem_optimistic_spin(), osq_unlock() included.
LeaveSpin(t, p) ==
    /\ osq' = NoTask
    /\ seen' = [seen EXCEPT ![t] = NoTask]
    /\ Goto(t, p)

\* rwsem_spin_on_owner(): the owner sleeps or a reschedule is due.
OwnerSleeps(t) ==
    /\ At(t, "on_owner")
    /\ owner = seen[t]
    /\ LeaveSpin(t, "w_failed")
    /\ UNCHANGED <<count, owner, wait, local, run, killed>>

OwnerChanged(t) ==
    /\ At(t, "on_owner")
    /\ owner # seen[t]
    /\ Goto(t, IF owner = NoTask THEN "on_count" ELSE "try")
    /\ UNCHANGED <<count, owner, wait, spin, local, run, killed>>

OwnerGone(t) ==
    /\ At(t, "on_count")
    /\ IF count \in {0, WaitingBias}
       THEN Goto(t, "try") /\ UNCHANGED spin
       ELSE LeaveSpin(t, "w_failed")
    /\ UNCHANGED <<count, owner, wait, local, run, killed>>

\* rwsem_try_write_lock_unqueued()
TryUnqueued(t) ==
    /\ At(t, "try")
    /\ count \in {0, WaitingBias}
    /\ count' = count + WriteBias
    /\ Goto(t, "spin_owner")
    /\ UNCHANGED <<owner, wait, spin, local, run, killed>>

TryFails(t) ==
    /\ At(t, "try")
    /\ count \notin {0, WaitingBias}
    /\ \/ Goto(t, "spin") /\ UNCHANGED spin
       \/ seen[t] = NoTask /\ LeaveSpin(t, "w_failed")
    /\ UNCHANGED <<count, owner, wait, local, run, killed>>

SpinSetOwner(t) ==
    /\ At(t, "spin_owner")
    /\ owner' = t
    /\ LeaveSpin(t, "w_owner")
    /\ UNCHANGED <<count, wait, local, run, killed>>

\* The spinning failed: the task queues itself.
WriteFailed(t) ==
    /\ At(t, "w_failed")
    /\ wait_lock = NoTask
    /\ wait_lock' = t
    /\ wait_list' = list_add_tail(wait_list, t)
    /\ count' = IF wait_list = <<>> THEN count + WaitingBias ELSE count
    /\ free' = [free EXCEPT ![t] = count' = WaitingBias]
    /\ Goto(t, IF wait_list # <<>> /\ count > WaitingBias THEN "do_wake" ELSE "w_state")
    /\ Enter(t, "write_failed")
    /\ UNCHANGED <<owner, spin, state, run, killed>>

WriteSetState(t) ==
    /\ At(t, "w_state")
    /\ run' = [run EXCEPT ![t] = state[t]]
    /\ Goto(t, "w_try")
    /\ UNCHANGED <<count, owner, wait, spin, local, killed>>

\* The lock is taken: back to TASK_RUNNING and off the list.
Acquired(t) ==
    /\ owner' = t
    /\ wait_list' = list_del(wait_list, t)
    /\ wait_lock' = NoTask
    /\ run' = [run EXCEPT ![t] = "running"]
    /\ free' = [free EXCEPT ![t] = FALSE]
    /\ Enter(t, "none")
    /\ Goto(t, "w_owner")

\* rwsem_try_write_lock(): the cmpxchg leaves no waiting bias, which a second
\* atomic operation puts back if others are queued.
WriteTry(t) ==
    /\ At(t, "w_try")
    /\ free[t] /\ count = WaitingBias
    /\ count' = WriteBias
    /\ IF Len(wait_list) = 1
       THEN Acquired(t)
       ELSE Goto(t, "w_bias") /\ UNCHANGED <<owner, wait, fn, free, run>>
    /\ UNCHANGED <<spin, state, killed>>

WriteAddBias(t) ==
    /\ At(t, "w_bias")
    /\ count' = count + WaitingBias
    /\ Acquired(t)
    /\ UNCHANGED <<spin, state, killed>>

WriteTryFails(t) ==
    /\ At(t, "w_try")
    /\ ~(free[t] /\ count = WaitingBias)
    /\ wait_lock' = NoTask
    /\ Goto(t, "w_loop")
    /\ UNCHANGED <<count, owner, wait_list, spin, local, run, killed>>

\* The loop that blocks until there are no active lockers.
WriteLoop(t) ==
    /\ At(t, "w_loop")
    /\ Goto(t, IF state[t] = "killable" /\ t \in killed THEN "w_intr" ELSE "w_sleep")
    /\ UNCHANGED <<count, owner, wait, spin, local, run, killed>>

WriteWoken(t) ==
    /\ At(t, "w_sleep")
    /\ run[t] = "running"
    /\ run' = [run EXCEPT ![t] = state[t]]
    /\ Goto(t, "w_read")
    /\ UNCHANGED <<count, owner, wait, spin, local, killed>>

WriteReadCount(t) ==
    /\ At(t, "w_read")
    /\ free' = [free EXCEPT ![t] = count = WaitingBias]
    /\ Goto(t, IF Active(count) # 0 THEN "w_loop" ELSE "w_relock")
    /\ UNCHANGED <<count, owner, wait, spin, fn, state, run, killed>>

WriteRelock(t) ==
    /\ At(t, "w_relock")
    /\ wait_lock = NoTask
    /\ wait_lock' = t
    /\ Goto(t, "w_try")
    /\ UNCHANGED <<count, owner, wait_list, spin, local, run, killed>>

\* -EINTR: the waiter leaves the list, and that is all.
WriteInterrupted(t) ==
    /\ At(t, "w_intr")
    /\ wait_lock = NoTask
    /\ wait_list' = list_del(wait_list, t)
    /\ run' = [run EXCEPT ![t] = "running"]
    /\ free' = [free EXCEPT ![t] = FALSE]
    /\ Enter(t, "none")
    /\ Goto(t, "out")
    /\ UNCHANGED <<count, owner, wait_lock, spin, state, killed>>

------------------------------------------------------------------------------
\* rwsem_wake() and rwsem_downgrade_wake()

\* osq_is_locked()
HasSpinner == \E t \in Tasks : pc[t] \in {"osq_wait", "spin", "on_owner", "on_count",
                                          "try", "spin_owner"}

WakeLookForSpinner(t) ==
    /\ At(t, "wake")
    /\ Goto(t, IF HasSpinner THEN "wake_trylock" ELSE "wake_lock")
    /\ UNCHANGED <<count, owner, wait, spin, local, run, killed>>

WakeTrylockFails(t) ==
    /\ At(t, "wake_trylock")
    /\ wait_lock # NoTask
    /\ Goto(t, "out")
    /\ UNCHANGED <<count, owner, wait, spin, local, run, killed>>

\* With wait_lock taken, wake if the list is not empty.
WakeIfWaiters(t, f, p) ==
    /\ wait_lock = NoTask
    /\ IF wait_list # <<>>
       THEN Goto(t, "do_wake") /\ wait_lock' = t /\ Enter(t, f)
       ELSE Goto(t, p) /\ UNCHANGED <<wait_lock, fn>>
    /\ UNCHANGED <<count, owner, wait_list, spin, free, state, run, killed>>

WakeLocked(t) ==
    /\ pc[t] \in {"wake_trylock", "wake_lock"}
    /\ WakeIfWaiters(t, "wake", "out")

DowngradeWake(t) ==
    /\ At(t, "downgrade_wake")
    /\ WakeIfWaiters(t, "downgrade_wake", "reading")

------------------------------------------------------------------------------
\* A fatal signal; it wakes a task that sleeps in TASK_KILLABLE.
Kill(t) ==
    /\ t \notin killed
    /\ Cardinality(killed) < MaxKilled
    /\ killed' = killed \cup {t}
    /\ run' = [run EXCEPT ![t] = signal_wake_up(@, "kill")]
    /\ UNCHANGED <<count, owner, wait, spin, pc, local>>

StrayWakeUp(t) ==
    /\ run[t] # "running"
    /\ run' = [run EXCEPT ![t] = "running"]
    /\ UNCHANGED <<count, owner, wait, spin, pc, local, killed>>

Call(t) ==
    \/ DownRead(t) \/ DownReadTrylock(t)
    \/ DownWriteTrylock(t) \/ \E st \in WriteStates : DownWrite(t, st)

Step(t) ==
    \/ SetOwner(t) \/ UpRead(t) \/ ClearOwner(t) \/ UpWrite(t) \/ DowngradeWrite(t)
    \/ WakeWriter(t) \/ TryReaderGrant(t) \/ UndoGrant(t) \/ GrantReaders(t)
    \/ ReadFailed(t) \/ ReadSetState(t) \/ ReadCheck(t) \/ ReadWoken(t)
    \/ WriteUndo(t) \/ CanSpin(t) \/ OsqTurn(t) \/ OsqGiveUp(t) \/ SpinReadOwner(t)
    \/ OwnerSleeps(t) \/ OwnerChanged(t) \/ OwnerGone(t) \/ TryUnqueued(t)
    \/ TryFails(t) \/ SpinSetOwner(t)
    \/ WriteFailed(t) \/ WriteSetState(t) \/ WriteTry(t) \/ WriteAddBias(t)
    \/ WriteTryFails(t) \/ WriteLoop(t) \/ WriteWoken(t) \/ WriteReadCount(t)
    \/ WriteRelock(t) \/ WriteInterrupted(t)
    \/ WakeLookForSpinner(t) \/ WakeTrylockFails(t) \/ WakeLocked(t) \/ DowngradeWake(t)

Next == \E t \in Tasks : Call(t) \/ Step(t) \/ Kill(t) \/ StrayWakeUp(t)

Spec == Init /\ [][Next]_vars

\* Runnable tasks are scheduled, holders release, and wait_lock, a ticket
\* spinlock, is granted in the end to everyone who spins on it.
Fairness ==
    \A t \in Tasks :
        /\ WF_vars(Step(t))
        /\ SF_vars(ReadFailed(t)) /\ SF_vars(WriteFailed(t)) /\ SF_vars(WriteRelock(t))
        /\ SF_vars(WriteInterrupted(t)) /\ SF_vars(WakeLocked(t)) /\ SF_vars(DowngradeWake(t))

FairSpec == Spec /\ Fairness

------------------------------------------------------------------------------
PCs == {"out", "r_failed", "r_state", "r_check", "r_sleep", "reading",
        "w_undo", "can_spin", "osq_wait", "spin", "on_owner", "on_count", "try",
        "spin_owner", "w_failed", "w_state", "w_try", "w_bias", "w_loop", "w_sleep",
        "w_read", "w_relock", "w_intr", "w_owner", "writing", "up_write", "downgrade",
        "wake", "wake_trylock", "wake_lock", "downgrade_wake",
        "do_wake", "undo_grant", "grant"}

\* Each variable has the values that rwsem.h and rwsem-xadd.c give it; the state a
\* writer sleeps in is the one its down_write*() function passes on.
TypeOK ==
    /\ count \in Int
    /\ owner \in Tasks \cup {NoTask}
    /\ wait_lock \in Tasks \cup {NoTask}
    /\ wait_list \in Seq(Tasks)
    /\ osq \in Tasks \cup {NoTask}
    /\ pc \in [Tasks -> PCs]
    /\ fn \in [Tasks -> {"none", "read_failed", "write_failed", "wake", "downgrade_wake"}]
    /\ seen \in [Tasks -> Tasks \cup {NoTask}]
    /\ free \in [Tasks -> BOOLEAN]
    /\ state \in [Tasks -> {"uninterruptible", "killable"}]
    /\ run \in [Tasks -> RunStates]
    /\ killed \subseteq Tasks

Queued(t) == t \in Range(wait_list)

\* A task in __rwsem_do_wake() that was called by function f.
Waking(t, f) == pc[t] \in {"do_wake", "undo_grant", "grant"} /\ fn[t] = f

\* The tasks that hold the semaphore: a writer from the atomic operation that
\* gets it to the one that gives it up, a reader also from the moment it is
\* granted the lock while it waits.
Writers == {t \in Tasks : pc[t] \in {"spin_owner", "w_bias", "w_owner", "writing",
                                     "up_write", "downgrade"}}
Readers == {t \in Tasks : \/ pc[t] \in {"reading", "downgrade_wake"}
                          \/ Waking(t, "downgrade_wake")
                          \/ pc[t] \in {"r_state", "r_check", "r_sleep"} /\ ~Queued(t)
                          \/ Waking(t, "read_failed") /\ ~Queued(t)}

\* A writer holds the semaphore alone, whatever mix of fast paths, stealing,
\* spinning, reader grants and downgrades the tasks got there by.
WritersExclude ==
    \A w \in Writers : Writers = {w} /\ Readers = {}

\* The guide to the count field at the top of rwsem-xadd.c, as an equation: a
\* bias for every active or attempting task, and one waiting bias exactly when
\* tasks are queued (a writer that has just taken the lock adds it back).
CountGuide ==
    LET attempting == {t \in Tasks : pc[t] = "r_failed"}
        granting == {t \in Tasks : \/ pc[t] = "undo_grant"
                                   \/ pc[t] = "grant" /\ fn[t] # "downgrade_wake"}
        undoing == {t \in Tasks : pc[t] = "w_undo"}
        waiting == wait_list # <<>> /\ \A t \in Tasks : pc[t] # "w_bias"
    IN  count = Cardinality(Readers) + Cardinality(attempting) + Cardinality(granting)
                + WriteBias * (Cardinality(Writers) + Cardinality(undoing))
                + (IF waiting THEN WaitingBias ELSE 0)

\* The guide holds as long as no writer is killed: the -EINTR path of
\* __rwsem_down_write_failed_common() leaves the waiting bias behind.
CountFollowsGuide == killed = {} => CountGuide

\* A queued writer that will look at the count before it sleeps (again).
WillTry(t) ==
    /\ Queued(t) /\ ~IsReader(t)
    /\ \/ run[t] = "running"
       \/ pc[t] = "w_read"
       \/ pc[t] \in {"w_state", "w_try", "w_relock"} /\ free[t]

\* No lost wake-up, the argument of the comment in rwsem_wake(): when tasks are
\* queued and the semaphore is free, some task is going to try to take it or to
\* wake the front of the queue.
NoLostWakeUp ==
    wait_list # <<>> /\ Active(count) = 0 =>
        \E t \in Tasks :
            \/ WillTry(t)
            \/ pc[t] \in {"wake", "wake_lock", "wake_trylock", "do_wake", "undo_grant"}
            \/ pc[t] \in {"can_spin", "osq_wait", "spin", "on_owner", "on_count", "try",
                          "w_failed"}

\* No wake-up is lost as long as no writer is killed: the -EINTR path wakes nobody.
WakeUpsKept == killed = {} => NoLostWakeUp

\* From some point on nobody calls a lock function.
CallsStop == <>[][\A t \in Tasks : ~Call(t)]_vars

\* Every queued task gets the lock once new callers stop taking it first
\* (writers steal it from the queue).
WaitersServed ==
    CallsStop => \A t \in Tasks :
        pc[t] \in {"r_sleep", "w_sleep"} ~> pc[t] \in {"reading", "writing", "out"}
==============================================================================
