------------------------------ MODULE Semaphore ------------------------------
(***************************************************************************)
(* The counting semaphore of kernel/locking/semaphore.c.                   *)
(*                                                                         *)
(* Everything between taking and dropping sem->lock is one step: the lock  *)
(* is a raw spinlock taken with interrupts off, and __down_common() drops  *)
(* it only around schedule_timeout().  A task is therefore outside the     *)
(* semaphore, asleep in __down_common(), or the owner of a unit.           *)
(***************************************************************************)
EXTENDS TaskState, FiniteSets

CONSTANTS Tasks,       \* the tasks that call down*() and up()
          InitCount,   \* sema_init(sem, InitCount)
          MaxExtraUps  \* bound: calls of up() by contexts that never called down()

ASSUME SemaphoreAssumption ==
    /\ IsFiniteSet(Tasks)
    /\ InitCount \in Nat
    /\ MaxExtraUps \in Nat

VARIABLES count,       \* sem->count
          wait_list,   \* sem->wait_list, the waiters in FIFO order
          up_flag,     \* the tasks whose waiter.up is true
          expired,     \* the tasks whose remaining timeout is 0
          pc,          \* "out", "sleep" (in schedule_timeout) or "own"
          sleep_state, \* the state argument of the __down_common() in progress
          timed,       \* the tasks whose timeout argument is finite
          run,         \* task->state
          sig,         \* the pending signal of each task
          extra_ups    \* calls of up() made without a down()

vars == <<count, wait_list, up_flag, expired, pc, sleep_state, timed, run, sig,
          extra_ups>>

taskVars == <<sleep_state, timed>>

Init ==
    /\ count = InitCount
    /\ wait_list = <<>>
    /\ up_flag = {}
    /\ expired = {}
    /\ pc = [t \in Tasks |-> "out"]
    /\ sleep_state = [t \in Tasks |-> "uninterruptible"]
    /\ timed = {}
    /\ run = [t \in Tasks |-> "running"]
    /\ sig = [t \in Tasks |-> "none"]
    /\ extra_ups = 0

------------------------------------------------------------------------------
\* One pass of the for (;;) of __down_common() with the waiter on the list l,
\* in state st, and "zero" saying that the timeout is used up: a pending signal
\* (-EINTR) is looked at before the timeout (-ETIME), and either takes the
\* waiter off the list.
WaitOrFail(t, l, st, zero) ==
    IF signal_pending_state(st, sig[t]) \/ zero
    THEN /\ wait_list' = list_del(l, t)
         /\ pc' = [pc EXCEPT ![t] = "out"]
         /\ expired' = expired \ {t}
         /\ UNCHANGED run
    ELSE /\ wait_list' = l
         /\ pc' = [pc EXCEPT ![t] = "sleep"]
         /\ run' = [run EXCEPT ![t] = st]
         /\ UNCHANGED expired

\* The uncontended half of the five down functions.
TakeUnit(t) ==
    /\ pc[t] = "out"
    /\ count > 0
    /\ count' = count - 1
    /\ pc' = [pc EXCEPT ![t] = "own"]
    /\ UNCHANGED <<wait_list, up_flag, expired, taskVars, run, sig, extra_ups>>

\* The contended half: __down(), __down_interruptible(), __down_killable() and
\* __down_timeout() differ in the state and in whether there is a timeout,
\* which a caller of down_timeout() may pass as 0.
QueueWaiter(t, st, finite, zero) ==
    /\ pc[t] = "out"
    /\ ~(count > 0)
    /\ zero => finite
    /\ finite => st = "uninterruptible"
    /\ sleep_state' = [sleep_state EXCEPT ![t] = st]
    /\ timed' = IF finite THEN timed \cup {t} ELSE timed \ {t}
    /\ up_flag' = up_flag \ {t}
    /\ WaitOrFail(t, list_add_tail(wait_list, t), st, zero)
    /\ UNCHANGED <<count, sig, extra_ups>>

\* down_trylock() that finds no unit returns 1 and changes nothing; one that
\* finds a unit is TakeUnit.

\* Faulty: the timeout is looked at before waiter.up.
ReturnTimeoutFirst(t) ==
    /\ pc[t] = "sleep"
    /\ run[t] = "running"
    /\ IF t \in up_flag
       THEN /\ pc' = [pc EXCEPT ![t] = IF t \in expired THEN "out" ELSE "own"]
            /\ up_flag' = up_flag \ {t}
            /\ expired' = expired \ {t}
            /\ UNCHANGED <<wait_list, run>>
       ELSE /\ WaitOrFail(t, wait_list, sleep_state[t], t \in expired)
            /\ UNCHANGED up_flag
    /\ UNCHANGED <<count, taskVars, sig, extra_ups>>

\* schedule_timeout() returns and sem->lock is taken again.  waiter.up is looked
\* at first, so a unit handed over while the sleep timed out or was interrupted
\* is kept.
ReturnFromSchedule(t) ==
    /\ pc[t] = "sleep"
    /\ run[t] = "running"
    /\ IF t \in up_flag
       THEN /\ pc' = [pc EXCEPT ![t] = "own"]
            /\ up_flag' = up_flag \ {t}
            /\ expired' = expired \ {t}
            /\ UNCHANGED <<wait_list, run>>
       ELSE /\ WaitOrFail(t, wait_list, sleep_state[t], t \in expired)
            /\ UNCHANGED up_flag
    /\ UNCHANGED <<count, taskVars, sig, extra_ups>>

\* Faulty: the count is raised and the waiters are left to find out.
ReleaseNoHandOver ==
    /\ count' = count + 1
    /\ UNCHANGED <<wait_list, up_flag, run>>

\* Faulty: the unit is handed over without a wake-up.
ReleaseNoWake ==
    /\ UNCHANGED run
    /\ IF wait_list = <<>>
       THEN /\ count' = count + 1
            /\ UNCHANGED <<wait_list, up_flag>>
       ELSE /\ wait_list' = Tail(wait_list)
            /\ up_flag' = up_flag \cup {Head(wait_list)}
            /\ UNCHANGED count

\* What up() does to the semaphore, whoever calls it: __up() hands the unit to
\* the first waiter instead of raising the count.
ReleaseUnit ==
    IF wait_list = <<>>
    THEN /\ count' = count + 1
         /\ UNCHANGED <<wait_list, up_flag, run>>
    ELSE /\ wait_list' = Tail(wait_list)
         /\ up_flag' = up_flag \cup {Head(wait_list)}
         /\ run' = [run EXCEPT ![Head(wait_list)] = "running"]
         /\ UNCHANGED count

\* up() by the owner of a unit.
Up(t) ==
    /\ pc[t] = "own"
    /\ ReleaseUnit
    /\ pc' = [pc EXCEPT ![t] = "out"]
    /\ UNCHANGED <<expired, taskVars, sig, extra_ups>>

\* up() by an interrupt or a task that owns nothing.
ExtraUp ==
    /\ extra_ups < MaxExtraUps
    /\ ReleaseUnit
    /\ extra_ups' = extra_ups + 1
    /\ UNCHANGED <<expired, pc, taskVars, sig>>

------------------------------------------------------------------------------
\* The timer of schedule_timeout() fires, or the jiffies have run out by the
\* time a task woken for another reason computes what is left.
Timeout(t) ==
    /\ pc[t] = "sleep"
    /\ t \in timed \ expired
    /\ expired' = expired \cup {t}
    /\ run' = [run EXCEPT ![t] = "running"]
    /\ UNCHANGED <<count, wait_list, up_flag, pc, taskVars, sig, extra_ups>>

\* A signal becomes pending; it is gone when the task is back in user mode.
Signal(t, s) ==
    /\ sig[t] = "none"
    /\ sig' = [sig EXCEPT ![t] = s]
    /\ run' = [run EXCEPT ![t] = signal_wake_up(@, s)]
    /\ UNCHANGED <<count, wait_list, up_flag, expired, pc, taskVars, extra_ups>>

SignalHandled(t) ==
    /\ pc[t] = "out"
    /\ sig[t] # "none"
    /\ sig' = [sig EXCEPT ![t] = "none"]
    /\ UNCHANGED <<count, wait_list, up_flag, expired, pc, taskVars, run, extra_ups>>

\* A wake-up meant for something the task waited for earlier.
StrayWakeUp(t) ==
    /\ run[t] # "running"
    /\ run' = [run EXCEPT ![t] = "running"]
    /\ UNCHANGED <<count, wait_list, up_flag, expired, pc, taskVars, sig, extra_ups>>

Next ==
    \/ \E t \in Tasks :
          \/ TakeUnit(t)
          \/ \E st \in SleepStates, finite, zero \in BOOLEAN :
                QueueWaiter(t, st, finite, zero)
          \/ ReturnFromSchedule(t)
          \/ Up(t)
          \/ Timeout(t)
          \/ \E s \in Signals \ {"none"} : Signal(t, s)
          \/ SignalHandled(t)
          \/ StrayWakeUp(t)
    \/ ExtraUp

Spec == Init /\ [][Next]_vars

\* A runnable task is scheduled, and an owner of a unit releases it in the end.
Fairness ==
    \A t \in Tasks : WF_vars(ReturnFromSchedule(t)) /\ WF_vars(Up(t))

FairSpec == Spec /\ Fairness

------------------------------------------------------------------------------
\* Owning a unit: it was taken, or handed over to a waiter that has not run yet.
Owners == {t \in Tasks : pc[t] = "own"} \cup up_flag

\* Each variable has the values that semaphore.c gives it; a count is never negative.
TypeOK ==
    /\ count \in Nat
    /\ wait_list \in Seq(Tasks)
    /\ up_flag \subseteq Tasks
    /\ expired \subseteq Tasks
    /\ pc \in [Tasks -> {"out", "sleep", "own"}]
    /\ sleep_state \in [Tasks -> SleepStates]
    /\ timed \subseteq Tasks
    /\ run \in [Tasks -> RunStates]
    /\ sig \in [Tasks -> Signals]
    /\ extra_ups \in 0..MaxExtraUps

\* Units are conserved: what is free and what is owned add up to what the
\* semaphore was created with and what up() added, whatever timeouts, signals
\* and hand-overs race in __down_common().
UnitsConserved == count + Cardinality(Owners) = InitCount + extra_ups

\* No task waits while a unit is free: up() raises the count only when the list
\* is empty, and a down function that finds a unit never queues.
NoWaitWhileFree == count > 0 => wait_list = <<>>

\* The waiter cells live on the stacks of the waiters: the list holds the cell
\* of a task exactly while that task is in __down_common() and has not been
\* handed a unit, and holds it once.
ListHoldsLiveWaiters ==
    /\ IsInjective(wait_list)
    /\ Range(wait_list) = {t \in Tasks : pc[t] = "sleep"} \ up_flag

\* A waiter that was handed a unit has been woken: no wake-up of __up() is lost
\* between the waiter setting its state and its sleeping.
HandedOverIsAwake == \A t \in up_flag : pc[t] = "sleep" /\ run[t] = "running"

\* Units are granted in FIFO order: a task becomes an owner only from the head
\* of the list, or when nobody waits.
GrantsInOrder ==
    [][\A t \in Tasks : t \in Owners' \ Owners =>
            wait_list = <<>> \/ Head(wait_list) = t]_vars

\* Every down function returns, if owners release what they own.
DownReturns == \A t \in Tasks : pc[t] = "sleep" ~> pc[t] # "sleep"
==============================================================================
