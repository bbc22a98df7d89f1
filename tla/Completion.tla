------------------------------ MODULE Completion ------------------------------
(***************************************************************************)
(* The completion of kernel/sched/completion.c: a counter of events and a  *)
(* queue of exclusive waiters under one spinlock.                          *)
(*                                                                         *)
(* The sections of the waiters under wait.lock are one step each, taken    *)
(* while no complete() is inside its own section.  The section of          *)
(* complete() is two steps, because completion_done() looks at the counter *)
(* without the lock and may see it raised while complete() still uses the  *)
(* structure.                                                              *)
(***************************************************************************)
EXTENDS TaskState, FiniteSets

CONSTANTS Waiters,    \* the tasks that call the wait functions
          Completers, \* the contexts that call complete() and complete_all()
          Nobody,     \* no context holds wait.lock
          Modulus,    \* done is an unsigned int: it wraps at Modulus
          MaxCalls,   \* bound: calls of complete() and complete_all()
          MaxWaits    \* bound: calls of the wait functions

ASSUME CompletionAssumption ==
    /\ IsFiniteSet(Waiters) /\ Nobody \notin Completers
    /\ Modulus \in Nat /\ MaxCalls \in Nat /\ MaxWaits \in Nat
    /\ Modulus > 2 * (MaxCalls + MaxWaits) + 2

VARIABLES done,        \* x->done
          lock,        \* the context inside complete*() that holds wait.lock
          wait,        \* x->wait, the queued waiters in order
          all,         \* the complete() in progress is a complete_all()
          pc,          \* "out", "sleep" (in the action), "polled" or "done"
          sleep_state, \* the state argument of the wait in progress
          timed,       \* the waiters whose timeout is finite
          expired,     \* the waiters whose timeout is used up
          run,         \* task->state
          sig,         \* the pending signal of each waiter
          freed,       \* the structure that holds the completion was freed
          open,        \* complete_all() was called since the last reinit
          calls, waits \* calls made so far

vars == <<done, lock, wait, all, pc, sleep_state, timed, expired, run, sig,
          freed, open, calls, waits>>
waitVars == <<pc, sleep_state, timed, expired, sig>>

UINT_MAX == Modulus - 1

\* init_completion().
Init ==
    /\ done = 0 /\ lock = Nobody /\ wait = <<>> /\ all = FALSE
    /\ pc = [t \in Waiters |-> "out"]
    /\ sleep_state = [t \in Waiters |-> "uninterruptible"]
    /\ timed = {} /\ expired = {}
    /\ run = [t \in Waiters |-> "running"]
    /\ sig = [t \in Waiters |-> "none"]
    /\ freed = FALSE /\ open = FALSE /\ calls = 0 /\ waits = 0

Asleep == {t \in Waiters : run[t] # "running"}

------------------------------------------------------------------------------
\* Faulty: an exclusive wake-up that is spent on a waiter already awake.
WakeUpLockedFirst(nr_exclusive) ==
    run' = [t \in Waiters |->
              IF t \in Range(wait) /\ (nr_exclusive = 1 => t = Head(wait))
              THEN "running" ELSE run[t]]

\* __wake_up_locked() with TASK_NORMAL: only a waiter that try_to_wake_up()
\* really wakes counts against nr_exclusive, and 0 wakes them all.
WakeUpLocked(nr_exclusive) ==
    LET first == CHOOSE t \in Asleep :
                    \A i, j \in DOMAIN wait :
                        wait[i] = t /\ wait[j] \in Asleep => i <= j
    IN  run' = [t \in Waiters |->
                  IF t \in Asleep /\ (nr_exclusive = 1 => t = first)
                  THEN "running" ELSE run[t]]

\* complete() and complete_all() take wait.lock and raise done ...
Complete(c, a) ==
    /\ lock = Nobody /\ ~freed
    /\ calls < MaxCalls
    /\ calls' = calls + 1
    /\ lock' = c
    /\ all' = a
    /\ open' = (open \/ a)
    /\ done' = (done + (IF a THEN UINT_MAX \div 2 ELSE 1)) % Modulus
    /\ UNCHANGED <<wait, waitVars, run, freed, waits>>

\* Faulty: complete_all() wakes one waiter.
CompleteWakeOne(c) ==
    /\ lock = c
    /\ WakeUpLocked(1)
    /\ lock' = Nobody
    /\ all' = FALSE
    /\ UNCHANGED <<done, wait, waitVars, freed, open, calls, waits>>

\* ... then wake one waiter or all of them, and drop the lock.
CompleteWake(c) ==
    /\ lock = c
    /\ WakeUpLocked(IF all THEN 0 ELSE 1)
    /\ lock' = Nobody
    /\ all' = FALSE
    /\ UNCHANGED <<done, wait, waitVars, freed, open, calls, waits>>

------------------------------------------------------------------------------
\* The end of do_wait_for_common(), with the waiter on no list: an event that
\* is there is taken even when the timeout or a signal ended the sleep.
Leave(t) ==
    /\ IF done = 0
       THEN pc' = [pc EXCEPT ![t] = "out"] /\ UNCHANGED done
       ELSE pc' = [pc EXCEPT ![t] = "done"] /\ done' = done - 1
    /\ sleep_state' = [sleep_state EXCEPT ![t] = "uninterruptible"]
    /\ timed' = timed \ {t}
    /\ expired' = expired \ {t}

\* A wait function called while done is not 0, or try_wait_for_completion()
\* that succeeds; one that fails changes nothing.
WaitTakes(t) ==
    /\ pc[t] \in {"out", "done"} /\ lock = Nobody /\ ~freed
    /\ waits < MaxWaits
    /\ waits' = waits + 1
    /\ done # 0
    /\ Leave(t)
    /\ UNCHANGED <<lock, wait, all, run, sig, freed, open, calls>>

\* A wait function called while done is 0 queues itself and sleeps, unless a
\* signal is pending, which takes it off the queue again with -ERESTARTSYS.
WaitQueues(t, st, finite) ==
    /\ pc[t] \in {"out", "done"} /\ lock = Nobody /\ ~freed
    /\ waits < MaxWaits
    /\ waits' = waits + 1
    /\ done = 0
    /\ IF signal_pending_state(st, sig[t])
       THEN Leave(t) /\ UNCHANGED <<wait, run>>
       ELSE /\ wait' = list_add_tail(wait, t)
            /\ pc' = [pc EXCEPT ![t] = "sleep"]
            /\ sleep_state' = [sleep_state EXCEPT ![t] = st]
            /\ timed' = IF finite THEN timed \cup {t} ELSE timed
            /\ run' = [run EXCEPT ![t] = st]
            /\ UNCHANGED <<done, expired>>
    /\ UNCHANGED <<lock, all, sig, freed, open, calls>>

\* The sleep ends and the lock is taken: the waiter leaves the queue when there
\* is an event, when its time is up or when a signal is pending, and otherwise
\* sleeps again in its place of the queue.
WaitWoken(t) ==
    /\ pc[t] = "sleep" /\ run[t] = "running" /\ lock = Nobody
    /\ IF done # 0 \/ t \in expired \/ signal_pending_state(sleep_state[t], sig[t])
       THEN /\ wait' = list_del(wait, t)
            /\ Leave(t)
            /\ UNCHANGED run
       ELSE /\ run' = [run EXCEPT ![t] = sleep_state[t]]
            /\ UNCHANGED <<wait, done, pc, sleep_state, timed, expired>>
    /\ UNCHANGED <<lock, all, sig, freed, open, calls, waits>>

\* What completion_done() returns when the lock is free.
completion_done == done # 0

\* completion_done() reads done without the lock; a 0 ends the call.
PollDone(t) ==
    /\ pc[t] \in {"out", "done"} /\ ~freed
    /\ completion_done
    /\ pc' = [pc EXCEPT ![t] = "polled"]
    /\ UNCHANGED <<done, lock, wait, all, sleep_state, timed, expired, run, sig,
                   freed, open, calls, waits>>

\* Faulty: completion_done() returns without waiting for the lock.
PollUnlockedAtOnce(t) ==
    /\ pc[t] = "polled"
    /\ pc' = [pc EXCEPT ![t] = "done"]
    /\ UNCHANGED <<done, lock, wait, all, sleep_state, timed, expired, run, sig,
                   freed, open, calls, waits>>

\* spin_unlock_wait(): completion_done() returns true once the lock is free.
PollUnlocked(t) ==
    /\ pc[t] = "polled" /\ lock = Nobody
    /\ pc' = [pc EXCEPT ![t] = "done"]
    /\ UNCHANGED <<done, lock, wait, all, sleep_state, timed, expired, run, sig,
                   freed, open, calls, waits>>

\* reinit_completion() is a plain store; callers make sure that nobody is in a
\* complete() or a wait function.
Reinit ==
    /\ lock = Nobody /\ ~freed /\ wait = <<>>
    /\ done # 0 \/ open
    /\ done' = 0
    /\ open' = FALSE
    /\ UNCHANGED <<lock, wait, all, waitVars, run, freed, calls, waits>>

\* The user of a completion for one event, often on its stack, frees it when it
\* knows of the event, no other event comes and no other task is in a call.
Free(t) ==
    /\ calls = 1 /\ ~freed
    /\ pc[t] = "done"
    /\ \A u \in Waiters \ {t} : pc[u] \in {"out", "done"}
    /\ freed' = TRUE
    /\ UNCHANGED <<done, lock, wait, all, waitVars, run, open, calls, waits>>

------------------------------------------------------------------------------
\* The timer of schedule_timeout() fires.
Timeout(t) ==
    /\ pc[t] = "sleep" /\ t \in timed \ expired
    /\ expired' = expired \cup {t}
    /\ run' = [run EXCEPT ![t] = "running"]
    /\ UNCHANGED <<done, lock, wait, all, pc, sleep_state, timed, sig, freed,
                   open, calls, waits>>

\* A signal becomes pending, and is gone when the task is back in user mode.
Signal(t, s) ==
    /\ sig[t] = "none" /\ pc[t] \in {"sleep", "out"}
    /\ sig' = [sig EXCEPT ![t] = s]
    /\ run' = [run EXCEPT ![t] = signal_wake_up(@, s)]
    /\ UNCHANGED <<done, lock, wait, all, pc, sleep_state, timed, expired, freed,
                   open, calls, waits>>

SignalHandled(t) ==
    /\ pc[t] \in {"out", "done"} /\ sig[t] # "none"
    /\ sig' = [sig EXCEPT ![t] = "none"]
    /\ UNCHANGED <<done, lock, wait, all, pc, sleep_state, timed, expired, run,
                   freed, open, calls, waits>>

Next ==
    \/ \E c \in Completers :
          \/ \E a \in BOOLEAN : Complete(c, a)
          \/ CompleteWake(c)
    \/ \E t \in Waiters :
          \/ WaitTakes(t)
          \/ \E st \in SleepStates, finite \in BOOLEAN : WaitQueues(t, st, finite)
          \/ WaitWoken(t)
          \/ PollDone(t) \/ PollUnlocked(t)
          \/ Free(t)
          \/ Timeout(t) \/ SignalHandled(t)
          \/ \E s \in Signals \ {"none"} : Signal(t, s)
    \/ Reinit

Spec == Init /\ [][Next]_vars

\* A runnable waiter is scheduled and gets the spinlock, and a complete() that
\* holds the spinlock goes on.
Fairness ==
    /\ \A t \in Waiters : SF_vars(WaitWoken(t)) /\ SF_vars(PollUnlocked(t))
    /\ \A c \in Completers : WF_vars(CompleteWake(c))

FairSpec == Spec /\ Fairness

------------------------------------------------------------------------------
\* Each variable has the values that the code gives it; done is an unsigned int.
TypeOK ==
    /\ done \in 0..UINT_MAX
    /\ lock \in Completers \cup {Nobody}
    /\ wait \in Seq(Waiters)
    /\ pc \in [Waiters -> {"out", "sleep", "polled", "done"}]
    /\ sleep_state \in [Waiters -> SleepStates]
    /\ timed \subseteq Waiters /\ expired \subseteq timed
    /\ run \in [Waiters -> RunStates]
    /\ sig \in [Waiters -> Signals]
    /\ {all, freed, open} \subseteq BOOLEAN
    /\ calls \in 0..MaxCalls /\ waits \in 0..MaxWaits

\* No event is stranded: whenever wait.lock is free, at least as many queued
\* waiters are awake, and will look at done, as there are events to take, or no
\* waiter sleeps.  A barging wait function may take the event of a woken waiter,
\* a timed out one may take an event meant for another; neither may leave a
\* sleeper behind with an event nobody looks at.
NoStrandedEvent ==
    lock = Nobody /\ Asleep # {} =>
        done <= Cardinality({t \in Waiters : pc[t] = "sleep"} \ Asleep)

\* A completion that its user frees, after a successful wait or a true
\* completion_done(), is no longer used by the complete() that posted the event.
FreedIsUnused == freed => lock = Nobody /\ wait = <<>>

\* complete_all() lets everybody go: until reinit_completion(), a task in a wait
\* function leaves it.
AllAreReleased ==
    \A t \in Waiters : (open /\ pc[t] = "sleep") ~> pc[t] # "sleep"
==============================================================================
