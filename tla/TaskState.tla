------------------------------ MODULE TaskState ------------------------------
(***************************************************************************)
(* What the sleeping locks use of the scheduler and of list.h: the run     *)
(* state of a task, the signals that end a sleep, and the doubly linked    *)
(* list of waiters, which is the sequence of its entries from head->next   *)
(* to head->prev.                                                          *)
(***************************************************************************)
EXTENDS Integers, Sequences, Functions

\* task->state.  A task in a state other than running is asleep as soon as it
\* is in schedule(); a wake-up before that makes schedule() return at once, so
\* the two are one state here.
SleepStates == {"interruptible", "uninterruptible", "killable"}
RunStates == SleepStates \cup {"running"}

\* Pending signals: none, one that only ends an interruptible sleep, or one
\* that is fatal and ends a killable sleep too.
Signals == {"none", "signal", "kill"}

signal_pending_state(state, sig) ==
    \/ state = "interruptible" /\ sig # "none"
    \/ state = "killable" /\ sig = "kill"

\* signal_wake_up(): the run state of a task in state s after sig reaches it.
signal_wake_up(s, sig) == IF signal_pending_state(s, sig) THEN "running" ELSE s

list_add_tail(l, e) == Append(l, e)

list_del(l, e) ==
    LET i == CHOOSE j \in DOMAIN l : l[j] = e
    IN  SubSeq(l, 1, i - 1) \o SubSeq(l, i + 1, Len(l))
==============================================================================
