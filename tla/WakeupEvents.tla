----------------------------- MODULE WakeupEvents -----------------------------
(***************************************************************************)
(* Wakeup events, drivers/base/power/wakeup.c: wakeup sources that drivers *)
(* activate and relax; the packed counter of the events registered and in  *)
(* progress; the check that aborts a suspend.                              *)
(*                                                                         *)
(* Everything a source does runs under its ws->lock in one step, except    *)
(* that wakeup_source_deactivate() goes on to look at the counter and to   *)
(* wake the readers of /sys/power/wakeup_count after it has changed the    *)
(* counter.  The timer of a source is not modelled; what it does to the    *)
(* counter is a __pm_relax() at some later time.                           *)
(***************************************************************************)
EXTENDS Naturals, FiniteSets

CONSTANTS Sources,         \* the wakeup sources
          Readers,         \* the tasks that read the wakeup count
          MAX_IN_PROGRESS, \* 2^16 - 1, the range of the events in progress
          CntModulus       \* 2^16, the range of the events registered

ASSUME WakeupAssumption ==
    /\ IsFiniteSet(Sources)
    /\ MAX_IN_PROGRESS \in Nat /\ Cardinality(Sources) <= MAX_IN_PROGRESS
    /\ CntModulus \in Nat \ {0, 1}

VARIABLES combined_event_count,
          active,         \* ws->active
          unrelaxed,      \* ws->active_count - ws->relax_count
          ending,         \* the sources inside wakeup_source_deactivate()
          events_check_enabled, saved_count, pm_abort_suspend,
          wait_queue,     \* the readers on wakeup_count_wait_queue
          count,          \* the count each reader got
          reading,        \* the readers whose count is still to be used
          news            \* the readers with an event reported since they read

counters == <<combined_event_count, wait_queue>>
sourceVars == <<active, unrelaxed, ending>>
readVars == <<count, reading>>
checkVars == <<events_check_enabled, saved_count, pm_abort_suspend>>
wakeupVars == <<counters, sourceVars, readVars, checkVars, news>>

WInit ==
    /\ combined_event_count = 0
    /\ active = [s \in Sources |-> FALSE]
    /\ unrelaxed = [s \in Sources |-> 0]
    /\ ending = {}
    /\ events_check_enabled = FALSE
    /\ saved_count = 0
    /\ pm_abort_suspend = FALSE
    /\ wait_queue = {}
    /\ count = [t \in Readers |-> 0]
    /\ reading = {}
    /\ news = {}

\* split_counters()
cnt == combined_event_count \div (MAX_IN_PROGRESS + 1)
inpr == combined_event_count % (MAX_IN_PROGRESS + 1)

AddCombined(c, n) == (c + n) % ((MAX_IN_PROGRESS + 1) * CntModulus)

\* The bound on events: the 16 bits of the count of registered events do not come full
\* circle while a reading of it is still to be compared.
NoFullCircle == \A t \in reading : (cnt + inpr + 1) % CntModulus # count[t]

------------------------------------------------------------------------------
\* wakeup_source_report_event() on source s, whose lock is free: the counter after it,
\* and that every reader of the count has news to learn of.
Reported(s) ==
    IF active[s] THEN combined_event_count ELSE AddCombined(combined_event_count, 1)

Report(s) ==
    /\ s \notin ending
    /\ NoFullCircle
    /\ news' = reading

\* What wakeup_source_activate() leaves behind if the source was not active.
Activated(s) ==
    /\ active' = [active EXCEPT ![s] = TRUE]
    /\ unrelaxed' = [unrelaxed EXCEPT ![s] = IF active[s] THEN @ ELSE @ + 1]

__pm_stay_awake(s) ==
    /\ Report(s)
    /\ combined_event_count' = Reported(s)
    /\ Activated(s)
    /\ UNCHANGED <<wait_queue, ending, readVars, checkVars>>

\* atomic_add_return(MAX_IN_PROGRESS): one more registered, one less in progress.
Deactivated(c) == AddCombined(c, MAX_IN_PROGRESS)

\* wakeup_source_deactivate() up to the change of the counter, which was c before it, of
\* a source with n activations not relaxed.
Deactivate(s, c, n) ==
    /\ combined_event_count' = IF n = 1 THEN Deactivated(c) ELSE c
    /\ unrelaxed' = [unrelaxed EXCEPT ![s] = IF n = 1 THEN 0 ELSE n]
    /\ active' = [active EXCEPT ![s] = @ /\ n # 1]
    /\ ending' = IF n = 1 THEN ending \cup {s} ELSE ending

__pm_relax(s) ==
    /\ s \notin ending
    /\ active[s]
    /\ Deactivate(s, combined_event_count, unrelaxed[s])
    /\ UNCHANGED <<wait_queue, readVars, checkVars, news>>

\* __pm_wakeup_event(ws, 0): an event that is over at once.
WakeupEventNow(s) ==
    /\ Report(s)
    /\ Deactivate(s, Reported(s), IF active[s] THEN unrelaxed[s] ELSE unrelaxed[s] + 1)
    /\ UNCHANGED <<wait_queue, readVars, checkVars>>

\* Faulty: a finished deactivation wakes nobody.
DeactivateSilent(s) ==
    /\ s \in ending
    /\ ending' = ending \ {s}
    /\ UNCHANGED <<counters, active, unrelaxed, readVars, checkVars, news>>

\* The end of wakeup_source_deactivate(): split_counters() and wake_up().
DeactivateWake(s) ==
    /\ s \in ending
    /\ ending' = ending \ {s}
    /\ wait_queue' = IF inpr = 0 THEN {} ELSE wait_queue
    /\ UNCHANGED <<combined_event_count, active, unrelaxed, readVars, checkVars, news>>

SourceStep(s) ==
    __pm_stay_awake(s) \/ __pm_relax(s) \/ WakeupEventNow(s) \/ DeactivateWake(s)

------------------------------------------------------------------------------
\* pm_get_wakeup_count() by reader t: prepare_to_wait(), and the final split_counters()

PrepareToWait(t) ==
    /\ wait_queue' = wait_queue \cup {t}
    /\ UNCHANGED <<combined_event_count, sourceVars, readVars, checkVars, news>>

FinishWait(t) ==
    /\ wait_queue' = wait_queue \ {t}
    /\ UNCHANGED <<combined_event_count, sourceVars, readVars, checkVars, news>>

\* The caller gets a count it can use only if nothing is in progress.
TakeCount(t) ==
    /\ count' = [count EXCEPT ![t] = IF inpr = 0 THEN cnt ELSE 0]
    /\ reading' = IF inpr = 0 THEN reading \cup {t} ELSE reading \ {t}
    /\ news' = news \ {t}
    /\ UNCHANGED <<counters, sourceVars, checkVars>>

\* The count is not used any more.
DropCount(t) ==
    /\ count' = [count EXCEPT ![t] = 0]
    /\ reading' = reading \ {t}
    /\ news' = news \ {t}

\* pm_save_wakeup_count(): a store without a lock, then the section of events_lock; the
\* caller reads events_check_enabled afterwards.
SaveDisables ==
    /\ events_check_enabled' = FALSE
    /\ UNCHANGED <<counters, sourceVars, readVars, saved_count, pm_abort_suspend, news>>

pm_save_wakeup_count(t) ==
    LET same == cnt = count[t] /\ inpr = 0 IN
    /\ events_check_enabled' = (events_check_enabled \/ same)
    /\ saved_count' = IF same THEN count[t] ELSE saved_count
    /\ UNCHANGED <<counters, sourceVars, readVars, pm_abort_suspend, news>>

\* pm_wakeup_pending(): the value, and what is left of events_check_enabled.
EventsPending == events_check_enabled /\ (cnt # saved_count \/ inpr > 0)
pm_wakeup_pending == EventsPending \/ pm_abort_suspend
CheckConsumed ==
    /\ events_check_enabled' = (events_check_enabled /\ ~EventsPending)
    /\ UNCHANGED <<saved_count, pm_abort_suspend>>
===============================================================================
