----------------------------- MODULE SystemSleep -----------------------------
(***************************************************************************)
(* How this kernel goes to sleep by itself, over WakeupEvents: the         *)
(* autosleep worker and the writers of /sys/power/autosleep that start and *)
(* stop it (kernel/power/autosleep.c), and the suspend cooler of the       *)
(* thermal driver, which calls pm_suspend() without autosleep_lock         *)
(* (drivers/thermal/amazon_cooling.c).  The transition itself is           *)
(* kernel/power/suspend.c with the vendor's timed sync, and the freezer of *)
(* kernel/power/process.c.                                                 *)
(*                                                                         *)
(* pc names the place in whatever call a task is in.  From the moment the  *)
(* interrupts are off on the last CPU nothing but the transition moves.    *)
(***************************************************************************)
EXTENDS WakeupEvents

CONSTANTS Users,        \* tasks that write /sys/power/autosleep
          Worker,       \* the work item suspend_work
          Cooler,       \* the kernel thread of the suspend cooler
          autosleep_ws, \* the wakeup source of pm_autosleep_set_state()
          MAX_RETRY,    \* SUSPEND_COOLER_SUSPEND_MAX_RETRY
          Nobody

ASSUME SleepAssumption ==
    /\ autosleep_ws \in Sources
    /\ Readers = {Worker}
    /\ Worker # Cooler /\ {Worker, Cooler, Nobody} \cap Users = {}
    /\ Nobody \notin {Worker, Cooler}

Sleepers == {Worker, Cooler}
Tasks == Sleepers \cup Users

VARIABLES pc,
          autosleep_lock, pm_mutex, \* who holds them
          autosleep_state,          \* autosleep_state > PM_SUSPEND_ON
          work_pending,             \* suspend_work is queued
          wanted,                   \* the state each user is writing to autosleep
          sys_sync_ongoing,
          suspend_wakeup_ack, suspend_retry, \* the suspend cooler
          armed    \* the tasks whose pm_save_wakeup_count() nobody has undone

cooler == <<suspend_wakeup_ack, suspend_retry>>
autosleep == <<autosleep_lock, autosleep_state, work_pending, wanted>>
others == <<autosleep, pm_mutex, sys_sync_ongoing, cooler, armed>>
vars == <<wakeupVars, pc, others>>

Init ==
    /\ WInit
    /\ pc = [t \in Tasks |-> "idle"]
    /\ autosleep_lock = Nobody /\ pm_mutex = Nobody
    /\ autosleep_state = FALSE
    /\ work_pending = FALSE
    /\ wanted = [u \in Users |-> FALSE]
    /\ sys_sync_ongoing = FALSE
    /\ suspend_wakeup_ack = FALSE /\ suspend_retry = 0
    /\ armed = {}

At(t, l) == pc[t] = l
Goto(t, l) == pc' = [pc EXCEPT ![t] = l]

Frozen == \E t \in Sleepers : pc[t] \in {"devices", "noirq", "syscore", "asleep"}
Stopped == \E t \in Sleepers : pc[t] \in {"syscore", "asleep"}

------------------------------------------------------------------------------
\* try_to_suspend(), the autosleep worker: pm_get_wakeup_count(&initial_count, true)

CountPrepare(t) ==
    /\ At(t, "count")
    /\ PrepareToWait(t)
    /\ Goto(t, "count_look")
    /\ UNCHANGED others

CountLook(t) ==
    /\ At(t, "count_look")
    /\ IF inpr = 0
       THEN FinishWait(t) /\ Goto(t, "count_take")
       ELSE Goto(t, "count_sleep") /\ UNCHANGED wakeupVars
    /\ UNCHANGED others

\* schedule() returns once wake_up() has taken t off the queue.
CountSleep(t) ==
    /\ At(t, "count_sleep")
    /\ t \notin wait_queue
    /\ Goto(t, "count")
    /\ UNCHANGED <<wakeupVars, others>>

CountTake(t) ==
    /\ At(t, "count_take")
    /\ TakeCount(t)
    /\ Goto(t, IF inpr = 0 THEN "lock" ELSE "out")
    /\ UNCHANGED others

CountStep(t) == CountPrepare(t) \/ CountLook(t) \/ CountSleep(t) \/ CountTake(t)

------------------------------------------------------------------------------
\* pm_suspend() of t: enter_state() up to suspend_prepare()

\* Back in the caller, with the error or without.
SuspendReturns(t, l) == Goto(t, l) /\ pm_mutex' = Nobody

SuspendTrylock(t) ==
    /\ At(t, "suspend")
    /\ IF pm_mutex = Nobody
       THEN pm_mutex' = t /\ Goto(t, "sync")
       ELSE Goto(t, "failed") /\ UNCHANGED pm_mutex
    /\ UNCHANGED <<wakeupVars, autosleep, sys_sync_ongoing, cooler, armed>>

\* suspend_syssync_enqueue(): a sync an earlier call gave up on goes first.
SyncEnqueue(t) ==
    /\ At(t, "sync") /\ ~sys_sync_ongoing
    /\ sys_sync_ongoing' = TRUE
    /\ Goto(t, "syncing")
    /\ UNCHANGED <<wakeupVars, autosleep, pm_mutex, cooler, armed>>

\* Faulty: a sync that takes too long is left to itself.
SyncTimeoutGoesOn(t) ==
    /\ (At(t, "sync") /\ sys_sync_ongoing) \/ At(t, "syncing")
    /\ pm_abort_suspend' = FALSE
    /\ Goto(t, "freezing")
    /\ UNCHANGED <<counters, sourceVars, readVars, events_check_enabled, saved_count, news,
                   others>>

SyncTimeout(t) ==
    /\ (At(t, "sync") /\ sys_sync_ongoing) \/ At(t, "syncing")
    /\ SuspendReturns(t, "failed")
    /\ UNCHANGED <<wakeupVars, autosleep, sys_sync_ongoing, cooler, armed>>

suspend_sys_sync ==
    /\ sys_sync_ongoing
    /\ sys_sync_ongoing' = FALSE
    /\ UNCHANGED <<wakeupVars, pc, autosleep, pm_mutex, cooler, armed>>

\* suspend_prepare() begins to freeze, unless a notifier refuses.
SuspendPrepare(t) ==
    /\ At(t, "syncing") /\ ~sys_sync_ongoing
    /\ pm_abort_suspend' = FALSE
    /\ Goto(t, "freezing")
    /\ UNCHANGED <<counters, sourceVars, readVars, events_check_enabled, saved_count, news,
                   others>>
SuspendRefused(t) ==
    /\ At(t, "syncing") /\ ~sys_sync_ongoing
    /\ Goto(t, "undo")
    /\ UNCHANGED <<wakeupVars, others>>

------------------------------------------------------------------------------
\* try_to_freeze_tasks(): the tasks still to freeze
todo == {u \in Users : ~At(u, "idle")}

FreezeDone(t) ==
    /\ At(t, "freezing") /\ todo = {}
    /\ Goto(t, "devices")
    /\ UNCHANGED <<wakeupVars, others>>

\* A transition of t ends because pm_wakeup_pending() said so, which also disarms it.
Aborts(t) ==
    /\ pm_wakeup_pending
    /\ CheckConsumed
    /\ armed' = IF EventsPending THEN armed \cap {t} ELSE armed
    /\ Goto(t, "undo")
    /\ UNCHANGED <<counters, sourceVars, readVars, news, autosleep, pm_mutex,
                   sys_sync_ongoing, cooler>>

FreezeAbort(t) == At(t, "freezing") /\ todo # {} /\ Aborts(t)

FreezeTimeout(t) ==
    /\ At(t, "freezing") /\ todo # {}
    /\ Goto(t, "undo")
    /\ UNCHANGED <<wakeupVars, others>>

------------------------------------------------------------------------------
\* suspend_devices_and_enter()

\* The checks in __device_suspend() and its late and noirq counterparts, in
\* syscore_suspend(), and the last one of suspend_enter() with interrupts off.
DevicesAbort(t) == pc[t] \in {"devices", "noirq", "syscore"} /\ Aborts(t)

DevicesFail(t) ==
    /\ pc[t] \in {"devices", "noirq", "syscore"}
    /\ Goto(t, "undo")
    /\ UNCHANGED <<wakeupVars, others>>

\* Each device is preceded by a check, the last callback is followed by none.
DevicesSuspended(t) ==
    /\ At(t, "devices")
    /\ Goto(t, "noirq")
    /\ UNCHANGED <<wakeupVars, others>>

\* pm_system_irq_wakeup(): an interrupt that is armed to wake the system.
pm_system_irq_wakeup ==
    /\ \E t \in Sleepers : At(t, "noirq")
    /\ ~pm_abort_suspend
    /\ pm_abort_suspend' = TRUE
    /\ UNCHANGED <<counters, sourceVars, readVars, events_check_enabled, saved_count, news,
                   pc, others>>

IrqsOff(t) ==
    /\ At(t, "noirq")
    /\ Goto(t, "syscore")
    /\ UNCHANGED <<wakeupVars, others>>

\* Faulty: nobody looks once the interrupts are off.
EnterUnchecked(t) ==
    /\ At(t, "syscore")
    /\ Goto(t, "asleep")
    /\ UNCHANGED <<wakeupVars, others>>

Enter(t) ==
    /\ At(t, "syscore") /\ ~pm_wakeup_pending
    /\ Goto(t, "asleep")
    /\ UNCHANGED <<wakeupVars, others>>

\* suspend_ops->enter() returns, after a sleep or with an error.
Wake(t) ==
    /\ At(t, "asleep")
    /\ events_check_enabled' = FALSE
    /\ armed' = {}
    /\ \E l \in {"resume", "undo"} : Goto(t, l)
    /\ UNCHANGED <<counters, sourceVars, readVars, saved_count, pm_abort_suspend, news,
                   autosleep, pm_mutex, sys_sync_ongoing, cooler>>

\* suspend_finish(): PM_POST_SUSPEND reaches amazon_cooler_pm_notify().
SuspendFinish(t) ==
    /\ pc[t] \in {"undo", "resume"}
    /\ suspend_wakeup_ack' = TRUE
    /\ SuspendReturns(t, IF At(t, "resume") THEN "slept" ELSE "failed")
    /\ armed' = armed \ {t}
    /\ UNCHANGED <<wakeupVars, autosleep, sys_sync_ongoing, suspend_retry>>

SuspendStep(t) ==
    \/ SuspendTrylock(t) \/ SyncEnqueue(t) \/ SyncTimeout(t) \/ SuspendPrepare(t)
    \/ SuspendRefused(t) \/ FreezeDone(t) \/ FreezeAbort(t) \/ FreezeTimeout(t)
    \/ DevicesAbort(t) \/ DevicesFail(t) \/ DevicesSuspended(t) \/ IrqsOff(t)
    \/ Enter(t) \/ Wake(t) \/ SuspendFinish(t)

------------------------------------------------------------------------------
\* try_to_suspend(), the autosleep worker

WorkerStart ==
    /\ At(Worker, "idle") /\ work_pending
    /\ work_pending' = FALSE
    /\ Goto(Worker, "count")
    /\ UNCHANGED <<wakeupVars, autosleep_lock, autosleep_state, wanted, pm_mutex,
                   sys_sync_ongoing, cooler, armed>>

TakeLock(t, l) ==
    /\ autosleep_lock = Nobody
    /\ autosleep_lock' = t
    /\ Goto(t, l)

WorkerLock ==
    /\ At(Worker, "lock")
    /\ TakeLock(Worker, "save")
    /\ UNCHANGED <<wakeupVars, autosleep_state, work_pending, wanted, pm_mutex,
                   sys_sync_ongoing, cooler, armed>>

\* pm_save_wakeup_count() under autosleep_lock, whose first store may come while the
\* transition of the cooler is on its way.
WorkerDisables ==
    /\ At(Worker, "save")
    /\ SaveDisables
    /\ Goto(Worker, "save_count")
    /\ UNCHANGED others

WorkerSave ==
    /\ At(Worker, "save_count")
    /\ pm_save_wakeup_count(Worker)
    /\ armed' = IF events_check_enabled' THEN {Worker} ELSE {}
    /\ Goto(Worker, "saved")
    /\ UNCHANGED <<autosleep, pm_mutex, sys_sync_ongoing, cooler>>

WorkerSaved ==
    /\ At(Worker, "saved")
    /\ Goto(Worker, IF ~events_check_enabled THEN "unlock"
                    ELSE IF autosleep_state THEN "suspend" ELSE "unlock_stop")
    /\ UNCHANGED <<wakeupVars, others>>

\* The count after the attempt only decides on a pause.
WorkerUnlock ==
    /\ pc[Worker] \in {"failed", "slept", "unlock", "unlock_stop"}
    /\ autosleep_lock' = Nobody
    /\ DropCount(Worker)
    /\ armed' = armed \ {Worker}
    /\ Goto(Worker, IF At(Worker, "unlock_stop") THEN "idle" ELSE "out")
    /\ UNCHANGED <<counters, sourceVars, checkVars, autosleep_state, work_pending, wanted,
                   pm_mutex, sys_sync_ongoing, cooler>>

\* queue_up_suspend_work()
WorkerOut ==
    /\ At(Worker, "out")
    /\ work_pending' = (work_pending \/ autosleep_state)
    /\ Goto(Worker, "idle")
    /\ UNCHANGED <<wakeupVars, autosleep_lock, autosleep_state, wanted, pm_mutex,
                   sys_sync_ongoing, cooler, armed>>

WorkerStep ==
    \/ WorkerStart \/ WorkerLock \/ WorkerDisables \/ WorkerSave \/ WorkerSaved
    \/ WorkerUnlock \/ WorkerOut
    \/ CountStep(Worker) \/ SuspendStep(Worker)
------------------------------------------------------------------------------
\* pm_autosleep_set_state(), a write to /sys/power/autosleep by u

\* Faulty: the writer takes the lock without a wakeup source.
AutosleepStoreAsleep(u, v) ==
    /\ At(u, "idle") /\ ~Frozen
    /\ wanted' = [wanted EXCEPT ![u] = v]
    /\ Goto(u, "set_lock")
    /\ UNCHANGED <<wakeupVars, autosleep_lock, autosleep_state, work_pending, pm_mutex,
                   sys_sync_ongoing, cooler, armed>>

AutosleepStore(u, v) ==
    /\ At(u, "idle") /\ ~Frozen
    /\ __pm_stay_awake(autosleep_ws)
    /\ wanted' = [wanted EXCEPT ![u] = v]
    /\ Goto(u, "set_lock")
    /\ UNCHANGED <<autosleep_lock, autosleep_state, work_pending, pm_mutex,
                   sys_sync_ongoing, cooler, armed>>

\* __pm_relax() finds the source inactive when another writer has relaxed it.
SetState(u) ==
    /\ At(u, "set_lock")
    /\ TakeLock(u, "set_queue")
    /\ autosleep_state' = wanted[u]
    /\ IF active[autosleep_ws] THEN __pm_relax(autosleep_ws)
       ELSE autosleep_ws \notin ending /\ UNCHANGED wakeupVars
    /\ UNCHANGED <<work_pending, wanted, pm_mutex, sys_sync_ongoing, cooler, armed>>

\* Faulty: the work is queued only if nothing was to be done before.
SetQueueNever(u) ==
    /\ At(u, "set_queue")
    /\ autosleep_lock' = Nobody
    /\ Goto(u, "idle")
    /\ UNCHANGED <<wakeupVars, autosleep_state, work_pending, wanted, pm_mutex,
                   sys_sync_ongoing, cooler, armed>>

SetQueue(u) ==
    /\ At(u, "set_queue")
    /\ work_pending' = (work_pending \/ autosleep_state)
    /\ autosleep_lock' = Nobody
    /\ Goto(u, "idle")
    /\ UNCHANGED <<wakeupVars, autosleep_state, wanted, pm_mutex, sys_sync_ongoing, cooler,
                   armed>>

UserStep(u) == SetState(u) \/ SetQueue(u)

------------------------------------------------------------------------------
\* The suspend cooler: amazon_cooling_set_cur_state() starts the thread once

CoolerTrips ==
    /\ At(Cooler, "idle")
    /\ Goto(Cooler, "check")
    /\ UNCHANGED <<wakeupVars, others>>

\* The loop goes on while the cooler is asked for; a state of 0 means a reboot.
CoolerCheck ==
    /\ At(Cooler, "check")
    /\ \/ suspend_wakeup_ack' = FALSE /\ Goto(Cooler, "suspend")
       \/ Goto(Cooler, "reboot") /\ UNCHANGED suspend_wakeup_ack
    /\ UNCHANGED <<wakeupVars, autosleep, pm_mutex, sys_sync_ongoing, suspend_retry, armed>>

CoolerFailed ==
    /\ At(Cooler, "failed")
    /\ suspend_retry' = suspend_retry + 1
    /\ Goto(Cooler, "pause")
    /\ UNCHANGED <<wakeupVars, autosleep, pm_mutex, sys_sync_ongoing, suspend_wakeup_ack,
                   armed>>

\* wait_event_timeout(): the callback has come, or the system is rebooted.
CoolerSlept ==
    /\ At(Cooler, "slept")
    /\ suspend_retry' = 0
    /\ Goto(Cooler, IF suspend_wakeup_ack THEN "pause" ELSE "reboot")
    /\ UNCHANGED <<wakeupVars, autosleep, pm_mutex, sys_sync_ongoing, suspend_wakeup_ack,
                   armed>>

CoolerPause ==
    /\ At(Cooler, "pause")
    /\ Goto(Cooler, IF suspend_retry < MAX_RETRY THEN "check" ELSE "reboot")
    /\ UNCHANGED <<wakeupVars, others>>

CoolerStep ==
    CoolerCheck \/ CoolerFailed \/ CoolerSlept \/ CoolerPause \/ SuspendStep(Cooler)

------------------------------------------------------------------------------
\* Once the interrupts are off only the transition moves.
Next ==
    \/ \E t \in Sleepers : Stopped /\ SuspendStep(t)
    \/ /\ ~Stopped
       /\ \/ /\ \/ \E s \in Sources \ {autosleep_ws} : SourceStep(s)
                \/ DeactivateWake(autosleep_ws)
             /\ UNCHANGED <<pc, others>>
          \/ pm_system_irq_wakeup \/ suspend_sys_sync
          \/ WorkerStep \/ CoolerStep \/ CoolerTrips
          \/ \E u \in Users : UserStep(u) \/ \E v \in BOOLEAN : AutosleepStore(u, v)

Spec == Init /\ [][Next]_vars

------------------------------------------------------------------------------
\* Safety, the point of pm_save_wakeup_count(): a task whose saved count is still in
\* force does not take the system to sleep once an event has been reported after it
\* read the count, however the event, its end and the steps of the transition
\* interleave.
EventsAbortSleep == \A t \in armed : At(t, "asleep") => t \notin news

\* Safety, the comment on autosleep_lock in autosleep.c: a writer of /sys/power/autosleep
\* waits for the lock uninterruptibly, so a freezer of the worker, which holds it, could
\* never be done with that writer; but the writer's own wakeup source makes the next
\* look of the freezer abort the attempt.
WriterStopsFreezer ==
    \A u \in Users : Worker \in armed /\ At(Worker, "freezing") /\ At(u, "set_lock")
                      => pm_wakeup_pending

\* Safety: a reader of wakeup_count does not sleep on when nothing is in progress: the
\* source that ended last is about to wake it.
CountReadersAreWoken ==
    \A t \in Readers : At(t, "count_sleep") /\ t \in wait_queue /\ inpr = 0
                        => ending # {}

\* Safety: the unlocked look at autosleep_state in queue_up_suspend_work() and the return
\* without it never lose the work: with autosleep on, it is queued, running, or about
\* to be queued.
AutosleepGoesOn ==
    autosleep_state =>
        \/ work_pending
        \/ pc[Worker] \notin {"idle", "unlock_stop"}
        \/ \E u \in Users : At(u, "set_queue")

\* Safety, the timed sync of the vendor: devices are never suspended with a file system
\* sync still running, neither this attempt's nor one that an earlier attempt of either
\* sleeper gave up on.
NoSyncWhileFrozen == Frozen => ~sys_sync_ongoing
==============================================================================
