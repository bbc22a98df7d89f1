------------------------------- MODULE RcuSync -------------------------------
(***************************************************************************)
(* rcu_sync, kernel/rcu/sync.c: updaters force readers off their fast      *)
(* paths, and let them back after a grace period.                          *)
(*                                                                         *)
(* RCU itself is not modelled.  A grace period ends when every read-side   *)
(* critical section that was running at its start has ended; the model     *)
(* keeps the sections each grace period still waits for.  The sections of  *)
(* rss_lock are single steps.                                              *)
(***************************************************************************)
EXTENDS Integers, FiniteSets

CONSTANTS Updaters, \* the tasks that call rcu_sync_enter() and rcu_sync_exit()
          Readers   \* the tasks that call rcu_sync_is_idle()

VARIABLES gp_state,  \* rsp->gp_state
          gp_count,  \* rsp->gp_count
          cb_state,  \* rsp->cb_state; a callback is queued iff it is not idle
          upd,       \* where each updater is
          sync_wait, \* the sections the synchronize_sched() of an updater waits for
          cb_wait,   \* the sections the queued callback waits for
          dtor,      \* where rcu_sync_dtor() is
          inside,    \* the readers inside a read-side critical section
          fast,      \* those of them that saw rcu_sync_is_idle()
          slow_since \* history: the sections that run since the last rcu_sync_exit()

rss == <<gp_state, gp_count, cb_state>>
sections == <<inside, fast>>
rcuVars == <<rss, upd, sync_wait, cb_wait, dtor, sections, slow_since>>

\* rcu_sync_init(), alone or followed by rcu_sync_enter_start().
Init ==
    /\ \/ gp_state = "idle" /\ gp_count = 0
       \/ gp_state = "passed" /\ gp_count = 1
    /\ cb_state = "idle"
    /\ upd = [u \in Updaters |-> "out"]
    /\ sync_wait = [u \in Updaters |-> {}]
    /\ cb_wait = {}
    /\ dtor = "none"
    /\ inside = {}
    /\ fast = {}
    /\ slow_since = {}

------------------------------------------------------------------------------
\* rcu_sync_enter(): the section of rss_lock.
Enter(u) ==
    LET need_wait == gp_count > 0
        need_sync == gp_state = "idle"
    IN  /\ upd[u] = "out"
        /\ dtor = "none"
        /\ gp_count' = gp_count + 1
        /\ gp_state' = IF need_sync THEN "pending" ELSE gp_state
        /\ upd' = [upd EXCEPT ![u] = CASE need_wait /\ need_sync -> "BUG"
                                       [] need_sync -> "sync"
                                       [] need_wait -> "wait"
                                       [] OTHER -> "check"]
        /\ sync_wait' = [sync_wait EXCEPT ![u] = IF need_sync THEN inside ELSE {}]
        /\ UNCHANGED <<cb_state, cb_wait, dtor, sections, slow_since>>

\* Faulty: no synchronize_sched().
EnterUnsynced(u) ==
    /\ upd[u] = "sync"
    /\ gp_state' = "passed"
    /\ upd' = [upd EXCEPT ![u] = "entered"]
    /\ UNCHANGED <<gp_count, cb_state, sync_wait, cb_wait, dtor, sections, slow_since>>

\* Faulty: the grace period is over and nobody is told.
EnterSyncedSilent(u) ==
    /\ upd[u] = "sync"
    /\ sync_wait[u] = {}
    /\ upd' = [upd EXCEPT ![u] = "entered"]
    /\ UNCHANGED <<rss, sync_wait, cb_wait, dtor, sections, slow_since>>

\* The grace period is over: GP_PASSED, wake_up_all().
EnterSynced(u) ==
    /\ upd[u] = "sync"
    /\ sync_wait[u] = {}
    /\ gp_state' = "passed"
    /\ upd' = [upd EXCEPT ![u] = "entered"]
    /\ UNCHANGED <<gp_count, cb_state, sync_wait, cb_wait, dtor, sections, slow_since>>

\* wait_event(rsp->gp_wait, rsp->gp_state == GP_PASSED)
EnterWaited(u) ==
    /\ upd[u] = "wait"
    /\ gp_state = "passed"
    /\ upd' = [upd EXCEPT ![u] = "entered"]
    /\ UNCHANGED <<rss, sync_wait, cb_wait, dtor, sections, slow_since>>

\* BUG_ON(rsp->gp_state != GP_PASSED)
EnterChecked(u) ==
    /\ upd[u] = "check"
    /\ upd' = [upd EXCEPT ![u] = IF gp_state = "passed" THEN "entered" ELSE "BUG"]
    /\ UNCHANGED <<rss, sync_wait, cb_wait, dtor, sections, slow_since>>

\* Faulty: an exit while the callback is pending is not noted.
ExitNoReplay(u) ==
    /\ upd[u] = "entered"
    /\ upd' = [upd EXCEPT ![u] = "out"]
    /\ gp_count' = gp_count - 1
    /\ IF gp_count = 1 /\ cb_state = "idle"
       THEN cb_state' = "pending" /\ cb_wait' = inside
       ELSE UNCHANGED <<cb_state, cb_wait>>
    /\ slow_since' = inside
    /\ UNCHANGED <<gp_state, sync_wait, dtor, sections>>

Exit(u) ==
    /\ upd[u] = "entered"
    /\ upd' = [upd EXCEPT ![u] = "out"]
    /\ gp_count' = gp_count - 1
    /\ IF gp_count = 1 /\ cb_state = "idle"
       THEN cb_state' = "pending" /\ cb_wait' = inside
       ELSE /\ cb_state' = IF gp_count = 1 THEN "replay" ELSE cb_state
            /\ UNCHANGED cb_wait
    /\ slow_since' = inside
    /\ UNCHANGED <<gp_state, sync_wait, dtor, sections>>

\* Faulty: the callback is consumed and the state left as it is.
CallbackStays ==
    /\ cb_state # "idle"
    /\ cb_wait = {}
    /\ dtor' = IF dtor = "barrier" THEN "barrier_done" ELSE dtor
    /\ cb_state' = "idle"
    /\ UNCHANGED <<gp_state, gp_count, upd, sync_wait, cb_wait, sections, slow_since>>

\* rcu_sync_func(), once the grace period of the callback has passed.
Callback ==
    /\ cb_state # "idle"
    /\ cb_wait = {}
    /\ dtor' = IF dtor = "barrier" THEN "barrier_done" ELSE dtor
    /\ IF gp_count = 0 /\ cb_state = "replay"
       THEN cb_state' = "pending" /\ cb_wait' = inside
       ELSE cb_state' = "idle" /\ UNCHANGED cb_wait
    /\ gp_state' = IF gp_count = 0 /\ cb_state = "pending" THEN "idle" ELSE gp_state
    /\ UNCHANGED <<gp_count, upd, sync_wait, sections, slow_since>>

\* rcu_sync_dtor(), when the users are gone: a barrier waits for one invocation
\* of the callback.
Dtor ==
    /\ dtor = "none"
    /\ gp_count = 0 /\ inside = {}
    /\ cb_state' = IF cb_state = "replay" THEN "pending" ELSE cb_state
    /\ dtor' = IF cb_state = "idle" THEN "done" ELSE "barrier"
    /\ UNCHANGED <<gp_state, gp_count, upd, sync_wait, cb_wait, sections, slow_since>>

DtorChecked ==
    /\ dtor = "barrier_done"
    /\ dtor' = IF cb_state = "idle" THEN "done" ELSE "BUG"
    /\ UNCHANGED <<rss, upd, sync_wait, cb_wait, sections, slow_since>>

------------------------------------------------------------------------------
\* Readers.  A reader in a section may look at rcu_sync_is_idle() at any time.

ReadLock(r) ==
    /\ dtor = "none"
    /\ inside' = inside \cup {r}
    /\ UNCHANGED <<rss, upd, sync_wait, cb_wait, dtor, fast, slow_since>>

SeesIdle(r) ==
    /\ r \in inside
    /\ gp_state = "idle"
    /\ fast' = fast \cup {r}
    /\ UNCHANGED <<rss, upd, sync_wait, cb_wait, dtor, inside, slow_since>>

ReadUnlock(r) ==
    /\ inside' = inside \ {r}
    /\ fast' = fast \ {r}
    /\ sync_wait' = [u \in Updaters |-> sync_wait[u] \ {r}]
    /\ cb_wait' = cb_wait \ {r}
    /\ slow_since' = slow_since \ {r}
    /\ UNCHANGED <<rss, upd, dtor>>

------------------------------------------------------------------------------
Update(u) == Enter(u) \/ EnterSynced(u) \/ EnterWaited(u) \/ EnterChecked(u) \/ Exit(u)

Read(r) ==
    \/ r \notin inside /\ ReadLock(r)
    \/ r \notin fast /\ SeesIdle(r)
    \/ r \in inside /\ ReadUnlock(r)

Next ==
    \/ \E u \in Updaters : Update(u)
    \/ \E r \in Readers : Read(r)
    \/ Callback \/ Dtor \/ DtorChecked

Spec == Init /\ [][Next]_rcuVars

\* Sections end (preemption is off in them), callbacks run, and an updater that
\* may go on does.
FairSpec ==
    /\ Spec
    /\ \A u \in Updaters : WF_rcuVars(EnterSynced(u) \/ EnterWaited(u) \/ EnterChecked(u) \/ Exit(u))
    /\ \A r \in Readers : WF_rcuVars(r \in inside /\ ReadUnlock(r))
    /\ WF_rcuVars(Callback)

------------------------------------------------------------------------------
\* Each variable has the values that sync.c gives it; gp_count never goes below 0.
TypeOK ==
    /\ gp_state \in {"idle", "pending", "passed"}
    /\ gp_count \in Nat
    /\ cb_state \in {"idle", "pending", "replay"}
    /\ upd \in [Updaters -> {"out", "sync", "wait", "check", "entered", "BUG"}]
    /\ sync_wait \in [Updaters -> SUBSET Readers]
    /\ cb_wait \subseteq Readers
    /\ dtor \in {"none", "barrier", "barrier_done", "done", "BUG"}
    /\ inside \subseteq Readers
    /\ fast \subseteq inside
    /\ slow_since \subseteq inside

\* None of the BUG_ON()s of rcu_sync_enter(), rcu_sync_func() and
\* rcu_sync_dtor() can fire.
NoBug ==
    /\ \A u \in Updaters : upd[u] # "BUG"
    /\ cb_state # "idle" /\ cb_wait = {} => gp_state = "passed"
    /\ dtor # "BUG"

\* What rcu_sync_enter() promises: from its return to rcu_sync_exit() no reader
\* finds rcu_sync_is_idle() true, and no section that found it true still runs.
FastPathsEnded ==
    (\E u \in Updaters : upd[u] = "entered") => gp_state # "idle" /\ fast = {}

\* The comment in rcu_sync_func(), "We're at least a GP after rcu_sync_exit()":
\* readers get their fast path back only when every section that ran at the
\* last rcu_sync_exit() has ended, also when the callback was replayed.
GracePeriodAfterExit ==
    [][gp_state # "idle" /\ gp_state' = "idle" => slow_since = {}]_rcuVars

\* When updates stop the readers get their fast path back.
FastPathsReturn ==
    <>[](gp_count = 0) => <>[](gp_state = "idle")
==============================================================================
