------------------------------ MODULE SyncFence ------------------------------
(***************************************************************************)
(* Android's explicit fences: sync.c and sw_sync.c of                      *)
(* drivers/staging/android over the fences of drivers/dma-buf/fence.c.     *)
(* Points of a timeline are signalled as its value passes them; a fence    *)
(* counts the points it still waits for; fences can be merged, waited for  *)
(* and closed at any time.                                                 *)
(*                                                                         *)
(* A point has the name of the fence that sync_fence_create() makes of it. *)
(* Sections of child_list_lock that run callbacks take several steps; the  *)
(* other sections of it and all those of wq.lock are one step.             *)
(***************************************************************************)
EXTENDS Integers, Sequences, FiniteSets, SequencesExt

CONSTANTS Timelines,    \* the sw_sync timelines
          Points,       \* the points, and the fences created from them
          Merged,       \* the fences made by sync_fence_merge()
          Incs,         \* tasks with a call on the file of a timeline
          Infos,        \* tasks in SYNC_IOC_FENCE_INFO
          Waiters,      \* waiters of sync_fence_wait_async()
          Values,       \* the values points are created with
          MaxValue,     \* bound on the value of a timeline
          Modulus,      \* 2^32, the range of values
          AnyOrder,     \* points of a timeline may be created out of order
          None

ASSUME FenceAssumption ==
    /\ Modulus \in Nat /\ MaxValue \in Nat /\ 2 * MaxValue < Modulus
    /\ Values \subseteq 0..MaxValue /\ AnyOrder \in BOOLEAN

Fences == Points \cup Merged
Signallers == Incs \cup Infos

VARIABLES value, child_list_lock, active_list, destroyed, kref, \* of each timeline
          pvalue, parent, seqno,      \* of each point
          signaled, enabled,          \* the points with FENCE_FLAG_..._BIT
          cb_list, refcount,          \* of each point
          fpc,                        \* what is being done with each fence
          cbs, status, wq,            \* of each fence
          left,                       \* the points a loop over cbs[] has to visit
          source,                     \* the fences a merge is reading
          pc, on, at, todo,      \* each task: its place, object, point and loop
          target,                     \* the fence fence_check_cb_func() is to wake
          owed                        \* the points a fence was made of that no value has passed

timelineVars == <<value, child_list_lock, active_list, destroyed, kref>>
pointVars == <<pvalue, parent, seqno, signaled, enabled, cb_list, refcount>>
fenceVars == <<fpc, cbs, status, wq, left, source>>
localVars == <<on, at, todo, target>>
taskVars == <<pc, localVars>>
vars == <<timelineVars, pointVars, fenceVars, taskVars, owed>>

Tasks == Signallers \cup Waiters

Init ==
    /\ value = [l \in Timelines |-> 0]
    /\ child_list_lock = [l \in Timelines |-> None]
    /\ active_list = [l \in Timelines |-> <<>>]
    /\ destroyed = [l \in Timelines |-> FALSE]
    /\ kref = [l \in Timelines |-> 1]
    /\ pvalue = [p \in Points |-> 0]
    /\ parent = [p \in Points |-> None]
    /\ seqno = [p \in Points |-> 0]
    /\ signaled = {} /\ enabled = {}
    /\ cb_list = [p \in Points |-> <<>>]
    /\ refcount = [p \in Points |-> 0]
    /\ fpc = [f \in Fences |-> "none"]
    /\ cbs = [f \in Fences |-> <<>>]
    /\ status = [f \in Fences |-> 0]
    /\ wq = [f \in Fences |-> {}]
    /\ left = [f \in Fences |-> <<>>]
    /\ source = [f \in Fences |-> {}]
    /\ pc = [t \in Tasks |-> "idle"]
    /\ on = [t \in Tasks |-> None]
    /\ at = [t \in Signallers |-> None]
    /\ todo = [t \in Signallers |-> <<>>]
    /\ target = [t \in Signallers |-> None]
    /\ owed = [f \in Fences |-> {}]

At(t, l) == pc[t] = l
Goto(t, l) == pc' = [pc EXCEPT ![t] = l]
FGoto(f, l) == fpc' = [fpc EXCEPT ![f] = l]
Free(l) == child_list_lock[l] = None

\* sw_sync_cmp(a, b) >= 0
Reached(a, b) == (a - b) % Modulus < Modulus \div 2
sw_sync_pt_has_signaled(p) == Reached(value[parent[p]], pvalue[p])

------------------------------------------------------------------------------
\* sw_sync_ioctl_create_fence(): sw_sync_pt_create() and sync_fence_create()

Created(l) == {p \in Points : parent[p] = l}

\* Drivers number the points of a timeline in the order of their values.
InOrder(l, v) == AnyOrder \/ \A p \in Created(l) : Reached(v, pvalue[p])

CreateFence(f, l, v) ==
    /\ fpc[f] = "none" /\ ~destroyed[l] /\ Free(l)
    /\ InOrder(l, v)
    /\ parent' = [parent EXCEPT ![f] = l]
    /\ pvalue' = [pvalue EXCEPT ![f] = v]
    /\ seqno' = [seqno EXCEPT ![f] = Cardinality(Created(l)) + 1]
    /\ refcount' = [refcount EXCEPT ![f] = 1]
    /\ kref' = [kref EXCEPT ![l] = @ + 1]
    /\ owed' = [owed EXCEPT ![f] = IF Reached(value[l], v) THEN {} ELSE {f}]
    /\ left' = [left EXCEPT ![f] = <<f>>]
    /\ status' = [status EXCEPT ![f] = 1]
    /\ FGoto(f, "add")
    /\ UNCHANGED <<value, child_list_lock, active_list, destroyed, signaled, enabled, cb_list,
                   cbs, wq, source, taskVars>>

------------------------------------------------------------------------------
\* sync_fence_merge() of a and b into m

\* The points the loops of sync_fence_merge() pass to sync_fence_add_pt(): the later of
\* two points of a timeline, or both in the order of their contexts, which are
\* arbitrary numbers.
MergeOrders(p, q) ==
    IF parent[p] # parent[q] THEN {<<p, q>>, <<q, p>>}
    ELSE {IF seqno[p] >= seqno[q] THEN <<p>> ELSE <<q>>}

Merge(m, a, b) ==
    /\ fpc[m] = "none" /\ fpc[a] = "open" /\ fpc[b] = "open"
    /\ source' = [source EXCEPT ![m] = {a, b}]
    /\ owed' = [owed EXCEPT ![m] = owed[a] \cup owed[b]]
    /\ \E s \in MergeOrders(a, b) : left' = [left EXCEPT ![m] = s]
    /\ status' = [status EXCEPT ![m] = 2]
    /\ FGoto(m, "test")
    /\ UNCHANGED <<timelineVars, pointVars, cbs, wq, taskVars>>

\* Faulty: a point that has been signalled is counted off here, and again in the end.
AddTestCounts(m) ==
    /\ fpc[m] = "test" /\ left[m] # <<>>
    /\ IF Head(left[m]) \in signaled
       THEN /\ left' = [left EXCEPT ![m] = Tail(@)]
            /\ status' = [status EXCEPT ![m] = @ - 1]
            /\ UNCHANGED fpc
       ELSE FGoto(m, "add") /\ UNCHANGED <<left, status>>
    /\ UNCHANGED <<timelineVars, pointVars, cbs, wq, source, taskVars, owed>>

\* The look of fence_add_callback() at the flags before it takes the lock.
AddTest(m) ==
    /\ fpc[m] = "test" /\ left[m] # <<>>
    /\ IF Head(left[m]) \in signaled
       THEN left' = [left EXCEPT ![m] = Tail(@)] /\ UNCHANGED fpc
       ELSE FGoto(m, "add") /\ UNCHANGED left
    /\ UNCHANGED <<timelineVars, pointVars, cbs, status, wq, source, taskVars, owed>>

\* Faulty: fence_add_callback() does not look at the flag again under the lock.
AddFailsUnchecked(p) == p \notin enabled /\ sw_sync_pt_has_signaled(p)

\* fence_add_callback() returns -ENOENT: the flag is set, or enable_signaling() fails.
AddFails(p) == p \in signaled \/ (p \notin enabled /\ sw_sync_pt_has_signaled(p))

\* The rest of fence_add_callback() under the lock, with
\* android_fence_enable_signaling() and, if that finds the point passed,
\* fence_signal_locked(); then its callers sync_fence_add_pt() and sync_fence_create().
AddCallback(f) ==
    LET p == Head(left[f])
        enable == p \notin enabled /\ p \notin signaled
        fails == AddFails(p)
    IN
    /\ fpc[f] = "add" /\ Free(parent[p])
    /\ enabled' = enabled \cup {p}
    /\ signaled' = IF fails THEN signaled \cup {p} ELSE signaled
    /\ active_list' = IF enable /\ ~fails THEN [active_list EXCEPT ![parent[p]] = Append(@, p)]
                      ELSE active_list
    /\ cb_list' = IF fails THEN cb_list ELSE [cb_list EXCEPT ![p] = Append(@, f)]
    /\ cbs' = IF fails /\ f \in Merged THEN cbs ELSE [cbs EXCEPT ![f] = Append(@, p)]
    /\ refcount' = IF fails \/ f \in Points THEN refcount ELSE [refcount EXCEPT ![p] = @ + 1]
    /\ status' = IF fails /\ f \in Points THEN [status EXCEPT ![f] = @ - 1] ELSE status
    /\ left' = [left EXCEPT ![f] = Tail(@)]
    /\ FGoto(f, IF f \in Points THEN "open" ELSE "test")
    /\ UNCHANGED <<value, child_list_lock, destroyed, kref, pvalue, parent, seqno, wq,
                   source, taskVars, owed>>

MergeDone(m) ==
    /\ fpc[m] = "test" /\ left[m] = <<>>
    /\ status' = [status EXCEPT ![m] = @ - (2 - Len(cbs[m]))]
    /\ source' = [source EXCEPT ![m] = {}]
    /\ FGoto(m, "open")
    /\ UNCHANGED <<timelineVars, pointVars, cbs, wq, left, taskVars, owed>>

------------------------------------------------------------------------------
\* sw_sync_timeline_inc() and sync_timeline_destroy() on timeline l by task t

\* Nothing keeps two tasks from incrementing a timeline at once, which loses an increment;
\* here, as in a driver, one task at a time does.
sw_sync_timeline_inc(t, l, inc) ==
    /\ At(t, "idle") /\ ~destroyed[l]
    /\ \A u \in Incs : on[u] # l
    /\ value[l] + inc <= MaxValue
    /\ value' = [value EXCEPT ![l] = (@ + inc) % Modulus]
    /\ owed' = [f \in Fences |->
                   owed[f] \ {p \in Created(l) : Reached(value'[l], pvalue[p])}]
    /\ on' = [on EXCEPT ![t] = l]
    /\ Goto(t, "lock")
    /\ UNCHANGED <<child_list_lock, active_list, destroyed, kref, pointVars, fenceVars,
                   at, todo, target>>

\* The file is released after the last call on it has returned.
Destroy(t, l) ==
    /\ At(t, "idle") /\ ~destroyed[l]
    /\ \A u \in Incs : on[u] # l
    /\ destroyed' = [destroyed EXCEPT ![l] = TRUE]
    /\ on' = [on EXCEPT ![t] = l]
    /\ Goto(t, "lock")
    /\ UNCHANGED <<value, child_list_lock, active_list, kref, pointVars, fenceVars, at, todo,
                   target, owed>>

------------------------------------------------------------------------------
\* sync_timeline_signal(): t holds child_list_lock of on[t] from Lock to Unlock

SignalLock(t) ==
    LET l == on[t] IN
    /\ t \in Incs /\ At(t, "lock") /\ Free(l)
    /\ child_list_lock' = [child_list_lock EXCEPT ![l] = t]
    /\ todo' = [todo EXCEPT ![t] = active_list[l]]
    /\ Goto(t, "scan")
    /\ UNCHANGED <<value, active_list, destroyed, kref, pointVars, fenceVars, on, at,
                   target, owed>>

\* list_del_init(&pt->active_list)
Inactive(p) == [active_list EXCEPT ![parent[p]] = SelectSeq(@, LAMBDA q : q # p)]

\* fence_is_signaled_locked() of the next point.
Scan(t) ==
    LET p == Head(todo[t]) IN
    /\ At(t, "scan") /\ todo[t] # <<>>
    /\ IF p \notin signaled /\ sw_sync_pt_has_signaled(p)
       THEN /\ at' = [at EXCEPT ![t] = p]
            /\ Goto(t, "signal")
            /\ UNCHANGED <<todo, active_list>>
       ELSE /\ active_list' = IF p \in signaled THEN Inactive(p) ELSE active_list
            /\ todo' = [todo EXCEPT ![t] = Tail(@)]
            /\ UNCHANGED <<pc, at>>
    /\ UNCHANGED <<value, child_list_lock, destroyed, kref, pointVars, fenceVars, on,
                   target, owed>>

\* fence_signal_locked() runs the callbacks even if the flag was set already.
SignalLocked(t) ==
    /\ At(t, "signal")
    /\ signaled' = signaled \cup {at[t]}
    /\ Goto(t, "call")
    /\ UNCHANGED <<timelineVars, pvalue, parent, seqno, enabled, cb_list, refcount, fenceVars,
                   localVars, owed>>

\* The end of the call: sync_timeline_destroy() drops its reference.
SignalUnlock(t) ==
    LET l == on[t] IN
    /\ At(t, "scan") /\ todo[t] = <<>>
    /\ child_list_lock' = [child_list_lock EXCEPT ![l] = None]
    /\ kref' = IF destroyed[l] THEN [kref EXCEPT ![l] = @ - 1] ELSE kref
    /\ on' = [on EXCEPT ![t] = None]
    /\ Goto(t, "idle")
    /\ UNCHANGED <<value, active_list, destroyed, pointVars, fenceVars, at, todo, target,
                   owed>>

------------------------------------------------------------------------------
\* sync_fence_ioctl_fence_info() on fence f: fence_is_signaled() of each point

InfoStart(t, f) ==
    /\ At(t, "idle") /\ fpc[f] = "open"
    /\ on' = [on EXCEPT ![t] = f]
    /\ todo' = [todo EXCEPT ![t] = cbs[f]]
    /\ Goto(t, "info")
    /\ UNCHANGED <<timelineVars, pointVars, fenceVars, at, target, owed>>

InfoTest(t) ==
    LET p == Head(todo[t]) IN
    /\ At(t, "info") /\ todo[t] # <<>>
    /\ IF p \notin signaled /\ sw_sync_pt_has_signaled(p)
       THEN Goto(t, "set") /\ UNCHANGED todo
       ELSE todo' = [todo EXCEPT ![t] = Tail(@)] /\ UNCHANGED pc
    /\ UNCHANGED <<timelineVars, pointVars, fenceVars, on, at, target, owed>>

\* fence_signal(): test_and_set_bit() without the lock,
InfoSet(t) ==
    LET p == Head(todo[t]) IN
    /\ At(t, "set")
    /\ signaled' = signaled \cup {p}
    /\ IF p \in signaled
       THEN Goto(t, "info") /\ todo' = [todo EXCEPT ![t] = Tail(@)]
       ELSE Goto(t, "enabled") /\ UNCHANGED todo
    /\ UNCHANGED <<timelineVars, pvalue, parent, seqno, enabled, cb_list, refcount, fenceVars,
                   on, at, target, owed>>

\* the look at FENCE_FLAG_ENABLE_SIGNAL_BIT,
InfoEnabled(t) ==
    LET p == Head(todo[t]) IN
    /\ At(t, "enabled")
    /\ IF p \in enabled
       THEN Goto(t, "lock") /\ UNCHANGED todo
       ELSE Goto(t, "info") /\ todo' = [todo EXCEPT ![t] = Tail(@)]
    /\ UNCHANGED <<timelineVars, pointVars, fenceVars, on, at, target, owed>>

\* and the callbacks.
InfoLock(t) ==
    LET p == Head(todo[t]) IN
    /\ t \in Infos /\ At(t, "lock") /\ Free(parent[p])
    /\ child_list_lock' = [child_list_lock EXCEPT ![parent[p]] = t]
    /\ at' = [at EXCEPT ![t] = p]
    /\ Goto(t, "call")
    /\ UNCHANGED <<value, active_list, destroyed, kref, pointVars, fenceVars, on, todo,
                   target, owed>>

\* The last point, or a buffer too small for the next.
InfoDone(t) ==
    /\ At(t, "info")
    /\ on' = [on EXCEPT ![t] = None]
    /\ todo' = [todo EXCEPT ![t] = <<>>]
    /\ Goto(t, "idle")
    /\ UNCHANGED <<timelineVars, pointVars, fenceVars, at, target, owed>>

------------------------------------------------------------------------------
\* fence_check_cb_func() for each callback of the point at[t]

Call(t) ==
    LET p == at[t]
        f == Head(cb_list[p])
    IN
    /\ At(t, "call") /\ cb_list[p] # <<>>
    /\ cb_list' = [cb_list EXCEPT ![p] = Tail(@)]
    /\ status' = [status EXCEPT ![f] = @ - 1]
    /\ IF status[f] = 1
       THEN Goto(t, "wake") /\ target' = [target EXCEPT ![t] = f]
       ELSE UNCHANGED <<pc, target>>
    /\ UNCHANGED <<timelineVars, pvalue, parent, seqno, signaled, enabled, refcount, fpc, cbs,
                   wq, left, source, on, at, todo, owed>>

\* wake_up_all(): sync_fence_wake_up_wq() calls an asynchronous waiter back, which gives
\* up its reference to the fence.
Wake(t) ==
    LET f == target[t] IN
    /\ At(t, "wake")
    /\ wq' = [wq EXCEPT ![f] = {}]
    /\ pc' = [u \in Tasks |-> IF u = t THEN "call"
                              ELSE IF u \in wq[f] THEN "idle" ELSE pc[u]]
    /\ on' = [u \in Tasks |-> IF u \in wq[f] THEN None ELSE on[u]]
    /\ target' = [target EXCEPT ![t] = None]
    /\ UNCHANGED <<timelineVars, pointVars, fpc, cbs, status, left, source, at, todo,
                   owed>>

\* Back in sync_timeline_signal(), which takes the point off the list, or in
\* fence_signal(), which unlocks.
CallEnd(t) ==
    LET p == at[t] IN
    /\ At(t, "call") /\ cb_list[p] = <<>>
    /\ at' = [at EXCEPT ![t] = None]
    /\ todo' = [todo EXCEPT ![t] = Tail(@)]
    /\ IF t \in Incs
       THEN /\ active_list' = Inactive(p)
            /\ Goto(t, "scan")
            /\ UNCHANGED child_list_lock
       ELSE /\ child_list_lock' = [child_list_lock EXCEPT ![parent[p]] = None]
            /\ Goto(t, "info")
            /\ UNCHANGED active_list
    /\ UNCHANGED <<value, destroyed, kref, pointVars, fenceVars, on, target, owed>>

------------------------------------------------------------------------------
\* sync_fence_wait_async() and sync_fence_cancel_async() of waiter w on fence f; the caller
\* keeps a reference to the fence until it is called back or has cancelled.

WaitReturns(w) == Goto(w, "idle") /\ on' = [on EXCEPT ![w] = None]
waitFrame == <<timelineVars, pointVars, fpc, cbs, status, left, source, at, todo, target,
               owed>>

sync_fence_wait_async(w, f) ==
    /\ At(w, "idle") /\ fpc[f] = "open" /\ status[f] > 0
    /\ on' = [on EXCEPT ![w] = f]
    /\ Goto(w, "queue")
    /\ UNCHANGED <<wq, waitFrame>>

WaitAsyncQueue(w) ==
    LET f == on[w] IN
    /\ At(w, "queue")
    /\ IF status[f] > 0
       THEN /\ wq' = [wq EXCEPT ![f] = @ \cup {w}]
            /\ Goto(w, "waiting")
            /\ UNCHANGED on
       ELSE WaitReturns(w) /\ UNCHANGED wq
    /\ UNCHANGED waitFrame

\* Once it has left the queue the waiter is called back.
sync_fence_cancel_async(w) ==
    /\ At(w, "waiting") /\ w \in wq[on[w]]
    /\ wq' = [wq EXCEPT ![on[w]] = @ \ {w}]
    /\ WaitReturns(w)
    /\ UNCHANGED waitFrame

------------------------------------------------------------------------------
\* sync_fence_release() of fence f, once nobody has a reference to its file

Referenced(f) ==
    \/ \E t \in Tasks : on[t] = f
    \/ \E m \in Merged : f \in source[m]

Release(f) ==
    /\ fpc[f] = "open" /\ ~Referenced(f)
    /\ left' = [left EXCEPT ![f] = cbs[f]]
    /\ FGoto(f, "remove")
    /\ UNCHANGED <<timelineVars, pointVars, cbs, status, wq, source, taskVars, owed>>

Removed(f, p) == [cb_list EXCEPT ![p] = SelectSeq(@, LAMBDA g : g # f)]

\* Faulty: the lock is not taken for a callback that is off the list already.
RemoveUnlocked(f) ==
    LET p == Head(left[f]) IN
    /\ fpc[f] = "remove" /\ left[f] # <<>>
    /\ f \in ToSet(cb_list[p]) => Free(parent[p])
    /\ cb_list' = Removed(f, p)
    /\ active_list' = IF cb_list[p] = <<f>> THEN Inactive(p) ELSE active_list
    /\ FGoto(f, "put")
    /\ UNCHANGED <<value, child_list_lock, destroyed, kref, pvalue, parent, seqno, signaled,
                   enabled, refcount, cbs, status, wq, left, source, taskVars, owed>>

\* fence_remove_callback() and android_fence_disable_signaling()
fence_remove_callback(f) ==
    LET p == Head(left[f]) IN
    /\ fpc[f] = "remove" /\ left[f] # <<>> /\ Free(parent[p])
    /\ cb_list' = Removed(f, p)
    /\ active_list' = IF cb_list[p] = <<f>> THEN Inactive(p) ELSE active_list
    /\ FGoto(f, "put")
    /\ UNCHANGED <<value, child_list_lock, destroyed, kref, pvalue, parent, seqno, signaled,
                   enabled, refcount, cbs, status, wq, left, source, taskVars, owed>>

\* fence_put(), and android_fence_release() with the last reference.
FencePut(f) ==
    LET p == Head(left[f])
        last == refcount[p] = 1
    IN
    /\ fpc[f] = "put"
    /\ last => Free(parent[p])
    /\ refcount' = [refcount EXCEPT ![p] = @ - 1]
    /\ active_list' = IF last THEN Inactive(p) ELSE active_list
    /\ signaled' = IF last THEN signaled \ {p} ELSE signaled
    /\ enabled' = IF last THEN enabled \ {p} ELSE enabled
    /\ kref' = IF last THEN [kref EXCEPT ![parent[p]] = @ - 1] ELSE kref
    /\ left' = [left EXCEPT ![f] = Tail(@)]
    /\ FGoto(f, "remove")
    /\ UNCHANGED <<value, child_list_lock, destroyed, pvalue, parent, seqno, cb_list, cbs, status, wq,
                   source, taskVars, owed>>

sync_fence_free(f) ==
    /\ fpc[f] = "remove" /\ left[f] = <<>>
    /\ cbs' = [cbs EXCEPT ![f] = <<>>]
    /\ status' = [status EXCEPT ![f] = 0]
    /\ owed' = [owed EXCEPT ![f] = {}]
    /\ FGoto(f, "freed")
    /\ UNCHANGED <<timelineVars, pointVars, wq, left, source, taskVars>>

------------------------------------------------------------------------------
FenceStep(f) ==
    \/ AddTest(f) \/ AddCallback(f) \/ MergeDone(f)
    \/ fence_remove_callback(f) \/ FencePut(f) \/ sync_fence_free(f)

SignalStep(t) ==
    \/ SignalLock(t) \/ Scan(t) \/ SignalLocked(t) \/ SignalUnlock(t)
    \/ InfoTest(t) \/ InfoSet(t) \/ InfoEnabled(t) \/ InfoLock(t) \/ InfoDone(t)
    \/ Call(t) \/ Wake(t) \/ CallEnd(t)

Next ==
    \/ \E f \in Points, l \in Timelines, v \in Values : CreateFence(f, l, v)
    \/ \E m \in Merged, a, b \in Points : Merge(m, a, b)
    \/ \E f \in Fences : FenceStep(f) \/ Release(f)
    \/ \E t \in Incs, l \in Timelines :
        Destroy(t, l) \/ \E inc \in 1..MaxValue : sw_sync_timeline_inc(t, l, inc)
    \/ \E t \in Infos, f \in Fences : InfoStart(t, f)
    \/ \E t \in Signallers : SignalStep(t)
    \/ \E w \in Waiters : \/ WaitAsyncQueue(w) \/ sync_fence_cancel_async(w)
                         \/ \E f \in Fences : sync_fence_wait_async(w, f)

Spec == Init /\ [][Next]_vars

------------------------------------------------------------------------------
\* Safety, what a fence promises: it is signalled only after the timelines have passed
\* all the points it was created or merged from, however points are signalled while
\* sync_fence_merge() is adding its callbacks.
SignalledAfterAll == \A f \in Fences : fpc[f] = "open" /\ status[f] = 0 => owed[f] = {}

\* Safety, end to end: when no task is in the middle of a call that signals, a waiter is
\* left on the queue of a fence only if a timeline has not reached one of its points.
\* It takes the unlocked increment, the two flags of a point, its lists and the counter
\* of the fence to fit together.
NoStrandedWaiter ==
    (\A t \in Signallers : At(t, "idle")) =>
        \A w \in Waiters : At(w, "waiting") /\ w \in wq[on[w]] =>
            \E p \in ToSet(cbs[on[w]]) : ~sw_sync_pt_has_signaled(p)

\* Safety: nothing is used after it has been freed, although a waiter that is woken may
\* close the fence, and with it release the points and the timeline, while the task that
\* woke it is still in the callback.  BUG_ON(!list_empty(&fence->cb_list)) of
\* fence_release() never fires.
FreedIsUnused ==
    /\ \A f \in Fences : fpc[f] = "freed" =>
        \A t \in Signallers : target[t] # f /\ \A p \in Points : f \notin ToSet(cb_list[p])
    /\ \A p \in Points : parent[p] # None /\ refcount[p] = 0 =>
        cb_list[p] = <<>> /\ \A t \in Signallers : at[t] # p /\ p \notin ToSet(todo[t])
    /\ \A l \in Timelines : kref[l] = 0 => Free(l) /\ \A t \in Incs : on[t] # l
==============================================================================
