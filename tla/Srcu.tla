-------------------------------- MODULE Srcu --------------------------------
(***************************************************************************)
(* Sleepable RCU, kernel/rcu/srcu.c and include/linux/srcu.h: readers that *)
(* may sleep and migrate count themselves on two ranks of per-CPU          *)
(* counters; whoever owns the processing (the work item, or the caller of  *)
(* synchronize_srcu() that finds it idle) sums the ranks without a lock    *)
(* and moves the callbacks through four queues.                            *)
(*                                                                         *)
(* A reader is one read-side section of some task.  The code that fetches  *)
(* the rank and counts the reader runs with preemption off, so one reader  *)
(* at a time on a CPU.  Every shared access is a step of its own; accesses *)
(* are sequentially consistent.                                            *)
(***************************************************************************)
EXTENDS Naturals, Sequences, FiniteSets, Functions

CONSTANTS Readers,       \* the read-side sections
          NCPUS,         \* the possible CPUs are 1..NCPUS
          Syncers,       \* the tasks that call synchronize_srcu()
          Callbacks,     \* the rcu_heads passed to call_srcu()
          Work,          \* the work item sp->work, process_srcu()
          Modulus,       \* 2^64, the range of the unsigned long counters
          CallbackBatch, \* SRCU_CALLBACK_BATCH
          NoCPU

ASSUME SrcuAssumption ==
    /\ IsFiniteSet(Readers) /\ NCPUS \in Nat \ {0} /\ NoCPU \notin 1..NCPUS
    /\ Work \notin Syncers /\ Syncers \cap Callbacks = {}
    /\ Modulus \in Nat /\ Modulus > Cardinality(Readers)
    /\ CallbackBatch \in Nat \ {0}

CPUs == 1..NCPUS
Heads == Syncers \cup Callbacks
Owners == Syncers \cup {Work}
SYNCHRONIZE_SRCU_TRYCOUNT == 2

VARIABLES completed,    \* sp->completed & 1, the rank new readers use
          c,            \* per_cpu_ref->c[rank] of each CPU
          running,      \* sp->running
          batch_queue, batch_check0, batch_check1, batch_done,
          work_pending, \* sp->work is queued
          rpc, cpu, rank, \* each reader: where it is, its CPU, its rank
          pc,           \* where each owner is
          done,         \* __synchronize_srcu(): done
          invoked,      \* srcu_invoke_callbacks(): i
          check,        \* the locals of the check for zero the owner is in
          older,        \* the readers each head still has to wait for
          earlier       \* the callbacks queued before each synchronize_srcu()

batches == <<batch_queue, batch_check0, batch_check1, batch_done>>
readerVars == <<rpc, cpu, rank, c>>
owner == <<pc, done, invoked, check>>
ghosts == <<older, earlier>>
vars == <<completed, running, batches, work_pending, readerVars, owner, ghosts>>

\* idx and trycount of try_check_zero(), whether it is the call after srcu_flip(), the
\* CPU read next, the sum so far, and by how much the second sum of ->seq[idx] exceeds
\* the first.  Only the difference of the two is ever used, so it stands for ->seq[].
NotChecking == [idx |-> 0, trycount |-> 0, flipped |-> FALSE,
                cpu |-> 1, sum |-> 0, ahead |-> 0]

Init ==
    /\ completed = 0
    /\ c = [k \in CPUs |-> [i \in 0..1 |-> 0]]
    /\ running = FALSE
    /\ batch_queue = <<>> /\ batch_check0 = <<>>
    /\ batch_check1 = <<>> /\ batch_done = <<>>
    /\ work_pending = FALSE
    /\ rpc = [r \in Readers |-> "out"]
    /\ cpu = [r \in Readers |-> NoCPU]
    /\ rank = [r \in Readers |-> 0]
    /\ pc = [p \in Owners |-> "idle"]
    /\ done = [p \in Syncers |-> FALSE]
    /\ invoked = 0
    /\ check = NotChecking
    /\ older = [h \in Heads |-> {}]
    /\ earlier = [p \in Syncers |-> {}]

At(p, l) == pc[p] = l
Goto(p, l) == pc' = [pc EXCEPT ![p] = l]
RAt(r, l) == rpc[r] = l
RGoto(r, l) == rpc' = [rpc EXCEPT ![r] = l]
Add(k, i, n) == c' = [c EXCEPT ![k][i] = (@ + n) % Modulus]

------------------------------------------------------------------------------
\* srcu_read_lock() and srcu_read_unlock()

ReadFetch(r, k) ==
    /\ RAt(r, "out")
    /\ \A s \in Readers : cpu[s] # k
    /\ rank' = [rank EXCEPT ![r] = completed]
    /\ cpu' = [cpu EXCEPT ![r] = k]
    /\ RGoto(r, "fetched")
    /\ UNCHANGED <<completed, c, running, batches, work_pending, owner, ghosts>>

ReadCount(r) ==
    /\ RAt(r, "fetched")
    /\ Add(cpu[r], rank[r], 1)
    /\ RGoto(r, "counted")
    /\ UNCHANGED <<completed, cpu, rank, running, batches, work_pending, owner, ghosts>>

\* The increments of ->seq[idx] of CPU k the owner's two sums tell apart: those made
\* after the first sum read the CPU and before the second one does.
SumsDiffer(k, i) ==
    /\ check.idx = i
    /\ \E p \in Owners : \/ At(p, "seq1") /\ k < check.cpu
                         \/ At(p, "active")
                         \/ At(p, "seq2") /\ k >= check.cpu

ReadSeq(r) ==
    /\ RAt(r, "counted")
    /\ check' = IF SumsDiffer(cpu[r], rank[r])
                THEN [check EXCEPT !.ahead = @ + 1] ELSE check
    /\ cpu' = [cpu EXCEPT ![r] = NoCPU]
    /\ RGoto(r, "inside")
    /\ UNCHANGED <<completed, c, rank, running, batches, work_pending, pc, done,
                   invoked, ghosts>>

\* The section may end on any CPU.
ReadUnlock(r, k) ==
    /\ RAt(r, "inside")
    /\ Add(k, rank[r], Modulus - 1)
    /\ RGoto(r, "out")
    /\ rank' = [rank EXCEPT ![r] = 0]
    /\ older' = [h \in Heads |-> older[h] \ {r}]
    /\ UNCHANGED <<completed, cpu, running, batches, work_pending, owner, earlier>>

------------------------------------------------------------------------------
\* call_srcu() and the entry of __synchronize_srcu(); each is one section of queue_lock

Inside == {r \in Readers : RAt(r, "inside")}
Queued == Range(batch_queue \o batch_check0 \o batch_check1 \o batch_done)

call_srcu(h) ==
    /\ h \notin Queued
    /\ batch_queue' = Append(batch_queue, h)
    /\ running' = TRUE
    /\ work_pending' = (work_pending \/ ~running)
    /\ older' = [older EXCEPT ![h] = Inside]
    /\ UNCHANGED <<completed, batch_check0, batch_check1, batch_done, readerVars, owner,
                   earlier>>

SyncStart(p) ==
    /\ older' = [older EXCEPT ![p] = Inside]
    /\ earlier' = [earlier EXCEPT ![p] = Queued \cap Callbacks]
    /\ done' = [done EXCEPT ![p] = FALSE]

\* Faulty: a caller that finds the processing running takes part in it as well.
SynchronizeAlways(p) ==
    /\ At(p, "idle")
    /\ SyncStart(p)
    /\ running' = TRUE
    /\ batch_check0' = Append(batch_check0, p)
    /\ Goto(p, "advance")
    /\ UNCHANGED <<completed, batch_queue, batch_check1, batch_done, work_pending,
                   readerVars, invoked, check>>

\* Faulty: the caller queues its head in front of the ones that wait.
SynchronizeInFront(p) ==
    /\ At(p, "idle")
    /\ SyncStart(p)
    /\ running' = TRUE
    /\ IF running
       THEN batch_queue' = <<p>> \o batch_queue /\ Goto(p, "wait")
            /\ UNCHANGED batch_check0
       ELSE batch_check0' = Append(batch_check0, p) /\ Goto(p, "advance")
            /\ UNCHANGED batch_queue
    /\ UNCHANGED <<completed, batch_check1, batch_done, work_pending, readerVars,
                   invoked, check>>

__synchronize_srcu(p) ==
    /\ At(p, "idle")
    /\ SyncStart(p)
    /\ running' = TRUE
    /\ IF running
       THEN batch_queue' = Append(batch_queue, p) /\ Goto(p, "wait")
            /\ UNCHANGED batch_check0
       ELSE batch_check0' = Append(batch_check0, p) /\ Goto(p, "advance")
            /\ UNCHANGED batch_queue
    /\ UNCHANGED <<completed, batch_check1, batch_done, work_pending, readerVars,
                   invoked, check>>

------------------------------------------------------------------------------
\* process_srcu() begins: srcu_collect_new()

ProcessSrcu ==
    /\ At(Work, "idle") /\ work_pending
    /\ work_pending' = FALSE
    /\ Goto(Work, "collect")
    /\ UNCHANGED <<completed, running, batches, readerVars, done, invoked, check, ghosts>>

srcu_collect_new ==
    /\ At(Work, "collect")
    /\ batch_check0' = batch_check0 \o batch_queue
    /\ batch_queue' = <<>>
    /\ Goto(Work, "advance")
    /\ UNCHANGED <<completed, running, batch_check1, batch_done, work_pending, readerVars,
                   done, invoked, check, ghosts>>

------------------------------------------------------------------------------
\* srcu_readers_active_idx_check() and try_check_zero()

Checking(i, n, f) == [NotChecking EXCEPT !.idx = i, !.trycount = n, !.flipped = f]
NextCPU == [check EXCEPT !.cpu = IF @ = NCPUS THEN 1 ELSE @ + 1]
LastCPU == check.cpu = NCPUS
steady == <<completed, running, batches, work_pending, readerVars, done, invoked, ghosts>>

\* The first srcu_readers_seq_idx().
ReadSeq1(p) ==
    /\ At(p, "seq1")
    /\ check' = NextCPU
    /\ Goto(p, IF LastCPU THEN "active" ELSE "seq1")
    /\ UNCHANGED steady

CheckFails(p) ==
    IF check.trycount <= 1
    THEN check' = NotChecking /\ Goto(p, "advanced")
    ELSE /\ check' = Checking(check.idx, check.trycount - 1, check.flipped)
         /\ Goto(p, "seq1")

srcu_readers_active_idx(p) ==
    LET sum == (check.sum + c[check.cpu][check.idx]) % Modulus IN
    /\ At(p, "active")
    /\ IF LastCPU /\ sum # 0
       THEN CheckFails(p)
       ELSE check' = [NextCPU EXCEPT !.sum = sum]
            /\ Goto(p, IF LastCPU THEN "seq2" ELSE "active")
    /\ UNCHANGED steady

CheckPassed(p) ==
    /\ check' = NotChecking
    /\ Goto(p, IF check.flipped THEN "second_ok" ELSE "first_ok")

\* Faulty: the second sum is not compared with the first.
ReadSeq2Unchecked(p) ==
    /\ At(p, "seq2")
    /\ IF LastCPU THEN CheckPassed(p) ELSE check' = NextCPU /\ Goto(p, "seq2")
    /\ UNCHANGED steady

\* The second srcu_readers_seq_idx().
ReadSeq2(p) ==
    /\ At(p, "seq2")
    /\ IF ~LastCPU THEN check' = NextCPU /\ Goto(p, "seq2")
       ELSE IF check.ahead % Modulus = 0 THEN CheckPassed(p) ELSE CheckFails(p)
    /\ UNCHANGED steady
------------------------------------------------------------------------------
\* srcu_advance_batches()

\* idx is the rank readers no longer fetch.
Advance(p) ==
    /\ At(p, "advance")
    /\ IF batch_check0 = <<>> /\ batch_check1 = <<>>
       THEN Goto(p, "advanced") /\ UNCHANGED check
       ELSE /\ check' = Checking(1 - completed,
                                IF p = Work THEN 1 ELSE SYNCHRONIZE_SRCU_TRYCOUNT, FALSE)
            /\ Goto(p, "seq1")
    /\ UNCHANGED steady

AdvanceFirst(p) ==
    /\ At(p, "first_ok")
    /\ batch_done' = batch_done \o batch_check1
    /\ batch_check1' = <<>>
    /\ Goto(p, IF batch_check0 = <<>> THEN "advanced" ELSE "flip")
    /\ UNCHANGED <<completed, running, batch_queue, batch_check0, work_pending, readerVars,
                   done, invoked, check, ghosts>>

\* Faulty: the readers keep fetching the rank that is checked next.
FlipNot(p) ==
    /\ At(p, "flip")
    /\ batch_check1' = batch_check1 \o batch_check0
    /\ batch_check0' = <<>>
    /\ check' = Checking(completed, SYNCHRONIZE_SRCU_TRYCOUNT, TRUE)
    /\ Goto(p, "seq1")
    /\ UNCHANGED <<completed, running, batch_queue, batch_done, work_pending, readerVars,
                   done, invoked, ghosts>>

\* srcu_flip(), the move to batch_check1 and the call of try_check_zero(idx^1).
srcu_flip(p) ==
    /\ At(p, "flip")
    /\ completed' = 1 - completed
    /\ batch_check1' = batch_check1 \o batch_check0
    /\ batch_check0' = <<>>
    /\ check' = Checking(completed, SYNCHRONIZE_SRCU_TRYCOUNT, TRUE)
    /\ Goto(p, "seq1")
    /\ UNCHANGED <<running, batch_queue, batch_done, work_pending, readerVars, done,
                   invoked, ghosts>>

AdvanceSecond(p) ==
    /\ At(p, "second_ok")
    /\ batch_done' = batch_done \o batch_check1
    /\ batch_check1' = <<>>
    /\ Goto(p, "advanced")
    /\ UNCHANGED <<completed, running, batch_queue, batch_check0, work_pending, readerVars,
                   done, invoked, check, ghosts>>

------------------------------------------------------------------------------
\* What the owner does with batch_done: srcu_invoke_callbacks() in the work item, and the
\* rest of __synchronize_srcu() in a caller that stole the processing.

\* wakeme_after_rcu() completes the waiting caller; other callbacks leave no trace here.
Invoke(h) ==
    /\ pc' = [p \in Owners |-> IF p = h THEN "idle" ELSE pc[p]]
    /\ earlier' = [p \in Syncers |-> earlier[p] \ {h}]

srcu_invoke_callbacks ==
    /\ At(Work, "advanced")
    /\ IF batch_done = <<>> \/ invoked = CallbackBatch
       THEN /\ invoked' = 0
            /\ Goto(Work, "reschedule")
            /\ UNCHANGED <<batch_done, earlier>>
       ELSE /\ Invoke(Head(batch_done))
            /\ batch_done' = Tail(batch_done)
            /\ invoked' = invoked + 1
    /\ UNCHANGED <<completed, running, batch_queue, batch_check0, batch_check1,
                   work_pending, readerVars, done, check, older>>

SyncTakeOwn(p) ==
    /\ p # Work /\ At(p, "advanced")
    /\ batch_done' = IF batch_done = <<>> THEN <<>> ELSE Tail(batch_done)
    /\ done' = [done EXCEPT ![p] = batch_done # <<>>]
    /\ Goto(p, "reschedule")
    /\ UNCHANGED <<completed, running, batch_queue, batch_check0, batch_check1,
                   work_pending, readerVars, invoked, check, ghosts>>

------------------------------------------------------------------------------
\* srcu_reschedule(): a look without the lock, then one under queue_lock

\* Where an owner goes when the processing is handed on: wait_for_completion() unless done.
Finish(p) == Goto(p, IF p = Work \/ done[p] THEN "idle" ELSE "wait")

\* Faulty: callbacks that are done but not invoked yet are forgotten.
AllEmptyButDone == batch_queue = <<>> /\ batch_check0 = <<>> /\ batch_check1 = <<>>

AllBatchesEmpty ==
    /\ batch_queue = <<>> /\ batch_check0 = <<>>
    /\ batch_check1 = <<>> /\ batch_done = <<>>

Reschedule(p) ==
    /\ At(p, "reschedule")
    /\ IF AllBatchesEmpty
       THEN Goto(p, "stop") /\ UNCHANGED work_pending
       ELSE work_pending' = TRUE /\ Finish(p)
    /\ UNCHANGED <<completed, running, batches, readerVars, done, invoked, check, ghosts>>

RescheduleLocked(p) ==
    /\ At(p, "stop")
    /\ IF AllBatchesEmpty
       THEN running' = FALSE /\ UNCHANGED work_pending
       ELSE work_pending' = TRUE /\ UNCHANGED running
    /\ Finish(p)
    /\ UNCHANGED <<completed, batches, readerVars, done, invoked, check, ghosts>>

------------------------------------------------------------------------------
OwnerStep(p) ==
    \/ Advance(p) \/ ReadSeq1(p) \/ srcu_readers_active_idx(p) \/ ReadSeq2(p)
    \/ AdvanceFirst(p) \/ srcu_flip(p) \/ AdvanceSecond(p)
    \/ SyncTakeOwn(p) \/ Reschedule(p) \/ RescheduleLocked(p)

WorkStep == ProcessSrcu \/ srcu_collect_new \/ srcu_invoke_callbacks \/ OwnerStep(Work)

ReaderStep(r) == ReadCount(r) \/ ReadSeq(r) \/ \E k \in CPUs : ReadUnlock(r, k)

Next ==
    \/ \E r \in Readers : ReaderStep(r) \/ \E k \in CPUs : ReadFetch(r, k)
    \/ \E h \in Callbacks : call_srcu(h)
    \/ \E p \in Syncers : __synchronize_srcu(p) \/ OwnerStep(p)
    \/ WorkStep

Spec == Init /\ [][Next]_vars

------------------------------------------------------------------------------
Owning == {p \in Owners : pc[p] \notin {"idle", "wait"}}

\* Safety, the promise of call_srcu() and synchronize_srcu(): a head reaches batch_done,
\* and a caller returns, only when every reader that was inside its section when the
\* head was queued has left it, however readers migrate while the counters are summed.
GracePeriod ==
    \A h \in Heads :
        (h \in Range(batch_done) \/ (h \in Syncers /\ At(h, "idle"))) => older[h] = {}

\* Safety: batch_check0, batch_check1 and batch_done have no lock; sp->running makes
\* sure that one task at a time works on them, and that the work item is not queued
\* while a caller does.
OneOwner ==
    /\ \A p, q \in Owning : p = q
    /\ Owning # {} => running
    /\ work_pending => running /\ Owning = {}

\* Safety: BUG_ON(sp->batch_done.head != head) never fires: a caller that stole the
\* processing finds nobody's head but its own.
StealerFindsOwnHead ==
    \A p \in Syncers : At(p, "advanced") /\ batch_done # <<>> => batch_done = <<p>>

\* Safety, the comment of srcu_barrier(), which is synchronize_srcu(): when the call
\* returns, every callback queued before it has been invoked.
BarrierCovers == \A p \in Syncers : At(p, "idle") => earlier[p] = {}

\* Safety, the comment in srcu_readers_active_idx_check(): between the two sums at most
\* one late reader per CPU increments ->seq[idx], so the sums cannot agree by overflow.
FewLateReaders == check.ahead <= NCPUS
=============================================================================
