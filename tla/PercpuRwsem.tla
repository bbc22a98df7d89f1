----------------------------- MODULE PercpuRwsem -----------------------------
(***************************************************************************)
(* The per-CPU reader/writer semaphore, kernel/locking/percpu-rwsem.c and  *)
(* percpu-rwsem.h, on top of rcu_sync: readers only touch a counter of     *)
(* their CPU while no writer is about.                                     *)
(*                                                                         *)
(* Readers migrate between CPUs outside their preempt-disabled sections,   *)
(* which are the RCU-sched sections of RcuSync, one at a time on a CPU.    *)
(* The embedded rw_sem is the lock RwSem specifies: many readers or one    *)
(* writer.  Accesses are sequentially consistent.                          *)
(***************************************************************************)
EXTENDS RcuSync

CONSTANTS CPUs,   \* the possible CPUs
          Modulus, \* 2^32, the range of the unsigned int counters
          NoCPU, NoWriter

\* Besides the readers that are inside, per_cpu_sum() may see on each CPU one that is on
\* its way in; that must not add up to a full turn of the counter.
ASSUME PercpuAssumption ==
    /\ IsFiniteSet(Readers) /\ IsFiniteSet(CPUs) /\ NoCPU \notin CPUs
    /\ NoWriter \notin Updaters
    /\ Modulus \in Nat /\ Modulus > Cardinality(Readers) + Cardinality(CPUs)

VARIABLES read_count,    \* *sem->read_count of each CPU; the sum is what counts
          readers_block, \* sem->readers_block
          rw_readers,    \* the readers that hold sem->rw_sem
          rw_writer,     \* the writer that holds sem->rw_sem
          queued,        \* the writer is on the wait queue sem->writer
          rpc, cpu,      \* where each reader is, the CPU of its section
          wpc,           \* where each writer is after rcu_sync_enter()
          sum, unread    \* per_cpu_sum(): __sum and the CPUs not read yet

rwsem == <<rw_readers, rw_writer>>
readerVars == <<rpc, cpu>>
writerVars == <<queued, wpc, sum, unread>>
vars == <<rcuVars, read_count, readers_block, rwsem, readerVars, writerVars>>

PInit ==
    /\ Init
    /\ read_count = [c \in CPUs |-> 0]
    /\ readers_block = FALSE
    /\ rw_readers = {}
    /\ rw_writer = NoWriter
    /\ queued = FALSE
    /\ rpc = [r \in Readers |-> "out"]
    /\ cpu = [r \in Readers |-> NoCPU]
    /\ wpc = [w \in Updaters |-> "none"]
    /\ sum = 0
    /\ unread = {}

RAt(r, p) == rpc[r] = p
RGoto(r, p) == rpc' = [rpc EXCEPT ![r] = p]
Add(c, n) == read_count' = [read_count EXCEPT ![c] = (@ + n) % Modulus]

\* preempt_disable() on CPU c and preempt_enable().
PreemptDisable(r, c) ==
    /\ \A s \in inside : cpu[s] # c
    /\ ReadLock(r)
    /\ cpu' = [cpu EXCEPT ![r] = c]

PreemptEnable(r) ==
    /\ ReadUnlock(r)
    /\ cpu' = [cpu EXCEPT ![r] = NoCPU]

------------------------------------------------------------------------------
\* percpu_down_read() and percpu_down_read_trylock()

DownReadInc(r, c) ==
    /\ RAt(r, "out")
    /\ PreemptDisable(r, c)
    /\ Add(c, 1)
    /\ RGoto(r, "d_idle")
    /\ UNCHANGED <<readers_block, rwsem, writerVars>>

DownReadIdle(r) ==
    /\ RAt(r, "d_idle")
    /\ IF gp_state = "idle"
       THEN RGoto(r, "reading") /\ PreemptEnable(r)
       ELSE RGoto(r, "d_block") /\ UNCHANGED <<rcuVars, cpu>>
    /\ UNCHANGED <<read_count, readers_block, rwsem, writerVars>>

\* __percpu_down_read()
DownReadBlock(r) ==
    /\ RAt(r, "d_block")
    /\ IF readers_block
       THEN RGoto(r, "d_undo") /\ UNCHANGED <<rcuVars, cpu>>
       ELSE RGoto(r, "reading") /\ PreemptEnable(r)
    /\ UNCHANGED <<read_count, readers_block, rwsem, writerVars>>

\* Faulty: preemption is on again, the decrement may hit another CPU.
DownReadUndoMigrated(r) ==
    /\ RAt(r, "d_undo")
    /\ \E c \in CPUs : Add(c, -1)
    /\ RGoto(r, "d_wake")
    /\ UNCHANGED <<rcuVars, readers_block, rwsem, cpu, writerVars>>

DownReadUndo(r) ==
    /\ RAt(r, "d_undo")
    /\ Add(cpu[r], -1)
    /\ RGoto(r, "d_wake")
    /\ UNCHANGED <<rcuVars, readers_block, rwsem, cpu, writerVars>>

\* wake_up(&sem->writer); a trylock gives up here.
DownReadWake(r) ==
    /\ RAt(r, "d_wake")
    /\ queued' = FALSE
    /\ PreemptEnable(r)
    /\ RGoto(r, "d_sem") \/ RGoto(r, "out")
    /\ UNCHANGED <<read_count, readers_block, rwsem, wpc, sum, unread>>

DownReadSem(r) ==
    /\ RAt(r, "d_sem")
    /\ rw_writer = NoWriter
    /\ rw_readers' = rw_readers \cup {r}
    /\ RGoto(r, "d_inc")
    /\ UNCHANGED <<rcuVars, read_count, readers_block, rw_writer, cpu, writerVars>>

\* Faulty: the reader that waited for rw_sem is not counted.
DownReadSemUncounted(r, c) ==
    /\ RAt(r, "d_inc")
    /\ RGoto(r, "d_up")
    /\ UNCHANGED <<rcuVars, read_count, readers_block, rwsem, cpu, writerVars>>

DownReadSemInc(r, c) ==
    /\ RAt(r, "d_inc")
    /\ Add(c, 1)
    /\ RGoto(r, "d_up")
    /\ UNCHANGED <<rcuVars, readers_block, rwsem, cpu, writerVars>>

DownReadSemUp(r) ==
    /\ RAt(r, "d_up")
    /\ rw_readers' = rw_readers \ {r}
    /\ RGoto(r, "reading")
    /\ UNCHANGED <<rcuVars, read_count, readers_block, rw_writer, cpu, writerVars>>

------------------------------------------------------------------------------
\* percpu_up_read()

UpRead(r, c) ==
    /\ RAt(r, "reading")
    /\ PreemptDisable(r, c)
    /\ RGoto(r, "u_idle")
    /\ UNCHANGED <<read_count, readers_block, rwsem, writerVars>>

UpReadIdle(r) ==
    /\ RAt(r, "u_idle")
    /\ IF gp_state = "idle"
       THEN RGoto(r, "u_fast") /\ SeesIdle(r)
       ELSE RGoto(r, "u_slow") /\ UNCHANGED rcuVars
    /\ UNCHANGED <<read_count, readers_block, rwsem, cpu, writerVars>>

UpReadFast(r) ==
    /\ RAt(r, "u_fast")
    /\ Add(cpu[r], -1)
    /\ PreemptEnable(r)
    /\ RGoto(r, "out")
    /\ UNCHANGED <<readers_block, rwsem, writerVars>>

\* __percpu_up_read()
UpReadSlow(r) ==
    /\ RAt(r, "u_slow")
    /\ Add(cpu[r], -1)
    /\ RGoto(r, "u_wake")
    /\ UNCHANGED <<rcuVars, readers_block, rwsem, cpu, writerVars>>

\* Faulty: no wake_up().
UpReadNoWake(r) ==
    /\ RAt(r, "u_wake")
    /\ PreemptEnable(r)
    /\ RGoto(r, "out")
    /\ UNCHANGED <<read_count, readers_block, rwsem, writerVars>>

UpReadWake(r) ==
    /\ RAt(r, "u_wake")
    /\ queued' = FALSE
    /\ PreemptEnable(r)
    /\ RGoto(r, "out")
    /\ UNCHANGED <<read_count, readers_block, rwsem, wpc, sum, unread>>

------------------------------------------------------------------------------
\* percpu_down_write(): rcu_sync_enter(), then down_write(&sem->rw_sem).

WAt(w, p) == wpc[w] = p
WGoto(w, p) == wpc' = [wpc EXCEPT ![w] = p]

RcuEnter(w) ==
    /\ Enter(w) \/ EnterSynced(w) \/ EnterWaited(w) \/ EnterChecked(w)
    /\ UNCHANGED <<read_count, readers_block, rwsem, readerVars, writerVars>>

DownWriteSem(w) ==
    /\ upd[w] = "entered" /\ WAt(w, "none")
    /\ rw_writer = NoWriter /\ rw_readers = {}
    /\ rw_writer' = w
    /\ WGoto(w, "block")
    /\ UNCHANGED <<rcuVars, read_count, readers_block, rw_readers, readerVars, queued, sum, unread>>

DownWriteBlock(w) ==
    /\ WAt(w, "block")
    /\ readers_block' = TRUE
    /\ WGoto(w, "prepare")
    /\ UNCHANGED <<rcuVars, read_count, rwsem, readerVars, queued, sum, unread>>

\* wait_event(sem->writer, readers_active_check(sem)): the writer is on the
\* queue before it looks at the counters, one CPU after the other.
DownWritePrepare(w) ==
    /\ WAt(w, "prepare")
    /\ queued' = TRUE
    /\ sum' = 0
    /\ unread' = CPUs
    /\ WGoto(w, "sum")
    /\ UNCHANGED <<rcuVars, read_count, readers_block, rwsem, readerVars>>

DownWriteSum(w, c) ==
    /\ WAt(w, "sum")
    /\ c \in unread
    /\ sum' = (sum + read_count[c]) % Modulus
    /\ unread' = unread \ {c}
    /\ UNCHANGED <<rcuVars, read_count, readers_block, rwsem, readerVars, queued, wpc>>

DownWriteCheck(w) ==
    /\ WAt(w, "sum")
    /\ unread = {}
    /\ sum' = 0
    /\ IF sum = 0
       THEN WGoto(w, "writing") /\ queued' = FALSE
       ELSE WGoto(w, "sleep") /\ UNCHANGED queued
    /\ UNCHANGED <<rcuVars, read_count, readers_block, rwsem, readerVars, unread>>

DownWriteWoken(w) ==
    /\ WAt(w, "sleep")
    /\ ~queued
    /\ WGoto(w, "prepare")
    /\ UNCHANGED <<rcuVars, read_count, readers_block, rwsem, readerVars, queued, sum, unread>>

\* percpu_up_write()
UpWriteUnblock(w) ==
    /\ WAt(w, "writing")
    /\ readers_block' = FALSE
    /\ WGoto(w, "release")
    /\ UNCHANGED <<rcuVars, read_count, rwsem, readerVars, queued, sum, unread>>

UpWriteSem(w) ==
    /\ WAt(w, "release")
    /\ rw_writer' = NoWriter
    /\ WGoto(w, "exit")
    /\ UNCHANGED <<rcuVars, read_count, readers_block, rw_readers, readerVars, queued, sum, unread>>

UpWriteExit(w) ==
    /\ WAt(w, "exit")
    /\ Exit(w)
    /\ WGoto(w, "none")
    /\ UNCHANGED <<read_count, readers_block, rwsem, readerVars, queued, sum, unread>>

\* rcu_sync_func() of the embedded rcu_sync.
RcuCallback ==
    /\ Callback
    /\ UNCHANGED <<read_count, readers_block, rwsem, readerVars, writerVars>>

------------------------------------------------------------------------------
ReaderStep(r) ==
    \/ DownReadIdle(r) \/ DownReadBlock(r) \/ DownReadUndo(r) \/ DownReadWake(r)
    \/ DownReadSem(r) \/ DownReadSemUp(r)
    \/ UpReadIdle(r) \/ UpReadFast(r) \/ UpReadSlow(r) \/ UpReadWake(r)
    \/ \E c \in CPUs : DownReadSemInc(r, c) \/ UpRead(r, c)

WriterStep(w) ==
    \/ DownWriteSem(w) \/ DownWriteBlock(w) \/ DownWritePrepare(w) \/ DownWriteCheck(w)
    \/ DownWriteWoken(w) \/ UpWriteUnblock(w) \/ UpWriteSem(w) \/ UpWriteExit(w)
    \/ \E c \in CPUs : DownWriteSum(w, c)

PNext ==
    \/ \E r \in Readers : ReaderStep(r) \/ \E c \in CPUs : DownReadInc(r, c)
    \/ \E w \in Updaters : RcuEnter(w) \/ WriterStep(w)
    \/ RcuCallback

PSpec == PInit /\ [][PNext]_vars

\* Readers and writers that can go on do, and release what they hold; rw_sem
\* does not starve the writer.
PFairSpec ==
    /\ PSpec
    /\ \A r \in Readers : WF_vars(ReaderStep(r))
    /\ \A w \in Updaters : /\ WF_vars(WriterStep(w)) /\ SF_vars(DownWriteSem(w))
                           /\ WF_vars(upd[w] # "out" /\ RcuEnter(w))
    /\ WF_vars(RcuCallback)

------------------------------------------------------------------------------
\* A reader holds the semaphore until its counter is decremented.
Reading == {r \in Readers : rpc[r] \in {"d_up", "reading", "u_idle", "u_fast", "u_slow"}}

\* Each variable has the values that percpu-rwsem.c gives it; a counter stays an
\* unsigned word, although a single one may wrap below 0.
PTypeOK ==
    /\ TypeOK
    /\ read_count \in [CPUs -> 0..(Modulus - 1)]
    /\ readers_block \in BOOLEAN
    /\ rw_readers \subseteq Readers
    /\ rw_writer \in Updaters \cup {NoWriter}
    /\ queued \in BOOLEAN
    /\ rpc \in [Readers -> {"out", "d_idle", "d_block", "d_undo", "d_wake", "d_sem", "d_inc",
                            "d_up", "reading", "u_idle", "u_fast", "u_slow", "u_wake"}]
    /\ cpu \in [Readers -> CPUs \cup {NoCPU}]
    /\ wpc \in [Updaters -> {"none", "block", "prepare", "sum", "sleep", "writing", "release",
                             "exit"}]
    /\ sum \in 0..(Modulus - 1)
    /\ unread \subseteq CPUs

\* percpu_down_write() returns only when no reader is inside, although it sums
\* counters that readers change behind its back, and no reader gets in until
\* percpu_up_write().
WriterAlone ==
    \A w \in Updaters : wpc[w] = "writing" =>
        /\ Reading = {}
        /\ \A v \in Updaters \ {w} : wpc[v] \in {"none", "exit"}

\* The readers that are counted and have yet to look whether they may stay.
Entering == {r \in Readers : rpc[r] \in {"d_idle", "d_block", "d_undo"}}

\* The sum of the counters f of the CPUs in S, as the number of units in them.
Units(f, S) == {u \in S \X (0..(Modulus - 1)) : u[2] < f[u[1]]}
CounterSum(S) == Cardinality(Units(read_count, S))

\* The argument of the comments on per_cpu_sum(): migrating readers leave some
\* counters below zero, the sum over all CPUs is the readers that are counted.
SumIsReaders == CounterSum(CPUs) % Modulus = Cardinality(Reading) + Cardinality(Entering)

\* No lost wake-up: while the writer sleeps on sem->writer some reader is going
\* to call wake_up(); a reader on the fast path of percpu_up_read(), which does
\* not, is never among those the writer waits for.
WriterWillBeWoken ==
    (\E w \in Updaters : wpc[w] = "sleep") /\ queued =>
        /\ \E r \in Readers : rpc[r] \notin {"out", "d_sem", "d_inc", "d_up", "u_fast"}
        /\ \A r \in Readers : rpc[r] # "u_fast"

\* From some point on no reader calls percpu_down_read() or its trylock.
ReadCallsStop == <>[][\A r \in Readers, c \in CPUs : ~DownReadInc(r, c)]_vars

\* percpu_down_write() returns, once no new readers come: each of them disturbs
\* the sum for a moment, and those of a trylock may come again and again.
WriterGetsIn ==
    ReadCallsStop => \A w \in Updaters : upd[w] # "out" /\ wpc[w] = "none" ~> wpc[w] = "writing"
==============================================================================
