----------------------------- MODULE SrcuProofs -----------------------------
(***************************************************************************)
(* An srcu_struct, for every number of readers, CPUs, callers and          *)
(* callbacks.  One task at a time works on the callbacks, and a caller of  *)
(* synchronize_srcu() that takes the work over finds only its own head;    *)
(* when a caller returns, the callbacks queued before it have been         *)
(* invoked; a check of the counters meets at most one late reader per CPU; *)
(* and no head leaves its queues while a reader it waits for is inside.    *)
(***************************************************************************)
EXTENDS Srcu, FiniteSetTheorems, TLAPS

\* Most leaves are first-order: they are left to Zenon, and those that count to SMT.
USE Zenon

\* The work item is not a caller of synchronize_srcu().
LEMMA WorkIsNoSyncer == Work \notin Syncers
BY SrcuAssumption

\* The places of an owner before it has taken what is done, and after.
Advancing == {"collect", "advance", "seq1", "active", "seq2", "first_ok", "flip",
              "second_ok", "advanced"}
PCs == {"idle", "wait", "reschedule", "stop"} \cup Advancing

TypeOK ==
    /\ pc \in [Owners -> PCs]
    /\ running \in BOOLEAN /\ work_pending \in BOOLEAN
    /\ batch_queue \in Seq(Heads) /\ batch_check0 \in Seq(Heads)
    /\ batch_check1 \in Seq(Heads) /\ batch_done \in Seq(Heads)

\* sp->running is cleared only with all four queues empty, so that a caller that finds
\* it clear starts with empty queues.
IdleIsEmpty == ~running => AllBatchesEmpty

\* The head of p is the only one on the three queues the owner works on.
Lone(p) ==
    \/ batch_check0 = <<p>> /\ batch_check1 = <<>> /\ batch_done = <<>>
    \/ batch_check0 = <<>> /\ batch_check1 = <<p>> /\ batch_done = <<>>
    \/ batch_check0 = <<>> /\ batch_check1 = <<>> /\ batch_done = <<p>>
LoneCaller == \A p \in Syncers : pc[p] \in Advancing => Lone(p)

\* The inductive invariant: without IdleIsEmpty a caller could take over queues that
\* others are on.
IInv == TypeOK /\ OneOwner /\ IdleIsEmpty /\ LoneCaller

------------------------------------------------------------------------------
\* What the queues of srcu.c do at their ends.
LEMMA BatchFacts ==
    /\ \A h : Append(<<>>, h) = <<h>>
    /\ \A s \in Seq(Heads) : <<>> \o s = s /\ s \o <<>> = s
    /\ <<>> \in Seq(Heads)
    /\ \A s, t \in Seq(Heads) : s \o t \in Seq(Heads)
    /\ \A s \in Seq(Heads), h \in Heads : Append(s, h) \in Seq(Heads)
    /\ \A s \in Seq(Heads) : s # <<>> => Tail(s) \in Seq(Heads)
<1>1. \A h : Append(<<>>, h) = <<h>>
    BY SMT
<1>2. \A s \in Seq(Heads) : <<>> \o s = s /\ s \o <<>> = s
    BY SMT
<1>3. <<>> \in Seq(Heads)
    BY SMT
<1>4. \A s, t \in Seq(Heads) : s \o t \in Seq(Heads)
    BY SMT
<1>5. \A s \in Seq(Heads), h \in Heads : Append(s, h) \in Seq(Heads)
    BY SMT
<1>6. \A s \in Seq(Heads) : s # <<>> => Tail(s) \in Seq(Heads)
    BY SMT
<1> QED BY <1>1, <1>2, <1>3, <1>4, <1>5, <1>6

\* init_srcu_struct_fields()
LEMMA InitIInv == Init => IInv
<1> SUFFICES ASSUME Init PROVE IInv
    OBVIOUS
<1>1. TypeOK
    BY BatchFacts DEF Init, TypeOK, PCs
<1>2. \A p \in Owners : pc[p] = "idle"
    BY DEF Init
<1>3. OneOwner
    BY <1>2 DEF Init, OneOwner, Owning
<1>4. LoneCaller
    BY <1>2 DEF LoneCaller, Advancing, Owners
<1>5. IdleIsEmpty
    BY DEF Init, IdleIsEmpty, AllBatchesEmpty
<1> QED BY <1>1, <1>3, <1>4, <1>5 DEF IInv

\* What __synchronize_srcu() does to the queues and to their ownership.
SynchronizeEffect(p) ==
    /\ At(p, "idle") /\ running' = TRUE
    /\ UNCHANGED <<batch_check1, batch_done, work_pending>>
    /\ \/ /\ running /\ Goto(p, "wait")
          /\ batch_queue' = Append(batch_queue, p) /\ UNCHANGED batch_check0
       \/ /\ ~running /\ Goto(p, "advance")
          /\ batch_check0' = Append(batch_check0, p) /\ UNCHANGED batch_queue

\* The rest of the step is about readers and history variables.
LEMMA Synchronizes ==
    ASSUME NEW p \in Syncers, __synchronize_srcu(p)
    PROVE  SynchronizeEffect(p)
BY DEF __synchronize_srcu, SynchronizeEffect

\* A step of the checks for zero moves its owner inside srcu_advance_batches() and leaves
\* the queues alone.
LEMMA CheckEffect ==
    ASSUME NEW p, Advance(p) \/ ReadSeq1(p) \/ srcu_readers_active_idx(p) \/ ReadSeq2(p)
    PROVE  /\ pc[p] \in Advancing
           /\ \E l \in Advancing : Goto(p, l)
           /\ UNCHANGED <<running, work_pending, batches>>
<1> USE DEF At, Advancing
<1>1. CASE Advance(p)
    BY <1>1 DEF Advance, steady
<1>2. CASE ReadSeq1(p)
    BY <1>2 DEF ReadSeq1, steady
<1>3. CASE srcu_readers_active_idx(p)
    BY <1>3 DEF srcu_readers_active_idx, CheckFails, steady
<1>4. CASE ReadSeq2(p)
    BY <1>4 DEF ReadSeq2, CheckFails, CheckPassed, steady
<1> QED BY <1>1, <1>2, <1>3, <1>4

\* srcu_invoke_callbacks() ends, or it takes the first head off batch_done.
InvokeEffect ==
    /\ At(Work, "advanced")
    /\ UNCHANGED <<running, batch_queue, batch_check0, batch_check1, work_pending>>
    /\ \/ Goto(Work, "reschedule") /\ UNCHANGED batch_done
       \/ /\ batch_done # <<>> /\ batch_done' = Tail(batch_done)
          /\ pc' = [q \in Owners |-> IF q = Head(batch_done) THEN "idle" ELSE pc[q]]

\* srcu_invoke_callbacks() takes the first callback, or finds none left and goes on.
LEMMA Invokes == srcu_invoke_callbacks => InvokeEffect
BY DEF srcu_invoke_callbacks, Invoke, InvokeEffect

\* Every step keeps the values of the variables in range.
LEMMA NextTypeOK == IInv /\ [Next]_vars => TypeOK'
<1> SUFFICES ASSUME IInv, [Next]_vars PROVE TypeOK'
    OBVIOUS
<1> USE DEF IInv, TypeOK, PCs, Advancing, Owners, At, Goto
<1>1. CASE \E r \in Readers : ReaderStep(r) \/ \E k \in CPUs : ReadFetch(r, k)
    BY <1>1 DEF ReaderStep, ReadFetch, ReadCount, ReadSeq, ReadUnlock, batches, owner
<1>2. ASSUME NEW h \in Callbacks, call_srcu(h) PROVE TypeOK'
    BY <1>2, BatchFacts DEF call_srcu, owner, Heads
<1>3. ASSUME NEW p \in Syncers, __synchronize_srcu(p) PROVE TypeOK'
    <2>1. p \in Heads /\ SynchronizeEffect(p)
        BY <1>3, Synchronizes DEF Heads
    <2>2. batch_queue' \in Seq(Heads) /\ batch_check0' \in Seq(Heads)
        BY <2>1, BatchFacts, ZenonT(30) DEF SynchronizeEffect
    <2> QED BY <2>1, <2>2 DEF SynchronizeEffect
<1>4. ASSUME NEW p \in Owners, OwnerStep(p) PROVE TypeOK'
    <2>1. CASE Advance(p) \/ ReadSeq1(p) \/ srcu_readers_active_idx(p) \/ ReadSeq2(p)
        BY <2>1, CheckEffect DEF batches
    <2>2. CASE AdvanceFirst(p)
        BY <2>2, BatchFacts DEF AdvanceFirst
    <2>5. CASE srcu_flip(p)
        BY <2>5, BatchFacts DEF srcu_flip
    <2>6. CASE AdvanceSecond(p)
        BY <2>6, BatchFacts DEF AdvanceSecond
    <2>3. CASE SyncTakeOwn(p)
        BY <2>3, BatchFacts DEF SyncTakeOwn
    <2>4. CASE Reschedule(p) \/ RescheduleLocked(p)
        <3>1. \E l \in PCs : Goto(p, l)
            BY <2>4 DEF Reschedule, RescheduleLocked, Finish
        <3>2. running' \in BOOLEAN /\ work_pending' \in BOOLEAN /\ UNCHANGED batches
            BY <2>4 DEF Reschedule, RescheduleLocked
        <3> QED BY <3>1, <3>2 DEF batches
    <2> QED BY <1>4, <2>1, <2>2, <2>3, <2>4, <2>5, <2>6 DEF OwnerStep
<1>5. CASE ProcessSrcu \/ srcu_collect_new
    <2>1. CASE ProcessSrcu
        BY <2>1 DEF ProcessSrcu, batches
    <2>2. CASE srcu_collect_new
        BY <2>2, BatchFacts DEF srcu_collect_new
    <2> QED BY <1>5, <2>1, <2>2
<1>6. CASE srcu_invoke_callbacks
    <2>1. InvokeEffect
        BY <1>6, Invokes
    <2>2. batch_done' \in Seq(Heads)
        BY <2>1, BatchFacts DEF InvokeEffect
    <2> QED BY <2>1, <2>2 DEF InvokeEffect
<1>7. CASE UNCHANGED vars
    BY <1>7 DEF vars, batches, owner
<1> QED BY <1>1, <1>2, <1>3, <1>4, <1>5, <1>6, <1>7 DEF Next, WorkStep, Owners

\* Every step keeps the work on the queues with one task.
LEMMA NextOwnership == IInv /\ [Next]_vars => OneOwner' /\ IdleIsEmpty' /\ LoneCaller'
<1> SUFFICES ASSUME IInv, [Next]_vars PROVE OneOwner' /\ IdleIsEmpty' /\ LoneCaller'
    OBVIOUS
<1> DEFINE Goal == OneOwner' /\ IdleIsEmpty' /\ LoneCaller'
<1> USE WorkIsNoSyncer DEF IInv, TypeOK, PCs, Advancing, Owners, Heads, At, Goto, OneOwner, Owning,
            IdleIsEmpty, LoneCaller, Lone, AllBatchesEmpty
<1>1. CASE \E r \in Readers : ReaderStep(r) \/ \E k \in CPUs : ReadFetch(r, k)
    <2>1. UNCHANGED <<pc, running, work_pending, batches>>
        BY <1>1 DEF ReaderStep, ReadFetch, ReadCount, ReadSeq, ReadUnlock, owner
    <2> QED BY <2>1 DEF batches
<1>2. ASSUME NEW h \in Callbacks, call_srcu(h) PROVE Goal
    BY <1>2 DEF call_srcu, owner
<1>3. ASSUME NEW p \in Syncers, __synchronize_srcu(p) PROVE Goal
    <2> HIDE DEF IInv, PCs, Heads, OneOwner, Owning, IdleIsEmpty, LoneCaller, Lone
    <2>1. SynchronizeEffect(p) /\ pc \in [Owners -> PCs]
          /\ OneOwner /\ IdleIsEmpty /\ LoneCaller
        BY <1>3, Synchronizes DEF IInv
    <2> USE <2>1
    <2>2. IdleIsEmpty'
        BY DEF SynchronizeEffect, IdleIsEmpty
    <2>3. CASE running
        <3>1. Owning' = Owning
            BY <2>3 DEF SynchronizeEffect, Owning
        <3>2. OneOwner'
            BY <2>3, <3>1 DEF SynchronizeEffect, OneOwner
        <3>3. LoneCaller'
            BY <2>3 DEF SynchronizeEffect, LoneCaller, Lone
        <3> QED BY <2>2, <3>2, <3>3
    <2>4. CASE ~running
        <3>1. Owning = {} /\ ~work_pending
            BY <2>4 DEF OneOwner
        <3>2. Owning' = {p}
            BY <2>4, <3>1 DEF SynchronizeEffect, Owning
        <3>3. OneOwner'
            BY <3>1, <3>2 DEF SynchronizeEffect, OneOwner
        <3>4. Lone(p)'
            BY <2>4, BatchFacts DEF SynchronizeEffect, IdleIsEmpty, Lone
        <3>5. LoneCaller'
            BY <3>2, <3>4, SMT DEF LoneCaller, Owning
        <3> QED BY <2>2, <3>3, <3>5
    <2> QED BY <2>3, <2>4
<1>4. ASSUME NEW p \in Owners, OwnerStep(p) PROVE Goal
    <2>1. CASE Advance(p) \/ ReadSeq1(p) \/ srcu_readers_active_idx(p) \/ ReadSeq2(p)
        BY <2>1, CheckEffect DEF batches
    <2>2. CASE AdvanceFirst(p)
        BY <2>2, BatchFacts DEF AdvanceFirst
    <2>3. CASE srcu_flip(p)
        BY <2>3, BatchFacts DEF srcu_flip
    <2>4. CASE AdvanceSecond(p)
        BY <2>4, BatchFacts DEF AdvanceSecond
    <2>5. CASE SyncTakeOwn(p)
        BY <2>5, SMT DEF SyncTakeOwn
    <2>6. CASE Reschedule(p)
        <3>1. CASE AllBatchesEmpty
            BY <2>6, <3>1, SMT DEF Reschedule, batches
        <3>2. CASE ~AllBatchesEmpty
            <4>1. \E l \in {"idle", "wait"} : Goto(p, l)
                BY <2>6, <3>2 DEF Reschedule, Finish
            <4>2. Owning' = {}
                BY <2>6, <4>1, SMT DEF Reschedule
            <4> QED BY <2>6, <3>2, <4>1, <4>2 DEF Reschedule, batches
        <3> QED BY <3>1, <3>2
    <2>7. CASE RescheduleLocked(p)
        <3>1. \E l \in {"idle", "wait"} : Goto(p, l)
            BY <2>7 DEF RescheduleLocked, Finish
        <3>2. Owning' = {}
            BY <2>7, <3>1, SMT DEF RescheduleLocked
        <3> QED BY <2>7, <3>1, <3>2 DEF RescheduleLocked, batches
    <2> QED BY <1>4, <2>1, <2>2, <2>3, <2>4, <2>5, <2>6, <2>7 DEF OwnerStep
<1>5. CASE ProcessSrcu \/ srcu_collect_new
    <2>1. CASE ProcessSrcu
        BY <2>1 DEF ProcessSrcu, batches
    <2>2. CASE srcu_collect_new
        <3>1. Work \in Owning /\ Goto(Work, "advance")
            BY <2>2 DEF srcu_collect_new
        <3>2. ~work_pending /\ running
            BY <3>1
        <3>3. \A p \in Syncers : pc'[p] = pc[p] /\ pc[p] \in {"idle", "wait"}
            BY <3>1
        <3>4. running' /\ ~work_pending'
            BY <2>2, <3>2 DEF srcu_collect_new
        <3>5. \A p \in Owning' : p = Work
            BY <3>3
        <3> QED BY <3>3, <3>4, <3>5
    <2> QED BY <1>5, <2>1, <2>2
<1>6. CASE srcu_invoke_callbacks
    BY <1>6, Invokes, SMT DEF InvokeEffect
<1>7. CASE UNCHANGED vars
    BY <1>7 DEF vars, batches, owner
<1> QED BY <1>1, <1>2, <1>3, <1>4, <1>5, <1>6, <1>7 DEF Next, WorkStep

\* The inductive invariant holds in every reachable state.
LEMMA Invariance == Spec => []IInv
<1>1. IInv /\ [Next]_vars => IInv'
    BY NextTypeOK, NextOwnership DEF IInv
<1> QED BY InitIInv, <1>1, PTL DEF Spec

------------------------------------------------------------------------------
\* One task at a time works on the queues that have no lock, and the work item is queued
\* only when none does.
THEOREM OneOwnerHolds == Spec => []OneOwner
<1>1. IInv => OneOwner
    BY DEF IInv
<1> QED BY Invariance, <1>1, PTL

\* BUG_ON(sp->batch_done.head != head) in __synchronize_srcu() never fires.
THEOREM StealerHolds == Spec => []StealerFindsOwnHead
<1>1. IInv => StealerFindsOwnHead
    BY DEF IInv, LoneCaller, Lone, StealerFindsOwnHead, Advancing, At
<1> QED BY Invariance, <1>1, PTL

------------------------------------------------------------------------------
\* The heads that wait, in the order in which their callbacks will be invoked.
AllQ == ((batch_done \o batch_check1) \o batch_check0) \o batch_queue

\* Callers whose head has been taken off the queues.
Returned(p) == pc[p] = "idle" \/ (pc[p] \in {"reschedule", "stop"} /\ done[p])

Distinct(s) == \A i, j \in 1..Len(s) : s[i] = s[j] => i = j
Within(s, e) == \E i \in 1..Len(s) : s[i] = e

\* What a caller has to wait for, by f, is in front of its head.
Behind(s, f) ==
    \A i \in 1..Len(s) : s[i] \in Syncers =>
        \A q \in f[s[i]] : \E j \in 1..Len(s) : j < i /\ s[j] = q

\* The queues hold each head once and keep their order; a caller that goes on has no head
\* on them and waits for nobody.
OrderInv ==
    /\ done \in [Syncers -> BOOLEAN] /\ earlier \in [Syncers -> SUBSET Callbacks]
    /\ Distinct(AllQ) /\ Behind(AllQ, earlier)
    /\ \A p \in Syncers : Returned(p) => ~Within(AllQ, p) /\ earlier[p] = {}

\* Joining sequences: where the elements are.
LEMMA Joined ==
    ASSUME NEW s \in Seq(Heads), NEW t \in Seq(Heads)
    PROVE  /\ s \o t \in Seq(Heads) /\ Len(s \o t) = Len(s) + Len(t)
           /\ \A i \in 1..Len(s) : (s \o t)[i] = s[i]
           /\ \A i \in 1..Len(t) : (s \o t)[i + Len(s)] = t[i]
BY SMT

\* Joining is associative,
LEMMA JoinAssoc ==
    ASSUME NEW s \in Seq(Heads), NEW t \in Seq(Heads), NEW u \in Seq(Heads)
    PROVE  (s \o t) \o u = s \o (t \o u)
BY SMT

\* ... adding at the end of the last one adds at the end of all,
LEMMA JoinAppend ==
    ASSUME NEW s \in Seq(Heads), NEW t \in Seq(Heads), NEW h \in Heads
    PROVE  s \o Append(t, h) = Append(s \o t, h)
BY SMT

\* ... and taking from the first one takes from all.
LEMMA JoinTail ==
    ASSUME NEW s \in Seq(Heads), NEW t \in Seq(Heads), s # <<>>
    PROVE  Tail(s) \o t = Tail(s \o t) /\ s \o t # <<>> /\ Head(s \o t) = Head(s)
BY SMT

\* What is on a joined sequence.
LEMMA WithinJoin ==
    ASSUME NEW s \in Seq(Heads), NEW t \in Seq(Heads)
    PROVE  \A e : Within(s \o t, e) <=> Within(s, e) \/ Within(t, e)
<1> DEFINE u == s \o t
<1>1. /\ Len(u) = Len(s) + Len(t) /\ Len(s) \in Nat /\ Len(t) \in Nat
      /\ \A i \in 1..Len(s) : u[i] = s[i]
      /\ \A i \in 1..Len(t) : u[i + Len(s)] = t[i]
    BY Joined, SMT
<1> USE <1>1
<1> HIDE DEF u
<1>2. ASSUME NEW i \in 1..Len(s) PROVE i \in 1..Len(u) /\ u[i] = s[i]
    BY SMT
<1>3. ASSUME NEW i \in 1..Len(t) PROVE i + Len(s) \in 1..Len(u) /\ u[i + Len(s)] = t[i]
    BY SMT
<1>4. ASSUME NEW k \in 1..Len(u)
      PROVE  (\E i \in 1..Len(s) : u[k] = s[i]) \/ (\E i \in 1..Len(t) : u[k] = t[i])
    <2>1. CASE k \in 1..Len(s)
        BY <2>1
    <2>2. CASE k \notin 1..Len(s)
        <3>1. k - Len(s) \in 1..Len(t) /\ (k - Len(s)) + Len(s) = k
            BY <2>2, SMT
        <3>2. u[k] = t[k - Len(s)]
            BY <3>1
        <3> QED BY <3>1, <3>2
    <2> QED BY <2>1, <2>2
<1>5. \A e : Within(u, e) <=> Within(s, e) \/ Within(t, e)
    BY <1>2, <1>3, <1>4, ZenonT(30) DEF Within
<1> QED BY <1>5 DEF u

\* The set of what is on a sequence.
LEMMA RangeWithin ==
    ASSUME NEW s \in Seq(Heads)
    PROVE  \A e : e \in Range(s) <=> Within(s, e)
BY SMT DEF Range, Within

\* A head that is added waits behind all that are there.
LEMMA AppendOrder ==
    ASSUME NEW s \in Seq(Heads), NEW h \in Heads, NEW f, NEW g,
           ~Within(s, h), Distinct(s), Behind(s, f),
           \A e \in Heads : e # h => g[e] = f[e],
           h \in Syncers => \A q \in g[h] : Within(s, q)
    PROVE  /\ Distinct(Append(s, h)) /\ Behind(Append(s, h), g)
           /\ \A e : Within(Append(s, h), e) <=> Within(s, e) \/ e = h
<1> DEFINE t == Append(s, h)
           n == Len(s)
<1>1. /\ n \in Nat /\ Len(t) = n + 1 /\ t[n + 1] = h /\ \A i \in 1..n : t[i] = s[i]
      /\ \A i \in 1..n : s[i] \in Heads
    BY SMT
<1> USE <1>1
<1> HIDE DEF t, n
<1>2. \A i \in 1..(n + 1) : i \in 1..n \/ i = n + 1
    BY SMT
<1>3. \A i \in 1..n : i \in 1..(n + 1) /\ i < n + 1 /\ s[i] # h
    BY SMT DEF Within, n
<1> USE <1>3
<1>4. Distinct(t)
    BY <1>2, SMT DEF Distinct, n
<1>5. Behind(t, g)
    <2> SUFFICES ASSUME NEW i \in 1..(n + 1), t[i] \in Syncers, NEW q \in g[t[i]]
                 PROVE  \E j \in 1..(n + 1) : j < i /\ t[j] = q
        BY SMT DEF Behind
    <2>1. CASE i \in 1..n
        <3>1. s[i] \in Syncers /\ q \in f[s[i]]
            BY <2>1
        <3>2. PICK j \in 1..n : j < i /\ s[j] = q
            BY <2>1, <3>1 DEF Behind, n
        <3> QED BY <3>2
    <2>2. CASE i = n + 1
        <3>1. PICK j \in 1..n : s[j] = q
            BY <2>2 DEF Within, n
        <3> QED BY <2>2, <3>1
    <2> QED BY <1>2, <2>1, <2>2
<1>6. \A e : Within(t, e) <=> Within(s, e) \/ e = h
    <2>1. n + 1 \in 1..(n + 1)
        BY SMT
    <2> QED BY <1>2, <2>1 DEF Within, n
<1> QED BY <1>4, <1>5, <1>6 DEF t

\* The first head waits behind nobody, and when it leaves the order is kept.
LEMMA TailOrder ==
    ASSUME NEW s \in Seq(Heads), s # <<>>, NEW f, NEW g, Distinct(s), Behind(s, f),
           \A e \in Syncers : g[e] = f[e] \ {Head(s)}
    PROVE  /\ Distinct(Tail(s)) /\ Behind(Tail(s), g)
           /\ \A e : Within(Tail(s), e) <=> Within(s, e) /\ e # Head(s)
           /\ Head(s) \in Heads
           /\ Head(s) \in Syncers => f[Head(s)] = {}
<1> DEFINE t == Tail(s)
           n == Len(t)
<1>1. /\ n \in Nat /\ Len(s) = n + 1 /\ Head(s) = s[1] /\ \A i \in 1..n : t[i] = s[i + 1]
      /\ s[1] \in Heads
    BY SMT
<1> HIDE DEF t, n
<1>2. \A i \in 1..(n + 1) : i = 1 \/ \E j \in 1..n : i = j + 1
    <2> SUFFICES ASSUME NEW i \in 1..(n + 1), i # 1 PROVE \E j \in 1..n : i = j + 1
        OBVIOUS
    <2>1. i - 1 \in 1..n /\ i = (i - 1) + 1
        BY <1>1, SMT
    <2> QED BY <2>1
<1>3. /\ 1 \in 1..(n + 1) /\ \A i \in 1..n : i + 1 \in 1..(n + 1) /\ i + 1 # 1
      /\ \A i, j \in 1..n : (i + 1 = j + 1 => i = j) /\ (i + 1 < j + 1 => i < j)
      /\ \A j \in 1..(n + 1) : ~(j < 1)
    BY <1>1, SMT
<1>4. Distinct(t)
    BY <1>1, <1>3, SMT DEF Distinct, n
<1>5. \A i \in 1..n : t[i] # s[1]
    BY <1>1, <1>3 DEF Distinct
<1>6. Behind(t, g)
    <2> SUFFICES ASSUME NEW i \in 1..n, t[i] \in Syncers, NEW q \in g[t[i]]
                 PROVE  \E j \in 1..n : j < i /\ t[j] = q
        BY DEF Behind, n
    <2>1. i + 1 \in 1..Len(s) /\ s[i + 1] = t[i] /\ q \in f[t[i]] /\ q # s[1]
        BY <1>1, <1>3, SMT
    <2>2. PICK k \in 1..Len(s) : k < i + 1 /\ s[k] = q
        BY <2>1 DEF Behind
    <2>3. PICK j \in 1..n : k = j + 1
        BY <1>1, <1>2, <2>1, <2>2
    <2> QED BY <1>1, <1>3, <2>2, <2>3
<1>7. \A e : Within(t, e) <=> Within(s, e) /\ e # s[1]
    <2>1. ASSUME NEW i \in 1..n PROVE i + 1 \in 1..Len(s) /\ s[i + 1] = t[i] /\ t[i] # s[1]
        BY <1>1, <1>3, <1>5
    <2>2. ASSUME NEW i \in 1..Len(s), s[i] # s[1] PROVE \E j \in 1..n : t[j] = s[i]
        <3>1. PICK j \in 1..n : i = j + 1
            BY <1>1, <1>2, <2>2
        <3> QED BY <1>1, <3>1
    <2>3. ASSUME NEW e, Within(t, e) PROVE Within(s, e) /\ e # s[1]
        BY <2>1, <2>3 DEF Within, n
    <2>4. ASSUME NEW e, Within(s, e), e # s[1] PROVE Within(t, e)
        BY <2>2, <2>4 DEF Within, n
    <2> QED BY <2>3, <2>4
<1>8. s[1] \in Syncers => f[s[1]] = {}
    BY <1>1, <1>3 DEF Behind
<1> QED BY <1>1, <1>4, <1>6, <1>7, <1>8 DEF t

------------------------------------------------------------------------------
\* The four queues are sequences of heads, and so is what they make up.
LEMMA AllQTypes ==
    ASSUME TypeOK
    PROVE  /\ AllQ \in Seq(Heads)
           /\ \A e : e \in Queued <=> Within(AllQ, e)
           /\ \A e : e \in Range(batch_done) => Within(AllQ, e)
<1>1. /\ batch_queue \in Seq(Heads) /\ batch_check0 \in Seq(Heads)
      /\ batch_check1 \in Seq(Heads) /\ batch_done \in Seq(Heads)
    BY DEF TypeOK
<1> USE <1>1
<1> DEFINE s == batch_done \o batch_check1
           t == s \o batch_check0
           x == batch_queue \o batch_check0
           y == x \o batch_check1
           z == y \o batch_done
<1>2. s \in Seq(Heads) /\ t \in Seq(Heads) /\ x \in Seq(Heads) /\ y \in Seq(Heads) /\ z \in Seq(Heads)
    BY BatchFacts
<1>3. AllQ \in Seq(Heads)
    BY <1>2, BatchFacts DEF AllQ
<1>4. \A e : Within(AllQ, e) <=> \/ Within(batch_done, e) \/ Within(batch_check1, e)
                                 \/ Within(batch_check0, e) \/ Within(batch_queue, e)
    BY <1>2, WithinJoin DEF AllQ
<1>5. \A e : Within(z, e) <=> \/ Within(batch_done, e) \/ Within(batch_check1, e)
                              \/ Within(batch_check0, e) \/ Within(batch_queue, e)
    BY <1>2, WithinJoin
<1>6. \A e : e \in Queued <=> Within(z, e)
    BY <1>2, RangeWithin DEF Queued
<1>7. \A e : e \in Range(batch_done) => Within(batch_done, e)
    BY RangeWithin
<1> QED BY <1>3, <1>4, <1>5, <1>6, <1>7

\* Moving the heads from queue to queue keeps their order.
LEMMA MovesKeepOrder ==
    ASSUME TypeOK, UNCHANGED batch_done \/ batch_done' = batch_done \o batch_check1,
           \/ srcu_collect_new
           \/ \E p \in Owners : AdvanceFirst(p) \/ srcu_flip(p) \/ AdvanceSecond(p)
    PROVE  AllQ' = AllQ
<1>1. /\ batch_queue \in Seq(Heads) /\ batch_check0 \in Seq(Heads)
      /\ batch_check1 \in Seq(Heads) /\ batch_done \in Seq(Heads)
    BY DEF TypeOK
<1> DEFINE s == batch_done \o batch_check1
<1>2. s \in Seq(Heads) /\ s \o batch_check0 \in Seq(Heads)
    BY <1>1, BatchFacts
<1>3. CASE srcu_collect_new
    <2>1. AllQ' = (s \o (batch_check0 \o batch_queue)) \o <<>>
        BY <1>3 DEF srcu_collect_new, AllQ
    <2>2. s \o (batch_check0 \o batch_queue) = (s \o batch_check0) \o batch_queue
        <3>1. PICK x \in Seq(Heads) : x = s
            BY <1>2
        <3>2. \A v, w \in Seq(Heads) : (x \o v) \o w = x \o (v \o w)
            BY JoinAssoc
        <3>3. (x \o batch_check0) \o batch_queue = x \o (batch_check0 \o batch_queue)
            BY <1>1, <3>2
        <3> QED BY <3>1, <3>3
    <2>3. (s \o batch_check0) \o batch_queue \in Seq(Heads)
        BY <1>1, <1>2, BatchFacts
    <2> QED BY <2>1, <2>2, <2>3, BatchFacts DEF AllQ
<1>4. ASSUME NEW p \in Owners, AdvanceFirst(p) \/ AdvanceSecond(p) PROVE AllQ' = AllQ
    <2>1. AllQ' = ((s \o <<>>) \o batch_check0) \o batch_queue
        BY <1>4 DEF AdvanceFirst, AdvanceSecond, AllQ
    <2> QED BY <1>2, <2>1, BatchFacts DEF AllQ
<1>5. ASSUME NEW p \in Owners, srcu_flip(p) PROVE AllQ' = AllQ
    <2>1. AllQ' = ((batch_done \o (batch_check1 \o batch_check0)) \o <<>>) \o batch_queue
        BY <1>5 DEF srcu_flip, AllQ
    <2>2. batch_done \o (batch_check1 \o batch_check0) = s \o batch_check0
        BY <1>1, JoinAssoc
    <2> QED BY <1>2, <2>1, <2>2, BatchFacts DEF AllQ
<1> QED BY <1>3, <1>4, <1>5

\* Taking the first head off batch_done takes it off all.
LEMMA TakeFirst ==
    ASSUME TypeOK, batch_done # <<>>, batch_done' = Tail(batch_done),
           UNCHANGED <<batch_queue, batch_check0, batch_check1>>
    PROVE  AllQ # <<>> /\ Head(AllQ) = Head(batch_done) /\ AllQ' = Tail(AllQ)
<1>1. /\ batch_queue \in Seq(Heads) /\ batch_check0 \in Seq(Heads)
      /\ batch_check1 \in Seq(Heads) /\ batch_done \in Seq(Heads)
    BY DEF TypeOK
<1> DEFINE s == batch_done \o batch_check1
           t == s \o batch_check0
<1>2. s \in Seq(Heads) /\ t \in Seq(Heads)
    BY <1>1, BatchFacts
<1>3. s # <<>> /\ Head(s) = Head(batch_done) /\ Tail(batch_done) \o batch_check1 = Tail(s)
    BY <1>1, JoinTail
<1>4. t # <<>> /\ Head(t) = Head(batch_done) /\ Tail(s) \o batch_check0 = Tail(t)
    BY <1>1, <1>2, <1>3, JoinTail
<1>5. AllQ # <<>> /\ Head(AllQ) = Head(batch_done) /\ Tail(t) \o batch_queue = Tail(AllQ)
    BY <1>1, <1>2, <1>4, JoinTail DEF AllQ
<1>6. AllQ' = Tail(t) \o batch_queue
    BY <1>3, <1>4 DEF AllQ
<1> QED BY <1>5, <1>6

\* Adding a head to batch_queue adds it at the end of all.
LEMMA AddLast ==
    ASSUME TypeOK, NEW h \in Heads, batch_queue' = Append(batch_queue, h),
           UNCHANGED <<batch_check0, batch_check1, batch_done>>
    PROVE  AllQ' = Append(AllQ, h)
<1>1. /\ batch_queue \in Seq(Heads) /\ batch_check0 \in Seq(Heads)
      /\ batch_check1 \in Seq(Heads) /\ batch_done \in Seq(Heads)
    BY DEF TypeOK
<1>2. PICK x \in Seq(Heads) : x = (batch_done \o batch_check1) \o batch_check0
    BY <1>1, BatchFacts
<1>3. x \o Append(batch_queue, h) = Append(x \o batch_queue, h)
    BY <1>1, JoinAppend
<1> QED BY <1>2, <1>3 DEF AllQ

------------------------------------------------------------------------------
\* A step that leaves the order alone.
LEMMA SameOrder ==
    ASSUME OrderInv, AllQ' = AllQ, UNCHANGED <<earlier, done>>,
           \A p \in Syncers : Returned(p)' => Returned(p)
    PROVE  OrderInv'
BY DEF OrderInv

\* Only the places and done tell who has returned.
LEMMA SameReturned ==
    ASSUME TypeOK, UNCHANGED done, NEW p \in Owners, NEW l, Goto(p, l),
           p \in Syncers => (l \in {"idle", "reschedule", "stop"} =>
                                pc[p] \in {"reschedule", "stop"} /\ done[p])
    PROVE  \A q \in Syncers : Returned(q)' => Returned(q)
<1>1. pc'[p] = l /\ \A q \in Owners : q # p => pc'[q] = pc[q]
    BY DEF TypeOK, Goto
<1>2. \A q \in Syncers : q \in Owners
    BY DEF Owners
<1> QED BY <1>1, <1>2 DEF Returned

\* call_srcu() adds its head at the end.
LEMMA CallKeepsOrder ==
    ASSUME TypeOK, OrderInv, NEW h \in Callbacks, call_srcu(h)
    PROVE  OrderInv'
<1>1. /\ h \notin Queued /\ batch_queue' = Append(batch_queue, h)
      /\ UNCHANGED <<batch_check0, batch_check1, batch_done, pc, done, earlier>>
    BY DEF call_srcu, owner
<1>2. h \in Heads /\ h \notin Syncers
    BY SrcuAssumption DEF Heads
<1>3. AllQ \in Seq(Heads) /\ ~Within(AllQ, h)
    BY <1>1, AllQTypes
<1>4. AllQ' = Append(AllQ, h)
    BY <1>1, <1>2, AddLast
<1>5. /\ Distinct(Append(AllQ, h)) /\ Behind(Append(AllQ, h), earlier)
      /\ \A e : Within(Append(AllQ, h), e) <=> Within(AllQ, e) \/ e = h
    BY <1>2, <1>3, AppendOrder DEF OrderInv
<1>6. \A p \in Syncers : Returned(p)' => Returned(p)
    BY <1>1 DEF Returned
<1> QED BY <1>1, <1>2, <1>4, <1>5, <1>6 DEF OrderInv

\* So does __synchronize_srcu(), and the callbacks it has to wait for are in front.
LEMMA SynchronizeKeepsOrder ==
    ASSUME IInv, OrderInv, NEW p \in Syncers, __synchronize_srcu(p)
    PROVE  OrderInv'
<1>1. SynchronizeEffect(p) /\ SyncStart(p)
    BY Synchronizes DEF __synchronize_srcu
<1> USE <1>1
<1>2. TypeOK /\ p \in Heads /\ p \in Owners
    BY DEF IInv, Heads, Owners
<1> USE <1>2
<1>3. AllQ \in Seq(Heads) /\ ~Within(AllQ, p)
    BY AllQTypes DEF OrderInv, Returned, SynchronizeEffect, At
<1>4. AllQ' = Append(AllQ, p)
    <2>1. CASE running
        <3>1. batch_queue' = Append(batch_queue, p) /\ UNCHANGED <<batch_check0, batch_check1, batch_done>>
            BY <2>1 DEF SynchronizeEffect
        <3> QED BY <3>1, AddLast
    <2>2. CASE ~running
        <3>1. /\ batch_queue = <<>> /\ batch_check0 = <<>> /\ batch_check1 = <<>> /\ batch_done = <<>>
              /\ batch_check0' = Append(batch_check0, p)
              /\ UNCHANGED <<batch_queue, batch_check1, batch_done>>
            BY <2>2 DEF SynchronizeEffect, IInv, IdleIsEmpty, AllBatchesEmpty
        <3>2. <<p>> \in Seq(Heads) /\ <<>> \in Seq(Heads) /\ Append(<<>>, p) = <<p>>
            BY SMT
        <3>3. AllQ' = ((<<>> \o <<>>) \o <<p>>) \o <<>> /\ AllQ = ((<<>> \o <<>>) \o <<>>) \o <<>>
            BY <3>1, <3>2 DEF AllQ
        <3>4. AllQ' = <<p>> /\ AllQ = <<>>
            BY <3>2, <3>3, BatchFacts
        <3> QED BY <3>2, <3>4
    <2> QED BY <2>1, <2>2
<1>5. /\ \A e \in Syncers : e # p => earlier'[e] = earlier[e] /\ done'[e] = done[e]
      /\ earlier'[p] = Queued \cap Callbacks
      /\ earlier' \in [Syncers -> SUBSET Callbacks] /\ done' \in [Syncers -> BOOLEAN]
    BY DEF SyncStart, OrderInv
<1>6. \A q \in earlier'[p] : Within(AllQ, q)
    BY <1>5, AllQTypes
<1>7. PICK g : /\ g[p] = earlier'[p] /\ \A e \in Heads : e # p => g[e] = earlier[e]
               /\ \A e \in Syncers : g[e] = earlier'[e]
    <2> DEFINE g == [e \in Heads |-> IF e = p THEN earlier'[p] ELSE earlier[e]]
    <2>1. \A e \in Syncers : e \in Heads
        BY DEF Heads
    <2>2. /\ g[p] = earlier'[p] /\ \A e \in Heads : e # p => g[e] = earlier[e]
          /\ \A e \in Syncers : g[e] = earlier'[e]
        BY <1>5, <2>1
    <2> QED BY <2>2
<1>8. /\ Distinct(Append(AllQ, p)) /\ Behind(Append(AllQ, p), g)
      /\ \A e : Within(Append(AllQ, p), e) <=> Within(AllQ, e) \/ e = p
    <2>1. Distinct(AllQ) /\ Behind(AllQ, earlier)
        BY DEF OrderInv
    <2>2. \A q \in g[p] : Within(AllQ, q)
        BY <1>6, <1>7
    <2> QED BY <1>3, <1>7, <2>1, <2>2, AppendOrder, SMT
<1>9. Behind(Append(AllQ, p), earlier')
    BY <1>7, <1>8 DEF Behind
<1>10. ASSUME NEW q \in Syncers, Returned(q)' PROVE q # p /\ Returned(q)
    <2>1. \/ pc' = [pc EXCEPT ![p] = "wait"] \/ pc' = [pc EXCEPT ![p] = "advance"]
        BY DEF SynchronizeEffect, Goto
    <2>2. pc'[p] \in {"wait", "advance"} /\ (q # p => pc'[q] = pc[q])
        BY <2>1 DEF TypeOK, Owners
    <2> QED BY <1>5, <1>10, <2>2 DEF Returned
<1> QED BY <1>4, <1>5, <1>8, <1>9, <1>10 DEF OrderInv

\* The first head leaves, and with it goes the caller that owns it, if it is one.
LEMMA FirstLeaves ==
    ASSUME TypeOK, OrderInv, batch_done # <<>>, batch_done' = Tail(batch_done),
           UNCHANGED <<batch_queue, batch_check0, batch_check1>>,
           earlier' = [p \in Syncers |-> earlier[p] \ {Head(batch_done)}],
           done' \in [Syncers -> BOOLEAN],
           \A p \in Syncers : Returned(p)' => Returned(p) \/ p = Head(batch_done)
    PROVE  OrderInv'
<1> DEFINE h == Head(batch_done)
<1>1. AllQ \in Seq(Heads) /\ AllQ # <<>> /\ Head(AllQ) = h /\ AllQ' = Tail(AllQ)
    BY AllQTypes, TakeFirst
<1> USE <1>1
<1>2. \A e \in Syncers : earlier'[e] = earlier[e] \ {h}
    OBVIOUS
<1> HIDE DEF h
<1>3. /\ Distinct(Tail(AllQ)) /\ Behind(Tail(AllQ), earlier')
      /\ \A e : Within(Tail(AllQ), e) <=> Within(AllQ, e) /\ e # h
      /\ h \in Syncers => earlier[h] = {}
    <2>1. Distinct(AllQ) /\ Behind(AllQ, earlier)
        BY DEF OrderInv
    <2>2. \A e \in Syncers : earlier'[e] = earlier[e] \ {Head(AllQ)}
        BY <1>2
    <2>3. PICK s \in Seq(Heads) : s = AllQ
        OBVIOUS
    <2>4. PICK f, g : f = earlier /\ g = earlier'
        OBVIOUS
    <2>5. s # <<>> /\ Distinct(s) /\ Behind(s, f) /\ \A e \in Syncers : g[e] = f[e] \ {Head(s)}
        BY <2>1, <2>2, <2>3, <2>4
    <2>6. /\ Distinct(Tail(s)) /\ Behind(Tail(s), g)
          /\ \A e : Within(Tail(s), e) <=> Within(s, e) /\ e # Head(s)
          /\ Head(s) \in Syncers => f[Head(s)] = {}
        BY <2>5, TailOrder
    <2> QED BY <2>3, <2>4, <2>6
<1>4. earlier' \in [Syncers -> SUBSET Callbacks]
    BY DEF OrderInv
<1>5. ASSUME NEW p \in Syncers, Returned(p)' PROVE ~Within(AllQ', p) /\ earlier'[p] = {}
    <2>1. Returned(p) \/ p = h
        BY <1>5 DEF h
    <2> QED BY <1>2, <1>3, <2>1 DEF OrderInv
<1> QED BY <1>3, <1>4, <1>5 DEF OrderInv

\* srcu_invoke_callbacks()
LEMMA InvokeKeepsOrder ==
    ASSUME IInv, OrderInv, srcu_invoke_callbacks
    PROVE  OrderInv'
<1>1. TypeOK /\ Work \in Owners /\ Work \notin Syncers /\ UNCHANGED <<done, batch_queue, batch_check0, batch_check1>>
    BY SrcuAssumption DEF IInv, Owners, srcu_invoke_callbacks
<1> USE <1>1
<1>2. CASE Goto(Work, "reschedule") /\ UNCHANGED <<batch_done, earlier>>
    <2>1. \A q \in Syncers : Returned(q)' => Returned(q)
        BY <1>2, SameReturned
    <2>2. AllQ' = AllQ
        BY <1>2 DEF AllQ
    <2> QED BY <1>2, <2>1, <2>2, SameOrder
<1>3. CASE batch_done # <<>> /\ Invoke(Head(batch_done)) /\ batch_done' = Tail(batch_done)
    <2>1. /\ earlier' = [p \in Syncers |-> earlier[p] \ {Head(batch_done)}]
          /\ pc' = [p \in Owners |-> IF p = Head(batch_done) THEN "idle" ELSE pc[p]]
        BY <1>3 DEF Invoke
    <2>2. \A p \in Syncers : p # Head(batch_done) => pc'[p] = pc[p]
        BY <2>1 DEF Owners
    <2>3. \A p \in Syncers : Returned(p)' => Returned(p) \/ p = Head(batch_done)
        BY <2>2 DEF Returned
    <2>4. done' \in [Syncers -> BOOLEAN]
        BY DEF OrderInv
    <2> QED BY <1>3, <2>1, <2>3, <2>4, FirstLeaves
<1> QED BY <1>2, <1>3 DEF srcu_invoke_callbacks

\* A caller that stole the processing takes its own head off batch_done.
LEMMA TakeOwnKeepsOrder ==
    ASSUME IInv, OrderInv, NEW p \in Syncers, SyncTakeOwn(p)
    PROVE  OrderInv'
<1>1. /\ TypeOK /\ p \in Owners /\ pc[p] = "advanced" /\ Goto(p, "reschedule")
      /\ UNCHANGED <<batch_queue, batch_check0, batch_check1, earlier>>
      /\ batch_done' = IF batch_done = <<>> THEN <<>> ELSE Tail(batch_done)
      /\ done' = [done EXCEPT ![p] = batch_done # <<>>]
    BY DEF IInv, Owners, SyncTakeOwn, At, ghosts
<1> USE <1>1
<1>2. /\ pc'[p] = "reschedule" /\ done'[p] = (batch_done # <<>>) /\ done' \in [Syncers -> BOOLEAN]
      /\ \A q \in Syncers : q # p => pc'[q] = pc[q] /\ done'[q] = done[q]
    BY DEF TypeOK, Goto, OrderInv, Owners
<1>3. \A q \in Syncers : q # p /\ Returned(q)' => Returned(q)
    BY <1>2 DEF Returned
<1>4. CASE batch_done = <<>>
    <2>1. AllQ' = AllQ
        BY <1>4 DEF AllQ
    <2>2. ~Returned(p)'
        BY <1>2, <1>4 DEF Returned
    <2> QED BY <1>2, <1>3, <2>1, <2>2 DEF OrderInv
<1>5. CASE batch_done # <<>>
    <2>1. Lone(p)
        BY DEF IInv, LoneCaller, Advancing
    <2>2. batch_done = <<p>>
        BY <1>5, <2>1 DEF Lone
    <2>3. Head(batch_done) = p
        BY <2>2, SMT
    <2>4. p \notin Callbacks
        BY SrcuAssumption
    <2>5. earlier' = [q \in Syncers |-> earlier[q] \ {Head(batch_done)}]
        <3>1. \A q \in Syncers : earlier[q] \ {p} = earlier[q]
            BY <2>4 DEF OrderInv
        <3>2. earlier = [q \in Syncers |-> earlier[q]]
            BY DEF OrderInv
        <3> QED BY <2>3, <3>1, <3>2
    <2>6. \A q \in Syncers : Returned(q)' => Returned(q) \/ q = Head(batch_done)
        BY <1>3, <2>3
    <2> QED BY <1>2, <1>5, <2>5, <2>6, FirstLeaves
<1> QED BY <1>4, <1>5

\* The other steps.
LEMMA OthersKeepOrder ==
    ASSUME IInv, OrderInv,
           \/ \E r \in Readers : ReaderStep(r) \/ \E k \in CPUs : ReadFetch(r, k)
           \/ ProcessSrcu \/ srcu_collect_new
           \/ \E p \in Owners : \/ Advance(p) \/ ReadSeq1(p) \/ srcu_readers_active_idx(p)
                                \/ ReadSeq2(p) \/ AdvanceFirst(p) \/ srcu_flip(p)
                                \/ AdvanceSecond(p) \/ Reschedule(p) \/ RescheduleLocked(p)
           \/ UNCHANGED vars
    PROVE  OrderInv'
<1>1. TypeOK /\ Work \in Owners /\ Work \notin Syncers
    BY SrcuAssumption DEF IInv, Owners
<1> USE <1>1
<1>2. ASSUME UNCHANGED <<batches, pc, done, earlier>> PROVE OrderInv'
    <2>1. AllQ' = AllQ
        BY <1>2 DEF batches, AllQ
    <2>2. \A p \in Syncers : Returned(p)' => Returned(p)
        BY <1>2 DEF Returned
    <2> QED BY <1>2, <2>1, <2>2, SameOrder
<1>3. ASSUME NEW r \in Readers, ReaderStep(r) \/ \E k \in CPUs : ReadFetch(r, k) PROVE OrderInv'
    <2>1. UNCHANGED <<batches, pc, done, earlier>>
        BY <1>3 DEF ReaderStep, ReadCount, ReadSeq, ReadUnlock, ReadFetch, owner, ghosts
    <2> QED BY <1>2, <2>1
<1>4. CASE ProcessSrcu
    <2>1. Goto(Work, "collect") /\ UNCHANGED <<done, batches, earlier>>
        BY <1>4 DEF ProcessSrcu, ghosts
    <2>2. AllQ' = AllQ
        BY <2>1 DEF batches, AllQ
    <2>3. \A q \in Syncers : Returned(q)' => Returned(q)
        BY <2>1, SameReturned
    <2> QED BY <2>1, <2>2, <2>3, SameOrder
<1>5. CASE srcu_collect_new
    <2>1. Goto(Work, "advance") /\ UNCHANGED <<done, batch_done, earlier>>
        BY <1>5 DEF srcu_collect_new, ghosts
    <2>2. AllQ' = AllQ
        BY <1>5, <2>1, MovesKeepOrder
    <2>3. \A q \in Syncers : Returned(q)' => Returned(q)
        BY <2>1, SameReturned
    <2> QED BY <2>1, <2>2, <2>3, SameOrder
<1>6. ASSUME NEW p \in Owners, Advance(p) \/ ReadSeq1(p) \/ srcu_readers_active_idx(p) \/ ReadSeq2(p)
      PROVE  OrderInv'
    <2>1. UNCHANGED <<done, earlier, batches>>
        BY <1>6 DEF Advance, ReadSeq1, srcu_readers_active_idx, ReadSeq2, steady, ghosts
    <2>2. PICK l \in Advancing : Goto(p, l)
        BY <1>6, CheckEffect
    <2>3. l \notin {"idle", "reschedule", "stop"}
        BY <2>2 DEF Advancing
    <2>4. \A q \in Syncers : Returned(q)' => Returned(q)
        BY <2>1, <2>2, <2>3, SameReturned
    <2>5. AllQ' = AllQ
        BY <2>1 DEF batches, AllQ
    <2> QED BY <2>1, <2>4, <2>5, SameOrder
<1>7. ASSUME NEW p \in Owners, AdvanceFirst(p) \/ srcu_flip(p) \/ AdvanceSecond(p) PROVE OrderInv'
    <2>1. UNCHANGED <<done, earlier>> /\ (UNCHANGED batch_done \/ batch_done' = batch_done \o batch_check1)
        BY <1>7 DEF AdvanceFirst, srcu_flip, AdvanceSecond, ghosts
    <2>2. PICK l \in {"advanced", "flip", "seq1"} : Goto(p, l)
        BY <1>7 DEF AdvanceFirst, srcu_flip, AdvanceSecond
    <2>3. l \notin {"idle", "reschedule", "stop"}
        BY <2>2
    <2>4. \A q \in Syncers : Returned(q)' => Returned(q)
        BY <2>1, <2>2, <2>3, SameReturned
    <2>5. AllQ' = AllQ
        BY <1>7, <2>1, MovesKeepOrder
    <2> QED BY <2>1, <2>4, <2>5, SameOrder
<1>8. ASSUME NEW p \in Owners, Reschedule(p) \/ RescheduleLocked(p) PROVE OrderInv'
    <2>1. pc[p] \in {"reschedule", "stop"} /\ UNCHANGED <<done, earlier, batches>>
        BY <1>8 DEF Reschedule, RescheduleLocked, At, ghosts
    <2>2. Finish(p) \/ Goto(p, "stop")
        BY <1>8 DEF Reschedule, RescheduleLocked
    <2>3. AllQ' = AllQ
        BY <2>1 DEF batches, AllQ
    <2>4. \A q \in Owners : q # p => pc'[q] = pc[q]
        BY <2>2 DEF Finish, Goto, TypeOK
    <2>5. p # Work => (pc'[p] = "idle" => done[p]) /\ pc'[p] \in {"idle", "wait", "stop"}
        BY <2>2 DEF Finish, Goto, TypeOK
    <2>6. \A q \in Syncers : q \in Owners /\ q # Work
        BY DEF Owners
    <2>7. \A q \in Syncers : Returned(q)' => Returned(q)
        BY <2>1, <2>4, <2>5, <2>6 DEF Returned
    <2> QED BY <2>1, <2>3, <2>7, SameOrder
<1>9. CASE UNCHANGED vars
    <2>1. UNCHANGED <<batches, pc, done, earlier>>
        BY <1>9 DEF vars, owner, ghosts
    <2> QED BY <1>2, <2>1
<1> QED BY <1>3, <1>4, <1>5, <1>6, <1>7, <1>8, <1>9

\* Initially the queues are empty.
LEMMA InitOrderInv == Init => OrderInv
<1> SUFFICES ASSUME Init PROVE OrderInv
    OBVIOUS
<1>1. AllQ = <<>>
    BY BatchFacts DEF Init, AllQ
<1>2. done \in [Syncers -> BOOLEAN] /\ earlier \in [Syncers -> SUBSET Callbacks]
      /\ \A p \in Syncers : earlier[p] = {}
    BY DEF Init
<1>3. \A i : i \notin 1..Len(<<>>)
    BY SMT
<1>4. Distinct(<<>>) /\ Behind(<<>>, earlier) /\ \A p : ~Within(<<>>, p)
    BY <1>3 DEF Distinct, Behind, Within
<1> QED BY <1>1, <1>2, <1>4 DEF OrderInv

\* Every step keeps the order.
LEMMA NextOrderInv == IInv /\ OrderInv /\ [Next]_vars => OrderInv'
<1> SUFFICES ASSUME IInv, OrderInv, [Next]_vars PROVE OrderInv'
    OBVIOUS
<1>1. TypeOK
    BY DEF IInv
<1>2. ASSUME NEW h \in Callbacks, call_srcu(h) PROVE OrderInv'
    BY <1>1, <1>2, CallKeepsOrder
<1>3. ASSUME NEW p \in Syncers, __synchronize_srcu(p) PROVE OrderInv'
    BY <1>3, SynchronizeKeepsOrder
<1>4. ASSUME NEW p \in Owners, OwnerStep(p) PROVE OrderInv'
    <2>1. CASE SyncTakeOwn(p)
        <3>1. p \in Syncers
            BY <2>1 DEF SyncTakeOwn, Owners
        <3> QED BY <2>1, <3>1, TakeOwnKeepsOrder
    <2>2. CASE ~SyncTakeOwn(p)
        BY <1>4, <2>2, OthersKeepOrder DEF OwnerStep
    <2> QED BY <2>1, <2>2
<1>5. CASE WorkStep
    <2>1. Work \in Owners
        BY DEF Owners
    <2>2. CASE srcu_invoke_callbacks
        BY <2>2, InvokeKeepsOrder
    <2>3. CASE ProcessSrcu \/ srcu_collect_new
        BY <2>3, OthersKeepOrder
    <2> QED BY <1>4, <1>5, <2>1, <2>2, <2>3 DEF WorkStep
<1>6. CASE \E r \in Readers : ReaderStep(r) \/ \E k \in CPUs : ReadFetch(r, k)
    BY <1>6, OthersKeepOrder
<1>7. CASE UNCHANGED vars
    BY <1>7, OthersKeepOrder
<1>8. \A p \in Syncers : p \in Owners
    BY DEF Owners
<1> QED BY <1>2, <1>3, <1>4, <1>5, <1>6, <1>7, <1>8 DEF Next

\* srcu_barrier(): when synchronize_srcu() returns, every callback queued before the call
\* has been invoked.
THEOREM BarrierCoversHolds == Spec => []BarrierCovers
<1>1. IInv /\ OrderInv => BarrierCovers
    BY DEF OrderInv, Returned, BarrierCovers, At
<1>2. Init => IInv /\ OrderInv
    BY InitIInv, InitOrderInv
<1>3. IInv /\ OrderInv /\ [Next]_vars => IInv' /\ OrderInv'
    BY NextTypeOK, NextOwnership, NextOrderInv DEF IInv
<1> QED BY <1>1, <1>2, <1>3, PTL DEF Spec

------------------------------------------------------------------------------
(***************************************************************************)
(* The grace period.  The per-CPU counters are summed up one by one while  *)
(* readers come and go, so what the sum tells is stated modulo the width   *)
(* of the counters.                                                        *)
(***************************************************************************)
\* Equal up to turns of the counters.
Cong(a, b) == \E z \in Int : a = b + z * Modulus

\* The counters have a range.
LEMMA CounterRange == Modulus \in Nat /\ Modulus > 0
BY SrcuAssumption, FS_CardinalityType, SMT

\* Reducing a number changes it by turns only.
LEMMA Reduced ==
    ASSUME NEW a \in Int
    PROVE  a % Modulus \in 0..(Modulus - 1) /\ Cong(a % Modulus, a)
<1>1. Modulus \in Nat /\ Modulus > 0
    BY CounterRange
<1>2. /\ a % Modulus \in 0..(Modulus - 1) /\ a \div Modulus \in Int
      /\ a = (a \div Modulus) * Modulus + (a % Modulus)
    BY <1>1, SMT
<1> DEFINE q == a \div Modulus
           r == a % Modulus
<1>3. q \in Int /\ r \in Int /\ a = q * Modulus + r
    BY <1>2, SMT
<1> HIDE DEF q, r
<1>4. -q \in Int /\ r = a + (-q) * Modulus
    BY <1>1, <1>3, SMT
<1> QED BY <1>2, <1>4 DEF Cong, r

\* A number is equal to itself.
LEMMA CongSame ==
    ASSUME NEW a \in Int
    PROVE  Cong(a, a)
<1>1. a = a + 0 * Modulus
    BY SrcuAssumption, SMT
<1> QED BY <1>1, SMT DEF Cong

\* A part of a sum may be replaced by one that is equal up to turns.
LEMMA CongSwap ==
    ASSUME NEW a \in Int, NEW b \in Int, NEW d \in Int, NEW e \in Int, Cong(a, b), Cong(d, e)
    PROVE  Cong(a + (d - e), b)
<1>1. PICK y \in Int : a = b + y * Modulus
    BY DEF Cong
<1>2. PICK z \in Int : d = e + z * Modulus
    BY DEF Cong
<1>3. a + (d - e) = b + (y + z) * Modulus /\ y + z \in Int
    BY <1>1, <1>2, CounterRange, SMT
<1> QED BY <1>3 DEF Cong

\* Within one turn they are the same.
LEMMA CongUnique ==
    ASSUME NEW a \in 0..(Modulus - 1), NEW b \in 0..(Modulus - 1), Cong(a, b)
    PROVE  a = b
<1>1. PICK z \in Int : a = b + z * Modulus
    BY DEF Cong
<1>2. Modulus \in Nat
    BY SrcuAssumption
<1> USE <1>2
<1>3. CASE z >= 1
    <2>1. z * Modulus >= Modulus
        BY <1>3, SMT
    <2> QED BY <1>1, <2>1, SMT
<1>4. CASE z <= -1
    <2>1. z * Modulus <= -Modulus
        BY <1>4, SMT
    <2> QED BY <1>1, <2>1, SMT
<1>5. CASE z = 0
    BY <1>1, <1>5, SMT
<1> QED BY <1>3, <1>4, <1>5, SMT

------------------------------------------------------------------------------
\* The counters of rank i, one to a CPU, and the sum over the CPUs of S: the number of
\* pairs of a CPU and a number below its counter.
Counters == [CPUs -> 0..(Modulus - 1)]
Counter(i) == [k \in CPUs |-> c[k][i]]
Units(f, S) == {u \in S \X (0..(Modulus - 1)) : u[2] < f[u[1]]}
CounterSum(i, S) == Cardinality(Units(Counter(i), S))

\* There are finitely many units.
LEMMA UnitsFinite ==
    ASSUME NEW f \in Counters, NEW S \in SUBSET CPUs
    PROVE  IsFiniteSet(Units(f, S)) /\ Cardinality(Units(f, S)) \in Nat
<1>0. NCPUS \in Int /\ Modulus - 1 \in Int /\ 0 \in Int /\ 1 \in Int
    BY SrcuAssumption, SMT
<1>1. IsFiniteSet(S) /\ IsFiniteSet(0..(Modulus - 1))
    BY <1>0, FS_Subset, FS_Interval DEF CPUs
<1>2. IsFiniteSet(S \X (0..(Modulus - 1)))
    BY <1>1, FS_Product
<1> QED BY <1>2, FS_Subset, FS_CardinalityType DEF Units

\* The counter of one CPU and those of the others make up the sum.
LEMMA UnitsSplit ==
    ASSUME NEW f \in Counters, NEW S \in SUBSET CPUs, NEW k \in S
    PROVE  Cardinality(Units(f, S)) = Cardinality(Units(f, S \ {k})) + f[k]
<1> DEFINE U == Units(f, {k})
           V == Units(f, S \ {k})
           h == [n \in 0..(f[k] - 1) |-> <<k, n>>]
<1>1. f[k] \in 0..(Modulus - 1) /\ Modulus \in Nat
    BY SrcuAssumption DEF Counters
<1>2. IsFiniteSet(0..(f[k] - 1)) /\ Cardinality(0..(f[k] - 1)) = f[k]
    <2>1. 0 \in Int /\ f[k] - 1 \in Int /\ f[k] >= 0 /\ f[k] \in Int
        BY <1>1, SMT
    <2>2. Cardinality(0..(f[k] - 1)) = IF 0 > f[k] - 1 THEN 0 ELSE (f[k] - 1) - 0 + 1
        BY <2>1, FS_Interval
    <2>3. IsFiniteSet(0..(f[k] - 1))
        BY <2>1, FS_Interval
    <2> QED BY <2>1, <2>2, <2>3, SMT
<1>3. \A x : x \in U <=> \E n \in 0..(f[k] - 1) : x = <<k, n>>
    BY <1>1, SMT DEF Units
<1>4. h \in Bijection(0..(f[k] - 1), U)
    BY <1>3 DEF Bijection, Injection, Surjection, IsInjective
<1>5. Cardinality(U) = f[k]
    BY <1>2, <1>4, FS_Bijection, SMT DEF ExistsBijection
<1>6. Units(f, S) = V \cup U /\ V \cap U = {}
    BY DEF Units
<1>7. IsFiniteSet(U) /\ IsFiniteSet(V) /\ Cardinality(V) \in Nat
    BY UnitsFinite
<1> HIDE DEF U, V
<1>8. Cardinality(V \cup U) = Cardinality(V) + Cardinality(U) - Cardinality({})
    BY <1>6, <1>7, FS_Union
<1> QED BY <1>1, <1>5, <1>6, <1>7, <1>8, FS_EmptySet, SMT DEF V

\* Changing the counter of one CPU changes the sum of any CPUs that include it, up to
\* turns, and no other.
LEMMA SumChange ==
    ASSUME NEW f \in Counters, NEW k \in CPUs, NEW n \in Int
    PROVE  LET g == [f EXCEPT ![k] = (@ + n) % Modulus] IN
           /\ g \in Counters
           /\ \A S \in SUBSET CPUs, s \in Int, b \in Int :
                 Cong(s + Cardinality(Units(f, S)), b) =>
                     Cong(s + Cardinality(Units(g, S)), IF k \in S THEN b + n ELSE b)
<1> DEFINE g == [f EXCEPT ![k] = (@ + n) % Modulus]
<1>1. f[k] \in Int /\ f[k] + n \in Int
    BY SrcuAssumption, SMT DEF Counters
<1>2. (f[k] + n) % Modulus \in 0..(Modulus - 1) /\ Cong((f[k] + n) % Modulus, f[k] + n)
    BY <1>1, Reduced
<1>3. g \in Counters /\ g[k] = (f[k] + n) % Modulus /\ \A d \in CPUs \ {k} : g[d] = f[d]
    BY <1>1, <1>2 DEF Counters
<1> USE <1>3
<1> HIDE DEF g
<1>4. \A T \in SUBSET CPUs : k \notin T => Units(g, T) = Units(f, T)
    BY DEF Units
<1>5. ASSUME NEW S \in SUBSET CPUs, NEW s \in Int, NEW b \in Int, k \in S,
             Cong(s + Cardinality(Units(f, S)), b)
      PROVE  Cong(s + Cardinality(Units(g, S)), b + n)
    <2> DEFINE v == Cardinality(Units(f, S \ {k}))
    <2>1. v \in Int /\ Cardinality(Units(f, S)) = v + f[k]
        BY <1>5, UnitsSplit, UnitsFinite, SMT
    <2>2. Cardinality(Units(g, S)) = v + g[k]
        BY <1>4, <1>5, UnitsSplit
    <2>3. g[k] \in Int /\ Modulus \in Int
        BY <1>2, SrcuAssumption, SMT
    <2> HIDE DEF v
    <2>4. PICK y \in Int : s + (v + f[k]) = b + y * Modulus
        BY <1>5, <2>1 DEF Cong
    <2>5. PICK z \in Int : g[k] = (f[k] + n) + z * Modulus
        BY <1>2 DEF Cong
    <2>6. s + (v + g[k]) = (b + n) + (y + z) * Modulus /\ y + z \in Int
        BY <1>1, <1>5, <2>1, <2>3, <2>4, <2>5, SMT
    <2> QED BY <2>2, <2>6 DEF Cong
<1>6. g \in Counters /\ \A S \in SUBSET CPUs, s \in Int, b \in Int :
         Cong(s + Cardinality(Units(f, S)), b) =>
             Cong(s + Cardinality(Units(g, S)), IF k \in S THEN b + n ELSE b)
    BY <1>4, <1>5
<1> QED BY <1>6 DEF g

------------------------------------------------------------------------------
\* The places of an owner in try_check_zero() and after a check that passed.
CheckPlaces == {"seq1", "active", "seq2"}
Passed == {"first_ok", "flip", "second_ok"}
OwnerAt(L) == \E p \in Owners : pc[p] \in L

\* The readers of rank i at a place of L.
On(i, L) == {r \in Readers : rank[r] = i /\ rpc[r] \in L}

\* Readers on their way in have a CPU, and no two the same one.
ReadersOK ==
    /\ completed \in 0..1
    /\ c \in [CPUs -> [0..1 -> 0..(Modulus - 1)]]
    /\ rpc \in [Readers -> {"out", "fetched", "counted", "inside"}]
    /\ cpu \in [Readers -> CPUs \cup {NoCPU}]
    /\ rank \in [Readers -> 0..1]
    /\ \A r \in Readers : rpc[r] \in {"fetched", "counted"} <=> cpu[r] # NoCPU
    /\ \A r, s \in Readers : cpu[r] = cpu[s] /\ cpu[r] # NoCPU => r = s

CheckOK ==
    check \in [idx : 0..1, trycount : Nat, flipped : BOOLEAN, cpu : CPUs,
               sum : 0..(Modulus - 1), ahead : Nat]

\* The counters of a rank add up to the readers that have counted themselves on it.
TotalInv == \A i \in 0..1 : Cong(CounterSum(i, CPUs), Cardinality(On(i, {"counted", "inside"})))

\* A check is about the rank that readers no longer fetch, so only those that fetched it
\* before can still come in: there is one of them on a CPU at most.
LateInv ==
    IF OwnerAt(CheckPlaces)
    THEN LET late == Cardinality(On(check.idx, {"fetched", "counted"})) IN
         /\ check.idx = 1 - completed
         /\ check.ahead + late <= NCPUS
         /\ check.ahead + late <= Cardinality(Readers)
    ELSE check.ahead = 0

\* The sum will show e unless counters change that are still to be read: no less than
\* the readers inside, and no more than there are readers.
Seen(e) ==
    /\ Cardinality(On(check.idx, {"inside"})) <= e
    /\ e + Cardinality(On(check.idx, {"fetched"})) <= Cardinality(Readers)
    /\ Cong(check.sum + CounterSum(check.idx, check.cpu..NCPUS), e)

\* While no late reader was seen.  A reader that has counted itself on a CPU already read
\* may be missing from the sum, but then it is not inside yet.
ScanInv ==
    /\ OwnerAt({"seq1"}) => check.sum = 0
    /\ OwnerAt({"active"}) /\ check.ahead = 0 => \E e \in 0..(Modulus - 1) : Seen(e)

RInv == IInv /\ ReadersOK /\ CheckOK /\ TotalInv /\ LateInv /\ ScanInv

\* Sets of readers are finite.
LEMMA ReaderSets ==
    ASSUME NEW T \in SUBSET Readers
    PROVE  /\ IsFiniteSet(T) /\ Cardinality(T) \in Nat /\ Cardinality(Readers) \in Nat
           /\ Cardinality(T) <= Cardinality(Readers)
           /\ \A r \in T : Cardinality(T \ {r}) = Cardinality(T) - 1
           /\ \A r \in Readers \ T : Cardinality(T \cup {r}) = Cardinality(T) + 1
<1>1. IsFiniteSet(T) /\ Cardinality(T) <= Cardinality(Readers)
    BY SrcuAssumption, FS_Subset
<1>2. Cardinality(T) \in Nat /\ Cardinality(Readers) \in Nat
    BY <1>1, SrcuAssumption, FS_CardinalityType
<1>3. \A r \in T : Cardinality(T \ {r}) = Cardinality(T) - 1
    BY <1>1, FS_RemoveElement
<1>4. \A r \in Readers \ T : Cardinality(T \cup {r}) = Cardinality(T) + 1
    BY <1>1, FS_AddElement
<1> QED BY <1>1, <1>2, <1>3, <1>4

\* Numbers of readers.
LEMMA OnFinite == \A i, L : Cardinality(On(i, L)) \in Nat /\ Cardinality(On(i, L)) <= Cardinality(Readers)
<1>1. \A i, L : On(i, L) \in SUBSET Readers
    BY DEF On
<1> QED BY <1>1, ReaderSets

\* Readers with preemption off are on CPUs of their own, so there are no more of them than
\* CPUs.
LEMMA OnePerCPU ==
    ASSUME ReadersOK, NEW i
    PROVE  Cardinality(On(i, {"fetched", "counted"})) <= NCPUS
<1> DEFINE T == On(i, {"fetched", "counted"})
           g == [r \in T |-> cpu[r]]
<1>1. NCPUS \in Int /\ 1 \in Int /\ NCPUS >= 1
    BY SrcuAssumption, SMT
<1>2. Cardinality(1..NCPUS) = IF 1 > NCPUS THEN 0 ELSE NCPUS - 1 + 1
    BY <1>1, FS_Interval
<1>3. IsFiniteSet(1..NCPUS)
    BY <1>1, FS_Interval
<1>4. g \in Injection(T, 1..NCPUS)
    BY DEF ReadersOK, On, CPUs, Injection, IsInjective
<1>5. Cardinality(T) <= Cardinality(1..NCPUS)
    BY <1>3, <1>4, FS_Injection DEF ExistsInjection
<1> QED BY <1>1, <1>2, <1>5, SMT

\* Initially nobody is inside and nothing is counted.
LEMMA InitRInv == Init => RInv
<1> SUFFICES ASSUME Init PROVE RInv
    OBVIOUS
<1>1. Modulus \in Nat /\ 0 \in 0..(Modulus - 1) /\ 1 \in CPUs /\ 0 \in 0..1
    BY CounterRange, SrcuAssumption, SMT DEF CPUs
<1>2. ReadersOK
    <2>1. c \in [CPUs -> [0..1 -> 0..(Modulus - 1)]]
        BY <1>1 DEF Init
    <2> QED BY <1>1, <2>1 DEF Init, ReadersOK
<1>3. CheckOK
    BY <1>1 DEF Init, CheckOK, NotChecking
<1>4. \A L : ~("idle" \in L) => ~OwnerAt(L)
    BY DEF Init, OwnerAt
<1>5. TotalInv
    <2>1. ASSUME NEW i \in 0..1 PROVE Cong(CounterSum(i, CPUs), Cardinality(On(i, {"counted", "inside"})))
        <3>1. On(i, {"counted", "inside"}) = {}
            BY DEF Init, On
        <3>2. Units(Counter(i), CPUs) = {}
            BY <1>1, SMT DEF Init, Counter, Units
        <3> QED BY <3>1, <3>2, FS_EmptySet, CongSame, SMT DEF CounterSum
    <2> QED BY <2>1 DEF TotalInv
<1>6. LateInv /\ ScanInv
    BY <1>4 DEF Init, LateInv, ScanInv, NotChecking, CheckPlaces
<1> QED BY InitIInv, <1>2, <1>3, <1>5, <1>6 DEF RInv

------------------------------------------------------------------------------
\* The sums over the CPUs of a set grow by n when k is one of the CPUs, modulo Modulus.
SumsGrow(k, i, n) ==
    /\ c' \in [CPUs -> [0..1 -> 0..(Modulus - 1)]]
    /\ \A j \in 0..1, S \in SUBSET CPUs, s \in Int, b \in Int :
          Cong(s + CounterSum(j, S), b) =>
              Cong(s + CounterSum(j, S)', IF j = i /\ k \in S THEN b + n ELSE b)

\* What a reader's this_cpu add does to the sums over the CPUs of a set.
LEMMA Adds ==
    ASSUME ReadersOK, NEW k \in CPUs, NEW i \in 0..1, NEW n \in Int, Add(k, i, n)
    PROVE  SumsGrow(k, i, n)
<1>1. c[k][i] + n \in Int /\ Counter(i) \in Counters
    BY SrcuAssumption, SMT DEF ReadersOK, Counters, Counter
<1>2. (c[k][i] + n) % Modulus \in 0..(Modulus - 1)
    BY <1>1, Reduced
<1>3. c' \in [CPUs -> [0..1 -> 0..(Modulus - 1)]]
    BY <1>2 DEF Add, ReadersOK
<1>4. Counter(i)' = [Counter(i) EXCEPT ![k] = (@ + n) % Modulus]
    BY DEF Add, Counter, ReadersOK
<1>5. \A j \in 0..1 : j # i => Counter(j)' = Counter(j)
    BY SMT DEF Add, Counter, ReadersOK
<1> DEFINE f == Counter(i)
           g == Counter(i)'
<1>6. \A S \in SUBSET CPUs, s \in Int, b \in Int :
         Cong(s + Cardinality(Units(f, S)), b) =>
             Cong(s + Cardinality(Units(g, S)), IF k \in S THEN b + n ELSE b)
    BY <1>1, <1>4, SumChange
<1> QED BY <1>3, <1>5, <1>6 DEF CounterSum, SumsGrow

\* A reader takes its place in the sets of readers, and the others keep theirs.
LEMMA Moves ==
    ASSUME ReadersOK, NEW r \in Readers, NEW l, RGoto(r, l),
           \A s \in Readers \ {r} : rank'[s] = rank[s]
    PROVE  \A i, L : On(i, L)' = IF rank'[r] = i /\ l \in L
                                 THEN On(i, L) \cup {r} ELSE On(i, L) \ {r}
BY ZenonT(30) DEF ReadersOK, RGoto, On

\* A reader that fetches the rank does not use the one that is checked.
LEMMA FetchKeeps ==
    ASSUME RInv, NEW r \in Readers, NEW k \in CPUs, ReadFetch(r, k)
    PROVE  ReadersOK' /\ CheckOK' /\ TotalInv' /\ LateInv' /\ ScanInv'
<1>1. /\ rpc[r] = "out" /\ RGoto(r, "fetched") /\ rank' = [rank EXCEPT ![r] = completed]
      /\ cpu' = [cpu EXCEPT ![r] = k] /\ \A s \in Readers : cpu[s] # k
      /\ UNCHANGED <<completed, c, pc, check>>
    BY DEF ReadFetch, RAt, owner
<1> USE <1>1
<1>2. ReadersOK /\ k # NoCPU
    BY SrcuAssumption DEF RInv, CPUs
<1> USE <1>2
<1>3. ReadersOK'
    <2>1. /\ rpc' \in [Readers -> {"out", "fetched", "counted", "inside"}]
          /\ cpu' \in [Readers -> CPUs \cup {NoCPU}] /\ rank' \in [Readers -> 0..1]
        BY DEF ReadersOK, RGoto
    <2>2. \A q \in Readers : rpc'[q] \in {"fetched", "counted"} <=> cpu'[q] # NoCPU
        BY DEF ReadersOK, RGoto
    <2>3. \A q, s \in Readers : cpu'[q] = cpu'[s] /\ cpu'[q] # NoCPU => q = s
        BY DEF ReadersOK
    <2> QED BY <2>1, <2>2, <2>3 DEF ReadersOK
<1>4. \A i, L : (i # completed \/ "fetched" \notin L) /\ "out" \notin L => On(i, L)' = On(i, L)
    <2>1. \A i, L : "out" \notin L => r \notin On(i, L)
        BY DEF On
    <2>2. rank'[r] = completed
        BY DEF ReadersOK
    <2>3. \A s \in Readers \ {r} : rank'[s] = rank[s]
        BY DEF ReadersOK
    <2>4. \A i, L : On(i, L)' = IF rank'[r] = i /\ "fetched" \in L
                               THEN On(i, L) \cup {r} ELSE On(i, L) \ {r}
        BY <2>3, Moves
    <2> QED BY <2>1, <2>2, <2>4
<1>5. TotalInv'
    <2>1. \A i \in 0..1 : On(i, {"counted", "inside"})' = On(i, {"counted", "inside"})
        BY <1>4
    <2>2. \A i \in 0..1 : CounterSum(i, CPUs)' = CounterSum(i, CPUs)
        BY DEF CounterSum, Counter
    <2> QED BY <2>1, <2>2 DEF RInv, TotalInv
<1>6. \A L : OwnerAt(L)' = OwnerAt(L)
    BY DEF OwnerAt
<1>7. OwnerAt(CheckPlaces) => check.idx # completed
    BY SMT DEF RInv, LateInv, ReadersOK
<1>8. LateInv'
    <2>1. CASE OwnerAt(CheckPlaces)
        <3>1. On(check.idx, {"fetched", "counted"})' = On(check.idx, {"fetched", "counted"})
            BY <1>4, <1>7, <2>1
        <3> QED BY <1>6, <2>1, <3>1 DEF RInv, LateInv
    <2>2. CASE ~OwnerAt(CheckPlaces)
        BY <1>6, <2>2 DEF RInv, LateInv
    <2> QED BY <2>1, <2>2
<1>9. ScanInv'
    <2>1. CASE OwnerAt({"active"}) /\ check.ahead = 0
        <3>1. OwnerAt(CheckPlaces)
            BY <2>1 DEF OwnerAt, CheckPlaces
        <3>2. /\ On(check.idx, {"fetched"})' = On(check.idx, {"fetched"})
              /\ On(check.idx, {"inside"})' = On(check.idx, {"inside"})
            BY <1>4, <1>7, <3>1
        <3>3. PICK e \in 0..(Modulus - 1) : Seen(e)
            BY <2>1 DEF RInv, ScanInv
        <3>4. Seen(e)'
            BY <3>2, <3>3 DEF Seen, CounterSum, Counter
        <3> QED BY <1>6, <3>4 DEF RInv, ScanInv
    <2>2. CASE ~(OwnerAt({"active"}) /\ check.ahead = 0)
        BY <1>6, <2>2 DEF RInv, ScanInv
    <2> QED BY <2>1, <2>2
<1>10. CheckOK'
    BY DEF RInv, CheckOK
<1> QED BY <1>3, <1>5, <1>8, <1>9, <1>10

\* A reader counts itself on its CPU, which the owner may have read already.
LEMMA CountKeeps ==
    ASSUME RInv, NEW r \in Readers, ReadCount(r)
    PROVE  ReadersOK' /\ CheckOK' /\ TotalInv' /\ LateInv' /\ ScanInv'
<1> DEFINE i == rank[r]
           k == cpu[r]
<1>1. /\ rpc[r] = "fetched" /\ RGoto(r, "counted") /\ Add(k, i, 1)
      /\ UNCHANGED <<completed, cpu, rank, pc, check>>
    BY DEF ReadCount, RAt, owner
<1>2. ReadersOK /\ k \in CPUs /\ i \in 0..1
    BY <1>1 DEF RInv, ReadersOK
<1>3. /\ c' \in [CPUs -> [0..1 -> 0..(Modulus - 1)]]
      /\ \A j \in 0..1, S \in SUBSET CPUs, s \in Int, b \in Int :
            Cong(s + CounterSum(j, S), b) =>
                Cong(s + CounterSum(j, S)', IF j = i /\ k \in S THEN b + 1 ELSE b)
    <2>1. SumsGrow(k, i, 1)
        <3>1. 1 \in Int
            BY SMT
        <3> QED BY <1>1, <1>2, <3>1, Adds
    <2> QED BY <2>1 DEF SumsGrow
<1>4. ReadersOK'
    BY <1>1, <1>2, <1>3 DEF ReadersOK, RGoto
<1>5. rank'[r] = i /\ \A j, L : On(j, L)' = IF i = j /\ "counted" \in L
                                            THEN On(j, L) \cup {r} ELSE On(j, L) \ {r}
    BY <1>1, <1>2, Moves, SMT
<1>6. \A j, L : r \in On(j, L) <=> j = i /\ "fetched" \in L
    BY <1>1 DEF On
<1>7. \A j, L : On(j, L) \in SUBSET Readers
    BY DEF On
<1>8. TotalInv'
    <2> SUFFICES ASSUME NEW j \in 0..1
                 PROVE  Cong(CounterSum(j, CPUs)', Cardinality(On(j, {"counted", "inside"})'))
        BY DEF TotalInv
    <2> DEFINE T == On(j, {"counted", "inside"})
    <2>1. Cardinality(T') = IF j = i THEN Cardinality(T) + 1 ELSE Cardinality(T)
        <3>1. CASE j = i
            BY <1>5, <1>6, <1>7, <3>1, ReaderSets, SMT
        <3>2. CASE j # i
            <4>1. T' = T
                BY <1>5, <1>6, <3>2
            <4> QED BY <4>1, <3>2
        <3> QED BY <3>1, <3>2
    <2>2. Cong(0 + CounterSum(j, CPUs), Cardinality(T)) /\ Cardinality(T) \in Int
        <3>1. Counter(j) \in Counters
            BY <1>2, SMT DEF ReadersOK, Counter, Counters
        <3>2. CounterSum(j, CPUs) \in Nat
            BY <3>1, UnitsFinite DEF CounterSum
        <3> QED BY <3>2, OnFinite, SMT DEF RInv, TotalInv
    <2>3. Cong(0 + CounterSum(j, CPUs)', IF j = i /\ k \in CPUs THEN Cardinality(T) + 1 ELSE Cardinality(T))
        BY <1>3, <2>2, SMT
    <2>4. CounterSum(j, CPUs)' \in Nat
        <3>1. Counter(j)' \in Counters
            BY <1>3 DEF Counter, Counters
        <3> QED BY <3>1, UnitsFinite DEF CounterSum
    <2> QED BY <1>2, <2>1, <2>3, <2>4, SMT
<1>9. \A L : OwnerAt(L)' = OwnerAt(L)
    BY <1>1 DEF OwnerAt
<1>10. LateInv'
    <2>1. On(check.idx, {"fetched", "counted"})' = On(check.idx, {"fetched", "counted"})
        BY <1>1, <1>5, <1>6, ZenonT(30)
    <2> QED BY <1>1, <1>9, <2>1 DEF RInv, LateInv
<1>11. ScanInv'
    <2>1. CASE OwnerAt({"active"}) /\ check.ahead = 0
        <3>1. PICK e \in 0..(Modulus - 1) : Seen(e)
            BY <2>1 DEF RInv, ScanInv
        <3>2. check.idx \in 0..1 /\ check.cpu..NCPUS \in SUBSET CPUs /\ check.sum \in Int
              /\ Cardinality(Readers) \in Nat /\ Modulus \in Nat /\ Cardinality(Readers) < Modulus
            BY SrcuAssumption, ReaderSets, SMT DEF RInv, CheckOK, CPUs
        <3>3. On(check.idx, {"inside"})' = On(check.idx, {"inside"})
            BY <1>1, <1>5, <1>6, ZenonT(30)
        <3> DEFINE T == On(check.idx, {"fetched"})
        <3>4. Cardinality(T) \in Nat /\ Cardinality(T)' = IF check.idx = i THEN Cardinality(T) - 1 ELSE Cardinality(T)
            <4>1. CASE check.idx = i
                <5>1. r \in T /\ T' = T \ {r} /\ T \in SUBSET Readers
                    BY <1>1, <1>5, <1>6, <1>7, <4>1
                <5> QED BY <4>1, <5>1, ReaderSets
            <4>2. CASE check.idx # i
                <5>1. T' = T
                    BY <1>1, <1>5, <1>6, <4>2
                <5> QED BY <4>2, <5>1, OnFinite
            <4> QED BY <4>1, <4>2
        <3>5. PICK d \in {e, e + 1} : /\ d = IF check.idx = i /\ k \in check.cpu..NCPUS THEN e + 1 ELSE e
            OBVIOUS
        <3>6. Cong(check.sum + CounterSum(check.idx, check.cpu..NCPUS)', d)
            <4>1. PICK j \in 0..1, S \in SUBSET CPUs : j = check.idx /\ S = check.cpu..NCPUS
                BY <3>2
            <4>2. Cong(check.sum + CounterSum(j, S), e) /\ e \in Int
                BY <3>1, <4>1, SMT DEF Seen
            <4>3. Cong(check.sum + CounterSum(j, S)', d)
                BY <1>3, <3>2, <3>5, <4>1, <4>2
            <4> QED BY <1>1, <4>1, <4>3 DEF CounterSum, Counter
        <3>7. /\ Cardinality(On(check.idx, {"inside"})) <= e /\ Cardinality(On(check.idx, {"inside"})) \in Nat
              /\ e + Cardinality(T) <= Cardinality(Readers)
            BY <3>1, OnFinite DEF Seen
        <3>8. /\ Cardinality(On(check.idx, {"inside"})) <= d
              /\ d + Cardinality(T)' <= Cardinality(Readers)
            <4> HIDE DEF T
            <4> QED BY <3>2, <3>4, <3>5, <3>7, SMT
        <3>9. d \in 0..(Modulus - 1)
            <4>1. Cardinality(T)' \in Nat
                <5>1. T' \in SUBSET Readers
                    BY DEF On
                <5> QED BY <5>1, ReaderSets
            <4> HIDE DEF T
            <4> QED BY <3>2, <3>5, <3>8, <4>1, SMT
        <3>10. Seen(d)'
            BY <1>1, <3>3, <3>6, <3>8 DEF Seen
        <3> QED BY <1>1, <1>9, <3>9, <3>10 DEF RInv, ScanInv
    <2>2. CASE ~(OwnerAt({"active"}) /\ check.ahead = 0)
        BY <1>1, <1>9, <2>2 DEF RInv, ScanInv
    <2> QED BY <2>1, <2>2
<1>12. CheckOK'
    BY <1>1 DEF RInv, CheckOK
<1> QED BY <1>4, <1>8, <1>10, <1>11, <1>12

\* A reader is inside, and if the rank it uses is being checked it is a late one: the
\* owner will see it unless it has read the CPU's ->seq[] for the second time.
LEMMA SeqKeeps ==
    ASSUME RInv, NEW r \in Readers, ReadSeq(r)
    PROVE  ReadersOK' /\ CheckOK' /\ TotalInv' /\ LateInv' /\ ScanInv'
<1> DEFINE i == rank[r]
<1>1. /\ rpc[r] = "counted" /\ RGoto(r, "inside") /\ cpu' = [cpu EXCEPT ![r] = NoCPU]
      /\ check' = IF SumsDiffer(cpu[r], i) THEN [check EXCEPT !.ahead = @ + 1] ELSE check
      /\ UNCHANGED <<completed, c, rank, pc>>
    BY DEF ReadSeq, RAt
<1>2. ReadersOK /\ i \in 0..1
    BY <1>1 DEF RInv, ReadersOK
<1>3. ReadersOK'
    BY <1>1, <1>2 DEF ReadersOK, RGoto
<1>4. \A j, L : On(j, L)' = IF i = j /\ "inside" \in L
                            THEN On(j, L) \cup {r} ELSE On(j, L) \ {r}
    BY <1>1, <1>2, Moves, SMT
<1>5. \A j, L : r \in On(j, L) <=> j = i /\ "counted" \in L
    BY <1>1 DEF On
<1>6. TotalInv'
    <2>1. \A j \in 0..1 : On(j, {"counted", "inside"})' = On(j, {"counted", "inside"})
        BY <1>4, <1>5
    <2>2. \A j \in 0..1 : CounterSum(j, CPUs)' = CounterSum(j, CPUs)
        BY <1>1 DEF CounterSum, Counter
    <2> QED BY <2>1, <2>2 DEF RInv, TotalInv
<1>7. \A L : OwnerAt(L)' = OwnerAt(L)
    BY <1>1 DEF OwnerAt
<1>8. /\ CheckOK' /\ check'.idx = check.idx /\ check'.sum = check.sum /\ check'.cpu = check.cpu
      /\ check.ahead \in Nat /\ check'.ahead \in {check.ahead, check.ahead + 1}
      /\ check'.ahead # check.ahead => check.idx = i /\ OwnerAt(CheckPlaces)
      /\ check.idx = i /\ OwnerAt({"active"}) => check'.ahead = check.ahead + 1
    <2>1. CASE SumsDiffer(cpu[r], i)
        <3>1. check.idx = i /\ OwnerAt(CheckPlaces)
            BY <2>1 DEF SumsDiffer, OwnerAt, CheckPlaces, At
        <3> QED BY <1>1, <2>1, <3>1, SMT DEF RInv, CheckOK
    <2>2. CASE ~SumsDiffer(cpu[r], i)
        <3>1. ~(check.idx = i /\ OwnerAt({"active"}))
            BY <2>2 DEF SumsDiffer, OwnerAt, At
        <3> QED BY <1>1, <2>2, <3>1 DEF RInv, CheckOK
    <2> QED BY <2>1, <2>2
<1>9. LateInv'
    <2>1. CASE OwnerAt(CheckPlaces)
        <3> DEFINE T == On(check.idx, {"fetched", "counted"})
        <3>1. /\ check.idx = 1 - completed /\ check.ahead + Cardinality(T) <= NCPUS
              /\ check.ahead + Cardinality(T) <= Cardinality(Readers)
            BY <2>1 DEF RInv, LateInv
        <3>2. /\ Cardinality(T) \in Nat
              /\ Cardinality(T)' = IF check.idx = i THEN Cardinality(T) - 1 ELSE Cardinality(T)
            <4>1. CASE check.idx = i
                <5>1. r \in T /\ T' = T \ {r} /\ T \in SUBSET Readers
                    <6>1. T' = T \ {r}
                        BY <1>4, <1>8
                    <6> QED BY <1>5, <4>1, <6>1 DEF On
                <5> QED BY <4>1, <5>1, ReaderSets
            <4>2. CASE check.idx # i
                <5>1. T' = T
                    BY <1>4, <1>5, <1>8, <4>2
                <5> QED BY <4>2, <5>1, OnFinite
            <4> QED BY <4>1, <4>2
        <3>3. /\ check'.ahead + Cardinality(T)' <= NCPUS
              /\ check'.ahead + Cardinality(T)' <= Cardinality(Readers)
            <4>1. NCPUS \in Nat /\ Cardinality(Readers) \in Nat
                BY SrcuAssumption, ReaderSets
            <4> HIDE DEF T
            <4> QED BY <1>8, <3>1, <3>2, <4>1, SMT
        <3> QED BY <1>1, <1>7, <1>8, <2>1, <3>1, <3>3 DEF LateInv
    <2>2. CASE ~OwnerAt(CheckPlaces)
        BY <1>7, <1>8, <2>2 DEF RInv, LateInv
    <2> QED BY <2>1, <2>2
<1>10. ScanInv'
    <2>1. OwnerAt({"seq1"})' => check'.sum = 0
        BY <1>7, <1>8 DEF RInv, ScanInv
    <2>2. ASSUME OwnerAt({"active"})', check'.ahead = 0
          PROVE  \E e \in 0..(Modulus - 1) : Seen(e)'
        <3>1. OwnerAt({"active"}) /\ check.ahead = 0 /\ check.idx # i
            BY <1>7, <1>8, <2>2, SMT
        <3>2. PICK e \in 0..(Modulus - 1) : Seen(e)
            BY <3>1 DEF RInv, ScanInv
        <3>3. /\ On(check.idx, {"fetched"})' = On(check.idx, {"fetched"})
              /\ On(check.idx, {"inside"})' = On(check.idx, {"inside"})
            BY <1>4, <1>5, <1>8, <3>1, ZenonT(30)
        <3>4. Seen(e)'
            BY <1>1, <1>8, <3>2, <3>3 DEF Seen, CounterSum, Counter
        <3> QED BY <3>4
    <2> QED BY <2>1, <2>2 DEF ScanInv
<1> QED BY <1>3, <1>6, <1>8, <1>9, <1>10

\* Modulus - 1 counts down by one.
LEMMA CountsDown ==
    ASSUME NEW a \in Int, NEW b \in Int, Cong(a, b + (Modulus - 1))
    PROVE  Cong(a, b - 1)
<1>1. PICK z \in Int : a = b + (Modulus - 1) + z * Modulus
    BY DEF Cong
<1>2. z + 1 \in Int /\ a = b - 1 + (z + 1) * Modulus
    BY <1>1, CounterRange, SMT
<1> QED BY <1>2 DEF Cong

\* A reader leaves, on a CPU that the owner may have read already or has still to read.
LEMMA UnlockKeeps ==
    ASSUME RInv, NEW r \in Readers, NEW k \in CPUs, ReadUnlock(r, k)
    PROVE  ReadersOK' /\ CheckOK' /\ TotalInv' /\ LateInv' /\ ScanInv'
<1> DEFINE i == rank[r]
<1>1. /\ rpc[r] = "inside" /\ RGoto(r, "out") /\ Add(k, i, Modulus - 1)
      /\ rank' = [rank EXCEPT ![r] = 0] /\ UNCHANGED <<completed, cpu, pc, check>>
    BY DEF ReadUnlock, RAt, owner
<1>2. ReadersOK /\ i \in 0..1 /\ Modulus - 1 \in Int
    BY <1>1, CounterRange, SMT DEF RInv, ReadersOK
<1>3. /\ c' \in [CPUs -> [0..1 -> 0..(Modulus - 1)]]
      /\ \A j \in 0..1, S \in SUBSET CPUs, s \in Int, b \in Int :
            Cong(s + CounterSum(j, S), b) =>
                Cong(s + CounterSum(j, S)', IF j = i /\ k \in S THEN b + (Modulus - 1) ELSE b)
    <2>1. PICK n \in Int : n = Modulus - 1
        BY <1>2
    <2>2. Add(k, i, n)
        BY <1>1, <2>1
    <2>3. SumsGrow(k, i, n)
        BY <1>2, <2>2, Adds
    <2> QED BY <2>1, <2>3 DEF SumsGrow
<1>4. ReadersOK'
    BY <1>1, <1>2, <1>3, SMT DEF ReadersOK, RGoto
<1>5. \A j, L : "out" \notin L => On(j, L)' = On(j, L) \ {r}
    <2>1. \A s \in Readers \ {r} : rank'[s] = rank[s]
        BY <1>1, <1>2 DEF ReadersOK
    <2>2. \A j, L : On(j, L)' = IF rank'[r] = j /\ "out" \in L
                              THEN On(j, L) \cup {r} ELSE On(j, L) \ {r}
        BY <1>1, <1>2, <2>1, Moves
    <2> QED BY <2>2
<1>6. \A j, L : r \in On(j, L) <=> j = i /\ "inside" \in L
    BY <1>1 DEF On
<1>7. \A j, L : On(j, L) \in SUBSET Readers
    BY DEF On
<1>8. \A j \in 0..1, S \in SUBSET CPUs : CounterSum(j, S) \in Nat /\ CounterSum(j, S)' \in Nat
    <2>1. \A j \in 0..1 : Counter(j) \in Counters /\ Counter(j)' \in Counters
        BY <1>2, <1>3, SMT DEF ReadersOK, Counter, Counters
    <2> QED BY <2>1, UnitsFinite DEF CounterSum
<1>9. TotalInv'
    <2> SUFFICES ASSUME NEW j \in 0..1
                 PROVE  Cong(CounterSum(j, CPUs)', Cardinality(On(j, {"counted", "inside"})'))
        BY DEF TotalInv
    <2> DEFINE T == On(j, {"counted", "inside"})
    <2>1. Cong(0 + CounterSum(j, CPUs), Cardinality(T)) /\ Cardinality(T) \in Int
        BY <1>8, OnFinite, SMT DEF RInv, TotalInv
    <2>2. CASE j = i
        <3>1. Cong(0 + CounterSum(j, CPUs)', Cardinality(T) + (Modulus - 1))
            BY <1>3, <2>1, <2>2, SMT
        <3>2. Cardinality(T') = Cardinality(T) - 1
            BY <1>5, <1>6, <1>7, <2>2, ReaderSets, SMT
        <3>3. CounterSum(j, CPUs)' \in Int /\ 0 + CounterSum(j, CPUs)' = CounterSum(j, CPUs)'
            BY <1>8, SMT
        <3> QED BY <2>1, <3>1, <3>2, <3>3, CountsDown
    <2>3. CASE j # i
        <3>1. Cong(0 + CounterSum(j, CPUs)', Cardinality(T))
            BY <1>3, <2>1, <2>3, SMT
        <3>2. T' = T
            BY <1>5, <1>6, <2>3, SMT
        <3> QED BY <1>8, <3>1, <3>2, SMT
    <2> QED BY <2>2, <2>3
<1>10. \A L : OwnerAt(L)' = OwnerAt(L)
    BY <1>1 DEF OwnerAt
<1>11. LateInv'
    <2>1. On(check.idx, {"fetched", "counted"})' = On(check.idx, {"fetched", "counted"}) \ {r}
        BY <1>1, <1>5
    <2>2. r \notin On(check.idx, {"fetched", "counted"})
        BY <1>6, SMT
    <2>3. On(check.idx, {"fetched", "counted"})' = On(check.idx, {"fetched", "counted"})
        BY <2>1, <2>2
    <2> QED BY <1>1, <1>10, <2>3 DEF RInv, LateInv
<1>12. ScanInv'
    <2>1. CASE OwnerAt({"active"}) /\ check.ahead = 0
        <3>1. PICK e \in 0..(Modulus - 1) : Seen(e)
            BY <2>1 DEF RInv, ScanInv
        <3>2. check.idx \in 0..1 /\ check.cpu..NCPUS \in SUBSET CPUs /\ check.sum \in Int
            BY SrcuAssumption, SMT DEF RInv, CheckOK, CPUs
        <3>3. On(check.idx, {"fetched"})' = On(check.idx, {"fetched"})
            BY <1>1, <1>5, <1>6, SMT
        <3>4. PICK j \in 0..1, S \in SUBSET CPUs : j = check.idx /\ S = check.cpu..NCPUS
            BY <3>2
        <3> DEFINE T == On(j, {"inside"})
        <3>5. /\ Cardinality(T) \in Nat
              /\ Cardinality(T)' = IF j = i THEN Cardinality(T) - 1 ELSE Cardinality(T)
            <4>1. CASE j = i
                BY <1>5, <1>6, <1>7, <4>1, ReaderSets, SMT
            <4>2. CASE j # i
                <5>1. T' = T
                    BY <1>5, <1>6, <4>2, SMT
                <5> QED BY <4>2, <5>1, OnFinite
            <4> QED BY <4>1, <4>2
        <3>6. Cardinality(T)' \in Nat
            <4>1. T' \in SUBSET Readers
                BY DEF On
            <4> QED BY <4>1, ReaderSets
        <3>7. /\ Cardinality(T) <= e /\ Cong(check.sum + CounterSum(j, S), e) /\ e \in Int
              /\ e + Cardinality(On(check.idx, {"fetched"})) <= Cardinality(Readers)
              /\ Cardinality(On(check.idx, {"fetched"})) \in Nat /\ Cardinality(Readers) \in Nat
            BY <3>1, <3>4, OnFinite, ReaderSets, SMT DEF Seen
        <3>8. PICK d \in {e, e - 1} : d = IF j = i /\ k \in S THEN e - 1 ELSE e
            OBVIOUS
        <3>9. Cong(check.sum + CounterSum(j, S)', d)
            <4>1. CASE j = i /\ k \in S
                <5>1. Cong(check.sum + CounterSum(j, S)', e + (Modulus - 1))
                    BY <1>3, <3>2, <3>7, <4>1
                <5>2. check.sum + CounterSum(j, S)' \in Int
                    BY <1>8, <3>2, SMT
                <5> QED BY <3>7, <3>8, <4>1, <5>1, <5>2, CountsDown
            <4>2. CASE ~(j = i /\ k \in S)
                BY <1>3, <3>2, <3>7, <3>8, <4>2
            <4> QED BY <4>1, <4>2
        <3>10. Cardinality(T)' <= d /\ d \in 0..(Modulus - 1)
               /\ d + Cardinality(On(check.idx, {"fetched"})) <= Cardinality(Readers)
            <4>1. Modulus \in Nat
                BY CounterRange
            <4> HIDE DEF T
            <4> QED BY <3>5, <3>6, <3>7, <3>8, <4>1, SMT
        <3>11. Seen(d)'
            <4>1. CounterSum(check.idx, check.cpu..NCPUS)' = CounterSum(j, S)' /\ On(check.idx, {"inside"})' = T'
                BY <1>1, <3>4 DEF CounterSum, Counter, On
            <4> QED BY <1>1, <3>3, <3>9, <3>10, <4>1 DEF Seen
        <3> QED BY <1>1, <1>10, <3>10, <3>11 DEF RInv, ScanInv
    <2>2. CASE ~(OwnerAt({"active"}) /\ check.ahead = 0)
        BY <1>1, <1>10, <2>2 DEF RInv, ScanInv
    <2> QED BY <2>1, <2>2
<1>13. CheckOK'
    BY <1>1 DEF RInv, CheckOK
<1> QED BY <1>4, <1>9, <1>11, <1>12, <1>13

------------------------------------------------------------------------------
\* The steps of the owner leave the readers alone.
LEMMA SameReaders ==
    ASSUME RInv, UNCHANGED readerVars, completed' \in 0..1
    PROVE  /\ ReadersOK' /\ TotalInv' /\ \A i, L : On(i, L)' = On(i, L)
           /\ \A i, S : CounterSum(i, S)' = CounterSum(i, S)
<1>1. UNCHANGED <<rpc, cpu, rank, c>>
    BY DEF readerVars
<1>2. (\A i, L : On(i, L)' = On(i, L)) /\ \A i, S : CounterSum(i, S)' = CounterSum(i, S)
    BY <1>1 DEF On, CounterSum, Counter
<1>3. ReadersOK'
    BY <1>1 DEF RInv, ReadersOK
<1> QED BY <1>2, <1>3 DEF RInv, TotalInv

\* There is one owner, so its place is the place of all of them.
LEMMA OwnerMoves ==
    ASSUME IInv, NEW p \in Owners, pc[p] \notin {"idle", "wait"}, NEW l, Goto(p, l)
    PROVE  \A L : "idle" \notin L /\ "wait" \notin L =>
                      (OwnerAt(L)' <=> l \in L) /\ (OwnerAt(L) <=> pc[p] \in L)
<1>1. pc \in [Owners -> PCs] /\ \A q \in Owners : q # p => pc[q] \in {"idle", "wait"}
    BY DEF IInv, TypeOK, OneOwner, Owning
<1>2. pc'[p] = l /\ \A q \in Owners : q # p => pc'[q] \in {"idle", "wait"}
    BY <1>1 DEF Goto
<1> QED BY <1>1, <1>2 DEF OwnerAt

\* A step that is not about the check.
LEMMA QuietKeeps ==
    ASSUME RInv, UNCHANGED <<completed, readerVars, check>>,
           \A L \in SUBSET CheckPlaces : OwnerAt(L)' = OwnerAt(L)
    PROVE  ReadersOK' /\ CheckOK' /\ TotalInv' /\ LateInv' /\ ScanInv'
<1>1. completed' \in 0..1
    BY DEF RInv, ReadersOK
<1>2. /\ ReadersOK' /\ TotalInv' /\ \A i, L : On(i, L)' = On(i, L)
      /\ \A i, S : CounterSum(i, S)' = CounterSum(i, S)
    BY <1>1, SameReaders
<1>3. /\ OwnerAt(CheckPlaces)' = OwnerAt(CheckPlaces)
      /\ OwnerAt({"seq1"})' = OwnerAt({"seq1"}) /\ OwnerAt({"active"})' = OwnerAt({"active"})
    BY DEF CheckPlaces
<1>4. LateInv'
    BY <1>2, <1>3 DEF RInv, LateInv
<1>5. \A e : Seen(e) => Seen(e)'
    BY <1>2 DEF Seen
<1>6. ScanInv'
    BY <1>3, <1>5 DEF RInv, ScanInv
<1> QED BY <1>2, <1>4, <1>6 DEF RInv, CheckOK

\* There are two ranks.
LEMMA OtherRank == \A i \in 0..1 : 1 - i \in 0..1 /\ 1 - (1 - i) = i
BY SMT

\* try_check_zero() begins, or begins again: it has seen no late reader, and there are no
\* more of them than CPUs.
LEMMA StartKeeps ==
    ASSUME RInv, NEW p \in Owners, pc[p] \notin {"idle", "wait"}, Goto(p, "seq1"),
           UNCHANGED readerVars, completed' \in 0..1,
           NEW n \in Nat, NEW f \in BOOLEAN, check' = Checking(1 - completed', n, f)
    PROVE  ReadersOK' /\ CheckOK' /\ TotalInv' /\ LateInv' /\ ScanInv'
<1>1. ReadersOK' /\ TotalInv' /\ \A i, L : On(i, L)' = On(i, L)
    BY SameReaders
<1>2. \A L : "idle" \notin L /\ "wait" \notin L => (OwnerAt(L)' <=> "seq1" \in L)
    BY OwnerMoves DEF RInv
<1>3. OwnerAt(CheckPlaces)' /\ ~OwnerAt({"active"})'
    BY <1>2, SMT DEF CheckPlaces
<1>4. check' = [idx |-> 1 - completed', trycount |-> n, flipped |-> f,
                cpu |-> 1, sum |-> 0, ahead |-> 0]
    BY DEF Checking, NotChecking
<1> USE <1>4
<1>5. CheckOK'
    <2>1. 1 \in CPUs /\ 0 \in 0..(Modulus - 1) /\ 0 \in Nat
        BY SrcuAssumption, CounterRange, SMT DEF CPUs
    <2>2. 1 - completed' \in 0..1
        BY OtherRank
    <2> QED BY <2>1, <2>2, SMT DEF CheckOK
<1>6. LateInv'
    <2> DEFINE m == Cardinality(On(1 - completed', {"fetched", "counted"}))
    <2>1. m <= NCPUS /\ m <= Cardinality(Readers) /\ m \in Nat
        BY OnePerCPU, OnFinite DEF RInv
    <2>2. Cardinality(On(check.idx, {"fetched", "counted"}))' = m
        BY <1>1, SMT
    <2>3. check'.ahead + m = m
        BY <2>1, SMT
    <2> QED BY <1>3, <2>1, <2>2, <2>3, SMT DEF LateInv
<1>7. ScanInv'
    BY <1>3, SMT DEF ScanInv
<1> QED BY <1>1, <1>5, <1>6, <1>7

\* The check is over.
LEMMA LeaveKeeps ==
    ASSUME RInv, NEW p \in Owners, pc[p] \notin {"idle", "wait"}, NEW l, Goto(p, l),
           l \notin CheckPlaces, UNCHANGED <<completed, readerVars>>, check' = NotChecking
    PROVE  ReadersOK' /\ CheckOK' /\ TotalInv' /\ LateInv' /\ ScanInv'
<1>1. completed' \in 0..1
    BY DEF RInv, ReadersOK
<1>2. ReadersOK' /\ TotalInv'
    BY <1>1, SameReaders
<1>3. \A L : "idle" \notin L /\ "wait" \notin L => (OwnerAt(L)' <=> l \in L)
    BY OwnerMoves DEF RInv
<1>4. ~OwnerAt(CheckPlaces)' /\ ~OwnerAt({"active"})' /\ ~OwnerAt({"seq1"})'
    BY <1>3 DEF CheckPlaces
<1>5. 1 \in CPUs /\ 0 \in 0..(Modulus - 1) /\ 0 \in Nat /\ 0 \in 0..1
    BY SrcuAssumption, CounterRange, SMT DEF CPUs
<1>6. CheckOK'
    BY <1>5 DEF CheckOK, NotChecking
<1>7. LateInv' /\ ScanInv'
    BY <1>4 DEF LateInv, ScanInv, NotChecking
<1> QED BY <1>2, <1>6, <1>7

\* A failed check is tried again or given up.
LEMMA FailKeeps ==
    ASSUME RInv, NEW p \in Owners, pc[p] \in CheckPlaces, CheckFails(p),
           UNCHANGED <<completed, readerVars>>
    PROVE  ReadersOK' /\ CheckOK' /\ TotalInv' /\ LateInv' /\ ScanInv'
<1>1. pc[p] \notin {"idle", "wait"} /\ OwnerAt(CheckPlaces) /\ completed \in 0..1
    BY DEF CheckPlaces, OwnerAt, RInv, ReadersOK
<1>2. CASE check.trycount <= 1
    <2>1. check' = NotChecking /\ Goto(p, "advanced") /\ "advanced" \notin CheckPlaces
        BY <1>2 DEF CheckFails, CheckPlaces
    <2> QED BY <1>1, <2>1, LeaveKeeps
<1>3. CASE ~(check.trycount <= 1)
    <2>1. check.idx = 1 - completed' /\ completed' \in 0..1
        BY <1>1 DEF RInv, LateInv
    <2>2. check.trycount - 1 \in Nat /\ check.flipped \in BOOLEAN
        BY <1>3, SMT DEF RInv, CheckOK
    <2>3. check' = Checking(1 - completed', check.trycount - 1, check.flipped) /\ Goto(p, "seq1")
        BY <1>3, <2>1 DEF CheckFails
    <2> QED BY <1>1, <2>1, <2>2, <2>3, StartKeeps
<1> QED BY <1>2, <1>3

\* The owner goes on to the next CPU, or to the next sum over the first one.
LEMMA NextCPUFacts ==
    ASSUME CheckOK
    PROVE  /\ NextCPU \in [idx : 0..1, trycount : Nat, flipped : BOOLEAN, cpu : CPUs,
                           sum : 0..(Modulus - 1), ahead : Nat]
           /\ NextCPU.idx = check.idx /\ NextCPU.ahead = check.ahead
           /\ NextCPU.sum = check.sum /\ NextCPU.flipped = check.flipped
           /\ NextCPU.cpu = IF LastCPU THEN 1 ELSE check.cpu + 1
<1>1. NCPUS \in Nat \ {0} /\ check.cpu \in 1..NCPUS
    BY SrcuAssumption DEF CheckOK, CPUs
<1>2. (IF check.cpu = NCPUS THEN 1 ELSE check.cpu + 1) \in CPUs
    BY <1>1, SMT DEF CPUs
<1> QED BY <1>2 DEF CheckOK, NextCPU, LastCPU

\* A step inside the check that sees no reader.
LEMMA InsideCheck ==
    ASSUME RInv, NEW p \in Owners, pc[p] \in CheckPlaces, NEW l \in CheckPlaces, Goto(p, l),
           UNCHANGED <<completed, readerVars>>, CheckOK',
           check'.idx = check.idx, check'.ahead = check.ahead
    PROVE  /\ ReadersOK' /\ TotalInv' /\ LateInv' /\ \A i, L : On(i, L)' = On(i, L)
           /\ \A i, S : CounterSum(i, S)' = CounterSum(i, S)
           /\ OwnerAt({"seq1"})' <=> l = "seq1"
           /\ OwnerAt({"active"})' <=> l = "active"
           /\ OwnerAt({"active"}) <=> pc[p] = "active"
           /\ OwnerAt({"seq1"}) <=> pc[p] = "seq1"
<1>1. completed' \in 0..1 /\ pc[p] \notin {"idle", "wait"}
    BY DEF RInv, ReadersOK, CheckPlaces
<1>2. /\ ReadersOK' /\ TotalInv' /\ \A i, L : On(i, L)' = On(i, L)
      /\ \A i, S : CounterSum(i, S)' = CounterSum(i, S)
    BY <1>1, SameReaders
<1>3. \A L : "idle" \notin L /\ "wait" \notin L =>
                 (OwnerAt(L)' <=> l \in L) /\ (OwnerAt(L) <=> pc[p] \in L)
    BY <1>1, OwnerMoves DEF RInv
<1>4. OwnerAt(CheckPlaces) /\ OwnerAt(CheckPlaces)'
    BY <1>3 DEF CheckPlaces
<1>5. LateInv'
    BY <1>2, <1>4 DEF RInv, LateInv
<1> QED BY <1>2, <1>3, <1>5, SMT

\* After the first sum of ->seq[] the sum over the counters starts: it would now show all
\* readers that have counted themselves.
LEMMA Seq1Keeps ==
    ASSUME RInv, NEW p \in Owners, ReadSeq1(p)
    PROVE  ReadersOK' /\ CheckOK' /\ TotalInv' /\ LateInv' /\ ScanInv'
<1> DEFINE l == IF LastCPU THEN "active" ELSE "seq1"
<1>1. /\ pc[p] = "seq1" /\ Goto(p, l) /\ check' = NextCPU /\ UNCHANGED <<completed, readerVars>>
      /\ l \in CheckPlaces /\ pc[p] \in CheckPlaces
    BY DEF ReadSeq1, At, steady, CheckPlaces
<1>2. /\ CheckOK' /\ check'.idx = check.idx /\ check'.ahead = check.ahead /\ check'.sum = check.sum
      /\ check'.cpu = IF LastCPU THEN 1 ELSE check.cpu + 1
    BY <1>1, NextCPUFacts DEF RInv, CheckOK
<1>3. /\ ReadersOK' /\ TotalInv' /\ LateInv' /\ \A i, L : On(i, L)' = On(i, L)
      /\ \A i, S : CounterSum(i, S)' = CounterSum(i, S)
      /\ OwnerAt({"active"})' <=> l = "active"
      /\ OwnerAt({"seq1"}) <=> pc[p] = "seq1"
    BY <1>1, <1>2, InsideCheck
<1>4. check.sum = 0 /\ check.idx \in 0..1
    BY <1>1, <1>3 DEF RInv, ScanInv, CheckOK
<1>5. ASSUME LastCPU PROVE \E e \in 0..(Modulus - 1) : Seen(e)'
    <2> DEFINE A == On(check.idx, {"counted", "inside"})
               B == On(check.idx, {"fetched"})
               e == Cardinality(A)
    <2>1. A \in SUBSET Readers /\ B \in SUBSET Readers /\ A \cap B = {} /\ On(check.idx, {"inside"}) \subseteq A
        BY DEF On
    <2>2. IsFiniteSet(A) /\ IsFiniteSet(B) /\ e \in Nat /\ Cardinality(B) \in Nat
        BY <2>1, ReaderSets
    <2>3. Cardinality(A \cup B) = e + Cardinality(B) - Cardinality(A \cap B)
        BY <2>2, FS_Union
    <2>4. Cardinality(A \cup B) <= Cardinality(Readers) /\ Cardinality(Readers) \in Nat
        BY <2>1, ReaderSets
    <2>5. Cardinality(On(check.idx, {"inside"})) <= e
        BY <2>1, <2>2, FS_Subset
    <2>6. e + Cardinality(B) <= Cardinality(Readers) /\ e \in 0..(Modulus - 1)
        <3>1. Modulus \in Nat /\ Cardinality(Readers) < Modulus /\ Cardinality({}) = 0
            BY SrcuAssumption, FS_EmptySet
        <3> HIDE DEF A, B, e
        <3> QED BY <2>1, <2>2, <2>3, <2>4, <3>1, SMT
    <2>7. Cong(check'.sum + CounterSum(check.idx, check'.cpu..NCPUS), e)
        <3>1. check'.cpu..NCPUS = CPUs
            BY <1>2, <1>5 DEF CPUs
        <3>2. Cong(CounterSum(check.idx, CPUs), e)
            BY <1>4 DEF RInv, TotalInv
        <3>3. CounterSum(check.idx, CPUs) \in Nat
            <4>1. Counter(check.idx) \in Counters
                BY <1>4, SMT DEF RInv, ReadersOK, Counter, Counters
            <4> QED BY <4>1, UnitsFinite DEF CounterSum
        <3>4. check'.sum + CounterSum(check.idx, CPUs) = CounterSum(check.idx, CPUs)
            BY <1>2, <1>4, <3>3, SMT
        <3> QED BY <3>1, <3>2, <3>4
    <2>8. PICK d \in 0..(Modulus - 1) : d = e
        BY <2>6
    <2>9. Seen(d)'
        BY <1>2, <1>3, <2>5, <2>6, <2>7, <2>8 DEF Seen
    <2> QED BY <2>9
<1>6. ScanInv'
    BY <1>2, <1>3, <1>4, <1>5 DEF ScanInv
<1> QED BY <1>2, <1>3, <1>6

\* The sum over the counters takes in the counter of the next CPU.
LEMMA SumGoesOn ==
    ASSUME RInv, NEW p \in Owners, pc[p] = "active", check.ahead = 0
    PROVE  LET sum == (check.sum + c[check.cpu][check.idx]) % Modulus IN
           /\ sum \in 0..(Modulus - 1)
           /\ \E e \in 0..(Modulus - 1) :
                 /\ Cardinality(On(check.idx, {"inside"})) <= e
                 /\ e + Cardinality(On(check.idx, {"fetched"})) <= Cardinality(Readers)
                 /\ Cong(sum + CounterSum(check.idx, (check.cpu + 1)..NCPUS), e)
<1> DEFINE f == Counter(check.idx)
           S == check.cpu..NCPUS
           T == (check.cpu + 1)..NCPUS
           v == c[check.cpu][check.idx]
           sum == (check.sum + v) % Modulus
           x == CounterSum(check.idx, S)
           y == CounterSum(check.idx, T)
<1>1. OwnerAt({"active"})
    BY DEF OwnerAt
<1>2. PICK e \in 0..(Modulus - 1) : Seen(e)
    BY <1>1 DEF RInv, ScanInv
<1>3. check.idx \in 0..1 /\ check.cpu \in 1..NCPUS /\ NCPUS \in Nat /\ check.sum \in Int
    BY SrcuAssumption, CounterRange, SMT DEF RInv, CheckOK, CPUs
<1> USE <1>3
<1>4. f \in Counters /\ f[check.cpu] = v /\ v \in Int
    <2>1. c \in [CPUs -> [0..1 -> 0..(Modulus - 1)]] /\ check.cpu \in CPUs
        BY DEF RInv, ReadersOK, CPUs
    <2>2. ASSUME NEW k \in CPUs PROVE c[k][check.idx] \in 0..(Modulus - 1)
        <3>1. c[k] \in [0..1 -> 0..(Modulus - 1)]
            BY <2>1
        <3>2. check.idx \in 0..1
            OBVIOUS
        <3> QED BY <3>1, <3>2
    <2>3. f \in Counters /\ f[check.cpu] = v
        BY <2>1, <2>2 DEF Counter, Counters
    <2> QED BY <2>1, <2>2, <2>3, CounterRange, SMT
<1> USE <1>4
<1>5. S \in SUBSET CPUs /\ T \in SUBSET CPUs /\ check.cpu \in S /\ T = S \ {check.cpu}
    BY SMT DEF CPUs
<1>6. x = y + v /\ y \in Nat
    <2>1. x = Cardinality(Units(f, S)) /\ y = Cardinality(Units(f, T))
        BY DEF CounterSum
    <2> HIDE DEF f, S, T, v, x, y
    <2>2. Cardinality(Units(f, S)) = Cardinality(Units(f, S \ {check.cpu})) + f[check.cpu]
        BY <1>5, UnitsSplit
    <2>3. Cardinality(Units(f, T)) \in Nat
        BY <1>5, UnitsFinite
    <2> QED BY <1>5, <2>1, <2>2, <2>3
<1>7. sum \in 0..(Modulus - 1) /\ Cong(sum, check.sum + v)
    BY Reduced, SMT
<1>8. Cong(check.sum + x, e)
    BY <1>2 DEF Seen
<1>9. Cong(sum + y, e)
    <2> HIDE DEF x, y, v, sum
    <2>1. check.sum + x \in Int /\ e \in Int /\ sum \in Int /\ check.sum + v \in Int
        BY <1>2, <1>6, <1>7, CounterRange, SMT
    <2>2. Cong((check.sum + x) + (sum - (check.sum + v)), e)
        BY <1>7, <1>8, <2>1, CongSwap
    <2>3. (check.sum + x) + (sum - (check.sum + v)) = sum + y
        BY <1>6, <2>1, SMT
    <2> QED BY <2>2, <2>3
<1> QED BY <1>2, <1>7, <1>9 DEF Seen

\* A sum of zero with no late reader: nobody is inside.
LEMMA ZeroMeansNone ==
    ASSUME RInv, NEW p \in Owners, pc[p] = "active", check.ahead = 0, LastCPU,
           (check.sum + c[check.cpu][check.idx]) % Modulus = 0
    PROVE  On(check.idx, {"inside"}) = {}
<1> DEFINE m == Cardinality(On(check.idx, {"inside"}))
<1>1. PICK e \in 0..(Modulus - 1) :
         m <= e /\ Cong(0 + CounterSum(check.idx, (check.cpu + 1)..NCPUS), e)
    BY SumGoesOn
<1>2. (check.cpu + 1)..NCPUS = {}
    BY SrcuAssumption, SMT DEF LastCPU
<1>3. Units(Counter(check.idx), {}) = {}
    BY DEF Units
<1>4. CounterSum(check.idx, (check.cpu + 1)..NCPUS) = 0
    BY <1>2, <1>3, FS_EmptySet DEF CounterSum
<1>5. Cong(0, e) /\ 0 \in 0..(Modulus - 1)
    BY <1>1, <1>4, CounterRange, SMT
<1>6. e = 0
    BY <1>5, CongUnique
<1>7. On(check.idx, {"inside"}) \in SUBSET Readers
    BY DEF On
<1>8. m \in Nat /\ IsFiniteSet(On(check.idx, {"inside"}))
    BY <1>7, ReaderSets
<1>9. m = 0
    BY <1>1, <1>6, <1>8, SMT
<1> QED BY <1>8, <1>9, FS_EmptySet

\* srcu_readers_active_idx() keeps what its sum stands for.
LEMMA ActiveKeeps ==
    ASSUME RInv, NEW p \in Owners, srcu_readers_active_idx(p)
    PROVE  ReadersOK' /\ CheckOK' /\ TotalInv' /\ LateInv' /\ ScanInv'
<1> DEFINE sum == (check.sum + c[check.cpu][check.idx]) % Modulus
           l == IF LastCPU THEN "seq2" ELSE "active"
<1>1. /\ pc[p] = "active" /\ UNCHANGED <<completed, readerVars>>
      /\ l \in CheckPlaces /\ pc[p] \in CheckPlaces
      /\ \/ CheckFails(p)
         \/ check' = [NextCPU EXCEPT !.sum = sum] /\ Goto(p, l)
    BY DEF srcu_readers_active_idx, At, steady, CheckPlaces
<1>2. CASE CheckFails(p)
    BY <1>1, <1>2, FailKeeps
<1>3. CASE check' = [NextCPU EXCEPT !.sum = sum] /\ Goto(p, l)
    <2>1. sum \in 0..(Modulus - 1)
        <3>1. /\ check.sum \in 0..(Modulus - 1) /\ Modulus \in Nat
              /\ c[check.cpu][check.idx] \in 0..(Modulus - 1)
            BY CounterRange, SMT DEF RInv, CheckOK, ReadersOK
        <3>2. check.sum + c[check.cpu][check.idx] \in Int
            BY <3>1, SMT
        <3> QED BY <3>2, Reduced
    <2>2. /\ CheckOK' /\ check'.idx = check.idx /\ check'.ahead = check.ahead /\ check'.sum = sum
          /\ check'.cpu = IF LastCPU THEN 1 ELSE check.cpu + 1
        <3> HIDE DEF sum
        <3>1. /\ NextCPU \in [idx : 0..1, trycount : Nat, flipped : BOOLEAN, cpu : CPUs,
                              sum : 0..(Modulus - 1), ahead : Nat]
              /\ NextCPU.idx = check.idx /\ NextCPU.ahead = check.ahead
              /\ NextCPU.cpu = IF LastCPU THEN 1 ELSE check.cpu + 1
            BY NextCPUFacts DEF RInv
        <3> QED BY <1>3, <2>1, <3>1 DEF CheckOK
    <2>3. /\ ReadersOK' /\ TotalInv' /\ LateInv' /\ \A i, L : On(i, L)' = On(i, L)
          /\ \A i, S : CounterSum(i, S)' = CounterSum(i, S)
          /\ OwnerAt({"seq1"})' <=> l = "seq1"
          /\ OwnerAt({"active"})' <=> l = "active"
        BY <1>1, <1>3, <2>2, InsideCheck
    <2>4. ASSUME ~LastCPU, check.ahead = 0 PROVE \E e \in 0..(Modulus - 1) : Seen(e)'
        <3>1. PICK e \in 0..(Modulus - 1) :
                 /\ Cardinality(On(check.idx, {"inside"})) <= e
                 /\ e + Cardinality(On(check.idx, {"fetched"})) <= Cardinality(Readers)
                 /\ Cong(sum + CounterSum(check.idx, (check.cpu + 1)..NCPUS), e)
            BY <1>1, <2>4, SumGoesOn
        <3> HIDE DEF sum
        <3>2. Seen(e)'
            BY <2>2, <2>3, <2>4, <3>1 DEF Seen
        <3> QED BY <3>2
    <2>5. ScanInv'
        BY <2>2, <2>3, <2>4 DEF ScanInv
    <2> QED BY <2>2, <2>3, <2>5
<1> QED BY <1>1, <1>2, <1>3

\* The second sum of ->seq[] ends the check, or starts it again.
LEMMA Seq2Keeps ==
    ASSUME RInv, NEW p \in Owners, ReadSeq2(p)
    PROVE  ReadersOK' /\ CheckOK' /\ TotalInv' /\ LateInv' /\ ScanInv'
<1>1. /\ pc[p] = "seq2" /\ UNCHANGED <<completed, readerVars>>
      /\ pc[p] \in CheckPlaces /\ pc[p] \notin {"idle", "wait"}
      /\ \/ check' = NextCPU /\ Goto(p, "seq2")
         \/ CheckPassed(p)
         \/ CheckFails(p)
    BY DEF ReadSeq2, At, steady, CheckPlaces
<1>2. CASE check' = NextCPU /\ Goto(p, "seq2")
    <2>1. "seq2" \in CheckPlaces /\ CheckOK' /\ check'.idx = check.idx /\ check'.ahead = check.ahead
        BY <1>2, NextCPUFacts DEF RInv, CheckOK, CheckPlaces
    <2>2. /\ ReadersOK' /\ TotalInv' /\ LateInv'
          /\ OwnerAt({"seq1"})' <=> "seq2" = "seq1"
          /\ OwnerAt({"active"})' <=> "seq2" = "active"
        BY <1>1, <1>2, <2>1, InsideCheck
    <2> QED BY <2>1, <2>2 DEF ScanInv
<1>3. CASE CheckPassed(p)
    <2>1. PICK l : l \in {"first_ok", "second_ok"} /\ Goto(p, l) /\ check' = NotChecking
        BY <1>3 DEF CheckPassed
    <2>2. l \notin CheckPlaces
        BY <2>1 DEF CheckPlaces
    <2> QED BY <1>1, <2>1, <2>2, LeaveKeeps
<1>4. CASE CheckFails(p)
    BY <1>1, <1>4, FailKeeps
<1> QED BY <1>1, <1>2, <1>3, <1>4

\* srcu_advance_batches() begins with a check of the rank that readers no longer fetch.
LEMMA AdvanceKeeps ==
    ASSUME RInv, NEW p \in Owners, Advance(p)
    PROVE  ReadersOK' /\ CheckOK' /\ TotalInv' /\ LateInv' /\ ScanInv'
<1>1. /\ pc[p] = "advance" /\ UNCHANGED <<completed, readerVars>> /\ completed' \in 0..1
      /\ pc[p] \notin {"idle", "wait"}
      /\ \/ Goto(p, "advanced") /\ UNCHANGED check
         \/ /\ check' = Checking(1 - completed, IF p = Work THEN 1 ELSE SYNCHRONIZE_SRCU_TRYCOUNT, FALSE)
            /\ Goto(p, "seq1")
    BY DEF Advance, At, steady, RInv, ReadersOK
<1> USE <1>1
<1>2. CASE Goto(p, "advanced") /\ UNCHANGED check
    <2>1. \A L : "idle" \notin L /\ "wait" \notin L =>
                      (OwnerAt(L)' <=> "advanced" \in L) /\ (OwnerAt(L) <=> pc[p] \in L)
        BY <1>2, OwnerMoves DEF RInv
    <2>2. \A L \in SUBSET CheckPlaces : OwnerAt(L)' = OwnerAt(L)
        <3> SUFFICES ASSUME NEW L \in SUBSET CheckPlaces PROVE OwnerAt(L)' = OwnerAt(L)
            OBVIOUS
        <3>1. "idle" \notin L /\ "wait" \notin L /\ "advanced" \notin L /\ "advance" \notin L
            BY DEF CheckPlaces
        <3>2. ~OwnerAt(L)' /\ ~OwnerAt(L)
            BY <2>1, <3>1
        <3> QED BY <3>2 DEF OwnerAt
    <2> QED BY <1>2, <2>2, QuietKeeps
<1>3. CASE /\ check' = Checking(1 - completed, IF p = Work THEN 1 ELSE SYNCHRONIZE_SRCU_TRYCOUNT, FALSE)
           /\ Goto(p, "seq1")
    <2>1. PICK n \in Nat : n = IF p = Work THEN 1 ELSE SYNCHRONIZE_SRCU_TRYCOUNT
        BY DEF SYNCHRONIZE_SRCU_TRYCOUNT
    <2>2. check' = Checking(1 - completed', n, FALSE)
        BY <1>3, <2>1
    <2> QED BY <1>3, <2>1, <2>2, StartKeeps
<1> QED BY <1>2, <1>3

\* After srcu_flip() the rank that readers used so far is the one to check.
LEMMA FlipKeeps ==
    ASSUME RInv, NEW p \in Owners, srcu_flip(p)
    PROVE  ReadersOK' /\ CheckOK' /\ TotalInv' /\ LateInv' /\ ScanInv'
<1>1. /\ pc[p] \notin {"idle", "wait"} /\ Goto(p, "seq1") /\ UNCHANGED readerVars
      /\ completed' = 1 - completed
      /\ check' = Checking(completed, SYNCHRONIZE_SRCU_TRYCOUNT, TRUE)
    BY DEF srcu_flip, At
<1>2. completed' \in 0..1 /\ completed = 1 - completed'
    BY <1>1, SMT DEF RInv, ReadersOK
<1>3. PICK n \in Nat : n = SYNCHRONIZE_SRCU_TRYCOUNT
    BY DEF SYNCHRONIZE_SRCU_TRYCOUNT
<1>4. check' = Checking(1 - completed', n, TRUE)
    BY <1>1, <1>2, <1>3
<1> QED BY <1>1, <1>2, <1>3, <1>4, StartKeeps

\* The steps that are not about the counters or the check.
Quiet ==
    \/ \E h \in Callbacks : call_srcu(h)
    \/ \E p \in Syncers : __synchronize_srcu(p)
    \/ ProcessSrcu \/ srcu_collect_new \/ srcu_invoke_callbacks
    \/ \E p \in Owners : \/ AdvanceFirst(p) \/ AdvanceSecond(p) \/ SyncTakeOwn(p)
                         \/ Reschedule(p) \/ RescheduleLocked(p)
    \/ UNCHANGED vars

\* They do not move an owner into a check or out of it.
LEMMA QuietPlaces ==
    ASSUME IInv, Quiet
    PROVE  /\ UNCHANGED <<completed, readerVars, check>>
           /\ \A L \in SUBSET CheckPlaces : OwnerAt(L)' = OwnerAt(L)
<1> DEFINE Same == \A q \in Owners : pc'[q] = pc[q] \/ (pc'[q] \notin CheckPlaces /\ pc[q] \notin CheckPlaces)
<1>1. pc \in [Owners -> PCs]
    BY DEF IInv, TypeOK
<1>2. ASSUME NEW p \in Owners, NEW l, Goto(p, l), l \notin CheckPlaces, pc[p] \notin CheckPlaces PROVE Same
    BY <1>1, <1>2 DEF Goto
<1>3. UNCHANGED <<completed, readerVars, check>> /\ Same
    <2>1. CASE \E h \in Callbacks : call_srcu(h)
        BY <2>1 DEF call_srcu, owner
    <2>2. ASSUME NEW p \in Syncers, __synchronize_srcu(p) PROVE UNCHANGED <<completed, readerVars, check>> /\ Same
        <3>1. p \in Owners /\ pc[p] = "idle" /\ UNCHANGED <<completed, readerVars, check>>
            BY <2>2 DEF __synchronize_srcu, At, Owners
        <3>2. PICK l : l \in {"wait", "advance"} /\ Goto(p, l)
            BY <2>2 DEF __synchronize_srcu
        <3>3. l \notin CheckPlaces /\ pc[p] \notin CheckPlaces
            BY <3>1, <3>2 DEF CheckPlaces
        <3> QED BY <1>2, <3>1, <3>2, <3>3
    <2>3. CASE ProcessSrcu \/ srcu_collect_new
        <3>1. UNCHANGED <<completed, readerVars, check>> /\ Work \in Owners
            BY <2>3 DEF ProcessSrcu, srcu_collect_new, Owners
        <3>2. PICK l : l \in {"collect", "advance"} /\ Goto(Work, l) /\ pc[Work] \in {"idle", "collect"}
            BY <2>3 DEF ProcessSrcu, srcu_collect_new, At
        <3>3. l \notin CheckPlaces /\ pc[Work] \notin CheckPlaces
            BY <3>2 DEF CheckPlaces
        <3> QED BY <1>2, <3>1, <3>2, <3>3
    <2>4. CASE srcu_invoke_callbacks
        <3>1. UNCHANGED <<completed, readerVars, check>> /\ InvokeEffect /\ Work \in Owners
            BY <2>4, Invokes DEF srcu_invoke_callbacks, Owners
        <3>2. pc[Work] = "advanced" /\ \A q \in Owners : q # Work => pc[q] \in {"idle", "wait"}
            BY <3>1 DEF InvokeEffect, At, IInv, OneOwner, Owning
        <3>3. \A q \in Owners : pc[q] \notin CheckPlaces
            BY <3>2 DEF CheckPlaces
        <3>4. \A q \in Owners : pc'[q] \in {pc[q], "idle", "reschedule"}
            BY <1>1, <3>1 DEF InvokeEffect, Goto
        <3>5. \A q \in Owners : pc'[q] \notin CheckPlaces
            BY <3>3, <3>4 DEF CheckPlaces
        <3> QED BY <3>1, <3>3, <3>5
    <2>5. ASSUME NEW p \in Owners, \/ AdvanceFirst(p) \/ AdvanceSecond(p) \/ SyncTakeOwn(p)
                                   \/ Reschedule(p) \/ RescheduleLocked(p)
          PROVE  UNCHANGED <<completed, readerVars, check>> /\ Same
        <3>1. UNCHANGED <<completed, readerVars, check>>
            BY <2>5 DEF AdvanceFirst, AdvanceSecond, SyncTakeOwn, Reschedule, RescheduleLocked
        <3>2. pc[p] \in {"first_ok", "second_ok", "advanced", "reschedule", "stop"}
            BY <2>5 DEF AdvanceFirst, AdvanceSecond, SyncTakeOwn, Reschedule, RescheduleLocked, At
        <3>3. PICK l : l \in {"advanced", "flip", "reschedule", "stop", "idle", "wait"} /\ Goto(p, l)
            BY <2>5 DEF AdvanceFirst, AdvanceSecond, SyncTakeOwn, Reschedule, RescheduleLocked, Finish
        <3>4. l \notin CheckPlaces /\ pc[p] \notin CheckPlaces
            BY <3>2, <3>3 DEF CheckPlaces
        <3> QED BY <1>2, <3>1, <3>3, <3>4
    <2>6. CASE UNCHANGED vars
        BY <2>6 DEF vars, owner
    <2> QED BY <2>1, <2>2, <2>3, <2>4, <2>5, <2>6 DEF Quiet
<1>4. \A L \in SUBSET CheckPlaces : OwnerAt(L)' = OwnerAt(L)
    BY <1>3 DEF OwnerAt
<1> QED BY <1>3, <1>4

\* Every step is one of these.
LEMMA StepCases ==
    ASSUME [Next]_vars
    PROVE  \/ Quiet
           \/ \E r \in Readers : \/ ReadCount(r) \/ ReadSeq(r)
                                 \/ \E k \in CPUs : ReadUnlock(r, k) \/ ReadFetch(r, k)
           \/ \E p \in Owners : \/ Advance(p) \/ ReadSeq1(p) \/ srcu_readers_active_idx(p)
                                \/ ReadSeq2(p) \/ srcu_flip(p)
BY DEF Next, WorkStep, ReaderStep, OwnerStep, Quiet, Owners

\* Every step keeps the invariant.
LEMMA StepKeepsRInv == RInv /\ [Next]_vars => RInv'
<1> SUFFICES ASSUME RInv, [Next]_vars PROVE RInv'
    OBVIOUS
<1> DEFINE Goal == ReadersOK' /\ CheckOK' /\ TotalInv' /\ LateInv' /\ ScanInv'
<1>1. IInv'
    BY NextTypeOK, NextOwnership DEF RInv, IInv
<1>2. ASSUME Quiet PROVE Goal
    BY <1>2, QuietPlaces, QuietKeeps DEF RInv
<1>3. ASSUME NEW r \in Readers, \/ ReadCount(r) \/ ReadSeq(r)
                                \/ \E k \in CPUs : ReadUnlock(r, k) \/ ReadFetch(r, k)
      PROVE  Goal
    BY <1>3, CountKeeps, SeqKeeps, UnlockKeeps, FetchKeeps
<1>4. ASSUME NEW p \in Owners, \/ Advance(p) \/ ReadSeq1(p) \/ srcu_readers_active_idx(p)
                               \/ ReadSeq2(p) \/ srcu_flip(p)
      PROVE  Goal
    BY <1>4, AdvanceKeeps, Seq1Keeps, ActiveKeeps, Seq2Keeps, FlipKeeps
<1>5. Goal
    BY <1>2, <1>3, <1>4, StepCases
<1> QED BY <1>1, <1>5 DEF RInv

\* The counters, the late readers and the sums in every reachable state.
LEMMA RInvariance == Spec => []RInv
BY InitRInv, StepKeepsRInv, PTL DEF Spec

\* At most one late reader per CPU increments ->seq[idx] between the two sums.
THEOREM FewLateReadersHolds == Spec => []FewLateReaders
<1>1. RInv => FewLateReaders
    <2> SUFFICES ASSUME RInv PROVE check.ahead <= NCPUS
        BY DEF FewLateReaders
    <2>1. NCPUS \in Nat /\ check.ahead \in Nat /\ Cardinality(On(check.idx, {"fetched", "counted"})) \in Nat
        BY SrcuAssumption, OnFinite DEF RInv, CheckOK
    <2>2. CASE OwnerAt(CheckPlaces)
        BY <2>1, <2>2, SMT DEF RInv, LateInv
    <2>3. CASE ~OwnerAt(CheckPlaces)
        BY <2>1, <2>3, SMT DEF RInv, LateInv
    <2> QED BY <2>2, <2>3
<1> QED BY RInvariance, <1>1, PTL

------------------------------------------------------------------------------
\* The rank that has been checked has no reader left that a head on batch_check0 or
\* batch_check1 waits for: they all use the other one.
Cleared ==
    \A h \in Heads : Within(batch_check0, h) \/ Within(batch_check1, h) =>
        \A r \in older[h] : rank[r] = completed

\* The readers a head waits for are inside.  From srcu_flip() on they use the rank that is
\* checked next, and when a check has passed none of them is left on it.
OlderInv ==
    /\ older \in [Heads -> SUBSET Readers]
    /\ \A h \in Heads : \A r \in older[h] : rpc[r] = "inside"
    /\ \A h \in Heads : Within(batch_done, h) => older[h] = {}
    /\ \A p \in Syncers : Returned(p) => older[p] = {}
    /\ \A h \in Heads : Within(batch_check1, h) => \A r \in older[h] : rank[r] = 1 - completed
    /\ OwnerAt({"flip"}) => batch_check1 = <<>>
    /\ OwnerAt(Passed) \/ (OwnerAt({"seq2"}) /\ check.ahead = 0) => Cleared

GInv == RInv /\ OrderInv /\ OlderInv

\* Readers that come in are not waited for, and those that leave no longer are.
LEMMA ReaderKeepsOlder ==
    ASSUME OlderInv, UNCHANGED <<completed, batches, pc, done>>,
           older' \in [Heads -> SUBSET Readers],
           \A h \in Heads : \A r \in older'[h] : r \in older[h] /\ rpc'[r] = "inside" /\ rank'[r] = rank[r],
           check'.ahead = 0 => check.ahead = 0
    PROVE  OlderInv'
<1>1. \A h \in Heads : older[h] = {} => older'[h] = {}
    OBVIOUS
<1>2. \A L : OwnerAt(L)' = OwnerAt(L)
    BY DEF OwnerAt
<1>3. \A p : Returned(p)' => Returned(p)
    BY DEF Returned
<1>4. UNCHANGED <<completed, batch_done, batch_check0, batch_check1>>
    BY DEF batches
<1>5. \A p \in Syncers : p \in Heads
    BY DEF Heads
<1>6. Cleared => Cleared'
    BY <1>4 DEF Cleared
<1>7. OwnerAt(Passed)' \/ (OwnerAt({"seq2"})' /\ check'.ahead = 0) => Cleared'
    BY <1>2, <1>6 DEF OlderInv
<1>8. \A h \in Heads : Within(batch_check1', h) => \A r \in older'[h] : rank'[r] = 1 - completed'
    BY <1>4, ZenonT(30) DEF OlderInv
<1>9. OwnerAt({"flip"})' => batch_check1' = <<>>
    BY <1>2, <1>4 DEF OlderInv
<1>10. \A h \in Heads : Within(batch_done', h) => older'[h] = {}
    BY <1>1, <1>4 DEF OlderInv
<1>11. \A p \in Syncers : Returned(p)' => older'[p] = {}
    BY <1>1, <1>3, <1>5 DEF OlderInv
<1> QED BY <1>7, <1>8, <1>9, <1>10, <1>11 DEF OlderInv

\* The steps of readers.
LEMMA ReadersKeepOlder ==
    ASSUME GInv, NEW r \in Readers,
           \/ ReadCount(r) \/ ReadSeq(r) \/ \E k \in CPUs : ReadUnlock(r, k) \/ ReadFetch(r, k)
    PROVE  OlderInv'
<1>1. /\ UNCHANGED <<completed, batches, pc, done>> /\ OlderInv /\ ReadersOK /\ CheckOK
    BY DEF GInv, RInv, ReadCount, ReadSeq, ReadUnlock, ReadFetch, owner
<1> USE <1>1
<1>2. check'.ahead = 0 => check.ahead = 0
    <2>1. UNCHANGED check \/ check' = [check EXCEPT !.ahead = @ + 1]
        BY DEF ReadCount, ReadSeq, ReadUnlock, ReadFetch, owner
    <2>2. check' = [check EXCEPT !.ahead = @ + 1] => check'.ahead = check.ahead + 1 /\ check.ahead \in Nat
        BY DEF CheckOK
    <2> QED BY <2>1, <2>2, SMT
<1>3. CASE \E k \in CPUs : ReadUnlock(r, k)
    <2>1. /\ rpc' = [rpc EXCEPT ![r] = "out"] /\ rank' = [rank EXCEPT ![r] = 0]
          /\ older' = [h \in Heads |-> older[h] \ {r}]
        BY <1>3 DEF ReadUnlock, RGoto
    <2>2. \A s \in Readers : s # r => rpc'[s] = rpc[s] /\ rank'[s] = rank[s]
        BY <2>1 DEF ReadersOK
    <2>3. older' \in [Heads -> SUBSET Readers]
        BY <2>1 DEF OlderInv
    <2>4. \A h \in Heads : \A s \in older'[h] : s \in older[h] /\ rpc'[s] = "inside" /\ rank'[s] = rank[s]
        BY <2>1, <2>2 DEF OlderInv
    <2> QED BY <1>2, <2>3, <2>4, ReaderKeepsOlder
<1>4. CASE ReadCount(r) \/ ReadSeq(r) \/ \E k \in CPUs : ReadFetch(r, k)
    <2>1. older' = older /\ rpc[r] # "inside"
        BY <1>4 DEF ReadCount, ReadSeq, ReadFetch, RAt, ghosts
    <2>2. /\ \E l : rpc' = [rpc EXCEPT ![r] = l]
          /\ \/ rank' = rank \/ \E i : rank' = [rank EXCEPT ![r] = i]
        BY <1>4 DEF ReadCount, ReadSeq, ReadFetch, RGoto
    <2>3. \A s \in Readers : s # r => rpc'[s] = rpc[s] /\ rank'[s] = rank[s]
        BY <2>2 DEF ReadersOK
    <2>4. \A h \in Heads : \A s \in older'[h] : s \in older[h] /\ rpc'[s] = "inside" /\ rank'[s] = rank[s]
        BY <2>1, <2>3, ZenonT(30) DEF OlderInv
    <2>5. older' \in [Heads -> SUBSET Readers]
        BY <2>1 DEF OlderInv
    <2> QED BY <1>2, <2>4, <2>5, ReaderKeepsOlder
<1> QED BY <1>3, <1>4

\* A step that moves no head and no reader: what counts is where the owner is.
LEMMA PlaceKeepsOlder ==
    ASSUME OlderInv, UNCHANGED <<rpc, rank, older, completed, batches>>,
           \A p \in Syncers : Returned(p)' => Returned(p),
           OwnerAt({"flip"})' => OwnerAt({"flip"}),
           OwnerAt(Passed)' \/ (OwnerAt({"seq2"})' /\ check'.ahead = 0) => Cleared
    PROVE  OlderInv'
<1>1. UNCHANGED <<batch_done, batch_check0, batch_check1>>
    BY DEF batches
<1>2. Cleared => Cleared'
    BY <1>1 DEF Cleared
<1> QED BY <1>1, <1>2 DEF OlderInv

\* The steps of a check: a reader that a head waits for is inside, so it would show in the
\* sum if it used the rank that is checked.
LEMMA CheckKeepsOlder ==
    ASSUME GInv, NEW p \in Owners,
           Advance(p) \/ ReadSeq1(p) \/ srcu_readers_active_idx(p) \/ ReadSeq2(p)
    PROVE  OlderInv'
<1>1. /\ UNCHANGED <<rpc, rank, older, completed, batches, done>> /\ OlderInv /\ IInv /\ TypeOK
      /\ ReadersOK /\ CheckOK /\ LateInv
    BY DEF GInv, RInv, IInv, Advance, ReadSeq1, srcu_readers_active_idx, ReadSeq2, steady,
       readerVars, ghosts
<1> USE <1>1
<1>2. PICK l \in Advancing : Goto(p, l)
    BY CheckEffect
<1>3. pc[p] \in {"advance", "seq1", "active", "seq2"}
    BY DEF Advance, ReadSeq1, srcu_readers_active_idx, ReadSeq2, At
<1>4. \A L : "idle" \notin L /\ "wait" \notin L =>
                 (OwnerAt(L)' <=> l \in L) /\ (OwnerAt(L) <=> pc[p] \in L)
    BY <1>2, <1>3, OwnerMoves
<1>5. /\ OwnerAt({"flip"})' <=> l = "flip"
      /\ OwnerAt({"seq2"})' <=> l = "seq2"
      /\ OwnerAt(Passed)' <=> l \in Passed
      /\ OwnerAt({"seq2"}) <=> pc[p] = "seq2"
      /\ OwnerAt(CheckPlaces) <=> pc[p] \in CheckPlaces
    <2>1. /\ "idle" \notin Passed /\ "wait" \notin Passed
          /\ "idle" \notin CheckPlaces /\ "wait" \notin CheckPlaces
        BY DEF Passed, CheckPlaces
    <2> QED BY <1>4, <2>1, SMT
<1>6. \A q \in Syncers : Returned(q)' => Returned(q)
    <2>1. l \notin {"idle", "reschedule", "stop"}
        BY <1>2 DEF Advancing
    <2> QED BY <1>2, <2>1, SameReturned
<1>7. pc'[p] = l
    BY <1>2 DEF TypeOK, Goto
<1>8. l # "flip"
    <2>1. \/ Goto(p, "advanced") \/ Goto(p, "seq1") \/ Goto(p, "active") \/ Goto(p, "seq2")
          \/ Goto(p, "first_ok") \/ Goto(p, "second_ok")
        BY DEF Advance, ReadSeq1, srcu_readers_active_idx, ReadSeq2, CheckFails, CheckPassed
    <2> QED BY <1>7, <2>1 DEF TypeOK, Goto
<1>9. ASSUME l \in Passed \/ (l = "seq2" /\ check'.ahead = 0) PROVE Cleared
    <2>1. \A m : Goto(p, m) => m = l
        BY <1>7 DEF TypeOK, Goto
    <2>2. ~Advance(p) /\ ~ReadSeq1(p) /\ ~CheckFails(p)
        BY <1>9, <2>1 DEF Advance, ReadSeq1, CheckFails, Passed
    <2>3. CASE srcu_readers_active_idx(p)
        <3> DEFINE sum == (check.sum + c[check.cpu][check.idx]) % Modulus
        <3>1. /\ pc[p] = "active" /\ check' = [NextCPU EXCEPT !.sum = sum]
              /\ Goto(p, IF LastCPU THEN "seq2" ELSE "active") /\ ~(LastCPU /\ sum # 0)
            BY <2>2, <2>3 DEF srcu_readers_active_idx, At
        <3>2. LastCPU /\ sum = 0 /\ l = "seq2"
            BY <1>9, <2>1, <3>1 DEF Passed
        <3>3. check'.ahead = check.ahead
            <4>1. NextCPU.ahead = check.ahead
                BY NextCPUFacts
            <4>2. "ahead" # "sum" /\ NextCPU \in [idx : 0..1, trycount : Nat, flipped : BOOLEAN, cpu : CPUs,
                           sum : 0..(Modulus - 1), ahead : Nat]
                BY NextCPUFacts
            <4> HIDE DEF sum
            <4> QED BY <3>1, <4>1, <4>2
        <3>4. check.ahead = 0
            BY <1>9, <3>2, <3>3 DEF Passed
        <3>5. On(check.idx, {"inside"}) = {}
            BY <3>1, <3>2, <3>4, ZeroMeansNone DEF GInv
        <3>6. check.idx = 1 - completed
            BY <1>5, <3>1 DEF LateInv, CheckPlaces
        <3>7. ASSUME NEW h \in Heads, NEW r \in older[h] PROVE rank[r] = completed
            <4>1. r \in Readers /\ rpc[r] = "inside"
                BY DEF OlderInv
            <4>2. rank[r] # 1 - completed
                BY <3>5, <3>6, <4>1 DEF On
            <4>3. rank[r] \in 0..1 /\ completed \in 0..1
                BY <4>1 DEF ReadersOK
            <4> QED BY <4>2, <4>3, SMT
        <3> QED BY <3>7 DEF Cleared
    <2>4. CASE ReadSeq2(p)
        <3>1. pc[p] = "seq2" /\ (\/ ~LastCPU /\ check' = NextCPU /\ Goto(p, "seq2")
                                 \/ check.ahead % Modulus = 0 /\ CheckPassed(p))
            BY <2>2, <2>4 DEF ReadSeq2, At
        <3>2. check.ahead = 0
            <4>1. CASE check' = NextCPU /\ Goto(p, "seq2")
                <5>1. l = "seq2" /\ check'.ahead = check.ahead
                    BY <2>1, <4>1, NextCPUFacts
                <5> QED BY <1>9, <5>1 DEF Passed
            <4>2. CASE check.ahead % Modulus = 0
                <5>1. check.ahead + Cardinality(On(check.idx, {"fetched", "counted"})) <= Cardinality(Readers)
                    BY <1>5, <3>1 DEF LateInv, CheckPlaces
                <5>2. /\ Cardinality(On(check.idx, {"fetched", "counted"})) \in Nat
                      /\ check.ahead \in Nat
                    BY OnFinite DEF CheckOK
                <5>3. Cardinality(Readers) \in Nat /\ Modulus \in Nat /\ Cardinality(Readers) < Modulus
                    BY SrcuAssumption, FS_CardinalityType
                <5>4. check.ahead \in 0..(Modulus - 1)
                    BY <5>1, <5>2, <5>3, SMT
                <5>5. \A a \in 0..(Modulus - 1) : a % Modulus = a
                    BY <5>3, SMT
                <5> QED BY <4>2, <5>4, <5>5
            <4> QED BY <3>1, <4>1, <4>2
        <3> QED BY <1>5, <3>1, <3>2 DEF OlderInv
    <2> QED BY <2>2, <2>3, <2>4
<1> QED BY <1>5, <1>6, <1>8, <1>9, PlaceKeepsOlder

\* srcu_collect_new(): the owner is at the beginning, so nothing has been checked.
LEMMA CollectKeepsOlder ==
    ASSUME GInv, srcu_collect_new
    PROVE  OlderInv'
<1>1. /\ OlderInv /\ IInv /\ TypeOK /\ Work \in Owners /\ Work \notin Syncers /\ pc[Work] = "collect"
      /\ Goto(Work, "advance")
      /\ UNCHANGED <<rpc, rank, older, completed, batch_check1, batch_done, done>>
    BY SrcuAssumption DEF GInv, RInv, IInv, Owners, srcu_collect_new, At, readerVars, ghosts
<1>2. \A L : "idle" \notin L /\ "wait" \notin L => (OwnerAt(L)' <=> "advance" \in L)
    BY <1>1, OwnerMoves
<1>3. ~OwnerAt({"flip"})' /\ ~OwnerAt({"seq2"})' /\ ~OwnerAt(Passed)'
    BY <1>2, SMT DEF Passed
<1>4. \A q \in Syncers : Returned(q)' => Returned(q)
    BY <1>1, SameReturned
<1> QED BY <1>1, <1>3, <1>4 DEF OlderInv

\* The first check has passed: nobody is left that a head on batch_check1 waits for.
LEMMA FirstKeepsOlder ==
    ASSUME GInv, NEW p \in Owners, AdvanceFirst(p) \/ AdvanceSecond(p)
    PROVE  OlderInv'
<1>1. /\ OlderInv /\ IInv /\ TypeOK /\ completed \in 0..1 /\ pc[p] \in {"first_ok", "second_ok"}
      /\ UNCHANGED <<rpc, rank, older, completed, batch_check0, done>>
      /\ batch_done' = batch_done \o batch_check1 /\ batch_check1' = <<>>
    BY DEF GInv, RInv, IInv, ReadersOK, AdvanceFirst, AdvanceSecond, At, readerVars, ghosts
<1> USE <1>1
<1>2. PICK l \in {"advanced", "flip"} : Goto(p, l)
    BY DEF AdvanceFirst, AdvanceSecond
<1>3. \A L : "idle" \notin L /\ "wait" \notin L =>
                 (OwnerAt(L)' <=> l \in L) /\ (OwnerAt(L) <=> pc[p] \in L)
    BY <1>2, OwnerMoves
<1>4. OwnerAt(Passed) /\ ~OwnerAt({"seq2"})'
    <2>1. pc[p] \in Passed /\ l \notin {"seq2"} /\ "idle" \notin Passed /\ "wait" \notin Passed
        BY <1>2 DEF Passed
    <2>2. "idle" \notin {"seq2"} /\ "wait" \notin {"seq2"}
        OBVIOUS
    <2> QED BY <1>3, <2>1, <2>2
<1>5. Cleared
    BY <1>4 DEF OlderInv
<1>6. \A h \in Heads : Within(batch_check1, h) => older[h] = {}
    <2>1. ASSUME NEW h \in Heads, Within(batch_check1, h), NEW r \in older[h] PROVE FALSE
        <3>1. rank[r] = completed /\ rank[r] = 1 - completed
            BY <1>5, <2>1 DEF OlderInv, Cleared
        <3> QED BY <3>1, SMT
    <2> QED BY <2>1
<1>7. \A h : Within(batch_done', h) <=> Within(batch_done, h) \/ Within(batch_check1, h)
    BY WithinJoin DEF TypeOK
<1>8. \A h : ~Within(batch_check1', h)
    BY SMT DEF Within
<1>9. \A q \in Syncers : Returned(q)' => Returned(q)
    BY <1>2, SameReturned
<1>10. Cleared'
    BY <1>5, <1>8 DEF Cleared
<1>11. \A h \in Heads : Within(batch_done', h) => older'[h] = {}
    BY <1>6, <1>7 DEF OlderInv
<1> QED BY <1>8, <1>9, <1>10, <1>11 DEF OlderInv

\* srcu_flip(): the readers the heads of batch_check0 wait for all use the rank that is
\* no longer the current one.
LEMMA FlipKeepsOlder ==
    ASSUME GInv, NEW p \in Owners, srcu_flip(p)
    PROVE  OlderInv'
<1>1. /\ OlderInv /\ IInv /\ TypeOK /\ completed \in 0..1 /\ pc[p] = "flip" /\ Goto(p, "seq1")
      /\ UNCHANGED <<rpc, rank, older, batch_done, done>> /\ completed' = 1 - completed
      /\ batch_check1' = batch_check1 \o batch_check0
    BY DEF GInv, RInv, IInv, ReadersOK, srcu_flip, At, readerVars, ghosts
<1> USE <1>1
<1>2. \A L : "idle" \notin L /\ "wait" \notin L =>
                 (OwnerAt(L)' <=> "seq1" \in L) /\ (OwnerAt(L) <=> pc[p] \in L)
    BY OwnerMoves
<1>3. OwnerAt({"flip"}) /\ OwnerAt(Passed)
    BY <1>2 DEF Passed
<1>4. ~OwnerAt({"flip"})' /\ ~OwnerAt({"seq2"})' /\ ~OwnerAt(Passed)'
    BY <1>2, SMT DEF Passed
<1>5. batch_check1' = batch_check0
    BY <1>3, BatchFacts DEF OlderInv, TypeOK
<1>6. Cleared
    BY <1>3 DEF OlderInv
<1>7. 1 - completed' = completed
    BY SMT
<1>8. \A h \in Heads : Within(batch_check1', h) => \A r \in older'[h] : rank'[r] = 1 - completed'
    BY <1>5, <1>6, <1>7 DEF Cleared
<1>9. \A q \in Syncers : Returned(q)' => Returned(q)
    BY SameReturned
<1> QED BY <1>4, <1>8, <1>9 DEF OlderInv

\* A head that is queued waits for the readers inside; it is on none of the queues yet.
LEMMA NewHeadKeepsOlder ==
    ASSUME OlderInv, NEW h \in Heads, UNCHANGED <<rpc, rank, completed, batch_check1, batch_done>>,
           older' = [older EXCEPT ![h] = Inside],
           ~Within(batch_check0, h), ~Within(batch_check1, h), ~Within(batch_done, h),
           \A q \in Syncers : Returned(q)' => Returned(q) /\ q # h,
           OwnerAt({"flip"})' => OwnerAt({"flip"}),
           OwnerAt(Passed)' \/ (OwnerAt({"seq2"})' /\ check'.ahead = 0) => UNCHANGED batch_check0 /\ Cleared
    PROVE  OlderInv'
<1>1. older'[h] = Inside /\ \A g \in Heads : g # h => older'[g] = older[g]
    BY DEF OlderInv
<1> USE <1>1
<1>2. older' \in [Heads -> SUBSET Readers]
    BY DEF OlderInv, Inside
<1>3. \A g \in Heads : \A r \in older'[g] : rpc'[r] = "inside"
    BY DEF OlderInv, Inside, RAt
<1>4. \A q \in Syncers : q \in Heads
    BY DEF Heads
<1>5. UNCHANGED batch_check0 /\ Cleared => Cleared'
    BY DEF Cleared
<1>6. \A g \in Heads : Within(batch_done', g) => older'[g] = {}
    BY DEF OlderInv
<1>7. \A q \in Syncers : Returned(q)' => older'[q] = {}
    BY <1>4 DEF OlderInv
<1>8. \A g \in Heads : Within(batch_check1', g) => \A r \in older'[g] : rank'[r] = 1 - completed'
    BY DEF OlderInv
<1> QED BY <1>2, <1>3, <1>5, <1>6, <1>7, <1>8 DEF OlderInv

\* What is on one of the queues is queued.
LEMMA OnSomeQueue ==
    ASSUME TypeOK, NEW h, ~Within(AllQ, h)
    PROVE  ~Within(batch_check0, h) /\ ~Within(batch_check1, h) /\ ~Within(batch_done, h)
<1>1. /\ batch_queue \in Seq(Heads) /\ batch_check0 \in Seq(Heads)
      /\ batch_check1 \in Seq(Heads) /\ batch_done \in Seq(Heads)
    BY DEF TypeOK
<1>2. batch_done \o batch_check1 \in Seq(Heads) /\ (batch_done \o batch_check1) \o batch_check0 \in Seq(Heads)
    BY <1>1, BatchFacts
<1> QED BY <1>1, <1>2, WithinJoin DEF AllQ

\* call_srcu()
LEMMA CallKeepsOlder ==
    ASSUME GInv, NEW h \in Callbacks, call_srcu(h)
    PROVE  OlderInv'
<1>1. /\ OlderInv /\ TypeOK /\ h \in Heads /\ h \notin Syncers /\ h \notin Queued
      /\ UNCHANGED <<rpc, rank, completed, batch_check0, batch_check1, batch_done, pc, done, check>>
      /\ older' = [older EXCEPT ![h] = Inside]
    BY SrcuAssumption DEF GInv, RInv, IInv, Heads, call_srcu, readerVars, owner
<1> USE <1>1
<1>2. ~Within(batch_check0, h) /\ ~Within(batch_check1, h) /\ ~Within(batch_done, h)
    BY AllQTypes, OnSomeQueue
<1>3. \A L : OwnerAt(L)' = OwnerAt(L)
    BY DEF OwnerAt
<1>4. \A q \in Syncers : Returned(q)' => Returned(q) /\ q # h
    BY DEF Returned
<1>5. OwnerAt(Passed)' \/ (OwnerAt({"seq2"})' /\ check'.ahead = 0) => Cleared
    BY <1>3 DEF OlderInv
<1> QED BY <1>2, <1>3, <1>4, <1>5, NewHeadKeepsOlder

\* __synchronize_srcu(); a caller that takes the processing over is at the beginning.
LEMMA SynchronizeKeepsOlder ==
    ASSUME GInv, NEW p \in Syncers, __synchronize_srcu(p)
    PROVE  OlderInv'
<1>1. /\ OlderInv /\ OrderInv /\ IInv /\ TypeOK /\ p \in Heads /\ p \in Owners /\ pc[p] = "idle"
      /\ UNCHANGED <<rpc, rank, completed, batch_check1, batch_done, check>>
      /\ older' = [older EXCEPT ![p] = Inside]
      /\ \A q \in Syncers : q # p => done'[q] = done[q]
    BY DEF GInv, RInv, IInv, OrderInv, Heads, Owners, __synchronize_srcu, SyncStart, At, readerVars
<1> USE <1>1
<1>2. ~Within(batch_check0, p) /\ ~Within(batch_check1, p) /\ ~Within(batch_done, p)
    <2>1. ~Within(AllQ, p)
        BY DEF OrderInv, Returned
    <2> QED BY <2>1, OnSomeQueue
<1>3. /\ \/ running /\ Goto(p, "wait") /\ UNCHANGED batch_check0
         \/ ~running /\ Goto(p, "advance")
    BY DEF __synchronize_srcu
<1>4. pc'[p] \in {"wait", "advance"} /\ \A q \in Owners : q # p => pc'[q] = pc[q]
    BY <1>3 DEF TypeOK, Goto
<1>5. \A q \in Syncers : Returned(q)' => Returned(q) /\ q # p
    BY <1>4 DEF Returned, Owners
<1>6. \A L : "wait" \notin L /\ "advance" \notin L /\ OwnerAt(L)' =>
                 OwnerAt(L) /\ \E q \in Owners : pc[q] \in L /\ q # p
    BY <1>4 DEF OwnerAt
<1>7. ~running => \A q \in Owners : pc[q] \in {"idle", "wait"}
    BY DEF IInv, OneOwner, Owning
<1>8. ~running => ~OwnerAt({"flip"})' /\ ~OwnerAt({"seq2"})' /\ ~OwnerAt(Passed)'
    BY <1>6, <1>7, SMT DEF Passed
<1>9. OwnerAt({"flip"})' => OwnerAt({"flip"})
    BY <1>6
<1>10. OwnerAt(Passed)' \/ (OwnerAt({"seq2"})' /\ check'.ahead = 0) => UNCHANGED batch_check0 /\ Cleared
    <2>1. (OwnerAt(Passed)' => OwnerAt(Passed)) /\ (OwnerAt({"seq2"})' => OwnerAt({"seq2"}))
        BY <1>6 DEF Passed
    <2> QED BY <1>3, <1>8, <2>1 DEF OlderInv
<1> QED BY <1>2, <1>5, <1>9, <1>10, NewHeadKeepsOlder

\* The first head of batch_done leaves.
LEMMA DoneHead ==
    ASSUME TypeOK, batch_done # <<>>
    PROVE  /\ Head(batch_done) \in Heads /\ Within(batch_done, Head(batch_done))
           /\ \A h : Within(Tail(batch_done), h) => Within(batch_done, h)
<1>1. batch_done \in Seq(Heads)
    BY DEF TypeOK
<1>2. /\ Head(batch_done) = batch_done[1] /\ 1 \in 1..Len(batch_done) /\ batch_done[1] \in Heads
      /\ \A i \in 1..Len(Tail(batch_done)) : Tail(batch_done)[i] = batch_done[i + 1] /\ i + 1 \in 1..Len(batch_done)
    BY <1>1, SMT
<1> QED BY <1>2 DEF Within

\* Heads leave batch_done, and callers go with them.
LEMMA LeaveKeepsOlder ==
    ASSUME OlderInv, UNCHANGED <<rpc, rank, older, completed, batch_check0, batch_check1>>,
           \A h : Within(batch_done', h) => Within(batch_done, h),
           \A q \in Syncers : Returned(q)' => Returned(q) \/ Within(batch_done, q),
           ~OwnerAt({"flip"})', ~OwnerAt({"seq2"})', ~OwnerAt(Passed)'
    PROVE  OlderInv'
<1>1. \A q \in Syncers : q \in Heads
    BY DEF Heads
<1> QED BY <1>1 DEF OlderInv

\* srcu_invoke_callbacks() and the callers that take their own head.
LEMMA DoneKeepsOlder ==
    ASSUME GInv, srcu_invoke_callbacks \/ \E p \in Syncers : SyncTakeOwn(p)
    PROVE  OlderInv'
<1>1. /\ OlderInv /\ IInv /\ TypeOK /\ Work \in Owners /\ Work \notin Syncers
      /\ UNCHANGED <<rpc, rank, older, completed, batch_check0, batch_check1>>
    BY SrcuAssumption DEF GInv, RInv, IInv, Owners, srcu_invoke_callbacks, SyncTakeOwn,
       readerVars, ghosts
<1> USE <1>1
<1>2. PICK p \in Owners : /\ pc[p] = "advanced"
                          /\ \A q \in Owners : pc'[q] \in {"idle", "reschedule", pc[q]}
    <2>1. ASSUME NEW q \in Syncers, SyncTakeOwn(q) PROVE \A s \in Owners : pc'[s] \in {"reschedule", pc[s]}
        BY <2>1 DEF SyncTakeOwn, Goto, TypeOK, Owners
    <2>2. ASSUME srcu_invoke_callbacks PROVE \A s \in Owners : pc'[s] \in {"idle", "reschedule", pc[s]}
        BY <2>2, Invokes DEF InvokeEffect, Goto, TypeOK
    <2> QED BY <2>1, <2>2 DEF srcu_invoke_callbacks, SyncTakeOwn, At, Owners
<1>3. \A q \in Owners : pc[q] \in {"idle", "wait", "advanced"}
    <2>1. p \in Owning /\ \A s, q \in Owning : s = q
        BY <1>2 DEF IInv, OneOwner, Owning
    <2> QED BY <1>2, <2>1 DEF Owning
<1>4. \A q \in Owners : pc'[q] \in {"idle", "wait", "advanced", "reschedule"}
    BY <1>2, <1>3
<1>5. ~OwnerAt({"flip"})' /\ ~OwnerAt({"seq2"})' /\ ~OwnerAt(Passed)'
    BY <1>4 DEF OwnerAt, Passed
<1>6. batch_done' = batch_done \/ (batch_done # <<>> /\ batch_done' = Tail(batch_done))
    BY DEF srcu_invoke_callbacks, SyncTakeOwn
<1>7. \A h : Within(batch_done', h) => Within(batch_done, h)
    BY <1>6, DoneHead
<1>8. ASSUME NEW q \in Syncers, Returned(q)' PROVE Returned(q) \/ Within(batch_done, q)
    <2>1. CASE srcu_invoke_callbacks
        <3>1. InvokeEffect /\ done' = done /\ q \in Owners /\ q # Work
            BY <2>1, Invokes DEF srcu_invoke_callbacks, Owners
        <3>2. pc'[q] = pc[q] \/ (batch_done # <<>> /\ q = Head(batch_done))
            BY <3>1 DEF InvokeEffect, Goto, TypeOK
        <3>3. pc'[q] = pc[q] => Returned(q)
            BY <1>8, <3>1 DEF Returned
        <3> QED BY <3>2, <3>3, DoneHead
    <2>2. ASSUME NEW s \in Syncers, SyncTakeOwn(s) PROVE Returned(q) \/ Within(batch_done, q)
        <3>1. /\ pc[s] = "advanced" /\ Goto(s, "reschedule")
              /\ done' = [done EXCEPT ![s] = batch_done # <<>>] /\ s \in Owners /\ q \in Owners
            BY <2>2 DEF SyncTakeOwn, At, Owners
        <3>2. CASE q # s
            BY <1>8, <3>1, <3>2 DEF Returned, Goto, TypeOK, GInv, OrderInv
        <3>3. CASE q = s
            <4>1. pc'[s] = "reschedule" /\ done'[s] = (batch_done # <<>>)
                BY <3>1 DEF Goto, TypeOK, GInv, OrderInv
            <4>2. batch_done # <<>>
                BY <1>8, <3>3, <4>1 DEF Returned
            <4>3. batch_done = <<s>>
                BY <3>1, <4>2 DEF IInv, LoneCaller, Advancing, Lone
            <4>4. Head(batch_done) = s
                BY <4>3, SMT
            <4> QED BY <3>3, <4>2, <4>4, DoneHead
        <3> QED BY <3>2, <3>3
    <2> QED BY <2>1, <2>2
<1> QED BY <1>5, <1>7, <1>8, LeaveKeepsOlder

\* The steps that hand the processing on.
LEMMA HandOnKeepsOlder ==
    ASSUME GInv, \/ ProcessSrcu \/ \E p \in Owners : Reschedule(p) \/ RescheduleLocked(p)
                 \/ UNCHANGED vars
    PROVE  OlderInv'
<1>1. /\ OlderInv /\ IInv /\ TypeOK /\ Work \in Owners /\ Work \notin Syncers
      /\ UNCHANGED <<rpc, rank, older, completed, batches, check, done>>
    BY SrcuAssumption DEF GInv, RInv, IInv, Owners, ProcessSrcu, Reschedule, RescheduleLocked,
       readerVars, ghosts, vars, owner
<1> USE <1>1
<1>2. \A q \in Owners : pc'[q] = pc[q] \/ pc'[q] \in {"idle", "wait", "stop", "collect"}
    BY DEF ProcessSrcu, Reschedule, RescheduleLocked, Finish, Goto, TypeOK, vars, owner
<1>3. \A L : "idle" \notin L /\ "wait" \notin L /\ "stop" \notin L /\ "collect" \notin L =>
                 (OwnerAt(L)' => OwnerAt(L))
    BY <1>2 DEF OwnerAt
<1>4. /\ OwnerAt({"flip"})' => OwnerAt({"flip"})
      /\ OwnerAt({"seq2"})' => OwnerAt({"seq2"})
      /\ OwnerAt(Passed)' => OwnerAt(Passed)
    BY <1>3 DEF Passed
<1>5. \A q \in Syncers : Returned(q)' => Returned(q)
    <2>1. CASE ProcessSrcu
        BY <2>1, SameReturned DEF ProcessSrcu
    <2>2. ASSUME NEW p \in Owners, Reschedule(p) \/ RescheduleLocked(p)
          PROVE  \A q \in Syncers : Returned(q)' => Returned(q)
        <3>1. pc[p] \in {"reschedule", "stop"} /\ (Finish(p) \/ Goto(p, "stop"))
            BY <2>2 DEF Reschedule, RescheduleLocked, At
        <3>2. \A q \in Owners : q # p => pc'[q] = pc[q]
            BY <3>1 DEF Finish, Goto, TypeOK
        <3>3. p # Work => (pc'[p] = "idle" => done[p]) /\ pc'[p] \in {"idle", "wait", "stop"}
            BY <3>1 DEF Finish, Goto, TypeOK
        <3>4. \A q \in Syncers : q \in Owners /\ q # Work
            BY DEF Owners
        <3> QED BY <3>1, <3>2, <3>3, <3>4 DEF Returned
    <2>3. CASE UNCHANGED vars
        BY <2>3 DEF Returned, vars, owner
    <2> QED BY <2>1, <2>2, <2>3
<1>6. OwnerAt(Passed)' \/ (OwnerAt({"seq2"})' /\ check'.ahead = 0) => Cleared
    BY <1>4 DEF OlderInv
<1> QED BY <1>4, <1>5, <1>6, PlaceKeepsOlder

\* Every step keeps the invariant.
LEMMA StepKeepsGInv == GInv /\ [Next]_vars => GInv'
<1> SUFFICES ASSUME GInv, [Next]_vars PROVE GInv'
    OBVIOUS
<1>1. RInv'
    BY StepKeepsRInv DEF GInv
<1>2. OrderInv'
    BY NextOrderInv DEF GInv, RInv
<1>3. OlderInv'
    <2>1. ASSUME NEW p \in Owners, \/ AdvanceFirst(p) \/ AdvanceSecond(p) \/ SyncTakeOwn(p)
                                   \/ Reschedule(p) \/ RescheduleLocked(p)
          PROVE  OlderInv'
        <3>1. SyncTakeOwn(p) => p \in Syncers
            BY DEF SyncTakeOwn, Owners
        <3> QED BY <2>1, <3>1, FirstKeepsOlder, DoneKeepsOlder, HandOnKeepsOlder
    <2>2. CASE Quiet
        BY <2>1, <2>2, CallKeepsOlder, SynchronizeKeepsOlder, CollectKeepsOlder, DoneKeepsOlder,
           HandOnKeepsOlder DEF Quiet
    <2>3. ASSUME NEW p \in Owners, \/ Advance(p) \/ ReadSeq1(p) \/ srcu_readers_active_idx(p)
                                   \/ ReadSeq2(p) \/ srcu_flip(p)
          PROVE  OlderInv'
        BY <2>3, CheckKeepsOlder, FlipKeepsOlder
    <2> QED BY <2>2, <2>3, StepCases, ReadersKeepOlder
<1> QED BY <1>1, <1>2, <1>3 DEF GInv

\* Initially no head waits for anybody.
LEMMA InitGInv == Init => GInv
<1> SUFFICES ASSUME Init PROVE GInv
    OBVIOUS
<1>1. /\ older = [h \in Heads |-> {}] /\ batch_check0 = <<>> /\ batch_check1 = <<>>
      /\ batch_done = <<>> /\ \A p \in Owners : pc[p] = "idle"
    BY DEF Init
<1>2. \A h : ~Within(<<>>, h)
    BY SMT DEF Within
<1>3. ~OwnerAt({"flip"}) /\ ~OwnerAt({"seq2"}) /\ ~OwnerAt(Passed)
    BY <1>1 DEF OwnerAt, Passed
<1>4. \A p \in Syncers : p \in Heads
    BY DEF Heads
<1>5. OlderInv
    BY <1>1, <1>2, <1>3, <1>4 DEF OlderInv
<1> QED BY <1>5, InitRInv, InitOrderInv DEF GInv

\* The promise of call_srcu() and synchronize_srcu(): no head gets to batch_done, and no
\* caller returns, while a reader that was inside when the head was queued is still there.
THEOREM GracePeriodHolds == Spec => []GracePeriod
<1>1. GInv => GracePeriod
    <2> SUFFICES ASSUME GInv, NEW h \in Heads, h \in Range(batch_done) \/ (h \in Syncers /\ At(h, "idle"))
                 PROVE  older[h] = {}
        BY DEF GracePeriod
    <2>1. batch_done \in Seq(Heads)
        BY DEF GInv, RInv, IInv, TypeOK
    <2>2. h \in Range(batch_done) => Within(batch_done, h)
        BY <2>1, RangeWithin
    <2>3. h \in Syncers /\ At(h, "idle") => Returned(h)
        BY DEF At, Returned
    <2> QED BY <2>2, <2>3 DEF GInv, OlderInv
<1> QED BY InitGInv, StepKeepsGInv, <1>1, PTL DEF Spec
==============================================================================
