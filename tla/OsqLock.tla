------------------------------- MODULE OsqLock -------------------------------
(***************************************************************************)
(* The MCS-like queue of optimistic spinners, kernel/locking/osq_lock.c.   *)
(*                                                                         *)
(* Every access to memory that another CPU can reach is a step of its own; *)
(* a plain read that only guards a cmpxchg or xchg of the same word is     *)
(* part of it.  Accesses are sequentially consistent.  There is one node   *)
(* per CPU for all the locks, so the model has several locks.              *)
(***************************************************************************)
EXTENDS Integers, FiniteSets

CONSTANTS CPUs, Locks, None

ASSUME OsqAssumption == None \notin CPUs \cup Locks

VARIABLES tail,    \* lock->tail of each lock: the last CPU in the queue, or None
          next,    \* node->next of each CPU's node
          prev,    \* node->prev
          locked,  \* node->locked
          pc,      \* where each CPU is
          lock,    \* the lock argument of the call in progress
          my_prev, \* the local variable prev of osq_lock()
          my_next  \* the local variable next of osq_lock() and osq_unlock()

vars == <<tail, next, prev, locked, pc, lock, my_prev, my_next>>
nodes == <<next, prev, locked>>
locals == <<lock, my_prev, my_next>>

\* In osq_lock() before and after the node is published, waiting for its turn,
\* undoing the queueing (Steps A, B and C), having the turn, giving it back.
PCs == {"idle", "xchg", "set_prev", "set_next", "spin",
        "A_unlink", "A_locked", "A_prev", "B_tail", "B_next", "C_next", "C_prev",
        "held", "U_xchg", "U_tail", "U_next", "U_grant"}

Init ==
    /\ tail = [l \in Locks |-> None]
    /\ next = [c \in CPUs |-> None]
    /\ prev = [c \in CPUs |-> None]
    /\ locked = [c \in CPUs |-> FALSE]
    /\ pc = [c \in CPUs |-> "idle"]
    /\ lock = [c \in CPUs |-> None]
    /\ my_prev = [c \in CPUs |-> None]
    /\ my_next = [c \in CPUs |-> None]

At(c, p) == pc[c] = p
Goto(c, p) == pc' = [pc EXCEPT ![c] = p]

\* The end of osq_lock() with false or of osq_unlock(); the locals are dead.
Leave(c) ==
    /\ Goto(c, "idle")
    /\ lock' = [lock EXCEPT ![c] = None]
    /\ my_prev' = [my_prev EXCEPT ![c] = None]
    /\ my_next' = [my_next EXCEPT ![c] = None]

------------------------------------------------------------------------------
\* osq_lock()

\* Faulty: node->locked keeps the value of the last use of the node.
InitNodeLocked(c, l) ==
    /\ At(c, "idle")
    /\ next' = [next EXCEPT ![c] = None]
    /\ lock' = [lock EXCEPT ![c] = l]
    /\ Goto(c, "xchg")
    /\ UNCHANGED <<tail, prev, locked, my_prev, my_next>>

InitNode(c, l) ==
    /\ At(c, "idle")
    /\ locked' = [locked EXCEPT ![c] = FALSE]
    /\ next' = [next EXCEPT ![c] = None]
    /\ lock' = [lock EXCEPT ![c] = l]
    /\ Goto(c, "xchg")
    /\ UNCHANGED <<tail, prev, my_prev, my_next>>

XchgTail(c) ==
    /\ At(c, "xchg")
    /\ tail' = [tail EXCEPT ![lock[c]] = c]
    /\ my_prev' = [my_prev EXCEPT ![c] = tail[lock[c]]]
    /\ Goto(c, IF tail[lock[c]] = None THEN "held" ELSE "set_prev")
    /\ UNCHANGED <<nodes, lock, my_next>>

SetPrev(c) ==
    /\ At(c, "set_prev")
    /\ prev' = [prev EXCEPT ![c] = my_prev[c]]
    /\ Goto(c, "set_next")
    /\ UNCHANGED <<tail, next, locked, locals>>

SetPrevNext(c) ==
    /\ At(c, "set_next")
    /\ next' = [next EXCEPT ![my_prev[c]] = c]
    /\ Goto(c, "spin")
    /\ UNCHANGED <<tail, prev, locked, locals>>

SpinLocked(c) ==
    /\ At(c, "spin")
    /\ locked[c]
    /\ Goto(c, "held")
    /\ UNCHANGED <<tail, nodes, locals>>

\* need_resched() became true.
SpinResched(c) ==
    /\ At(c, "spin")
    /\ ~locked[c]
    /\ Goto(c, "A_unlink")
    /\ UNCHANGED <<tail, nodes, locals>>

\* Step A: cmpxchg(&prev->next, node, NULL).
StepAUnlink(c) ==
    /\ At(c, "A_unlink")
    /\ IF next[my_prev[c]] = c
       THEN /\ next' = [next EXCEPT ![my_prev[c]] = None]
            /\ Goto(c, "B_tail")
       ELSE /\ Goto(c, "A_locked")
            /\ UNCHANGED next
    /\ UNCHANGED <<tail, prev, locked, locals>>

StepALocked(c) ==
    /\ At(c, "A_locked")
    /\ Goto(c, IF locked[c] THEN "held" ELSE "A_prev")
    /\ UNCHANGED <<tail, nodes, locals>>

StepAReload(c) ==
    /\ At(c, "A_prev")
    /\ my_prev' = [my_prev EXCEPT ![c] = prev[c]]
    /\ Goto(c, "A_unlink")
    /\ UNCHANGED <<tail, nodes, lock, my_next>>

\* Step B: osq_wait_next(lock, node, prev), first the tail, then node->next.
StepBTail(c) ==
    /\ At(c, "B_tail")
    /\ IF tail[lock[c]] = c
       THEN /\ tail' = [tail EXCEPT ![lock[c]] = my_prev[c]]
            /\ Leave(c)
       ELSE /\ Goto(c, "B_next")
            /\ UNCHANGED <<tail, locals>>
    /\ UNCHANGED nodes

\* Faulty: node->next is read but not cleared, so Step A of the next CPU succeeds.
StepBNextKept(c) ==
    /\ At(c, "B_next")
    /\ my_next' = [my_next EXCEPT ![c] = next[c]]
    /\ Goto(c, IF next[c] # None THEN "C_next" ELSE "B_tail")
    /\ UNCHANGED <<tail, nodes, lock, my_prev>>

StepBNext(c) ==
    /\ At(c, "B_next")
    /\ my_next' = [my_next EXCEPT ![c] = next[c]]
    /\ next' = [next EXCEPT ![c] = None]
    /\ Goto(c, IF next[c] # None THEN "C_next" ELSE "B_tail")
    /\ UNCHANGED <<tail, prev, locked, lock, my_prev>>

\* Step C: next->prev = prev, then prev->next = next.
StepCNext(c) ==
    /\ At(c, "C_next")
    /\ prev' = [prev EXCEPT ![my_next[c]] = my_prev[c]]
    /\ Goto(c, "C_prev")
    /\ UNCHANGED <<tail, next, locked, locals>>

\* Faulty: prev->next is not set to the next CPU.
StepCPrevMissing(c) ==
    /\ At(c, "C_prev")
    /\ Leave(c)
    /\ UNCHANGED <<tail, nodes>>

StepCPrev(c) ==
    /\ At(c, "C_prev")
    /\ next' = [next EXCEPT ![my_prev[c]] = my_next[c]]
    /\ Leave(c)
    /\ UNCHANGED <<tail, prev, locked>>

------------------------------------------------------------------------------
\* osq_unlock()

UnlockTail(c) ==
    /\ At(c, "held")
    /\ IF tail[lock[c]] = c
       THEN /\ tail' = [tail EXCEPT ![lock[c]] = None]
            /\ Leave(c)
       ELSE /\ Goto(c, "U_xchg")
            /\ UNCHANGED <<tail, locals>>
    /\ UNCHANGED nodes

UnlockXchg(c) ==
    /\ At(c, "U_xchg")
    /\ my_next' = [my_next EXCEPT ![c] = next[c]]
    /\ next' = [next EXCEPT ![c] = None]
    /\ Goto(c, IF next[c] # None THEN "U_grant" ELSE "U_tail")
    /\ UNCHANGED <<tail, prev, locked, lock, my_prev>>

\* osq_wait_next(lock, node, NULL)
UnlockWaitTail(c) ==
    /\ At(c, "U_tail")
    /\ IF tail[lock[c]] = c
       THEN /\ tail' = [tail EXCEPT ![lock[c]] = None]
            /\ Leave(c)
       ELSE /\ Goto(c, "U_next")
            /\ UNCHANGED <<tail, locals>>
    /\ UNCHANGED nodes

UnlockWaitNext(c) ==
    /\ At(c, "U_next")
    /\ my_next' = [my_next EXCEPT ![c] = next[c]]
    /\ next' = [next EXCEPT ![c] = None]
    /\ Goto(c, IF next[c] # None THEN "U_grant" ELSE "U_tail")
    /\ UNCHANGED <<tail, prev, locked, lock, my_prev>>

UnlockGrant(c) ==
    /\ At(c, "U_grant")
    /\ locked' = [locked EXCEPT ![my_next[c]] = TRUE]
    /\ Leave(c)
    /\ UNCHANGED <<tail, next, prev>>

------------------------------------------------------------------------------
\* The steps of a CPU that is inside osq_lock() or osq_unlock() and does not
\* choose to wait longer or to give up.
Step(c) ==
    \/ XchgTail(c) \/ SetPrev(c) \/ SetPrevNext(c) \/ SpinLocked(c)
    \/ StepAUnlink(c) \/ StepALocked(c) \/ StepAReload(c)
    \/ StepBTail(c) \/ StepBNext(c) \/ StepCNext(c) \/ StepCPrev(c)
    \/ UnlockTail(c) \/ UnlockXchg(c) \/ UnlockWaitTail(c) \/ UnlockWaitNext(c)
    \/ UnlockGrant(c)

Next ==
    \E c \in CPUs :
        \/ \E l \in Locks : InitNode(c, l)
        \/ SpinResched(c)
        \/ Step(c)

Spec == Init /\ [][Next]_vars

\* Preemption is off from osq_lock() to osq_unlock(), so a CPU that is inside
\* keeps executing, and one that has its turn gives it back.
FairSpec == Spec /\ \A c \in CPUs : WF_vars(Step(c))

------------------------------------------------------------------------------
Waiting == {"spin", "A_unlink", "A_locked", "A_prev"}
Undoing == {"B_tail", "B_next", "C_next", "C_prev"}
Unlocking == {"U_xchg", "U_tail", "U_next", "U_grant"}

\* The CPUs whose turn it is on l: told so by the tail or by node->locked, and
\* not yet done with osq_unlock().
Turn(l) == {c \in CPUs : /\ lock[c] = l
                         /\ \/ pc[c] \in {"held"} \cup Unlocking
                            \/ pc[c] \in Waiting /\ locked[c]}

\* Each variable has the values that osq_lock.c gives it; tail names a CPU or nobody.
TypeOK ==
    /\ tail \in [Locks -> CPUs \cup {None}]
    /\ next \in [CPUs -> CPUs \cup {None}]
    /\ prev \in [CPUs -> CPUs \cup {None}]
    /\ locked \in [CPUs -> BOOLEAN]
    /\ pc \in [CPUs -> PCs]
    /\ lock \in [CPUs -> Locks \cup {None}]
    /\ my_prev \in [CPUs -> CPUs \cup {None}]
    /\ my_next \in [CPUs -> CPUs \cup {None}]

\* The comment above Step C: both neighbours are still in this queue and wait
\* for the pointers Step C writes, so it never writes into the node of a CPU
\* that has left or that queues for another lock by now.
UnlinkTargetsStable ==
    \A c \in CPUs : pc[c] \in {"C_next", "C_prev"} =>
        /\ lock[my_prev[c]] = lock[c] /\ next[my_prev[c]] = None
        /\ lock[my_next[c]] = lock[c] /\ pc[my_next[c]] \in Waiting
        /\ ~locked[my_next[c]]

\* From some point on no CPU finds need_resched() set.  Without this a CPU that
\* queues and gives up again and again can keep osq_wait_next() of another CPU
\* from ever seeing the tail or a next pointer.
GiveUpsStop == <>[][\A c \in CPUs : ~SpinResched(c)]_vars

\* Every call of osq_lock() and osq_unlock() returns: osq_wait_next() sees the
\* tail come back or a next pointer, and no hand-over is lost between the CPUs
\* that unlock and those that unqueue, so that every CPU that waits gets its turn.
\* Nothing tells the CPUs apart, so that it is stated for one of them.
CallsReturn ==
    LET c == CHOOSE d \in CPUs : TRUE IN
    GiveUpsStop => (pc[c] \notin {"idle", "held"} ~> pc[c] \in {"idle", "held"})

\* osq_lock.c implements SpinQueue.
Abstract == INSTANCE SpinQueue WITH
    queued <- lock,
    turn <- [l \in Locks |-> Turn(l)]
Refines == Abstract!Spec
==============================================================================
