----------------------------- MODULE MutexProofs -----------------------------
(***************************************************************************)
(* Mutual exclusion of Mutex, for every set of tasks and every bound.      *)
(***************************************************************************)
EXTENDS Mutex, WaitListTheorems

USE MutexAssumption

\* A count of 1 means that nobody holds the mutex: every path that takes it
\* moves the count away from 1 in the step in which it looks at it.
FreeIsFree == count = 1 => \A t \in Tasks : pc[t] \notin Holding

\* lock->owner is set after the mutex is taken and cleared before the count is
\* touched, so the owner is in the part of its section the caller sees.
OwnerHeld == owner # NoTask => pc[owner] = "held"

Exclusion == MutualExclusion /\ FreeIsFree /\ OwnerHeld

\* The inductive invariant: MutualExclusion alone is not inductive, because a
\* count of 1 beside a holder would let a second task in.
IInv == TypeOK /\ ListHoldsLiveWaiters /\ Exclusion

------------------------------------------------------------------------------
\* mutex_init()
LEMMA InitIInv == Init => IInv
<1> SUFFICES ASSUME Init PROVE IInv
    OBVIOUS
<1>1. /\ <<>> \in Seq(Tasks) /\ Range(<<>>) = {} /\ IsInjective(<<>>)
    BY DEF Range, IsInjective
<1>2. TypeOK
    BY <1>1 DEF Init, TypeOK, PCs, RunStates, SleepStates, Signals
<1>3. ListHoldsLiveWaiters
    BY <1>1 DEF Init, ListHoldsLiveWaiters
<1>4. Exclusion
    BY DEF Init, Exclusion, MutualExclusion, FreeIsFree, OwnerHeld, Holding
<1> QED BY <1>2, <1>3, <1>4 DEF IInv

\* No step lets a second task in.
LEMMA NextExclusion == IInv /\ [Next]_vars => Exclusion'
<1> SUFFICES ASSUME IInv, [Next]_vars PROVE Exclusion'
    OBVIOUS
<1> USE DEF IInv, Exclusion, MutualExclusion, FreeIsFree, OwnerHeld, Holding,
            TypeOK, At, Goto
<1>1. ASSUME NEW t \in Tasks, NEW st \in LockStates, FastpathLock(t, st)
      PROVE  Exclusion'
    BY <1>1 DEF FastpathLock
<1>2. ASSUME NEW t \in Tasks, FastSetOwner(t) PROVE Exclusion'
    BY <1>2 DEF FastSetOwner
<1>3. ASSUME NEW t \in Tasks, CanSpin(t) PROVE Exclusion'
    BY <1>3 DEF CanSpin
<1>4. ASSUME NEW t \in Tasks, OsqTurn(t) PROVE Exclusion'
    BY <1>4 DEF OsqTurn
<1>5. ASSUME NEW t \in Tasks, OsqGiveUp(t) PROVE Exclusion'
    BY <1>5 DEF OsqGiveUp
<1>6. ASSUME NEW t \in Tasks, SpinReadOwner(t) PROVE Exclusion'
    BY <1>6 DEF SpinReadOwner
<1>7. ASSUME NEW t \in Tasks, OwnerChanged(t) PROVE Exclusion'
    BY <1>7 DEF OwnerChanged
<1>8. ASSUME NEW t \in Tasks, OwnerSleeps(t) PROVE Exclusion'
    BY <1>8 DEF OwnerSleeps, StopSpinning
<1>9. ASSUME NEW t \in Tasks, TryAcquire(t) PROVE Exclusion'
    BY <1>9 DEF TryAcquire
<1>10. ASSUME NEW t \in Tasks, TryFails(t) PROVE Exclusion'
    BY <1>10 DEF TryFails, StopSpinning
<1>11. ASSUME NEW t \in Tasks, SpinSetOwner(t) PROVE Exclusion'
    BY <1>11 DEF SpinSetOwner
<1>12. ASSUME NEW t \in Tasks, SlowEnter(t) PROVE Exclusion'
    BY <1>12 DEF SlowEnter
<1>13. ASSUME NEW t \in Tasks, SlowXchg(t) PROVE Exclusion'
    BY <1>13 DEF SlowXchg
<1>14. ASSUME NEW t \in Tasks, LoopLocked(t) PROVE Exclusion'
    BY <1>14 DEF LoopLocked, FailOrSleep
<1>15. ASSUME NEW t \in Tasks, LoopCheck(t) PROVE Exclusion'
    BY <1>15 DEF LoopCheck
<1>16. ASSUME NEW t \in Tasks, LoopXchg(t) PROVE Exclusion'
    BY <1>16 DEF LoopXchg, FailOrSleep
<1>17. ASSUME NEW t \in Tasks, WakeFromSleep(t) PROVE Exclusion'
    BY <1>17 DEF WakeFromSleep
<1>18. ASSUME NEW t \in Tasks, Dequeue(t) PROVE Exclusion'
    BY <1>18 DEF Dequeue
<1>19. ASSUME NEW t \in Tasks, SlowSetOwner(t) PROVE Exclusion'
    BY <1>19 DEF SlowSetOwner
<1>20. ASSUME NEW t \in Tasks, ClearOwner(t) PROVE Exclusion'
    BY <1>20 DEF ClearOwner
<1>21. ASSUME NEW t \in Tasks, FastpathUnlock(t) PROVE Exclusion'
    BY <1>21 DEF FastpathUnlock
<1>22. ASSUME NEW t \in Tasks, UnlockSetCount(t) PROVE Exclusion'
    BY <1>22 DEF UnlockSetCount
<1>23. ASSUME NEW t \in Tasks, UnlockWake(t) PROVE Exclusion'
    BY <1>23 DEF UnlockWake
<1>24. ASSUME NEW t \in Tasks, SignalHandled(t) PROVE Exclusion'
    BY <1>24 DEF SignalHandled
<1>25. ASSUME NEW t \in Tasks, StrayWakeUp(t) PROVE Exclusion'
    BY <1>25 DEF StrayWakeUp
<1>26. ASSUME NEW t \in Tasks, Trylock(t) PROVE Exclusion'
    BY <1>26 DEF Trylock
<1>27. ASSUME NEW t \in Tasks, NEW s \in Signals, Signal(t, s) PROVE Exclusion'
    BY <1>27 DEF Signal
<1>28. CASE UNCHANGED vars
    BY <1>28 DEF vars
<1> QED
    BY Zenon, <1>1, <1>2, <1>3, <1>4, <1>5, <1>6, <1>7, <1>8, <1>9, <1>10, <1>11,
       <1>12, <1>13, <1>14, <1>15, <1>16, <1>17, <1>18, <1>19, <1>20, <1>21,
       <1>22, <1>23, <1>24, <1>25, <1>26, <1>27, <1>28 DEF Next, Call, Step,
       Environment

------------------------------------------------------------------------------
\* What -EINTR and the way to sleep do to the list and to the task.
LEMMA FailOrSleepEffect ==
    ASSUME IInv, NEW t \in Tasks, t \in Range(wait_list), FailOrSleep(t)
    PROVE  /\ wait_list' \in Seq(Tasks)
           /\ IsInjective(wait_list')
           /\ run' \in [Tasks -> RunStates]
           /\ \/ /\ Range(wait_list') = Range(wait_list) \ {t}
                 /\ pc' = [pc EXCEPT ![t] = "out"]
              \/ /\ Range(wait_list') = Range(wait_list)
                 /\ pc' = [pc EXCEPT ![t] = "sleep"]
<1>1. /\ list_del(wait_list, t) \in Seq(Tasks)
      /\ IsInjective(list_del(wait_list, t))
      /\ Range(list_del(wait_list, t)) = Range(wait_list) \ {t}
    BY Del DEF IInv, TypeOK, ListHoldsLiveWaiters
<1>2. CASE signal_pending_state(state[t], sig[t])
    BY <1>1, <1>2 DEF FailOrSleep, Goto, IInv, TypeOK
<1>3. CASE ~signal_pending_state(state[t], sig[t])
    BY <1>3 DEF FailOrSleep, Goto, IInv, TypeOK, ListHoldsLiveWaiters, RunStates
<1> QED BY <1>2, <1>3

\* The list holds the cells of the queued tasks after every step.
LEMMA NextTypeList == IInv /\ [Next]_vars => TypeOK' /\ ListHoldsLiveWaiters'
<1> SUFFICES ASSUME IInv, [Next]_vars PROVE TypeOK' /\ ListHoldsLiveWaiters'
    OBVIOUS
<1> DEFINE Good == TypeOK /\ ListHoldsLiveWaiters
<1> USE DEF IInv, TypeOK, ListHoldsLiveWaiters, PCs, At, Goto
<1>1. ASSUME NEW t \in Tasks, NEW st \in LockStates, FastpathLock(t, st)
      PROVE  Good'
    BY <1>1 DEF FastpathLock
<1>2. ASSUME NEW t \in Tasks, FastSetOwner(t) PROVE Good'
    BY <1>2 DEF FastSetOwner
<1>3. ASSUME NEW t \in Tasks, CanSpin(t) PROVE Good'
    BY <1>3 DEF CanSpin
<1>4. ASSUME NEW t \in Tasks, OsqTurn(t) PROVE Good'
    BY <1>4 DEF OsqTurn
<1>5. ASSUME NEW t \in Tasks, OsqGiveUp(t) PROVE Good'
    BY <1>5 DEF OsqGiveUp
<1>6. ASSUME NEW t \in Tasks, SpinReadOwner(t) PROVE Good'
    BY <1>6 DEF SpinReadOwner
<1>7. ASSUME NEW t \in Tasks, OwnerChanged(t) PROVE Good'
    BY <1>7 DEF OwnerChanged
<1>8. ASSUME NEW t \in Tasks, OwnerSleeps(t) PROVE Good'
    BY <1>8 DEF OwnerSleeps, StopSpinning
<1>9. ASSUME NEW t \in Tasks, TryAcquire(t) PROVE Good'
    BY <1>9 DEF TryAcquire
<1>10. ASSUME NEW t \in Tasks, TryFails(t) PROVE Good'
    BY <1>10 DEF TryFails, StopSpinning
<1>11. ASSUME NEW t \in Tasks, SpinSetOwner(t) PROVE Good'
    BY <1>11 DEF SpinSetOwner
<1>12. ASSUME NEW t \in Tasks, SlowEnter(t) PROVE Good'
    <2>1. t \notin Range(wait_list)
        BY <1>12 DEF SlowEnter
    <2>2. /\ list_add_tail(wait_list, t) \in Seq(Tasks)
          /\ IsInjective(list_add_tail(wait_list, t))
          /\ Range(list_add_tail(wait_list, t)) = Range(wait_list) \cup {t}
        BY <2>1, AddTail
    <2>3. CASE count = 1
        BY <1>12, <2>3 DEF SlowEnter
    <2>4. CASE count # 1
        BY <1>12, <2>2, <2>4 DEF SlowEnter
    <2> QED BY <2>3, <2>4
<1>13. ASSUME NEW t \in Tasks, SlowXchg(t) PROVE Good'
    <2>1. t \notin Range(wait_list)
        BY <1>13 DEF SlowXchg
    <2>2. /\ list_add_tail(wait_list, t) \in Seq(Tasks)
          /\ IsInjective(list_add_tail(wait_list, t))
          /\ Range(list_add_tail(wait_list, t)) = Range(wait_list) \cup {t}
        BY <2>1, AddTail
    <2>3. CASE count = 1
        BY <1>13, <2>3 DEF SlowXchg
    <2>4. CASE count # 1
        BY <1>13, <2>2, <2>4 DEF SlowXchg
    <2> QED BY <2>3, <2>4
<1>14. ASSUME NEW t \in Tasks, LoopLocked(t) PROVE Good'
    <2>1. t \in Range(wait_list)
        BY <1>14 DEF LoopLocked
    <2>2. CASE FailOrSleep(t)
        <3>1. /\ UNCHANGED <<owner, osq, seen, state, sig>>
              /\ wait_lock' = NoTask
              /\ count' \in Int /\ count' <= 1
            BY <1>14, <2>2 DEF LoopLocked, FailOrSleep
        <3>2. /\ wait_list' \in Seq(Tasks)
              /\ IsInjective(wait_list')
              /\ run' \in [Tasks -> RunStates]
              /\ \/ /\ Range(wait_list') = Range(wait_list) \ {t}
                    /\ pc' = [pc EXCEPT ![t] = "out"]
                 \/ /\ Range(wait_list') = Range(wait_list)
                    /\ pc' = [pc EXCEPT ![t] = "sleep"]
            BY <2>1, <2>2, FailOrSleepEffect
        <3> QED BY <1>14, <3>1, <3>2 DEF LoopLocked
    <2>3. CASE ~FailOrSleep(t)
        BY <1>14, <2>3 DEF LoopLocked
    <2> QED BY <2>2, <2>3
<1>15. ASSUME NEW t \in Tasks, LoopCheck(t) PROVE Good'
    BY <1>15 DEF LoopCheck
<1>16. ASSUME NEW t \in Tasks, LoopXchg(t) PROVE Good'
    <2>1. t \in Range(wait_list)
        BY <1>16 DEF LoopXchg
    <2>2. CASE FailOrSleep(t)
        <3>1. /\ UNCHANGED <<owner, osq, seen, state, sig>>
              /\ wait_lock' = NoTask
              /\ count' \in Int /\ count' <= 1
            BY <1>16, <2>2 DEF LoopXchg, FailOrSleep
        <3>2. /\ wait_list' \in Seq(Tasks)
              /\ IsInjective(wait_list')
              /\ run' \in [Tasks -> RunStates]
              /\ \/ /\ Range(wait_list') = Range(wait_list) \ {t}
                    /\ pc' = [pc EXCEPT ![t] = "out"]
                 \/ /\ Range(wait_list') = Range(wait_list)
                    /\ pc' = [pc EXCEPT ![t] = "sleep"]
            BY <2>1, <2>2, FailOrSleepEffect
        <3> QED BY <1>16, <3>1, <3>2, ZenonT(30) DEF LoopXchg
    <2>3. CASE ~FailOrSleep(t)
        BY <1>16, <2>3 DEF LoopXchg
    <2> QED BY <2>2, <2>3
<1>17. ASSUME NEW t \in Tasks, WakeFromSleep(t) PROVE Good'
    BY <1>17 DEF WakeFromSleep
<1>18. ASSUME NEW t \in Tasks, Dequeue(t) PROVE Good'
    <2>1. t \in Range(wait_list)
        BY <1>18 DEF Dequeue
    <2>2. /\ list_del(wait_list, t) \in Seq(Tasks)
          /\ IsInjective(list_del(wait_list, t))
          /\ Range(list_del(wait_list, t)) = Range(wait_list) \ {t}
        BY <2>1, Del
    <2> QED BY <1>18, <2>2 DEF Dequeue
<1>19. ASSUME NEW t \in Tasks, SlowSetOwner(t) PROVE Good'
    BY <1>19 DEF SlowSetOwner
<1>20. ASSUME NEW t \in Tasks, ClearOwner(t) PROVE Good'
    BY <1>20 DEF ClearOwner
<1>21. ASSUME NEW t \in Tasks, FastpathUnlock(t) PROVE Good'
    <2>1. count # 1
        BY <1>21 DEF FastpathUnlock, Exclusion, FreeIsFree, Holding
    <2> QED BY <1>21, <2>1 DEF FastpathUnlock
<1>22. ASSUME NEW t \in Tasks, UnlockSetCount(t) PROVE Good'
    BY <1>22 DEF UnlockSetCount
<1>23. ASSUME NEW t \in Tasks, UnlockWake(t) PROVE Good'
    BY <1>23 DEF UnlockWake, RunStates
<1>24. ASSUME NEW t \in Tasks, SignalHandled(t) PROVE Good'
    BY <1>24 DEF SignalHandled, Signals
<1>25. ASSUME NEW t \in Tasks, StrayWakeUp(t) PROVE Good'
    BY <1>25 DEF StrayWakeUp, RunStates
<1>26. ASSUME NEW t \in Tasks, Trylock(t) PROVE Good'
    BY <1>26 DEF Trylock
<1>27. ASSUME NEW t \in Tasks, NEW s \in Signals, Signal(t, s) PROVE Good'
    BY <1>27 DEF Signal, signal_wake_up, RunStates
<1>28. CASE UNCHANGED vars
    BY <1>28 DEF vars
<1> QED
    BY Zenon, <1>1, <1>2, <1>3, <1>4, <1>5, <1>6, <1>7, <1>8, <1>9, <1>10, <1>11,
       <1>12, <1>13, <1>14, <1>15, <1>16, <1>17, <1>18, <1>19, <1>20, <1>21,
       <1>22, <1>23, <1>24, <1>25, <1>26, <1>27, <1>28 DEF Next, Call, Step,
       Environment

------------------------------------------------------------------------------
\* The section protected by lock->wait_lock.
Locked == {"slow_xchg", "loop", "loop_xchg", "dequeue", "set_owner"}

\* What NoLostWakeUp needs beside IInv: wait_lock is held by the one task in a
\* section it protects, only a task in schedule() is not running, and a task
\* between its xchg(-1) and leaving the list finds the count negative, because
\* nobody can raise it: that takes the mutex or wait_lock, which it holds.
WakeInv ==
    /\ \A t \in Tasks : pc[t] \in Locked <=> wait_lock = t
    /\ \A t \in Tasks : pc[t] # "sleep" => run[t] = "running"
    /\ \A t \in Tasks : pc[t] = "dequeue" => count < 0
    /\ NoLostWakeUp

\* The invariant holds initially.
LEMMA InitWakeInv == Init => WakeInv
BY DEF Init, WakeInv, NoLostWakeUp, Locked

\* No step loses a wake-up: a task goes to sleep only behind a negative count,
\* and whoever makes the count non-negative is awake on the list or has still
\* to wake its head.
LEMMA NextWakeInv == IInv /\ WakeInv /\ [Next]_vars => WakeInv'
<1> SUFFICES ASSUME IInv, WakeInv, [Next]_vars PROVE WakeInv'
    OBVIOUS
<1> USE DEF IInv, WakeInv, Exclusion, MutualExclusion, FreeIsFree, NoLostWakeUp,
            TypeOK, ListHoldsLiveWaiters, Holding, Locked, At, Goto
<1>1. ASSUME NEW t \in Tasks, NEW st \in LockStates, FastpathLock(t, st)
      PROVE  WakeInv'
    BY <1>1 DEF FastpathLock
<1>2. ASSUME NEW t \in Tasks, FastSetOwner(t) PROVE WakeInv'
    BY <1>2 DEF FastSetOwner
<1>3. ASSUME NEW t \in Tasks, CanSpin(t) PROVE WakeInv'
    BY <1>3 DEF CanSpin
<1>4. ASSUME NEW t \in Tasks, OsqTurn(t) PROVE WakeInv'
    BY <1>4 DEF OsqTurn
<1>5. ASSUME NEW t \in Tasks, OsqGiveUp(t) PROVE WakeInv'
    BY <1>5 DEF OsqGiveUp
<1>6. ASSUME NEW t \in Tasks, SpinReadOwner(t) PROVE WakeInv'
    BY <1>6 DEF SpinReadOwner
<1>7. ASSUME NEW t \in Tasks, OwnerChanged(t) PROVE WakeInv'
    BY <1>7 DEF OwnerChanged
<1>8. ASSUME NEW t \in Tasks, OwnerSleeps(t) PROVE WakeInv'
    BY <1>8 DEF OwnerSleeps, StopSpinning
<1>9. ASSUME NEW t \in Tasks, TryAcquire(t) PROVE WakeInv'
    BY <1>9 DEF TryAcquire
<1>10. ASSUME NEW t \in Tasks, TryFails(t) PROVE WakeInv'
    BY <1>10 DEF TryFails, StopSpinning
<1>11. ASSUME NEW t \in Tasks, SpinSetOwner(t) PROVE WakeInv'
    BY <1>11 DEF SpinSetOwner
<1>12. ASSUME NEW t \in Tasks, SlowEnter(t) PROVE WakeInv'
    <2>1. t \notin Range(wait_list)
        BY <1>12 DEF SlowEnter
    <2>2. Range(list_add_tail(wait_list, t)) = Range(wait_list) \cup {t}
        BY <2>1, AddTail
    <2>3. CASE count = 1
        BY <1>12, <2>3 DEF SlowEnter
    <2>4. CASE count # 1
        BY <1>12, <2>2, <2>4 DEF SlowEnter
    <2> QED BY <2>3, <2>4
<1>13. ASSUME NEW t \in Tasks, SlowXchg(t) PROVE WakeInv'
    <2>1. t \notin Range(wait_list)
        BY <1>13 DEF SlowXchg
    <2>2. Range(list_add_tail(wait_list, t)) = Range(wait_list) \cup {t}
        BY <2>1, AddTail
    <2>3. CASE count = 1
        BY <1>13, <2>3 DEF SlowXchg
    <2>4. CASE count # 1
        BY <1>13, <2>2, <2>4 DEF SlowXchg
    <2> QED BY <2>3, <2>4
<1>14. ASSUME NEW t \in Tasks, LoopLocked(t) PROVE WakeInv'
    <2>1. count' < 0
        BY <1>14 DEF LoopLocked
    <2>2. CASE FailOrSleep(t)
        BY <1>14, <2>1, <2>2 DEF LoopLocked, FailOrSleep
    <2>3. CASE ~FailOrSleep(t)
        BY <1>14, <2>1, <2>3 DEF LoopLocked
    <2> QED BY <2>2, <2>3
<1>15. ASSUME NEW t \in Tasks, LoopCheck(t) PROVE WakeInv'
    BY <1>15 DEF LoopCheck
<1>16. ASSUME NEW t \in Tasks, LoopXchg(t) PROVE WakeInv'
    <2>1. count' < 0
        BY <1>16 DEF LoopXchg
    <2>2. CASE FailOrSleep(t)
        BY <1>16, <2>1, <2>2 DEF LoopXchg, FailOrSleep
    <2>3. CASE ~FailOrSleep(t)
        BY <1>16, <2>1, <2>3 DEF LoopXchg
    <2> QED BY <2>2, <2>3
<1>17. ASSUME NEW t \in Tasks, WakeFromSleep(t) PROVE WakeInv'
    BY <1>17 DEF WakeFromSleep
<1>18. ASSUME NEW t \in Tasks, Dequeue(t) PROVE WakeInv'
    BY <1>18 DEF Dequeue
<1>19. ASSUME NEW t \in Tasks, SlowSetOwner(t) PROVE WakeInv'
    BY <1>19 DEF SlowSetOwner
<1>20. ASSUME NEW t \in Tasks, ClearOwner(t) PROVE WakeInv'
    BY <1>20 DEF ClearOwner
<1>21. ASSUME NEW t \in Tasks, FastpathUnlock(t) PROVE WakeInv'
    BY <1>21 DEF FastpathUnlock
<1>22. ASSUME NEW t \in Tasks, UnlockSetCount(t) PROVE WakeInv'
    BY <1>22 DEF UnlockSetCount
<1>23. ASSUME NEW t \in Tasks, UnlockWake(t) PROVE WakeInv'
    <2>1. CASE wait_list = <<>>
        BY <1>23, <2>1 DEF UnlockWake
    <2>2. CASE wait_list # <<>>
        <3>1. PICK h \in Tasks : h = Head(wait_list) /\ h \in Range(wait_list)
            BY <2>2, DelFirst
        <3> QED BY <1>23, <2>2, <3>1 DEF UnlockWake
    <2> QED BY <2>1, <2>2
<1>24. ASSUME NEW t \in Tasks, SignalHandled(t) PROVE WakeInv'
    BY <1>24 DEF SignalHandled
<1>25. ASSUME NEW t \in Tasks, StrayWakeUp(t) PROVE WakeInv'
    BY <1>25 DEF StrayWakeUp
<1>26. ASSUME NEW t \in Tasks, Trylock(t) PROVE WakeInv'
    BY <1>26 DEF Trylock
<1>27. ASSUME NEW t \in Tasks, NEW s \in Signals, Signal(t, s) PROVE WakeInv'
    BY <1>27 DEF Signal, signal_wake_up
<1>28. CASE UNCHANGED vars
    BY <1>28 DEF vars
<1> QED
    BY Zenon, <1>1, <1>2, <1>3, <1>4, <1>5, <1>6, <1>7, <1>8, <1>9, <1>10, <1>11,
       <1>12, <1>13, <1>14, <1>15, <1>16, <1>17, <1>18, <1>19, <1>20, <1>21,
       <1>22, <1>23, <1>24, <1>25, <1>26, <1>27, <1>28 DEF Next, Call, Step,
       Environment

------------------------------------------------------------------------------
\* The inductive invariant holds in every reachable state.
THEOREM Invariance == Spec => []IInv
<1>1. IInv /\ [Next]_vars => IInv'
    BY NextExclusion, NextTypeList DEF IInv
<1> QED BY <1>1, InitIInv, PTL DEF Spec

\* The fields of the mutex keep their types and the count never exceeds 1.
THEOREM TypeCorrect == Spec => []TypeOK
<1>1. IInv => TypeOK
    BY DEF IInv
<1> QED BY <1>1, Invariance, PTL

\* At most one task holds the mutex, through any mix of the fast path, trylock,
\* optimistic spinning and the sleeping slow path, with any number of tasks.
THEOREM OneHolder == Spec => []MutualExclusion
<1>1. IInv => MutualExclusion
    BY DEF IInv, Exclusion
<1> QED BY <1>1, Invariance, PTL

\* A spinner that reads lock->owner never reads a task that holds nothing.
THEOREM OwnerIsHolder == Spec => []OwnerHolds
<1>1. IInv => OwnerHolds
    BY DEF IInv, Exclusion, OwnerHeld, OwnerHolds, Holding
<1> QED BY <1>1, Invariance, PTL

\* The wait list holds the stack cells of exactly the queued tasks.
THEOREM WaitersAreLive == Spec => []ListHoldsLiveWaiters
<1>1. IInv => ListHoldsLiveWaiters
    BY DEF IInv
<1> QED BY <1>1, Invariance, PTL

\* mutex_unlock() never leaves the queued tasks asleep behind a count that says
\* that nobody waits, however it races with the fast paths and the spinners.
THEOREM WakeUpsAreKept == Spec => []NoLostWakeUp
<1>1. Spec => [](IInv /\ WakeInv)
    <2>1. IInv /\ WakeInv /\ [Next]_vars => IInv' /\ WakeInv'
        BY NextExclusion, NextTypeList, NextWakeInv DEF IInv
    <2> QED BY <2>1, InitIInv, InitWakeInv, PTL DEF Spec
<1>2. WakeInv => NoLostWakeUp
    BY DEF WakeInv
<1> QED BY <1>1, <1>2, PTL
==============================================================================
