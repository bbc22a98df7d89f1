--------------------------- MODULE SemaphoreProofs ---------------------------
(***************************************************************************)
(* The invariants of Semaphore hold for every set of tasks, initial count  *)
(* and number of extra calls of up().                                      *)
(***************************************************************************)
EXTENDS Semaphore, WaitListTheorems

USE SemaphoreAssumption

\* The part of the invariant that is about single tasks and the list.
ListInv == TypeOK /\ ListHoldsLiveWaiters /\ HandedOverIsAwake /\ NoWaitWhileFree

\* The whole inductive invariant: without ListInv a task could be handed a unit
\* it already owns, and the count of owners would not move with the count.
IInv == ListInv /\ UnitsConserved

\* What one pass of __down_common() does to the list and to the task.
LEMMA WaitOrFailEffect ==
    ASSUME TypeOK, NEW t \in Tasks, NEW l \in Seq(Tasks), IsInjective(l),
           t \in Range(l), NEW st \in SleepStates, NEW zero \in BOOLEAN,
           WaitOrFail(t, l, st, zero)
    PROVE  /\ wait_list' \in Seq(Tasks)
           /\ IsInjective(wait_list')
           /\ expired' \subseteq Tasks
           /\ run' \in [Tasks -> RunStates]
           /\ \A u \in Tasks \ {t} : run'[u] = run[u]
           /\ \/ /\ Range(wait_list') = Range(l) \ {t}
                 /\ pc' = [pc EXCEPT ![t] = "out"]
              \/ /\ Range(wait_list') = Range(l)
                 /\ pc' = [pc EXCEPT ![t] = "sleep"]
<1>1. /\ list_del(l, t) \in Seq(Tasks)
      /\ IsInjective(list_del(l, t))
      /\ Range(list_del(l, t)) = Range(l) \ {t}
    BY Del
<1>2. CASE signal_pending_state(st, sig[t]) \/ zero
    BY <1>1, <1>2 DEF WaitOrFail, TypeOK
<1>3. CASE ~(signal_pending_state(st, sig[t]) \/ zero)
    BY <1>3 DEF WaitOrFail, TypeOK, RunStates
<1> QED BY <1>2, <1>3

\* What up() does, whoever calls it: one more unit is free or owned.
LEMMA ReleaseUnitEffect ==
    ASSUME ListInv, ReleaseUnit
    PROVE  /\ wait_list' \in Seq(Tasks)
           /\ IsInjective(wait_list')
           /\ run' \in [Tasks -> RunStates]
           /\ count' \in Nat
           /\ \/ /\ count' = count + 1
                 /\ wait_list = <<>>
                 /\ UNCHANGED <<wait_list, up_flag, run>>
              \/ \E h \in Tasks :
                    /\ pc[h] = "sleep" /\ h \notin up_flag
                    /\ Range(wait_list') = Range(wait_list) \ {h}
                    /\ up_flag' = up_flag \cup {h}
                    /\ run' = [run EXCEPT ![h] = "running"]
                    /\ count' = count /\ ~(count > 0)
<1>1. CASE wait_list = <<>>
    BY <1>1 DEF ReleaseUnit, ListInv, TypeOK, ListHoldsLiveWaiters
<1>2. CASE wait_list # <<>>
    <2>1. /\ Tail(wait_list) \in Seq(Tasks)
          /\ Head(wait_list) \in Range(wait_list)
          /\ Head(wait_list) \in Tasks
          /\ IsInjective(Tail(wait_list))
          /\ Range(Tail(wait_list)) = Range(wait_list) \ {Head(wait_list)}
        BY <1>2, DelFirst DEF ListInv, TypeOK, ListHoldsLiveWaiters
    <2>2. PICK h \in Tasks : h = Head(wait_list)
        BY <2>1
    <2>3. pc[h] = "sleep" /\ h \notin up_flag
        BY <2>1, <2>2 DEF ListInv, ListHoldsLiveWaiters
    <2>4. /\ wait_list' = Tail(wait_list)
          /\ up_flag' = up_flag \cup {h}
          /\ run' = [run EXCEPT ![h] = "running"]
          /\ count' = count
        BY <1>2, <2>2 DEF ReleaseUnit
    <2>5. ~(count > 0)
        BY <1>2 DEF ListInv, NoWaitWhileFree
    <2> QED
        BY <2>1, <2>2, <2>3, <2>4, <2>5, Zenon DEF ListInv, TypeOK, RunStates
<1> QED BY <1>1, <1>2

------------------------------------------------------------------------------
\* sema_init() leaves an empty list.
LEMMA InitListInv == Init => ListInv
<1> SUFFICES ASSUME Init PROVE ListInv
    OBVIOUS
<1>1. /\ <<>> \in Seq(Tasks) /\ Range(<<>>) = {} /\ IsInjective(<<>>)
    BY DEF Range, IsInjective
<1>2. /\ pc \in [Tasks -> {"out", "sleep", "own"}]
      /\ sleep_state \in [Tasks -> SleepStates]
    BY DEF Init, SleepStates
<1>3. run \in [Tasks -> RunStates] /\ sig \in [Tasks -> Signals]
    BY DEF Init, RunStates, Signals
<1>4. count \in Nat /\ extra_ups \in 0..MaxExtraUps
    BY DEF Init
<1>5. TypeOK
    BY <1>1, <1>2, <1>3, <1>4, Zenon DEF Init, TypeOK
<1> QED
    BY <1>1, <1>5 DEF Init, ListInv, ListHoldsLiveWaiters, HandedOverIsAwake,
        NoWaitWhileFree

\* Every step keeps the list, the flags and the sleeping tasks in agreement.
LEMMA NextListInv == ListInv /\ [Next]_vars => ListInv'
<1> SUFFICES ASSUME ListInv, [Next]_vars PROVE ListInv'
    OBVIOUS
<1> USE DEF ListInv, TypeOK, ListHoldsLiveWaiters, HandedOverIsAwake, NoWaitWhileFree
<1>1. ASSUME NEW t \in Tasks, TakeUnit(t) PROVE ListInv'
    BY <1>1 DEF TakeUnit, taskVars
<1>2. ASSUME NEW t \in Tasks, NEW st \in SleepStates, NEW finite \in BOOLEAN,
             NEW zero \in BOOLEAN, QueueWaiter(t, st, finite, zero)
      PROVE  ListInv'
    <2>1. t \notin Range(wait_list) /\ t \notin up_flag
        BY <1>2 DEF QueueWaiter
    <2>2. PICK l \in Seq(Tasks) : l = list_add_tail(wait_list, t)
        BY <2>1, AddTail
    <2>3. IsInjective(l) /\ Range(l) = Range(wait_list) \cup {t}
        BY <2>1, <2>2, AddTail
    <2>4. WaitOrFail(t, l, st, zero)
        BY <1>2, <2>2 DEF QueueWaiter
    <2>5. /\ wait_list' \in Seq(Tasks)
          /\ IsInjective(wait_list')
          /\ expired' \subseteq Tasks
          /\ run' \in [Tasks -> RunStates]
          /\ \A u \in Tasks \ {t} : run'[u] = run[u]
          /\ \/ /\ Range(wait_list') = Range(wait_list)
                /\ pc' = [pc EXCEPT ![t] = "out"]
             \/ /\ Range(wait_list') = Range(wait_list) \cup {t}
                /\ pc' = [pc EXCEPT ![t] = "sleep"]
        BY <2>1, <2>3, <2>4, WaitOrFailEffect
    <2>6. TypeOK'
        BY <1>2, <2>5, Zenon DEF QueueWaiter
    <2>7. Range(wait_list') = {u \in Tasks : pc'[u] = "sleep"} \ up_flag'
        BY <1>2, <2>1, <2>5 DEF QueueWaiter
    <2>8. HandedOverIsAwake' /\ NoWaitWhileFree'
        BY <1>2, <2>1, <2>5 DEF QueueWaiter
    <2> QED BY <2>5, <2>6, <2>7, <2>8
<1>3. ASSUME NEW t \in Tasks, ReturnFromSchedule(t) PROVE ListInv'
    <2>1. CASE t \in up_flag
        BY <1>3, <2>1 DEF ReturnFromSchedule, taskVars
    <2>2. CASE t \notin up_flag
        <3> DEFINE zero == t \in expired
        <3>1. /\ t \in Range(wait_list)
              /\ sleep_state[t] \in SleepStates
              /\ zero \in BOOLEAN
              /\ WaitOrFail(t, wait_list, sleep_state[t], zero)
            BY <1>3, <2>2 DEF ReturnFromSchedule
        <3> HIDE DEF zero
        <3>2. /\ wait_list' \in Seq(Tasks)
              /\ IsInjective(wait_list')
              /\ expired' \subseteq Tasks
              /\ run' \in [Tasks -> RunStates]
              /\ \A u \in Tasks \ {t} : run'[u] = run[u]
              /\ \/ /\ Range(wait_list') = Range(wait_list) \ {t}
                    /\ pc' = [pc EXCEPT ![t] = "out"]
                 \/ /\ Range(wait_list') = Range(wait_list)
                    /\ pc' = [pc EXCEPT ![t] = "sleep"]
            BY <3>1, WaitOrFailEffect
        <3>3. UNCHANGED <<up_flag, count, sleep_state, timed, sig, extra_ups>>
            BY <1>3, <2>2 DEF ReturnFromSchedule, taskVars
        <3>4. wait_list # <<>>
            BY <3>1 DEF Range
        <3> QED BY <2>2, <3>1, <3>2, <3>3, <3>4
    <2> QED BY <2>1, <2>2
<1>4. ASSUME ReleaseUnit,
             \/ \E t \in Tasks : /\ pc[t] = "own" /\ pc' = [pc EXCEPT ![t] = "out"]
                                 /\ extra_ups' = extra_ups
             \/ pc' = pc /\ extra_ups' \in 0..MaxExtraUps,
             UNCHANGED <<expired, sleep_state, timed, sig>>
      PROVE  ListInv'
    <2>1. TypeOK'
        BY <1>4, ReleaseUnitEffect
    <2>2. \A u \in Tasks : pc'[u] = "sleep" <=> pc[u] = "sleep"
        BY <1>4
    <2>3. ListHoldsLiveWaiters' /\ HandedOverIsAwake' /\ NoWaitWhileFree'
        BY <2>2, <1>4, ReleaseUnitEffect
    <2> QED BY <2>1, <2>3
<1>5. ASSUME NEW t \in Tasks, Up(t) PROVE ListInv'
    BY <1>5, <1>4, Zenon DEF Up, taskVars
<1>6. ASSUME ExtraUp PROVE ListInv'
    <2>1. extra_ups' \in 0..MaxExtraUps
        BY <1>6 DEF ExtraUp
    <2> QED BY <1>6, <1>4, <2>1 DEF ExtraUp, taskVars
<1>7. ASSUME NEW t \in Tasks, Timeout(t) PROVE ListInv'
    BY <1>7 DEF Timeout, taskVars, RunStates
<1>8. ASSUME NEW t \in Tasks, NEW s \in Signals \ {"none"}, Signal(t, s)
      PROVE  ListInv'
    BY <1>8 DEF Signal, taskVars, RunStates, signal_wake_up
<1>9. ASSUME NEW t \in Tasks, SignalHandled(t) PROVE ListInv'
    BY <1>9 DEF SignalHandled, taskVars, Signals
<1>10. ASSUME NEW t \in Tasks, StrayWakeUp(t) PROVE ListInv'
    BY <1>10 DEF StrayWakeUp, taskVars, RunStates
<1>11. CASE UNCHANGED vars
    BY <1>11 DEF vars
<1> QED
    BY <1>1, <1>2, <1>3, <1>5, <1>6, <1>7, <1>8, <1>9, <1>10, <1>11, Zenon
    DEF Next
------------------------------------------------------------------------------
\* The number of owners moves by one when one task starts or stops to own.
LEMMA OwnersFinite ==
    ASSUME TypeOK
    PROVE  IsFiniteSet(Owners) /\ Cardinality(Owners) \in Nat
<1>1. Owners \subseteq Tasks
    BY DEF Owners, TypeOK
<1> QED BY <1>1, FS_Subset, FS_CardinalityType

\* One owner more.
LEMMA OneOwnerMore ==
    ASSUME TypeOK, NEW t \in Tasks, t \notin Owners, Owners' = Owners \cup {t}
    PROVE  Cardinality(Owners') = Cardinality(Owners) + 1
BY OwnersFinite, FS_AddElement, Zenon

\* One owner less.
LEMMA OneOwnerLess ==
    ASSUME TypeOK, NEW t \in Tasks, t \in Owners, Owners' = Owners \ {t}
    PROVE  Cardinality(Owners') = Cardinality(Owners) - 1
BY OwnersFinite, FS_RemoveElement, Zenon

\* up() by whoever does not change its own place among the owners.
LEMMA ReleaseKeepsSum ==
    ASSUME ListInv, ReleaseUnit, NEW D \in SUBSET Tasks,
           D = {t \in Tasks : pc[t] = "own"} \cup up_flag
    PROVE  \/ /\ count' = count + 1 /\ up_flag' = up_flag
           \/ \E h \in Tasks \ D : count' = count /\ up_flag' = up_flag \cup {h}
<1>1. CASE wait_list = <<>>
    BY <1>1 DEF ReleaseUnit
<1>2. CASE wait_list # <<>>
    BY <1>2, ReleaseUnitEffect DEF ReleaseUnit, ListInv, TypeOK
<1> QED BY <1>1, <1>2

\* The units are conserved by every step.
LEMMA NextUnitsConserved == IInv /\ [Next]_vars => UnitsConserved'
<1> SUFFICES ASSUME IInv, [Next]_vars PROVE UnitsConserved'
    OBVIOUS
<1> USE DEF IInv, ListInv, UnitsConserved
<1>0. /\ Cardinality(Owners) \in Nat
      /\ count \in Nat /\ extra_ups \in Nat
    BY OwnersFinite DEF TypeOK
<1>1. ASSUME NEW t \in Tasks, TakeUnit(t) PROVE UnitsConserved'
    <2>1. t \notin Owners /\ Owners' = Owners \cup {t}
        BY <1>1 DEF TakeUnit, Owners, TypeOK, HandedOverIsAwake
    <2> QED BY <1>0, <1>1, <2>1, OneOwnerMore DEF TakeUnit
<1>2. ASSUME Owners' = Owners, UNCHANGED <<count, extra_ups>>
      PROVE  UnitsConserved'
    BY <1>2
<1>3. ASSUME NEW t \in Tasks, NEW st \in SleepStates, NEW finite \in BOOLEAN,
             NEW zero \in BOOLEAN, QueueWaiter(t, st, finite, zero)
      PROVE  UnitsConserved'
    <2>1. t \notin Owners
        BY <1>3 DEF QueueWaiter, Owners, HandedOverIsAwake
    <2>2. pc' = [pc EXCEPT ![t] = "out"] \/ pc' = [pc EXCEPT ![t] = "sleep"]
        BY <1>3 DEF QueueWaiter, WaitOrFail
    <2>3. Owners' = Owners
        BY <1>3, <2>1, <2>2 DEF QueueWaiter, Owners, TypeOK
    <2> QED BY <1>2, <1>3, <2>3 DEF QueueWaiter
<1>4. ASSUME NEW t \in Tasks, ReturnFromSchedule(t) PROVE UnitsConserved'
    <2>1. CASE t \in up_flag
        <3>1. Owners' = Owners
            BY <1>4, <2>1 DEF ReturnFromSchedule, Owners, TypeOK
        <3> QED BY <1>2, <1>4, <3>1 DEF ReturnFromSchedule
    <2>2. CASE t \notin up_flag
        <3>1. pc' = [pc EXCEPT ![t] = "out"] \/ pc' = [pc EXCEPT ![t] = "sleep"]
            BY <1>4, <2>2 DEF ReturnFromSchedule, WaitOrFail
        <3>2. Owners' = Owners
            BY <1>4, <2>2, <3>1 DEF ReturnFromSchedule, Owners, TypeOK
        <3> QED BY <1>2, <1>4, <3>2 DEF ReturnFromSchedule
    <2> QED BY <2>1, <2>2
<1>5. ASSUME NEW t \in Tasks, Up(t) PROVE UnitsConserved'
    <2>1. t \in Owners /\ t \notin up_flag
        BY <1>5 DEF Up, Owners, HandedOverIsAwake
    <2>2. Owners \in SUBSET Tasks
        BY DEF Owners, TypeOK
    <2>3. CASE count' = count + 1 /\ up_flag' = up_flag
        <3>1. Owners' = Owners \ {t}
            BY <1>5, <2>1, <2>3 DEF Up, Owners, TypeOK
        <3>2. Cardinality(Owners') = Cardinality(Owners) - 1
            BY <2>1, <3>1, OneOwnerLess
        <3>3. extra_ups' = extra_ups
            BY <1>5 DEF Up
        <3> QED BY <1>0, <2>3, <3>2, <3>3
    <2>4. ASSUME NEW h \in Tasks \ Owners, count' = count,
                 up_flag' = up_flag \cup {h}
          PROVE  UnitsConserved'
        <3>1. /\ Owners' = (Owners \cup {h}) \ {t}
              /\ h \notin Owners /\ t # h
            BY <1>5, <2>1, <2>4 DEF Up, Owners, TypeOK
        <3>2. /\ IsFiniteSet(Owners \cup {h})
              /\ Cardinality(Owners \cup {h}) = Cardinality(Owners) + 1
            BY <2>4, OwnersFinite, FS_AddElement
        <3>3. Cardinality((Owners \cup {h}) \ {t}) = Cardinality(Owners \cup {h}) - 1
            BY <2>1, <3>2, FS_RemoveElement, Zenon
        <3> QED BY <1>0, <1>5, <2>4, <3>1, <3>2, <3>3 DEF Up
    <2> QED BY <1>5, <2>2, <2>3, <2>4, ReleaseKeepsSum DEF Up, Owners
<1>6. ASSUME ExtraUp PROVE UnitsConserved'
    <2>1. Owners \in SUBSET Tasks
        BY DEF Owners, TypeOK
    <2>2. CASE count' = count + 1 /\ up_flag' = up_flag
        BY <1>0, <1>6, <2>2 DEF ExtraUp, Owners
    <2>3. ASSUME NEW h \in Tasks \ Owners, count' = count,
                 up_flag' = up_flag \cup {h}
          PROVE  UnitsConserved'
        <3>1. Owners' = Owners \cup {h}
            BY <1>6, <2>3 DEF ExtraUp, Owners
        <3>2. Cardinality(Owners') = Cardinality(Owners) + 1
            BY <2>3, <3>1, OneOwnerMore
        <3>3. extra_ups' = extra_ups + 1 /\ count' = count
            BY <1>6, <2>3 DEF ExtraUp
        <3>4. count + Cardinality(Owners) = InitCount + extra_ups
            OBVIOUS
        <3> HIDE DEF IInv, ListInv
        <3>5. PICK n \in Nat : n = Cardinality(Owners)
            BY <1>0
        <3>6. count' + Cardinality(Owners') = InitCount + extra_ups'
            BY <1>0, <3>2, <3>3, <3>4, <3>5
        <3> QED BY <3>6
    <2> QED BY <1>6, <2>1, <2>2, <2>3, ReleaseKeepsSum, Zenon DEF ExtraUp, Owners
<1>7. ASSUME NEW t \in Tasks, Timeout(t) PROVE UnitsConserved'
    BY <1>2, <1>7 DEF Timeout, Owners
<1>8. ASSUME NEW t \in Tasks, NEW s \in Signals \ {"none"}, Signal(t, s)
      PROVE  UnitsConserved'
    BY <1>2, <1>8 DEF Signal, Owners
<1>9. ASSUME NEW t \in Tasks, SignalHandled(t) PROVE UnitsConserved'
    BY <1>2, <1>9 DEF SignalHandled, Owners
<1>10. ASSUME NEW t \in Tasks, StrayWakeUp(t) PROVE UnitsConserved'
    BY <1>2, <1>10 DEF StrayWakeUp, Owners
<1>11. CASE UNCHANGED vars
    BY <1>2, <1>11 DEF vars, Owners
<1> QED
    BY <1>1, <1>3, <1>4, <1>5, <1>6, <1>7, <1>8, <1>9, <1>10, <1>11 DEF Next

------------------------------------------------------------------------------
\* The inductive invariant holds in every reachable state.
THEOREM Invariance == Spec => []IInv
<1>1. Init => IInv
    <2> SUFFICES ASSUME Init PROVE UnitsConserved
        BY InitListInv DEF IInv
    <2>1. Owners = {}
        BY DEF Init, Owners
    <2> QED BY <2>1, FS_EmptySet DEF Init, UnitsConserved
<1>2. IInv /\ [Next]_vars => IInv'
    BY NextListInv, NextUnitsConserved DEF IInv
<1> QED BY <1>1, <1>2, PTL DEF Spec

\* The semaphore's fields keep their types.
THEOREM TypeCorrect == Spec => []TypeOK
<1>1. IInv => TypeOK
    BY DEF IInv, ListInv
<1> QED BY <1>1, Invariance, PTL

\* down*() and up() neither lose nor invent a unit, whatever timeouts and
\* signals race with the hand-over in __up().
THEOREM Conservation == Spec => []UnitsConserved
<1>1. IInv => UnitsConserved
    BY DEF IInv
<1> QED BY <1>1, Invariance, PTL

\* No task is on the wait list while a unit is free.
THEOREM FreeUnitsAreTaken == Spec => []NoWaitWhileFree
<1>1. IInv => NoWaitWhileFree
    BY DEF IInv, ListInv
<1> QED BY <1>1, Invariance, PTL

\* The wait list never holds the stack cell of a task that has left
\* __down_common(), and a waiter that was handed a unit is awake.
THEOREM WaitersAreLive == Spec => [](ListHoldsLiveWaiters /\ HandedOverIsAwake)
<1>1. IInv => ListHoldsLiveWaiters /\ HandedOverIsAwake
    BY DEF IInv, ListInv
<1> QED BY <1>1, Invariance, PTL

\* Units are granted in the order of arrival on the wait list.
THEOREM FifoGrants == Spec => GrantsInOrder
<1> DEFINE A == \A t \in Tasks : t \in Owners' \ Owners =>
                    wait_list = <<>> \/ Head(wait_list) = t
<1>1. ListInv /\ [Next]_vars => [A]_vars
    <2> SUFFICES ASSUME ListInv, Next PROVE A
        OBVIOUS
    <2> USE DEF ListInv, TypeOK, NoWaitWhileFree, Owners
    <2>1. ASSUME NEW t \in Tasks, TakeUnit(t) PROVE A
        BY <2>1 DEF TakeUnit
    <2>2. ASSUME NEW t \in Tasks, NEW st \in SleepStates, NEW finite \in BOOLEAN,
                 NEW zero \in BOOLEAN, QueueWaiter(t, st, finite, zero)
          PROVE  A
        BY <2>2 DEF QueueWaiter, WaitOrFail
    <2>3. ASSUME NEW t \in Tasks, ReturnFromSchedule(t) PROVE A
        BY <2>3 DEF ReturnFromSchedule, WaitOrFail
    <2>4. ASSUME NEW t \in Tasks, Up(t) PROVE A
        BY <2>4 DEF Up, ReleaseUnit
    <2>5. ASSUME ExtraUp PROVE A
        BY <2>5 DEF ExtraUp, ReleaseUnit
    <2>6. ASSUME NEW t \in Tasks, Timeout(t) \/ SignalHandled(t) \/ StrayWakeUp(t)
                    \/ \E s \in Signals : Signal(t, s)
          PROVE  A
        BY <2>6 DEF Timeout, SignalHandled, StrayWakeUp, Signal
    <2> QED BY <2>1, <2>2, <2>3, <2>4, <2>5, <2>6 DEF Next
<1>2. IInv => ListInv
    BY DEF IInv
<1> QED BY <1>1, <1>2, Invariance, PTL DEF Spec, GrantsInOrder
==============================================================================
