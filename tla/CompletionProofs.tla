--------------------------- MODULE CompletionProofs ---------------------------
(***************************************************************************)
(* The invariants of Completion hold for every set of waiters and of       *)
(* completers, every width of done and any number of calls.                *)
(***************************************************************************)
EXTENDS Completion, WaitListTheorems, WellFoundedInduction

\* The waiters that are awake on the queue: each of them will look at done.
Awake == {t \in Waiters : pc[t] = "sleep"} \ Asleep

\* The queue holds the tasks in the wait functions, and only they sleep.
ListInv ==
    /\ done \in Nat /\ calls \in Nat
    /\ pc \in [Waiters -> {"out", "sleep", "polled", "done"}]
    /\ run = [t \in Waiters |-> run[t]]
    /\ wait \in Seq(Waiters) /\ IsInjective(wait)
    /\ \A t \in Waiters : t \in Range(wait) <=> pc[t] = "sleep"
    /\ \A t \in Waiters : run[t] # "running" => pc[t] = "sleep"

\* Inside complete() one event more may be there than waiters are awake; inside
\* complete_all() any number, because it wakes them all.
EventsInv ==
    IF lock = Nobody
    THEN Asleep # {} => done <= Cardinality(Awake)
    ELSE ~all /\ Asleep # {} => done <= Cardinality(Awake) + 1

\* Before the first event nobody has been told of one, and nobody is until the
\* first complete() has dropped wait.lock.
FirstEventInv ==
    /\ calls = 0 => done = 0 /\ lock = Nobody /\ \A t \in Waiters : pc[t] \notin {"polled", "done"}
    /\ calls = 1 /\ lock # Nobody => \A t \in Waiters : pc[t] # "done"
    /\ FreedIsUnused

IInv == ListInv /\ EventsInv /\ FirstEventInv

\* The waiters are finitely many, so that sets of them have a size.
LEMMA Sizes ==
    /\ Cardinality(Awake) \in Nat /\ Cardinality(Awake') \in Nat
    /\ Awake \subseteq Awake' => Cardinality(Awake) <= Cardinality(Awake')
    /\ \A t \in Awake : Awake' = Awake \ {t} => Cardinality(Awake') = Cardinality(Awake) - 1
    /\ \A t : t \notin Awake /\ Awake' = Awake \cup {t} => Cardinality(Awake') = Cardinality(Awake) + 1
<1>1. IsFiniteSet(Awake) /\ IsFiniteSet(Awake')
    <2>1. Awake \subseteq Waiters /\ Awake' \subseteq Waiters
        BY DEF Awake
    <2> QED BY <2>1, CompletionAssumption, FS_Subset, Zenon
<1>2. Cardinality(Awake) \in Nat /\ Cardinality(Awake') \in Nat
    BY <1>1, FS_CardinalityType, Zenon
<1>3. Awake \subseteq Awake' => Cardinality(Awake) <= Cardinality(Awake')
    BY <1>1, FS_Subset, Zenon
<1>4. \A t \in Awake : Cardinality(Awake \ {t}) = Cardinality(Awake) - 1
    BY <1>1, FS_RemoveElement
<1>5. \A t : t \notin Awake => Cardinality(Awake \cup {t}) = Cardinality(Awake) + 1
    BY <1>1, FS_AddElement
<1> QED BY <1>2, <1>3, <1>4, <1>5, Zenon

\* Some waiter that sleeps is first on the queue: the one that an exclusive
\* wake-up chooses.
LEMMA FirstAsleep ==
    ASSUME ListInv, Asleep # {}
    PROVE  \E t \in Asleep : \A i, j \in DOMAIN wait : wait[i] = t /\ wait[j] \in Asleep => i <= j
<1> DEFINE I == {i \in DOMAIN wait : wait[i] \in Asleep}
<1>0. wait \in Seq(Waiters) /\ Asleep \subseteq Waiters /\ IsInjective(wait)
    BY DEF ListInv, Asleep
<1>1. DOMAIN wait \subseteq Nat
    BY <1>0
<1>2. \A t \in Asleep : \E i \in DOMAIN wait : wait[i] = t
    BY DEF ListInv, Asleep, Range
<1>3. I # {} /\ I \subseteq Nat
    BY <1>1, <1>2
<1>4. PICK i \in I : \A j \in I : ~(<<j, i>> \in OpToRel(<, Nat))
    BY <1>3, WFMin, NatLessThanWellFounded, Zenon
<1>5. \A j \in I : i <= j
    <2>1. OpToRel(<, Nat) = {p \in Nat \X Nat : p[1] < p[2]}
        BY Zenon DEF OpToRel
    <2>2. \A j \in I : ~(<<j, i>> \in {p \in Nat \X Nat : p[1] < p[2]})
        BY <1>4, <2>1, Zenon
    <2>3. ASSUME NEW j \in I, j < i PROVE FALSE
        <3>1. PICK q : q = <<j, i>>
            BY Zenon
        <3>2. q \in Nat \X Nat /\ q[1] = j /\ q[2] = i
            BY <1>3, <3>1
        <3>3. q \in {p \in Nat \X Nat : p[1] < p[2]}
            BY <2>3, <3>2
        <3> QED BY <2>2, <3>1, <3>3, Zenon
    <2>4. \A j \in I : j \in Nat /\ i \in Nat /\ ~(j < i)
        BY <1>3, <2>3, Zenon
    <2> HIDE DEF I
    <2> QED BY <2>4
<1>6. \A k \in DOMAIN wait : wait[k] = wait[i] => k = i
    BY <1>0 DEF IsInjective
<1>7. wait[i] \in Asleep
    OBVIOUS
<1>8. \A k, j \in DOMAIN wait : wait[k] = wait[i] /\ wait[j] \in Asleep => k <= j
    BY <1>5, <1>6, Zenon
<1> QED BY <1>7, <1>8, Zenon

\* An exclusive wake-up wakes one sleeper if there is one; the other wakes all.
LEMMA WakeUpEffect ==
    ASSUME ListInv, NEW n \in {0, 1}, WakeUpLocked(n), pc' = pc
    PROVE  /\ run' = [t \in Waiters |-> run'[t]]
           /\ \A t \in Waiters : run'[t] # "running" => run[t] # "running"
           /\ n = 0 => Asleep' = {}
           /\ n = 1 /\ Asleep # {} => \E t : t \notin Awake /\ Awake' = Awake \cup {t}
<1> DEFINE P(t) == \A i, j \in DOMAIN wait : wait[i] = t /\ wait[j] \in Asleep => i <= j
<1>1. PICK f : f = CHOOSE t \in Asleep : P(t)
    BY Zenon
<1>2. run' = [t \in Waiters |-> IF t \in Asleep /\ (n = 1 => t = f) THEN "running" ELSE run[t]]
    BY <1>1, Zenon DEF WakeUpLocked
<1>3. \A t \in Waiters : run'[t] = IF t \in Asleep /\ (n = 1 => t = f) THEN "running" ELSE run[t]
    BY <1>2
<1>4. n = 0 => Asleep' = {}
    BY <1>3 DEF Asleep
<1>5. ASSUME n = 1, Asleep # {} PROVE f \notin Awake /\ Awake' = Awake \cup {f}
    <2>1. \E t \in Asleep : P(t)
        BY <1>5, FirstAsleep, Zenon
    <2>2. f \in Asleep
        BY <1>1, <2>1, Zenon
    <2>3. Asleep' = Asleep \ {f}
        BY <1>3, <1>5, <2>2 DEF Asleep
    <2>4. pc[f] = "sleep" /\ f \in Waiters
        BY <2>2, Zenon DEF ListInv, Asleep
    <2> QED BY <2>2, <2>3, <2>4 DEF Awake
<1>6. run' = [t \in Waiters |-> run'[t]]
    BY <1>2
<1> QED BY <1>3, <1>4, <1>5, <1>6, Zenon

------------------------------------------------------------------------------
\* A step without a new event after which no more waiters sleep.
LEMMA EventsStay ==
    ASSUME ListInv, EventsInv, lock' = lock, all' = all, done' = done,
           Asleep' \subseteq Asleep, Awake \subseteq Awake'
    PROVE  EventsInv'
<1>1. Cardinality(Awake) \in Nat /\ Cardinality(Awake') \in Nat /\ Cardinality(Awake) <= Cardinality(Awake')
    BY Sizes, Zenon
<1>2. done \in Nat /\ (Asleep' # {} => Asleep # {})
    BY Zenon DEF ListInv
<1>3. CASE lock = Nobody
    <2>1. Asleep # {} => done <= Cardinality(Awake)
        BY <1>3, Zenon DEF EventsInv
    <2>2. Asleep' # {} => done' <= Cardinality(Awake')
        BY <1>1, <1>2, <2>1
    <2> QED BY <1>3, <2>2, Zenon DEF EventsInv
<1>4. CASE lock # Nobody
    <2>1. ~all /\ Asleep # {} => done <= Cardinality(Awake) + 1
        BY <1>4, Zenon DEF EventsInv
    <2>2. ~all' /\ Asleep' # {} => done' <= Cardinality(Awake') + 1
        BY <1>1, <1>2, <2>1
    <2> QED BY <1>4, <2>2, Zenon DEF EventsInv
<1> QED BY <1>3, <1>4, Zenon

\* No event is left.
LEMMA NoEvents ==
    ASSUME done' = 0
    PROVE  EventsInv'
<1>1. done' <= Cardinality(Awake') /\ done' <= Cardinality(Awake') + 1
    BY Sizes
<1> QED BY <1>1, Zenon DEF EventsInv

\* Outside the wait functions a task moves between places where it does not sleep.
LEMMA MovesOutside ==
    ASSUME ListInv, NEW t \in Waiters, NEW l \in {"out", "polled", "done"}, pc[t] # "sleep",
           pc' = [pc EXCEPT ![t] = l], run' = run, wait' = wait, done' \in Nat, calls' \in Nat
    PROVE  ListInv' /\ Asleep' = Asleep /\ Awake' = Awake
<1>1. pc' \in [Waiters -> {"out", "sleep", "polled", "done"}]
    BY DEF ListInv
<1>2. \A u \in Waiters : pc'[u] = "sleep" <=> pc[u] = "sleep"
    BY DEF ListInv
<1>3. Asleep' = Asleep
    BY Zenon DEF Asleep
<1>4. Awake' = Awake
    BY <1>2, <1>3 DEF Awake
<1>5. ListInv'
    BY <1>1, <1>2, Zenon DEF ListInv
<1> QED BY <1>3, <1>4, <1>5, Zenon

\* What FirstEventInv asks of a step in which no complete() starts or ends.
LEMMA FirstStays ==
    ASSUME FirstEventInv, calls' = calls, lock' = lock, freed' = freed, wait' = wait,
           done = 0 => done' = 0,
           \A t \in Waiters : /\ pc'[t] = "done" => pc[t] = "done" \/ (lock = Nobody /\ calls # 0)
                              /\ pc'[t] = "polled" => pc[t] = "polled" \/ calls # 0
    PROVE  FirstEventInv'
    BY Zenon DEF FirstEventInv, FreedIsUnused

------------------------------------------------------------------------------
\* complete() and complete_all() raise done.
LEMMA CompleteKeeps ==
    ASSUME IInv, NEW c \in Completers, NEW a \in BOOLEAN, Complete(c, a)
    PROVE  IInv'
<1>0. ListInv /\ EventsInv /\ FirstEventInv /\ done \in Nat /\ calls \in Nat
    BY Zenon DEF IInv, ListInv
<1>1. /\ lock = Nobody /\ ~freed /\ calls' = calls + 1 /\ lock' = c /\ all' = a /\ freed' = freed
      /\ wait' = wait /\ pc' = pc /\ run' = run
      /\ done' = (done + (IF a THEN UINT_MAX \div 2 ELSE 1)) % Modulus
    BY Zenon DEF Complete, waitVars
<1>2. Modulus \in Nat /\ Modulus > 0
    BY CompletionAssumption
<1>3. UINT_MAX \div 2 \in Nat
    BY <1>2, CompletionAssumption DEF UINT_MAX
<1>4. done' \in Nat
    BY <1>0, <1>1, <1>2, <1>3
<1>5. ~a => done' <= done + 1
    BY <1>0, <1>1, <1>2
<1>6. ListInv'
    <2>1. calls' \in Nat
        BY <1>0, <1>1
    <2> QED BY <1>0, <1>1, <1>4, <2>1, Zenon DEF ListInv
<1>7. Asleep' = Asleep /\ Awake' = Awake
    BY <1>1, Zenon DEF Awake, Asleep
<1>8. lock' # Nobody
    BY <1>1, CompletionAssumption, Zenon
<1>9. EventsInv'
    <2>1. Asleep # {} => done <= Cardinality(Awake)
        BY <1>0, <1>1, Zenon DEF EventsInv
    <2>2. ~a /\ Asleep # {} => done' <= Cardinality(Awake) + 1
        BY <1>0, <1>4, <1>5, <2>1, Sizes
    <2> QED BY <1>1, <1>7, <1>8, <2>2, Zenon DEF EventsInv
<1>10. FirstEventInv'
    <2>1. calls' # 0 /\ (calls' = 1 => calls = 0)
        BY <1>0, <1>1
    <2> QED BY <1>0, <1>1, <2>1, Zenon DEF FirstEventInv, FreedIsUnused
<1> QED BY <1>6, <1>9, <1>10, Zenon DEF IInv

\* The wake-up under wait.lock makes up for the event.
LEMMA CompleteWakeKeeps ==
    ASSUME IInv, NEW c \in Completers, CompleteWake(c)
    PROVE  IInv'
<1>0. ListInv /\ EventsInv /\ FirstEventInv /\ done \in Nat
    BY Zenon DEF IInv, ListInv
<1>1. /\ lock = c /\ lock' = Nobody /\ WakeUpLocked(IF all THEN 0 ELSE 1)
      /\ done' = done /\ wait' = wait /\ pc' = pc /\ freed' = freed /\ calls' = calls
    BY Zenon DEF CompleteWake, waitVars
<1>2. PICK n \in {0, 1} : n = (IF all THEN 0 ELSE 1) /\ WakeUpLocked(n)
    BY <1>1
<1>3. /\ run' = [t \in Waiters |-> run'[t]]
      /\ \A t \in Waiters : run'[t] # "running" => run[t] # "running"
      /\ n = 0 => Asleep' = {}
      /\ n = 1 /\ Asleep # {} => \E t : t \notin Awake /\ Awake' = Awake \cup {t}
    BY <1>0, <1>1, <1>2, WakeUpEffect, Zenon
<1>4. ListInv'
    BY <1>0, <1>1, <1>3, Zenon DEF ListInv
<1>5. lock # Nobody
    BY <1>1, CompletionAssumption, Zenon
<1>6. EventsInv'
    <2>1. CASE all
        <3>1. Asleep' = {}
            BY <1>2, <1>3, <2>1
        <3> QED BY <1>1, <3>1, Zenon DEF EventsInv
    <2>2. CASE ~all
        <3>1. n = 1
            BY <1>2, <2>2
        <3>2. Asleep' # {} => Asleep # {}
            BY <1>3, Zenon DEF Asleep
        <3>3. ASSUME Asleep # {} PROVE done' <= Cardinality(Awake')
            <4>1. PICK t : t \notin Awake /\ Awake' = Awake \cup {t}
                BY <1>3, <3>1, <3>3, Zenon
            <4>2. Cardinality(Awake') = Cardinality(Awake) + 1
                BY <4>1, Sizes, Zenon
            <4>3. done <= Cardinality(Awake) + 1
                BY <1>0, <1>5, <2>2, <3>3, Zenon DEF EventsInv
            <4> QED BY <1>1, <4>2, <4>3, Zenon
        <3> QED BY <1>1, <3>2, <3>3, Zenon DEF EventsInv
    <2> QED BY <2>1, <2>2, Zenon
<1>7. FirstEventInv'
    BY <1>0, <1>1, <1>5, Zenon DEF FirstEventInv, FreedIsUnused
<1> QED BY <1>4, <1>6, <1>7, Zenon DEF IInv

\* A wait that finds an event takes it; waiters that are awake lose no other one.
LEMMA WaitTakesKeeps ==
    ASSUME IInv, NEW t \in Waiters, WaitTakes(t)
    PROVE  IInv'
<1>0. ListInv /\ EventsInv /\ FirstEventInv /\ done \in Nat /\ calls \in Nat
    BY Zenon DEF IInv, ListInv
<1>1. /\ pc[t] \in {"out", "done"} /\ lock = Nobody /\ ~freed /\ done # 0
      /\ pc' = [pc EXCEPT ![t] = "done"] /\ done' = done - 1
      /\ lock' = lock /\ wait' = wait /\ run' = run /\ freed' = freed /\ calls' = calls
    BY Zenon DEF WaitTakes, Leave
<1>2. done' \in Nat /\ done' <= done
    BY <1>0, <1>1
<1>3. ListInv' /\ Asleep' = Asleep /\ Awake' = Awake
    <2>1. pc[t] # "sleep" /\ calls' \in Nat
        BY <1>0, <1>1
    <2>2. PICK l \in {"out", "polled", "done"} : l = "done"
        BY Zenon
    <2> QED BY <1>0, <1>1, <1>2, <2>1, <2>2, MovesOutside, Zenon
<1>4. EventsInv'
    <2>1. Asleep # {} => done <= Cardinality(Awake)
        BY <1>0, <1>1, Zenon DEF EventsInv
    <2>2. Asleep # {} => done' <= Cardinality(Awake)
        BY <1>0, <1>2, <2>1, Sizes
    <2> QED BY <1>1, <1>3, <2>2, Zenon DEF EventsInv
<1>5. FirstEventInv'
    <2>1. calls # 0
        BY <1>0, <1>1, Zenon DEF FirstEventInv
    <2> QED BY <1>0, <1>1, <2>1, Zenon DEF FirstEventInv, FreedIsUnused
<1> QED BY <1>3, <1>4, <1>5, Zenon DEF IInv

\* A wait that finds no event queues itself, or leaves with a pending signal.
LEMMA WaitQueuesKeeps ==
    ASSUME IInv, NEW t \in Waiters, NEW st \in SleepStates, NEW finite \in BOOLEAN, WaitQueues(t, st, finite)
    PROVE  IInv'
<1>0. ListInv /\ FirstEventInv /\ calls \in Nat /\ pc \in [Waiters -> {"out", "sleep", "polled", "done"}]
      /\ wait \in Seq(Waiters) /\ IsInjective(wait)
    BY Zenon DEF IInv, ListInv
<1>1. /\ pc[t] \in {"out", "done"} /\ ~freed /\ done = 0 /\ done' = 0
      /\ lock' = lock /\ freed' = freed /\ calls' = calls
      /\ \/ pc' = [pc EXCEPT ![t] = "out"] /\ wait' = wait /\ run' = run
         \/ /\ wait' = list_add_tail(wait, t) /\ pc' = [pc EXCEPT ![t] = "sleep"]
            /\ run' = [run EXCEPT ![t] = st]
    BY Zenon DEF WaitQueues, Leave
<1>2. pc[t] # "sleep" /\ done' \in Nat /\ calls' \in Nat
    BY <1>0, <1>1
<1>3. EventsInv'
    BY <1>1, NoEvents, Zenon
<1>4. ListInv'
    <2>1. CASE pc' = [pc EXCEPT ![t] = "out"] /\ wait' = wait /\ run' = run
        <3>1. PICK l \in {"out", "polled", "done"} : l = "out"
            BY Zenon
        <3> QED BY <1>0, <1>2, <2>1, <3>1, MovesOutside, Zenon
    <2>2. CASE wait' = list_add_tail(wait, t) /\ pc' = [pc EXCEPT ![t] = "sleep"] /\ run' = [run EXCEPT ![t] = st]
        <3>1. t \notin Range(wait)
            BY <1>0, <1>2, Zenon DEF ListInv
        <3>2. wait' \in Seq(Waiters) /\ IsInjective(wait') /\ Range(wait') = Range(wait) \cup {t}
            <4>1. wait \in Seq(Waiters) /\ IsInjective(wait)
                BY <1>0, Zenon
            <4>2. /\ list_add_tail(wait, t) \in Seq(Waiters)
                  /\ IsInjective(list_add_tail(wait, t))
                  /\ Range(list_add_tail(wait, t)) = Range(wait) \cup {t}
                BY <3>1, <4>1, AddTail
            <4> QED BY <2>2, <4>2, Zenon
        <3>3. pc' \in [Waiters -> {"out", "sleep", "polled", "done"}] /\ pc'[t] = "sleep"
              /\ \A u \in Waiters \ {t} : pc'[u] = pc[u]
            BY <1>0, <2>2
        <3>4. run' = [u \in Waiters |-> run'[u]] /\ \A u \in Waiters \ {t} : run'[u] = run[u]
            BY <2>2 DEF ListInv, IInv
        <3>5. \A u \in Waiters : u \in Range(wait') <=> pc'[u] = "sleep"
            BY <1>0, <3>2, <3>3, Zenon DEF ListInv
        <3>6. \A u \in Waiters : run'[u] # "running" => pc'[u] = "sleep"
            BY <1>0, <3>3, <3>4, Zenon DEF ListInv
        <3> QED BY <1>2, <3>2, <3>3, <3>4, <3>5, <3>6, Zenon DEF ListInv
    <2> QED BY <1>1, <2>1, <2>2, Zenon
<1>5. FirstEventInv'
    <2>1. PICK l \in {"out", "sleep"} : pc' = [pc EXCEPT ![t] = l]
        BY <1>1, Zenon
    <2>2. \A u \in Waiters : (pc'[u] = "done" => pc[u] = "done") /\ (pc'[u] = "polled" => pc[u] = "polled")
        BY <1>0, <2>1
    <2> QED BY <1>0, <1>1, <2>2, Zenon DEF FirstEventInv, FreedIsUnused
<1> QED BY <1>3, <1>4, <1>5, Zenon DEF IInv

\* A woken waiter looks at done; when it leaves with an event, the others that
\* are awake are still as many as the events.
LEMMA WaitWokenKeeps ==
    ASSUME IInv, NEW t \in Waiters, WaitWoken(t)
    PROVE  IInv'
<1>0. ListInv /\ EventsInv /\ FirstEventInv /\ done \in Nat /\ calls \in Nat
      /\ pc \in [Waiters -> {"out", "sleep", "polled", "done"}]
      /\ wait \in Seq(Waiters) /\ IsInjective(wait)
    BY Zenon DEF IInv, ListInv
<1>1. /\ pc[t] = "sleep" /\ run[t] = "running" /\ lock = Nobody
      /\ lock' = lock /\ freed' = freed /\ calls' = calls
      /\ \/ /\ wait' = list_del(wait, t) /\ run' = run
            /\ \/ done = 0 /\ pc' = [pc EXCEPT ![t] = "out"] /\ done' = done
               \/ done # 0 /\ pc' = [pc EXCEPT ![t] = "done"] /\ done' = done - 1
         \/ /\ done = 0 /\ done' = done /\ wait' = wait /\ pc' = pc
            /\ run' = [run EXCEPT ![t] = sleep_state[t]]
    BY Zenon DEF WaitWoken, Leave
<1>2. t \in Range(wait) /\ wait # <<>> /\ ~freed
    <2>1. t \in Range(wait)
        BY <1>0, <1>1, Zenon DEF ListInv
    <2>2. wait # <<>>
        BY <2>1 DEF Range
    <2> QED BY <1>0, <2>1, <2>2, Zenon DEF FirstEventInv, FreedIsUnused
<1>3. CASE done = 0 /\ done' = done /\ wait' = wait /\ pc' = pc /\ run' = [run EXCEPT ![t] = sleep_state[t]]
    <2>1. run' = [u \in Waiters |-> run'[u]] /\ \A u \in Waiters \ {t} : run'[u] = run[u]
        BY <1>0, <1>3 DEF ListInv
    <2>2. ListInv'
        BY <1>0, <1>1, <1>3, <2>1, Zenon DEF ListInv
    <2>3. EventsInv'
        BY <1>3, NoEvents, Zenon
    <2>4. FirstEventInv'
        BY <1>0, <1>1, <1>3, Zenon DEF FirstEventInv, FreedIsUnused
    <2> QED BY <2>2, <2>3, <2>4, Zenon DEF IInv
<1>4. ASSUME NEW l \in {"out", "done"}, wait' = list_del(wait, t), run' = run, pc' = [pc EXCEPT ![t] = l],
             done' \in Nat, EventsInv', done = 0 => l = "out" /\ done' = 0
      PROVE  IInv'
    <2>1. wait' \in Seq(Waiters) /\ IsInjective(wait') /\ Range(wait') = Range(wait) \ {t}
        BY <1>0, <1>2, <1>4, Del, Zenon
    <2>2. pc' \in [Waiters -> {"out", "sleep", "polled", "done"}] /\ pc'[t] = l /\ l # "sleep" /\ l # "polled"
          /\ \A u \in Waiters \ {t} : pc'[u] = pc[u]
        BY <1>0, <1>4
    <2>3. \A u \in Waiters : u \in Range(wait') <=> pc'[u] = "sleep"
        BY <1>0, <2>1, <2>2, Zenon DEF ListInv
    <2>4. \A u \in Waiters : run'[u] # "running" => pc'[u] = "sleep"
        BY <1>0, <1>1, <1>4, <2>2, Zenon DEF ListInv
    <2>5. ListInv'
        BY <1>0, <1>1, <1>4, <2>1, <2>2, <2>3, <2>4, Zenon DEF ListInv
    <2>6. FirstEventInv'
        <3>1. calls = 0 => done = 0 /\ \A u \in Waiters : pc[u] \notin {"polled", "done"}
            BY <1>0, Zenon DEF FirstEventInv
        <3>2. calls = 0 => done' = 0 /\ \A u \in Waiters : pc'[u] \notin {"polled", "done"}
            BY <1>4, <2>2, <3>1
        <3> QED BY <1>1, <1>2, <3>2, Zenon DEF FirstEventInv, FreedIsUnused
    <2> QED BY <1>4, <2>5, <2>6, Zenon DEF IInv
<1>5. CASE done = 0 /\ wait' = list_del(wait, t) /\ run' = run /\ pc' = [pc EXCEPT ![t] = "out"] /\ done' = done
    <2>1. PICK l \in {"out", "done"} : l = "out"
        BY Zenon
    <2>2. EventsInv' /\ done' = 0 /\ done' \in Nat
        BY <1>0, <1>5, NoEvents, Zenon
    <2> QED BY <1>4, <1>5, <2>1, <2>2, Zenon
<1>6. CASE done # 0 /\ wait' = list_del(wait, t) /\ run' = run /\ pc' = [pc EXCEPT ![t] = "done"] /\ done' = done - 1
    <2>1. PICK l \in {"out", "done"} : l = "done"
        BY Zenon
    <2>2. Asleep' = Asleep /\ t \notin Asleep
        BY <1>1, <1>6, Zenon DEF Asleep
    <2>3. t \in Awake /\ Awake' = Awake \ {t}
        BY <1>0, <1>1, <1>6, <2>2 DEF Awake
    <2>4. Cardinality(Awake') = Cardinality(Awake) - 1 /\ Cardinality(Awake) \in Nat
        BY <2>3, Sizes, Zenon
    <2>5. Asleep # {} => done <= Cardinality(Awake)
        BY <1>0, <1>1, Zenon DEF EventsInv
    <2>6. done' \in Nat /\ (Asleep # {} => done' <= Cardinality(Awake'))
        BY <1>0, <1>6, <2>4, <2>5
    <2>7. EventsInv'
        BY <1>1, <2>2, <2>6, Zenon DEF EventsInv
    <2> QED BY <1>4, <1>6, <2>1, <2>6, <2>7, Zenon
<1> QED BY <1>1, <1>3, <1>5, <1>6, Zenon

\* completion_done(), the user that frees the completion, and the signal that is handled.
LEMMA OutsideKeeps ==
    ASSUME IInv, NEW t \in Waiters, PollDone(t) \/ PollUnlocked(t) \/ Free(t) \/ SignalHandled(t)
    PROVE  IInv'
<1>0. ListInv /\ EventsInv /\ FirstEventInv /\ done \in Nat /\ calls \in Nat
      /\ pc \in [Waiters -> {"out", "sleep", "polled", "done"}]
    BY Zenon DEF IInv, ListInv
<1>1. /\ done' = done /\ lock' = lock /\ all' = all /\ wait' = wait /\ run' = run /\ calls' = calls
    BY Zenon DEF PollDone, PollUnlocked, Free, SignalHandled, waitVars
<1>2. CASE PollDone(t) \/ PollUnlocked(t)
    <2>1. PICK l \in {"out", "polled", "done"} :
             /\ pc' = [pc EXCEPT ![t] = l] /\ pc[t] \in {"out", "done", "polled"} /\ freed' = freed
             /\ \/ l = "polled" /\ done # 0
                \/ l = "done" /\ lock = Nobody /\ pc[t] = "polled"
        BY <1>2, Zenon DEF PollDone, PollUnlocked, completion_done
    <2>2. pc[t] # "sleep" /\ done' \in Nat /\ calls' \in Nat
        BY <1>0, <1>1, <2>1
    <2>3. ListInv' /\ Asleep' = Asleep /\ Awake' = Awake
        BY <1>0, <1>1, <2>1, <2>2, MovesOutside, Zenon
    <2>4. EventsInv'
        BY <1>0, <1>1, <2>3, EventsStay, Zenon
    <2>5. calls # 0
        BY <1>0, <2>1, Zenon DEF FirstEventInv
    <2>6. \A u \in Waiters : pc'[u] = "done" => pc[u] = "done" \/ (lock = Nobody /\ calls # 0)
        <3>1. CASE l = "polled"
            BY <1>0, <2>1, <3>1
        <3>2. CASE l = "done" /\ lock = Nobody
            BY <2>5, <3>2, Zenon
        <3> QED BY <2>1, <3>1, <3>2, Zenon
    <2>7. FirstEventInv'
        BY <1>0, <1>1, <2>1, <2>5, <2>6, FirstStays, Zenon
    <2> QED BY <2>3, <2>4, <2>7, Zenon DEF IInv
<1>3. ASSUME pc' = pc PROVE ListInv' /\ EventsInv'
    <2>1. ListInv'
        BY <1>0, <1>1, <1>3, Zenon DEF ListInv
    <2>2. Asleep' = Asleep /\ Awake' = Awake
        BY <1>1, <1>3, Zenon DEF Asleep, Awake
    <2>3. EventsInv'
        BY <1>0, <1>1, <2>2, EventsStay, Zenon
    <2> QED BY <2>1, <2>3, Zenon
<1>4. CASE Free(t)
    <2>1. pc' = pc /\ calls = 1 /\ pc[t] = "done" /\ \A u \in Waiters \ {t} : pc[u] \in {"out", "done"}
        BY <1>4, Zenon DEF Free, waitVars
    <2>2. lock = Nobody
        BY <1>0, <2>1, Zenon DEF FirstEventInv
    <2>3. \A u \in Waiters : u \notin Range(wait)
        <3>1. \A u \in Waiters : pc[u] # "sleep"
            BY <2>1
        <3> QED BY <1>0, <3>1, Zenon DEF ListInv
    <2>4. wait = <<>>
        <3>1. wait \in Seq(Waiters)
            BY <1>0, Zenon DEF ListInv
        <3>2. Len(wait) = 0
            BY <2>3, <3>1 DEF Range
        <3> QED BY <3>1, <3>2
    <2>5. FirstEventInv'
        BY <1>0, <1>1, <2>1, <2>2, <2>4 DEF FirstEventInv, FreedIsUnused
    <2> QED BY <1>3, <2>1, <2>5, Zenon DEF IInv
<1>5. CASE SignalHandled(t)
    <2>1. pc' = pc /\ freed' = freed
        BY <1>5, Zenon DEF SignalHandled
    <2>2. FirstEventInv'
        BY <1>0, <1>1, <2>1, Zenon DEF FirstEventInv, FreedIsUnused
    <2> QED BY <1>3, <2>1, <2>2, Zenon DEF IInv
<1> QED BY <1>2, <1>4, <1>5, Zenon

\* A timeout or a signal wakes a waiter without an event.
LEMMA WokenEarlyKeeps ==
    ASSUME IInv, NEW t \in Waiters, Timeout(t) \/ \E s \in Signals \ {"none"} : Signal(t, s)
    PROVE  IInv'
<1>0. ListInv /\ EventsInv /\ FirstEventInv
    BY Zenon DEF IInv
<1>1. /\ done' = done /\ lock' = lock /\ all' = all /\ wait' = wait /\ pc' = pc /\ calls' = calls
      /\ freed' = freed
    BY Zenon DEF Timeout, Signal
<1>2. PICK x : run' = [run EXCEPT ![t] = x] /\ x \in {"running", run[t]}
    <2>1. CASE Timeout(t)
        BY <2>1, Zenon DEF Timeout
    <2>2. ASSUME NEW s, Signal(t, s) PROVE \E x : run' = [run EXCEPT ![t] = x] /\ x \in {"running", run[t]}
        BY <2>2, Zenon DEF Signal, signal_wake_up
    <2> QED BY <2>1, <2>2, Zenon
<1>3. /\ run' = [u \in Waiters |-> run'[u]]
      /\ \A u \in Waiters : run'[u] # "running" => run[u] # "running"
    <2>1. run = [u \in Waiters |-> run[u]]
        BY <1>0, Zenon DEF ListInv
    <2>2. run'[t] = x /\ \A u \in Waiters \ {t} : run'[u] = run[u]
        BY <1>2, <2>1
    <2> QED BY <1>2, <2>1, <2>2
<1>4. ListInv'
    BY <1>0, <1>1, <1>3, Zenon DEF ListInv
<1>5. Asleep' \subseteq Asleep /\ Awake \subseteq Awake'
    BY <1>1, <1>3, Zenon DEF Asleep, Awake
<1>6. EventsInv'
    BY <1>0, <1>1, <1>5, EventsStay, Zenon
<1>7. FirstEventInv'
    BY <1>0, <1>1, Zenon DEF FirstEventInv, FreedIsUnused
<1> QED BY <1>4, <1>6, <1>7, Zenon DEF IInv

\* reinit_completion() leaves no event behind.
LEMMA ReinitKeeps ==
    ASSUME IInv, Reinit
    PROVE  IInv'
<1>0. ListInv /\ FirstEventInv
    BY Zenon DEF IInv
<1>1. done' = 0 /\ lock' = lock /\ wait' = wait /\ pc' = pc /\ run' = run /\ calls' = calls /\ freed' = freed
    BY Zenon DEF Reinit, waitVars
<1>2. ListInv'
    <2>1. done' \in Nat
        BY <1>1
    <2> QED BY <1>0, <1>1, <2>1, Zenon DEF ListInv
<1>3. EventsInv'
    BY <1>1, NoEvents, Zenon
<1>4. FirstEventInv'
    BY <1>0, <1>1, Zenon DEF FirstEventInv, FreedIsUnused
<1> QED BY <1>2, <1>3, <1>4, Zenon DEF IInv

------------------------------------------------------------------------------
\* init_completion() leaves an empty queue and no event.
LEMMA InitKeeps == Init => IInv
<1> SUFFICES ASSUME Init PROVE IInv
    OBVIOUS
<1>1. Range(<<>>) = {} /\ <<>> \in Seq(Waiters) /\ IsInjective(<<>>)
    BY DEF Range, IsInjective
<1>2. /\ done = 0 /\ lock = Nobody /\ wait = <<>> /\ freed = FALSE /\ calls = 0
      /\ run = [t \in Waiters |-> "running"] /\ pc = [t \in Waiters |-> "out"]
    BY Zenon DEF Init
<1>3. pc \in [Waiters -> {"out", "sleep", "polled", "done"}] /\ run = [t \in Waiters |-> run[t]]
      /\ 0 \in Nat
      /\ \A t \in Waiters : pc[t] # "sleep" /\ pc[t] \notin {"polled", "done"} /\ run[t] = "running"
    BY <1>2
<1>4. ListInv
    BY <1>1, <1>2, <1>3, Zenon DEF ListInv
<1>5. Asleep = {}
    BY <1>3, Zenon DEF Asleep
<1> QED BY <1>2, <1>3, <1>4, <1>5, Zenon DEF IInv, EventsInv, FirstEventInv, FreedIsUnused

\* Every step keeps the invariant.
LEMMA NextKeeps == IInv /\ [Next]_vars => IInv'
<1> SUFFICES ASSUME IInv, [Next]_vars PROVE IInv'
    OBVIOUS
<1>1. CASE UNCHANGED vars
    <2>1. /\ done' = done /\ lock' = lock /\ all' = all /\ wait' = wait /\ pc' = pc /\ run' = run
          /\ calls' = calls /\ freed' = freed
        BY <1>1, Zenon DEF vars
    <2>2. Asleep' = Asleep /\ Awake' = Awake
        BY <2>1, Zenon DEF Asleep, Awake
    <2>3. ListInv' /\ FirstEventInv'
        BY <2>1, Zenon DEF IInv, ListInv, FirstEventInv, FreedIsUnused
    <2>4. EventsInv'
        BY <2>1, <2>2, Zenon DEF IInv, EventsInv
    <2> QED BY <2>3, <2>4, Zenon DEF IInv
<1>2. CASE Next
    BY <1>2, CompleteKeeps, CompleteWakeKeeps, WaitTakesKeeps, WaitQueuesKeeps, WaitWokenKeeps, OutsideKeeps,
       WokenEarlyKeeps, ReinitKeeps, Zenon DEF Next
<1> QED BY <1>1, <1>2, Zenon

\* The invariant holds in every state.
LEMMA IInvHolds == Spec => []IInv
    BY InitKeeps, NextKeeps, PTL DEF Spec

\* No event is stranded: whenever wait.lock is free and a waiter of the completion sleeps,
\* at least as many queued waiters are awake as there are events to take, whatever timeouts,
\* signals, barging waits and late reinit_completion() calls there were.
THEOREM NoStrandedEventHolds == Spec => []NoStrandedEvent
<1>1. IInv => NoStrandedEvent
    BY Zenon DEF IInv, EventsInv, NoStrandedEvent, Awake
<1> QED BY <1>1, IInvHolds, PTL

\* A completion that its user frees after a wait or completion_done() told of the event is no
\* longer used by the complete() that posted the event, nor by a waiter.
THEOREM FreedIsUnusedHolds == Spec => []FreedIsUnused
<1>1. IInv => FreedIsUnused
    BY Zenon DEF IInv, FirstEventInv
<1> QED BY <1>1, IInvHolds, PTL
==============================================================================
