----------------------------- MODULE RwSemProofs -----------------------------
(***************************************************************************)
(* The safety of RwSem, for every set of tasks and any number of killed    *)
(* writers: what sem->count is made of, that a writer holds the semaphore  *)
(* alone, and that no wake-up is lost while no writer is killed.           *)
(***************************************************************************)
EXTENDS RwSem, WaitListTheorems

\* Most leaves are first-order: they are left to Zenon, and those that count to SMT.
USE Zenon

------------------------------------------------------------------------------
\* The places of a task, by what it holds, and where it holds wait_lock.

Apart == {"out", "can_spin", "osq_wait", "spin", "on_owner", "on_count", "try", "w_failed",
          "wake", "wake_trylock", "wake_lock"}
ReadWait == {"r_state", "r_check", "r_sleep"}
WriteWait == {"w_loop", "w_sleep", "w_read", "w_relock", "w_intr"}
WakePlaces == {"do_wake", "undo_grant", "grant"}
LockPlaces == WakePlaces \cup {"w_state", "w_try", "w_bias"}
WritePlaces == {"spin_owner", "w_owner", "writing", "up_write", "downgrade"}

Fns == {"none", "read_failed", "write_failed", "wake", "downgrade_wake"}

\* fn names the function whose waiter is on the list or that called __rwsem_do_wake().
FnOf(t) ==
    /\ pc[t] \in ReadWait => fn[t] = "read_failed"
    /\ pc[t] \in WriteWait \cup {"w_state", "w_try", "w_bias"} => fn[t] = "write_failed"
    /\ pc[t] \in WakePlaces => fn[t] # "none"
    /\ fn[t] # "none" => pc[t] \in ReadWait \cup WriteWait \cup LockPlaces
    /\ fn[t] = "write_failed" => Queued(t)
    /\ fn[t] = "read_failed" /\ pc[t] \in WakePlaces => Queued(t)
    /\ Queued(t) => fn[t] \in {"read_failed", "write_failed"}

\* The list has no repetitions and holds the waiters; it changes only under wait_lock, so
\* that what __rwsem_do_wake() saw at its front stays there.
PlaceInv ==
    /\ wait_list \in Seq(Tasks) /\ IsInjective(wait_list)
    /\ pc \in [Tasks -> PCs] /\ fn \in [Tasks -> Fns]
    /\ \A t \in Tasks : FnOf(t)
    /\ \A t \in Tasks : wait_lock = t <=> pc[t] \in LockPlaces
    /\ \A t \in Tasks : pc[t] \in WakePlaces => wait_list # <<>>
    /\ \A t \in Tasks : pc[t] \in {"undo_grant", "grant"} => IsReader(Head(wait_list))
    /\ \A t \in Tasks : pc[t] = "w_bias" => Range(wait_list) # {t}

\* The tasks that count as active, those with a second, tentative reader bias, and those
\* whose bias is the one of a writer.
Holding == {t \in Tasks : t \in Readers \/ t \in Writers \/ pc[t] \in {"r_failed", "w_undo"}}
Granting == {t \in Tasks : \/ pc[t] = "undo_grant"
                           \/ pc[t] = "grant" /\ fn[t] # "downgrade_wake"}
Writing == {t \in Tasks : t \in Writers \/ pc[t] = "w_undo"}

\* One waiting bias while tasks are queued.
Waiting == IF wait_list # <<>> /\ \A t \in Tasks : pc[t] # "w_bias" THEN 1 ELSE 0

\* What the count is made of; stale is the number of waiting biases that killed writers
\* left behind.
CountIs(stale) ==
    count = Cardinality(Holding) + Cardinality(Granting)
            - (ActiveMask + 1) * (Cardinality(Writing) + Waiting + stale)
CountInv == \E stale \in Nat : CountIs(stale) /\ (killed = {} => stale = 0)

\* A granted bias keeps writers out before the readers are taken off the list.
NoWriterAtGrant == (\E t \in Tasks : pc[t] = "grant") => Writers = {}

IInv == PlaceInv /\ CountInv /\ WritersExclude /\ NoWriterAtGrant

------------------------------------------------------------------------------
\* The arithmetic of the count: a active tasks and p biases of -(m + 1).

\* The multiples of ActiveMask + 1.
LEMMA Product ==
    ASSUME NEW m \in Nat, NEW p \in Nat
    PROVE  /\ (m + 1) * p \in Nat
           /\ (m + 1) * (p + 1) = (m + 1) * p + m + 1
           /\ p >= 1 => (m + 1) * p >= m + 1
           /\ p >= 2 => (m + 1) * p >= 2 * m + 2
<1>1. \A q \in Nat : (m + 1) * q \in Nat /\ (m + 1) * (q + 1) = (m + 1) * q + m + 1
    BY SMT
<1>2. p >= 1 => p - 1 \in Nat /\ (p - 1) + 1 = p
    BY SMT
<1>3. p >= 2 => p - 2 \in Nat /\ (p - 2) + 1 = p - 1
    BY SMT
<1>4. p >= 1 => (m + 1) * p = (m + 1) * (p - 1) + m + 1
    BY <1>1, <1>2
<1>5. p >= 2 => (m + 1) * (p - 1) = (m + 1) * (p - 2) + m + 1
    BY <1>1, <1>3
<1> QED BY <1>1, <1>2, <1>3, <1>4, <1>5, SMT

\* What a count c tells about them.
Tells(m, a, p, c) ==
    /\ c \in Int /\ c % (m + 1) = a
    /\ c >= 0 => p = 0
    /\ c = 0 => a = 0
    /\ c >= -m - 1 => p <= 1
    /\ c = -m - 1 => a = 0 /\ p = 1
    /\ p = 1 => c = a - m - 1
    /\ p >= 1 => c < 0

\* What the sign and the low bits of the count tell of a and p.
LEMMA CountTells ==
    ASSUME NEW m \in Nat, NEW a \in Nat, NEW p \in Nat, a <= m, NEW c, c = a - (m + 1) * p
    PROVE  Tells(m, a, p, c)
<1>1. PICK q \in Nat : q = (m + 1) * p
    BY Product
<1>2. /\ p = 0 => q = 0
      /\ p = 1 => q = m + 1
      /\ p >= 1 => q >= m + 1
      /\ p >= 2 => q >= 2 * m + 2
    BY <1>1, Product, SMT
<1>3. c \in Int /\ c = a - q
    BY <1>1, SMT
<1>4. c % (m + 1) = a
    <2>1. c = (m + 1) * (-p) + a
        BY <1>1, <1>3, SMT
    <2> QED BY <2>1, SMT
<1> QED BY <1>2, <1>3, <1>4, SMT DEF Tells

------------------------------------------------------------------------------
\* The sets the count is made of.

Bit(b) == IF b THEN 1 ELSE 0

\* Two sets that differ at x only differ in size by x.
LEMMA CardChange ==
    ASSUME NEW S, NEW T, NEW x, IsFiniteSet(S), T \ {x} = S \ {x}
    PROVE  /\ IsFiniteSet(T) /\ Cardinality(S) \in Nat /\ Cardinality(T) \in Nat
           /\ Cardinality(T) = Cardinality(S) + Bit(x \in T) - Bit(x \in S)
<1>1. PICK R : R = S \ {x}
    OBVIOUS
<1>2. IsFiniteSet(R) /\ Cardinality(R) \in Nat
    BY <1>1, FS_RemoveElement, FS_CardinalityType
<1>3. ASSUME NEW U, U \ {x} = R
      PROVE  IsFiniteSet(U) /\ Cardinality(U) = Cardinality(R) + Bit(x \in U)
    <2>1. CASE x \in U
        <3>1. U = R \cup {x} /\ x \notin R
            BY <1>3, <2>1
        <3>2. IsFiniteSet(U) /\ Cardinality(U) = Cardinality(R) + 1
            BY <1>2, <3>1, FS_AddElement
        <3> QED BY <2>1, <3>2 DEF Bit
    <2>2. CASE x \notin U
        <3>1. U = R
            BY <1>3, <2>2
        <3> QED BY <1>2, <2>2, <3>1, SMT DEF Bit
    <2> QED BY <2>1, <2>2
<1>4. /\ IsFiniteSet(S) /\ Cardinality(S) = Cardinality(R) + Bit(x \in S)
      /\ IsFiniteSet(T) /\ Cardinality(T) = Cardinality(R) + Bit(x \in T)
    BY <1>1, <1>3
<1> QED BY <1>2, <1>4, SMT DEF Bit

\* The sets that the count counts are finite.
LEMMA SetsFinite ==
    /\ IsFiniteSet(Holding) /\ IsFiniteSet(Granting) /\ IsFiniteSet(Writing)
    /\ Cardinality(Holding) \in Nat /\ Cardinality(Granting) \in Nat /\ Cardinality(Writing) \in Nat
    /\ Cardinality(Holding) <= Cardinality(Tasks) /\ Cardinality(Granting) <= Cardinality(Tasks)
    /\ Cardinality(Tasks) \in Nat
    /\ Waiting \in 0..1 /\ Writing \subseteq Holding
<1>1. Holding \subseteq Tasks /\ Granting \subseteq Tasks /\ Writing \subseteq Tasks /\ Writing \subseteq Holding
    BY DEF Holding, Granting, Writing
<1>2. IsFiniteSet(Tasks)
    BY RwSemAssumption
<1>3. Waiting \in 0..1
    BY SMT DEF Waiting
<1> QED BY <1>1, <1>2, <1>3, FS_Subset, FS_CardinalityType

\* What the values of the count that the code looks at mean.
LEMMA CountFacts ==
    ASSUME CountInv
    PROVE  /\ count \in Int
           /\ Active(count) = 0 <=> Holding = {} /\ Granting = {}
           /\ count \in {0, WaitingBias} => Holding = {} /\ Granting = {}
           /\ count >= 0 => Writing = {} /\ Waiting = 0
           /\ count >= WaitingBias /\ Waiting = 1 => Writing = {}
           /\ Waiting = 1 => count < 0
           /\ killed = {} /\ Holding = {} /\ Granting = {} /\ Waiting = 1 => count = WaitingBias
<1>1. PICK stale \in Nat : CountIs(stale) /\ (killed = {} => stale = 0)
    BY DEF CountInv
<1>2. PICK a \in Nat, w \in Nat, p \in Nat :
          /\ a = Cardinality(Holding) + Cardinality(Granting)
          /\ w = Cardinality(Writing) /\ p = Cardinality(Writing) + Waiting + stale
          /\ a <= ActiveMask
    BY SetsFinite, RwSemAssumption, SMT
<1> USE <1>2
<1>3. ActiveMask \in Nat
    BY RwSemAssumption
<1>4. count = a - (ActiveMask + 1) * p
    BY <1>1, <1>3, SetsFinite, SMT DEF CountIs
<1>5. /\ count \in Int /\ count % (ActiveMask + 1) = a
      /\ count >= 0 => p = 0
      /\ count = 0 => a = 0
      /\ count >= -ActiveMask - 1 => p <= 1
      /\ count = -ActiveMask - 1 => a = 0 /\ p = 1
      /\ p = 1 => count = a - ActiveMask - 1
      /\ p >= 1 => count < 0
    <2>1. Tells(ActiveMask, a, p, count)
        BY <1>3, <1>4, CountTells
    <2> QED BY <2>1 DEF Tells
<1>6. /\ a = 0 <=> Cardinality(Holding) = 0 /\ Cardinality(Granting) = 0
      /\ Waiting = 1 => p = w + 1 + stale
      /\ p = 0 => w = 0 /\ Waiting = 0
      /\ p <= 1 /\ Waiting = 1 => w = 0
      /\ Waiting = 1 => p >= 1
    BY SetsFinite, SMT
<1>7. /\ Cardinality(Holding) = 0 <=> Holding = {}
      /\ Cardinality(Granting) = 0 <=> Granting = {}
      /\ Cardinality(Writing) = 0 <=> Writing = {}
    BY SetsFinite, FS_EmptySet
<1>8. Holding = {} => w = 0
    BY <1>7, SetsFinite
<1>9. WaitingBias = -ActiveMask - 1
    BY DEF WaitingBias
<1>10. killed = {} /\ Holding = {} /\ Granting = {} /\ Waiting = 1 => a = 0 /\ p = 1
    BY <1>1, <1>6, <1>7, <1>8, SMT
<1>11. killed = {} /\ Holding = {} /\ Granting = {} /\ Waiting = 1 => count = WaitingBias
    BY <1>3, <1>5, <1>9, <1>10, SMT
<1> QED BY <1>5, <1>6, <1>7, <1>9, <1>11 DEF Active

\* Nothing of the other tasks changes that the sets depend on.
OnlyMoves(t) ==
    \A u \in Tasks \ {t} : /\ pc'[u] = pc[u] /\ fn'[u] = fn[u]
                           /\ u \in Range(wait_list') <=> u \in Range(wait_list)

\* A step of t leaves the others in the sets of tasks they are in.
LEMMA OthersStay ==
    ASSUME NEW t, OnlyMoves(t)
    PROVE  /\ Readers' \ {t} = Readers \ {t} /\ Writers' \ {t} = Writers \ {t}
           /\ Holding' \ {t} = Holding \ {t} /\ Granting' \ {t} = Granting \ {t}
           /\ Writing' \ {t} = Writing \ {t}
<1>1. Readers' \ {t} = Readers \ {t}
    BY DEF OnlyMoves, Readers, Waking, Queued
<1>2. Writers' \ {t} = Writers \ {t}
    BY DEF OnlyMoves, Writers
<1>3. Granting' \ {t} = Granting \ {t}
    BY DEF OnlyMoves, Granting
<1>4. Writing' \ {t} = Writing \ {t}
    BY <1>2 DEF OnlyMoves, Writing
<1>5. Holding' \ {t} = Holding \ {t}
    BY <1>1, <1>2 DEF OnlyMoves, Holding
<1> QED BY <1>1, <1>2, <1>3, <1>4, <1>5

\* How a step of t changes its part of the count.
Joins(t) == Bit(t \in Holding') - Bit(t \in Holding)
Grants(t) == Bit(t \in Granting') - Bit(t \in Granting)
Writes(t) == Bit(t \in Writing') - Bit(t \in Writing)

\* A step that adds to the count what its task gains keeps the count in step with the sets.
LEMMA StepCount ==
    ASSUME CountInv, NEW t \in Tasks, OnlyMoves(t), NEW left \in Nat,
           killed' = {} => killed = {} /\ left = 0,
           count' = count + Joins(t) + Grants(t)
                    - (ActiveMask + 1) * (Writes(t) + (Waiting' - Waiting) + left)
    PROVE  CountInv'
<1>1. PICK stale \in Nat : CountIs(stale) /\ (killed = {} => stale = 0)
    BY DEF CountInv
<1>2. /\ Cardinality(Holding') = Cardinality(Holding) + Joins(t)
      /\ Cardinality(Granting') = Cardinality(Granting) + Grants(t)
      /\ Cardinality(Writing') = Cardinality(Writing) + Writes(t)
      /\ Cardinality(Holding') \in Nat /\ Cardinality(Granting') \in Nat /\ Cardinality(Writing') \in Nat
    <2>1. \A S, T : IsFiniteSet(S) /\ T \ {t} = S \ {t} =>
                        /\ Cardinality(T) = Cardinality(S) + (Bit(t \in T) - Bit(t \in S))
                        /\ Cardinality(T) \in Nat
        BY CardChange DEF Bit
    <2> QED BY <2>1, OthersStay, SetsFinite DEF Joins, Grants, Writes
<1>3. Waiting' \in 0..1 /\ Waiting \in 0..1
    BY SMT DEF Waiting
<1>4. stale + left \in Nat /\ (killed' = {} => stale + left = 0)
    BY <1>1, SMT
<1>5. CountIs(stale + left)'
    <2>1. PICK h \in Nat, g \in Nat, w \in Nat, dh \in Int, dg \in Int, dw \in Int :
              /\ h = Cardinality(Holding) /\ g = Cardinality(Granting) /\ w = Cardinality(Writing)
              /\ dh = Joins(t) /\ dg = Grants(t) /\ dw = Writes(t)
        <3>1. /\ \A i, j \in {0, 1} : i - j \in Int
              /\ \A x, S : Bit(x \in S) \in {0, 1}
            BY SMT DEF Bit
        <3>2. Joins(t) \in Int /\ Grants(t) \in Int /\ Writes(t) \in Int
            BY <3>1 DEF Joins, Grants, Writes
        <3> QED BY <3>2, SetsFinite
    <2>2. PICK n \in Int, d \in Int : n = w + Waiting + stale /\ d = dw + (Waiting' - Waiting) + left
        <3>1. w + Waiting + stale \in Int /\ dw + (Waiting' - Waiting) + left \in Int
            BY <1>3, SMT
        <3> QED BY <3>1
    <2>3. count = h + g - (ActiveMask + 1) * n
        BY <1>1, <2>1, <2>2 DEF CountIs
    <2>4. count' = count + dh + dg - (ActiveMask + 1) * d
        BY <2>1, <2>2
    <2>5. (ActiveMask + 1) * (n + d) = (ActiveMask + 1) * n + (ActiveMask + 1) * d
          /\ (ActiveMask + 1) * n \in Int /\ (ActiveMask + 1) * d \in Int
        BY RwSemAssumption, SMT
    <2>6. n + d = (w + dw) + Waiting' + (stale + left)
        BY <1>3, <2>2, SMT
    <2>7. count' = (h + dh) + (g + dg) - (ActiveMask + 1) * (n + d)
        BY <2>3, <2>4, <2>5, SMT
    <2> QED BY <1>2, <2>1, <2>6, <2>7 DEF CountIs
<1> QED BY <1>4, <1>5 DEF CountInv

\* So does a step in which neither the count nor the sets change.
LEMMA CountStays ==
    ASSUME CountInv, NEW t \in Tasks, OnlyMoves(t), killed' = {} => killed = {},
           t \in Holding' <=> t \in Holding, t \in Granting' <=> t \in Granting,
           t \in Writing' <=> t \in Writing, Waiting' = Waiting, count' = count
    PROVE  CountInv'
<1>1. Joins(t) = 0 /\ Grants(t) = 0 /\ Writes(t) = 0
    BY SMT DEF Joins, Grants, Writes, Bit
<1>2. count \in Int /\ Waiting' \in 0..1 /\ Waiting \in 0..1 /\ ActiveMask \in Nat
    BY CountFacts, RwSemAssumption, SMT DEF Waiting
<1>3. count' = count + Joins(t) + Grants(t)
               - (ActiveMask + 1) * (Writes(t) + (Waiting' - Waiting) + 0)
    BY <1>1, <1>2, SMT
<1> QED BY <1>3, StepCount

------------------------------------------------------------------------------
\* Steps of one task t.

\* t goes on at l, in function f.
Moves(t, l, f) == pc' = [pc EXCEPT ![t] = l] /\ fn' = [fn EXCEPT ![t] = f]

\* wait_lock stays where it is, or t takes it, or t drops it.
LockMoves(t, l) ==
    \/ wait_lock' = wait_lock /\ (l \in LockPlaces <=> pc[t] \in LockPlaces)
    \/ wait_lock = NoTask /\ wait_lock' = t /\ l \in LockPlaces
    \/ pc[t] \in LockPlaces /\ wait_lock' = NoTask /\ l \notin LockPlaces

\* The list stays as it is, or nobody but t can hold wait_lock.
ListMoves(t, f) ==
    /\ wait_list' \in Seq(Tasks) /\ IsInjective(wait_list')
    /\ \A u \in Tasks \ {t} : u \in Range(wait_list') <=> u \in Range(wait_list)
    /\ \/ wait_list' = wait_list /\ (t \in Range(wait_list) => f = fn[t])
       \/ wait_lock = NoTask \/ pc[t] \in LockPlaces

\* What holds of t at its new place.
FitsAt(t, l) ==
    /\ FnOf(t)'
    /\ l \in WakePlaces => wait_list' # <<>>
    /\ l \in {"undo_grant", "grant"} => IsReader(Head(wait_list))'
    /\ l = "w_bias" => Range(wait_list') # {t}

\* The value for nobody is no task.
LEMMA NoTaskApart == NoTask \notin Tasks
    BY RwSemAssumption

\* A task that moves moves alone.
LEMMA MovesOnly ==
    ASSUME PlaceInv, NEW t \in Tasks, NEW l, NEW f, Moves(t, l, f), ListMoves(t, f)
    PROVE  OnlyMoves(t) /\ pc'[t] = l /\ fn'[t] = f
    BY DEF PlaceInv, Moves, ListMoves, OnlyMoves

\* Where wait_lock is, the others have no part in it.
LEMMA LockOthers ==
    ASSUME PlaceInv, NEW t \in Tasks, wait_lock = NoTask \/ pc[t] \in LockPlaces
    PROVE  \A u \in Tasks \ {t} : pc[u] \notin LockPlaces
    BY NoTaskApart DEF PlaceInv

\* A task that moves to a place that fits what it has and keeps the list and the lock right.
LEMMA MovePlaces ==
    ASSUME PlaceInv, NEW t \in Tasks, NEW l \in PCs, NEW f \in Fns, Moves(t, l, f),
           ListMoves(t, f), LockMoves(t, l), FitsAt(t, l)
    PROVE  PlaceInv'
<1>1. /\ pc' \in [Tasks -> PCs] /\ fn' \in [Tasks -> Fns] /\ pc'[t] = l /\ fn'[t] = f
      /\ \A u \in Tasks \ {t} : pc'[u] = pc[u] /\ fn'[u] = fn[u]
    BY DEF PlaceInv, Moves
<1> USE <1>1
<1>2. \A u \in Tasks : FnOf(u)'
    <2>1. ASSUME NEW u \in Tasks \ {t} PROVE FnOf(u)'
        <3>1. FnOf(u) /\ (u \in Range(wait_list') <=> u \in Range(wait_list))
            BY DEF PlaceInv, ListMoves
        <3> QED BY <3>1 DEF FnOf, Queued
    <2> QED BY <2>1 DEF FitsAt
<1>3. \A u \in Tasks : wait_lock' = u <=> pc'[u] \in LockPlaces
    <2>0. \A u \in Tasks : wait_lock = u <=> pc[u] \in LockPlaces
        BY DEF PlaceInv
    <2>1. CASE wait_lock' = wait_lock /\ (l \in LockPlaces <=> pc[t] \in LockPlaces)
        BY <2>0, <2>1
    <2>2. CASE wait_lock = NoTask /\ wait_lock' = t /\ l \in LockPlaces
        BY <2>2, LockOthers
    <2>3. CASE pc[t] \in LockPlaces /\ wait_lock' = NoTask /\ l \notin LockPlaces
        BY <2>3, NoTaskApart, LockOthers
    <2> QED BY <2>1, <2>2, <2>3 DEF LockMoves
<1>4. ASSUME NEW u \in Tasks, u # t, pc'[u] \in LockPlaces
      PROVE  /\ wait_list' = wait_list /\ pc[u] = pc'[u]
             /\ wait_list # <<>> => (IsReader(Head(wait_list))' <=> IsReader(Head(wait_list)))
    <2>1. pc[u] = pc'[u]
        BY <1>4
    <2>2. wait_list' = wait_list /\ (t \in Range(wait_list) => f = fn[t])
        BY <1>4, <2>1, LockOthers DEF ListMoves
    <2>3. wait_list # <<>> => Head(wait_list) \in Tasks /\ Head(wait_list) \in Range(wait_list)
        BY DelFirst DEF PlaceInv
    <2>4. wait_list # <<>> => fn'[Head(wait_list)] = fn[Head(wait_list)]
        BY <2>2, <2>3
    <2> QED BY <2>1, <2>2, <2>4 DEF IsReader
<1>5. "undo_grant" \in WakePlaces /\ "grant" \in WakePlaces /\ WakePlaces \subseteq LockPlaces /\ "w_bias" \in LockPlaces
    BY DEF WakePlaces, LockPlaces
<1>6. \A u \in Tasks : pc'[u] \in WakePlaces => wait_list' # <<>>
    BY <1>4, <1>5 DEF FitsAt, PlaceInv
<1>7. \A u \in Tasks : pc'[u] \in {"undo_grant", "grant"} => IsReader(Head(wait_list))'
    <2>1. ASSUME NEW u \in Tasks \ {t}, pc'[u] \in {"undo_grant", "grant"}
          PROVE  IsReader(Head(wait_list))'
        <3>1. pc'[u] \in WakePlaces /\ pc'[u] \in LockPlaces
            BY <1>5, <2>1
        <3> QED BY <1>4, <1>6, <2>1, <3>1 DEF PlaceInv
    <2> QED BY <2>1 DEF FitsAt
<1>8. \A u \in Tasks : pc'[u] = "w_bias" => Range(wait_list') # {u}
    BY <1>4, <1>5 DEF FitsAt, PlaceInv
<1> QED BY <1>2, <1>3, <1>6, <1>7, <1>8 DEF PlaceInv, ListMoves

\* What keeps a writer alone.
Alone == WritersExclude /\ NoWriterAtGrant

\* Writers stay alone when the moving task becomes no writer, or becomes one when nobody holds.
LEMMA MoveExcludes ==
    ASSUME Alone, NEW t \in Tasks, OnlyMoves(t),
           \/ /\ t \notin Writers'
              /\ t \in Readers' \/ pc'[t] = "grant" =>
                     t \in Readers \/ pc[t] = "grant" \/ Writers \subseteq {t}
           \/ t \in Writers' /\ (t \in Writers \/ (Holding = {} /\ Granting = {}))
    PROVE  Alone'
<1>1. /\ Readers' \ {t} = Readers \ {t} /\ Writers' \ {t} = Writers \ {t}
      /\ \A u \in Tasks \ {t} : pc'[u] = pc[u]
    BY OthersStay DEF OnlyMoves
<1> USE <1>1
<1>2. \A u \in Tasks : pc[u] = "grant" => u \in Granting \/ u \in Holding
    BY DEF Granting, Holding, Readers, Waking
<1>3. CASE t \notin Writers'
    <2>1. ASSUME NEW w \in Writers' PROVE w \in Writers /\ w # t /\ Writers = {w} /\ Readers = {}
        BY <1>3 DEF Alone, WritersExclude
    <2>2. ASSUME NEW w \in Writers'
          PROVE  t \notin Readers /\ pc[t] # "grant" /\ ~(Writers \subseteq {t})
        BY <2>1 DEF Alone, NoWriterAtGrant
    <2>3. ASSUME NEW w \in Writers'
          PROVE  t \notin Readers' /\ pc'[t] # "grant"
        BY <1>3, <2>2
    <2>4. WritersExclude'
        <3>1. ASSUME NEW w \in Writers' PROVE Writers' = {w} /\ Readers' = {}
            <4>1. w \in Writers /\ Writers = {w} /\ Readers = {} /\ t \notin Readers'
                BY <2>1, <2>3
            <4> QED BY <1>3, <4>1
        <3> QED BY <3>1 DEF WritersExclude
    <2>5. NoWriterAtGrant'
        BY <2>1, <2>3 DEF NoWriterAtGrant, Alone
    <2> QED BY <2>4, <2>5 DEF Alone
<1>4. CASE t \in Writers'
    <2>1. Writers \subseteq {t} /\ Readers = {} /\ \A u \in Tasks \ {t} : pc[u] # "grant"
        <3>1. CASE t \in Writers
            BY <3>1 DEF Alone, WritersExclude, NoWriterAtGrant
        <3>2. CASE Holding = {} /\ Granting = {}
            BY <1>2, <3>2 DEF Holding, Readers, Writers
        <3> QED BY <1>4, <3>1, <3>2
    <2>2. t \notin Readers' /\ pc'[t] # "grant"
        BY <1>4 DEF Writers, Readers, Waking
    <2>3. WritersExclude'
        BY <1>4, <2>1, <2>2 DEF WritersExclude
    <2>4. NoWriterAtGrant'
        BY <2>1, <2>2 DEF NoWriterAtGrant
    <2> QED BY <2>3, <2>4 DEF Alone
<1> QED BY <1>3, <1>4

------------------------------------------------------------------------------
\* The steps that change neither what t holds nor the list, wait_lock or the count.

Classes == {Apart, ReadWait, WriteWait, WritePlaces, {"w_state", "w_try"}, {"reading", "downgrade_wake"}}

\* A task may move between places that mean the same for the count, the list and the lock.
LEMMA QuietKeeps ==
    ASSUME IInv, NEW t \in Tasks, NEW C \in Classes, pc[t] \in C, NEW l \in C, Goto(t, l),
           UNCHANGED <<count, wait_list, wait_lock, fn>>, killed' = {} => killed = {}
    PROVE  IInv'
<1>0. PlaceInv /\ CountInv /\ Alone
    BY DEF IInv, Alone
<1> USE <1>0
<1>1. /\ l \in PCs /\ l \notin WakePlaces /\ l \notin {"w_bias", "r_failed", "w_undo"}
      /\ pc[t] \notin WakePlaces /\ pc[t] \notin {"w_bias", "r_failed", "w_undo"}
    BY DEF Classes, Apart, ReadWait, WriteWait, WritePlaces, PCs, WakePlaces
<1> USE <1>1
<1>2. /\ l \in ReadWait <=> pc[t] \in ReadWait
      /\ l \in WriteWait <=> pc[t] \in WriteWait
      /\ l \in WritePlaces <=> pc[t] \in WritePlaces
      /\ l \in LockPlaces <=> pc[t] \in LockPlaces
      /\ l \in {"reading", "downgrade_wake"} <=> pc[t] \in {"reading", "downgrade_wake"}
      /\ l \in {"w_state", "w_try", "w_bias"} <=> pc[t] \in {"w_state", "w_try", "w_bias"}
    BY DEF Classes, Apart, ReadWait, WriteWait, WritePlaces, LockPlaces, WakePlaces
<1> USE <1>2
<1>3. /\ fn[t] \in Fns /\ Moves(t, l, fn[t]) /\ pc'[t] = l /\ FnOf(t)
      /\ wait_list' \in Seq(Tasks) /\ IsInjective(wait_list')
    BY DEF PlaceInv, Moves, Goto
<1> USE <1>3
<1>4. ListMoves(t, fn[t]) /\ LockMoves(t, l)
    BY DEF ListMoves, LockMoves
<1>5. FitsAt(t, l)
    <2>1. FnOf(t)'
        BY DEF FnOf, Queued
    <2>2. l \notin {"undo_grant", "grant"} /\ l # "w_bias"
        BY DEF WakePlaces
    <2> QED BY <2>1, <2>2 DEF FitsAt
<1>6. PlaceInv' /\ OnlyMoves(t)
    BY <1>4, <1>5, MovePlaces, MovesOnly
<1> USE <1>6
<1>7. /\ t \in Readers' <=> t \in Readers
      /\ t \in Writers' <=> t \in Writers
      /\ t \in Granting' <=> t \in Granting
    <2>1. t \in Readers' <=> t \in Readers
        BY DEF Readers, Waking, WakePlaces, ReadWait, Queued
    <2>2. t \in Writers' <=> t \in Writers
        BY DEF Writers, WritePlaces
    <2>3. t \notin Granting' /\ t \notin Granting
        BY DEF Granting, WakePlaces
    <2> QED BY <2>1, <2>2, <2>3
<1>8. /\ t \in Holding' <=> t \in Holding
      /\ t \in Writing' <=> t \in Writing
    BY <1>7 DEF Holding, Writing
<1>9. Waiting' = Waiting
    <2>1. \A u \in Tasks : pc'[u] = "w_bias" <=> pc[u] = "w_bias"
        BY DEF OnlyMoves
    <2> QED BY <2>1 DEF Waiting
<1>10. CountInv'
    BY <1>7, <1>8, <1>9, CountStays
<1>11. Alone'
    <2>1. pc'[t] # "grant"
        BY DEF WakePlaces
    <2> QED BY <1>7, <2>1, MoveExcludes
<1> QED BY <1>10, <1>11 DEF IInv, Alone

------------------------------------------------------------------------------
\* The steps that change the count outside wait_lock.

\* What the place of a task says of the sets it is in.
Roles(t) ==
    /\ t \in Writers <=> pc[t] \in WritePlaces \/ pc[t] = "w_bias"
    /\ t \in Readers <=> \/ pc[t] \in {"reading", "downgrade_wake"}
                         \/ pc[t] \in WakePlaces /\ fn[t] = "downgrade_wake"
                         \/ pc[t] \in ReadWait /\ ~Queued(t)
                         \/ pc[t] \in WakePlaces /\ fn[t] = "read_failed" /\ ~Queued(t)
    /\ t \in Granting <=> pc[t] = "undo_grant" \/ (pc[t] = "grant" /\ fn[t] # "downgrade_wake")
    /\ t \in Holding <=> t \in Readers \/ t \in Writers \/ pc[t] \in {"r_failed", "w_undo"}
    /\ t \in Writing <=> t \in Writers \/ pc[t] = "w_undo"

\* It does, before and after a step.
LEMMA RoleDefs ==
    ASSUME NEW t \in Tasks
    PROVE  Roles(t) /\ Roles(t)'
<1>1. Roles(t)
    BY DEF Roles, Writers, WritePlaces, Readers, Waking, WakePlaces, ReadWait, Granting, Holding, Writing
<1>2. Roles(t)'
    BY DEF Roles, Writers, WritePlaces, Readers, Waking, WakePlaces, ReadWait, Granting, Holding, Writing
<1> QED BY <1>1, <1>2

\* The places of tasks that are not queued and in no section of wait_lock.
Loose == Apart \cup WritePlaces \cup {"reading", "downgrade_wake", "r_failed", "w_undo"}

\* The places off the list and outside wait_lock are none of the others.
LEMMA LooseApart ==
    ASSUME NEW l \in Loose
    PROVE  /\ l \in PCs /\ l \notin ReadWait /\ l \notin WriteWait /\ l \notin LockPlaces
           /\ l \notin WakePlaces /\ l # "w_bias" /\ l # "undo_grant" /\ l # "grant"
           /\ l \notin {"w_state", "w_try", "w_bias"}
    BY DEF Loose, Apart, WritePlaces, PCs, ReadWait, WriteWait, LockPlaces, WakePlaces

Bearing(l) == l \in WritePlaces \/ l \in {"reading", "downgrade_wake", "r_failed", "w_undo"}

\* The fast paths and the steps of a spinner.
LEMMA FastKeeps ==
    ASSUME IInv, NEW t \in Tasks,
           \/ DownRead(t) \/ DownReadTrylock(t) \/ DownWriteTrylock(t)
           \/ \E st \in WriteStates : DownWrite(t, st)
           \/ UpRead(t) \/ UpWrite(t) \/ DowngradeWrite(t) \/ WriteUndo(t) \/ TryUnqueued(t)
    PROVE  IInv'
<1>0. PlaceInv /\ CountInv /\ Alone
    BY DEF IInv, Alone
<1> USE <1>0
<1>1. CountInv /\ count \in Int /\ ActiveMask \in Nat
    BY CountFacts, RwSemAssumption
<1> USE <1>1
\* What a move between such places does.
<1>loose. ASSUME pc[t] \in Loose, NEW l \in Loose, Goto(t, l), UNCHANGED <<wait_list, wait_lock, fn>>
      PROVE  /\ PlaceInv' /\ OnlyMoves(t) /\ Waiting' = Waiting /\ pc'[t] = l /\ pc'[t] # "grant"
             /\ t \notin Granting /\ t \notin Granting'
             /\ t \in Holding <=> Bearing(pc[t])
             /\ t \in Holding' <=> Bearing(l)
             /\ t \in Writing <=> pc[t] \in WritePlaces \/ pc[t] = "w_undo"
             /\ t \in Writing' <=> l \in WritePlaces \/ l = "w_undo"
             /\ t \in Readers' <=> l \in {"reading", "downgrade_wake"}
             /\ t \in Writers' <=> l \in WritePlaces
             /\ t \in Writers <=> pc[t] \in WritePlaces
    <2> USE <1>loose
    <2>1. /\ fn[t] \in Fns /\ Moves(t, l, fn[t]) /\ pc'[t] = l /\ FnOf(t) /\ fn'[t] = fn[t]
          /\ wait_list' \in Seq(Tasks) /\ IsInjective(wait_list')
        BY DEF PlaceInv, Moves, Goto
    <2> USE <2>1
    <2>2. fn[t] = "none" /\ ~Queued(t)
        BY LooseApart DEF FnOf
    <2>3. FitsAt(t, l)
        <3>1. FnOf(t)'
            BY <2>2, LooseApart DEF FnOf, Queued
        <3> QED BY <3>1, LooseApart DEF FitsAt
    <2>4. ListMoves(t, fn[t]) /\ LockMoves(t, l)
        BY LooseApart DEF ListMoves, LockMoves
    <2>5. PlaceInv' /\ OnlyMoves(t)
        BY <2>3, <2>4, LooseApart, MovePlaces, MovesOnly
    <2>6. Waiting' = Waiting
        <3>1. \A u \in Tasks : pc'[u] = "w_bias" <=> pc[u] = "w_bias"
            BY <2>5, LooseApart DEF OnlyMoves
        <3> QED BY <3>1 DEF Waiting
    <2>7. /\ t \notin Granting /\ t \notin Granting'
          /\ t \in Writers' <=> l \in WritePlaces
          /\ t \in Writers <=> pc[t] \in WritePlaces
          /\ t \in Readers' <=> l \in {"reading", "downgrade_wake"}
          /\ t \in Readers <=> pc[t] \in {"reading", "downgrade_wake"}
        BY RoleDefs, LooseApart DEF Roles
    <2>8. /\ t \in Holding <=> Bearing(pc[t])
          /\ t \in Holding' <=> Bearing(l)
          /\ t \in Writing <=> pc[t] \in WritePlaces \/ pc[t] = "w_undo"
          /\ t \in Writing' <=> l \in WritePlaces \/ l = "w_undo"
        BY <2>7, RoleDefs DEF Roles, Bearing
    <2> QED BY <2>5, <2>6, <2>7, <2>8, LooseApart
\* A reader's bias comes or goes.
<1>reader. ASSUME OnlyMoves(t), UNCHANGED killed, Waiting' = Waiting,
             t \in Granting' <=> t \in Granting, t \in Writing' <=> t \in Writing,
             \/ t \in Holding' /\ t \notin Holding /\ count' = count + ReadBias
             \/ t \notin Holding' /\ t \in Holding /\ count' = count - ReadBias
      PROVE  CountInv'
    <2> USE <1>reader
    <2>1. /\ Grants(t) = 0 /\ Writes(t) = 0
          /\ \/ Joins(t) = 1 /\ count' = count + 1
             \/ Joins(t) = -1 /\ count' = count - 1
        BY SMT DEF Joins, Grants, Writes, Bit, ReadBias
    <2>2. count \in Int /\ Waiting' \in 0..1 /\ Waiting \in 0..1 /\ ActiveMask \in Nat
        BY CountFacts, RwSemAssumption, SMT DEF Waiting
    <2>3. count' = count + Joins(t) + Grants(t)
                   - (ActiveMask + 1) * (Writes(t) + (Waiting' - Waiting) + 0)
        BY <2>1, <2>2, SMT
    <2> QED BY <2>3, StepCount
\* A writer's bias comes or goes.
<1>writer. ASSUME OnlyMoves(t), UNCHANGED killed, Waiting' = Waiting,
             t \in Granting' <=> t \in Granting,
             \/ /\ t \in Holding' /\ t \notin Holding /\ t \in Writing' /\ t \notin Writing
                /\ count' = count + WriteBias
             \/ /\ t \notin Holding' /\ t \in Holding /\ t \notin Writing' /\ t \in Writing
                /\ count' = count - WriteBias
      PROVE  CountInv'
    <2> USE <1>writer
    <2>1. /\ Grants(t) = 0
          /\ \/ Joins(t) = 1 /\ Writes(t) = 1 /\ count' = count - ActiveMask
             \/ Joins(t) = -1 /\ Writes(t) = -1 /\ count' = count + ActiveMask
        BY CountFacts, RwSemAssumption, SMT DEF Joins, Grants, Writes, Bit, WriteBias, WaitingBias
    <2>2. count \in Int /\ Waiting' \in 0..1 /\ Waiting \in 0..1 /\ ActiveMask \in Nat
        BY CountFacts, RwSemAssumption, SMT DEF Waiting
    <2>3. count' = count + Joins(t) + Grants(t)
                   - (ActiveMask + 1) * (Writes(t) + (Waiting' - Waiting) + 0)
        BY <2>1, <2>2, SMT
    <2> QED BY <2>3, StepCount
\* The writer becomes a reader.
<1>down. ASSUME OnlyMoves(t), UNCHANGED killed, Waiting' = Waiting,
             t \in Granting' <=> t \in Granting, t \in Holding' <=> t \in Holding,
             t \notin Writing', t \in Writing, count' = count - WaitingBias
      PROVE  CountInv'
    <2> USE <1>down
    <2>1. Grants(t) = 0 /\ Joins(t) = 0 /\ Writes(t) = -1 /\ count' = count + ActiveMask + 1
        BY CountFacts, RwSemAssumption, SMT DEF Joins, Grants, Writes, Bit, WaitingBias
    <2>2. count \in Int /\ Waiting' \in 0..1 /\ Waiting \in 0..1 /\ ActiveMask \in Nat
        BY CountFacts, RwSemAssumption, SMT DEF Waiting
    <2>3. count' = count + Joins(t) + Grants(t)
                   - (ActiveMask + 1) * (Writes(t) + (Waiting' - Waiting) + 0)
        BY <2>1, <2>2, SMT
    <2> QED BY <2>3, StepCount
<1> DEFINE In(k, l) == /\ pc[t] = k /\ k \in Loose /\ l \in Loose /\ Goto(t, l)
                       /\ UNCHANGED <<wait_list, wait_lock, fn, killed>>
<1>2. ASSUME NEW k \in Apart, NEW l \in {"reading", "r_failed"}, In(k, l), count' = count + ReadBias,
             l = "reading" => Writing = {}
      PROVE  IInv'
    <2>1. ~Bearing(k) /\ Bearing(l) /\ k \notin WritePlaces /\ k # "w_undo" /\ l \notin WritePlaces /\ l # "w_undo"
        BY DEF Bearing, Apart, WritePlaces
    <2>2. CountInv' /\ PlaceInv'
        BY <1>2, <2>1, <1>loose, <1>reader
    <2>3. l = "reading" => Writers = {}
        BY <1>2 DEF Writing, Writers
    <2>4. Alone'
        BY <1>2, <2>1, <2>3, <1>loose, MoveExcludes
    <2> QED BY <2>2, <2>4 DEF IInv, Alone
<1>3. ASSUME NEW k \in Apart, NEW l \in WritePlaces \cup {"w_undo"}, In(k, l), count' = count + WriteBias,
             l # "w_undo" => Holding = {} /\ Granting = {}
      PROVE  IInv'
    <2>1. ~Bearing(k) /\ Bearing(l) /\ k \notin WritePlaces /\ k # "w_undo"
        BY DEF Bearing, Apart, WritePlaces
    <2>2. CountInv' /\ PlaceInv'
        BY <1>3, <2>1, <1>loose, <1>writer
    <2>3. l \notin {"reading", "downgrade_wake"} /\ "w_undo" \notin WritePlaces
        BY DEF WritePlaces
    <2>4. Alone'
        BY <1>3, <2>1, <2>3, <1>loose, MoveExcludes
    <2> QED BY <2>2, <2>4 DEF IInv, Alone
<1>4. ASSUME NEW l \in Apart, NEW k, In(k, l),
             \/ k = "reading" /\ count' = count - ReadBias
             \/ k \in {"up_write", "w_undo"} /\ count' = count - WriteBias
      PROVE  IInv'
    <2>1. ~Bearing(l) /\ Bearing(k) /\ l \notin WritePlaces /\ l # "w_undo"
          /\ l \notin {"reading", "downgrade_wake"}
        BY <1>4 DEF Bearing, Apart, WritePlaces
    <2>2. \/ k \notin WritePlaces /\ k # "w_undo" /\ count' = count - ReadBias
          \/ (k \in WritePlaces \/ k = "w_undo") /\ count' = count - WriteBias
        BY <1>4 DEF WritePlaces
    <2>3. CountInv' /\ PlaceInv'
        BY <1>4, <2>1, <2>2, <1>loose, <1>reader, <1>writer
    <2>4. Alone'
        BY <1>4, <2>1, <1>loose, MoveExcludes
    <2> QED BY <2>3, <2>4 DEF IInv, Alone
<1>5. ASSUME NEW l \in {"downgrade_wake", "reading"}, In("downgrade", l), count' = count - WaitingBias
      PROVE  IInv'
    <2>1. Bearing(l) /\ Bearing("downgrade") /\ l \notin WritePlaces /\ l # "w_undo" /\ "downgrade" \in WritePlaces
        BY DEF Bearing, WritePlaces
    <2>2. CountInv' /\ PlaceInv'
        BY <1>5, <2>1, <1>loose, <1>down
    <2>3. Writers \subseteq {t}
        BY <1>5, <2>1, <1>loose DEF Alone, WritersExclude
    <2>4. Alone'
        BY <1>5, <2>1, <2>3, <1>loose, MoveExcludes
    <2> QED BY <2>2, <2>4 DEF IInv, Alone
<1>6. /\ "out" \in Apart /\ "try" \in Apart /\ "wake" \in Apart /\ "can_spin" \in Apart
      /\ Apart \subseteq Loose /\ WritePlaces \subseteq Loose
      /\ {"reading", "r_failed", "downgrade_wake", "w_undo"} \subseteq Loose
      /\ {"w_owner", "spin_owner", "up_write", "downgrade"} \subseteq WritePlaces
    BY DEF Apart, Loose, WritePlaces
<1> USE <1>6
<1>7. CASE DownRead(t)
    <2>1. count' = count + ReadBias /\ (~(count' <= 0) => count >= 0)
        BY <1>7, SMT DEF DownRead, ReadBias
    <2>2. PICK l \in {"reading", "r_failed"} : In("out", l) /\ (l = "reading" => count >= 0)
        BY <1>7, <2>1 DEF DownRead, Caller, At, wait, local
    <2> QED BY <1>2, <2>1, <2>2, CountFacts
<1>8. CASE DownReadTrylock(t)
    <2>1. In("out", "reading") /\ count' = count + ReadBias /\ count >= 0
        BY <1>8 DEF DownReadTrylock, Caller, At, wait, local
    <2> QED BY <1>2, <2>1, CountFacts
<1>9. CASE DownWriteTrylock(t)
    <2>1. In("out", "w_owner") /\ count \in {0, WaitingBias} /\ "w_owner" # "w_undo"
        BY <1>9 DEF DownWriteTrylock, Caller, At, wait, local
    <2>2. count' = count + WriteBias
        BY <1>9, SMT DEF DownWriteTrylock, WriteBias, WaitingBias
    <2> QED BY <1>3, <2>1, <2>2, CountFacts
<1>10. ASSUME NEW st, DownWrite(t, st) PROVE IInv'
    <2>1. count' = count + WriteBias /\ (count' = WriteBias => count = 0)
        BY <1>10, SMT DEF DownWrite, WriteBias, WaitingBias
    <2>2. PICK l \in {"w_owner", "w_undo"} : In("out", l) /\ (l # "w_undo" => count \in {0, WaitingBias})
        BY <1>10, <2>1 DEF DownWrite, Caller, At, wait
    <2> QED BY <1>3, <2>1, <2>2, CountFacts
<1>11. CASE UpRead(t)
    <2>1. PICK l \in {"wake", "out"} : In("reading", l) /\ count' = count - ReadBias
        BY <1>11 DEF UpRead, At, wait, local
    <2> QED BY <1>4, <2>1
<1>12. CASE UpWrite(t)
    <2>1. PICK l \in {"wake", "out"} : In("up_write", l) /\ count' = count - WriteBias
        BY <1>12 DEF UpWrite, At, wait, local
    <2> QED BY <1>4, <2>1
<1>13. CASE WriteUndo(t)
    <2>1. In("w_undo", "can_spin") /\ count' = count - WriteBias
        BY <1>13 DEF WriteUndo, At, wait, local
    <2> QED BY <1>4, <2>1
<1>14. CASE DowngradeWrite(t)
    <2>1. PICK l \in {"downgrade_wake", "reading"} : In("downgrade", l) /\ count' = count - WaitingBias
        BY <1>14 DEF DowngradeWrite, At, wait, local
    <2> QED BY <1>5, <2>1
<1>15. CASE TryUnqueued(t)
    <2>1. In("try", "spin_owner") /\ count \in {0, WaitingBias} /\ count' = count + WriteBias
          /\ "spin_owner" # "w_undo"
        BY <1>15 DEF TryUnqueued, At, wait, local
    <2> QED BY <1>3, <2>1, CountFacts
<1> QED BY <1>7, <1>8, <1>9, <1>10, <1>11, <1>12, <1>13, <1>14, <1>15

------------------------------------------------------------------------------
\* The steps under wait_lock.

\* Where a task holds nothing and grants nothing.
Idle == Apart \cup WriteWait \cup {"w_state", "w_try"}
Nothing(t) == t \notin Readers /\ t \notin Writers /\ t \notin Holding /\ t \notin Writing /\ t \notin Granting

\* The places of tasks that hold nothing are none of the others.
LEMMA IdleApart ==
    ASSUME NEW l \in Idle
    PROVE  /\ l \in PCs /\ l \notin WritePlaces /\ l \notin ReadWait /\ l \notin WakePlaces
           /\ l \notin {"reading", "downgrade_wake"} /\ l \notin {"r_failed", "w_undo"}
           /\ l # "w_bias" /\ l # "undo_grant" /\ l # "grant"
    BY DEF Idle, Apart, WriteWait, PCs, WritePlaces, ReadWait, WakePlaces

\* A task at such a place is in none of the sets.
LEMMA IdleRole ==
    ASSUME NEW t \in Tasks
    PROVE  /\ pc[t] \in Idle => Nothing(t)
           /\ pc'[t] \in Idle => Nothing(t)'
<1>1. ASSUME pc[t] \in Idle PROVE Nothing(t)
    BY <1>1, IdleApart, RoleDefs DEF Roles, Nothing
<1>2. ASSUME pc'[t] \in Idle PROVE Nothing(t)'
    BY <1>2, IdleApart, RoleDefs DEF Roles, Nothing
<1> QED BY <1>1, <1>2

\* In __rwsem_do_wake() only the caller that downgraded holds the semaphore.
WakerHolds(t) ==
    /\ t \in Readers <=> fn[t] = "downgrade_wake"
    /\ t \in Holding <=> fn[t] = "downgrade_wake"
    /\ t \in Granting <=> pc[t] = "undo_grant" \/ (pc[t] = "grant" /\ fn[t] # "downgrade_wake")
    /\ t \notin Writers /\ t \notin Writing

\* The places of __rwsem_do_wake() are none of the others.
LEMMA WakePlacesApart ==
    ASSUME NEW l \in WakePlaces
    PROVE  /\ l \in PCs /\ l \notin WritePlaces /\ l \notin ReadWait /\ l \notin WriteWait /\ l \in LockPlaces
           /\ l \notin {"reading", "downgrade_wake"} /\ l \notin {"r_failed", "w_undo"}
           /\ l \notin {"w_state", "w_try", "w_bias"} /\ l # "w_bias" /\ l # "w_undo"
    BY DEF WakePlaces, WriteWait, PCs, WritePlaces, ReadWait, LockPlaces

\* A task in __rwsem_do_wake() holds what its caller holds.
LEMMA WakerRole ==
    ASSUME NEW t \in Tasks
    PROVE  /\ PlaceInv /\ pc[t] \in WakePlaces => WakerHolds(t)
           /\ PlaceInv' /\ pc'[t] \in WakePlaces => WakerHolds(t)'
<1>1. ASSUME PlaceInv, pc[t] \in WakePlaces PROVE WakerHolds(t)
    <2>1. fn[t] = "read_failed" => Queued(t)
        BY <1>1 DEF PlaceInv, FnOf
    <2>2. t \in Readers <=> fn[t] = "downgrade_wake"
        BY <1>1, <2>1, WakePlacesApart, RoleDefs DEF Roles
    <2>3. t \notin Writers
        BY <1>1, WakePlacesApart, RoleDefs DEF Roles
    <2> QED BY <1>1, <2>2, <2>3, WakePlacesApart, RoleDefs DEF Roles, WakerHolds
<1>2. ASSUME PlaceInv', pc'[t] \in WakePlaces PROVE WakerHolds(t)'
    <2>1. fn'[t] = "read_failed" => Queued(t)'
        BY <1>2 DEF PlaceInv, FnOf
    <2>2. t \in Readers' <=> fn'[t] = "downgrade_wake"
        BY <1>2, <2>1, WakePlacesApart, RoleDefs DEF Roles
    <2>3. t \notin Writers'
        BY <1>2, WakePlacesApart, RoleDefs DEF Roles
    <2> QED BY <1>2, <2>2, <2>3, WakePlacesApart, RoleDefs DEF Roles, WakerHolds
<1> QED BY <1>1, <1>2

\* FnOf as a condition on the new place, function and membership in the list.
FnAt(l, f, q) ==
    /\ l \in ReadWait => f = "read_failed"
    /\ l \in WriteWait \cup {"w_state", "w_try", "w_bias"} => f = "write_failed"
    /\ l \in WakePlaces => f # "none"
    /\ f # "none" => l \in ReadWait \cup WriteWait \cup LockPlaces
    /\ f = "write_failed" => q
    /\ f = "read_failed" /\ l \in WakePlaces => q
    /\ q => f \in {"read_failed", "write_failed"}

\* What Waiting is while no other task is at w_bias.
LEMMA WaitingBit ==
    ASSUME PlaceInv, NEW t \in Tasks, OnlyMoves(t), wait_lock = NoTask \/ pc[t] \in LockPlaces
    PROVE  /\ Waiting = Bit(wait_list # <<>> /\ pc[t] # "w_bias")
           /\ Waiting' = Bit(wait_list' # <<>> /\ pc'[t] # "w_bias")
<1>1. \A u \in Tasks \ {t} : pc[u] # "w_bias" /\ pc'[u] # "w_bias"
    <2>1. "w_bias" \in LockPlaces
        BY DEF LockPlaces
    <2> QED BY <2>1, LockOthers DEF OnlyMoves
<1>2. (\A u \in Tasks : pc[u] # "w_bias") <=> pc[t] # "w_bias"
    BY <1>1
<1>3. (\A u \in Tasks : pc'[u] # "w_bias") <=> pc'[t] # "w_bias"
    BY <1>1
<1> QED BY <1>2, <1>3 DEF Waiting, Bit

\* Where the list stays and no one enters or leaves w_bias, Waiting stays.
LEMMA WaitingStays ==
    ASSUME NEW t \in Tasks, OnlyMoves(t), wait_list' = wait_list, pc[t] # "w_bias", pc'[t] # "w_bias"
    PROVE  Waiting' = Waiting
<1>1. (\A u \in Tasks : pc'[u] # "w_bias") <=> (\A u \in Tasks : pc[u] # "w_bias")
    BY DEF OnlyMoves
<1> QED BY <1>1 DEF Waiting

\* The list as it is fits every step of ListMoves that keeps a queued task's function.
LEMMA ListStays ==
    ASSUME PlaceInv, NEW t \in Tasks, NEW f, UNCHANGED wait_list, Queued(t) => f = fn[t]
    PROVE  ListMoves(t, f)
    BY DEF PlaceInv, ListMoves, Queued

\* Steps under wait_lock that change neither the count nor what t holds.
LEMMA LockedKeeps ==
    ASSUME IInv, NEW t \in Tasks, NEW l \in PCs, NEW f \in Fns, Moves(t, l, f), LockMoves(t, l),
           UNCHANGED <<wait_list, count, killed>>, Queued(t) => f = fn[t],
           FnAt(l, f, t \in Range(wait_list)),
           l \in WakePlaces => wait_list # <<>>, l \notin {"undo_grant", "grant"},
           pc[t] # "w_bias", l # "w_bias",
           PlaceInv' => /\ t \in Holding' <=> t \in Holding
                        /\ t \in Granting' <=> t \in Granting
                        /\ t \notin Writing /\ t \notin Writing' /\ t \notin Writers'
                        /\ t \in Readers' => t \in Readers
    PROVE  IInv'
<1>0. PlaceInv /\ CountInv /\ Alone
    BY DEF IInv, Alone
<1> USE <1>0
<1>1. ListMoves(t, f)
    BY ListStays
<1>2. OnlyMoves(t) /\ pc'[t] = l /\ fn'[t] = f
    BY <1>1, MovesOnly
<1> USE <1>2
<1>3. FitsAt(t, l)
    <2>1. wait_list' = wait_list
        OBVIOUS
    <2>2. FnOf(t)'
        BY <2>1 DEF FnAt, FnOf, Queued
    <2> QED BY <2>1, <2>2 DEF FitsAt
<1>4. PlaceInv'
    BY <1>1, <1>3, MovePlaces
<1>5. Waiting' = Waiting
    BY WaitingStays
<1>6. CountInv'
    BY <1>4, <1>5, CountStays
<1>7. Alone'
    BY <1>4, MoveExcludes
<1> QED BY <1>4, <1>6, <1>7 DEF IInv, Alone

\* __rwsem_do_wake() returns and the list stays as it is.
LEMMA ReturnMoves ==
    ASSUME PlaceInv, NEW t \in Tasks, pc[t] \in WakePlaces, Return(t), UNCHANGED wait_list
    PROVE  /\ PlaceInv' /\ OnlyMoves(t) /\ Waiting' = Waiting /\ pc'[t] # "grant"
           /\ t \in Holding' <=> t \in Holding
           /\ t \in Readers' => t \in Readers
           /\ t \notin Writers' /\ t \notin Writing' /\ t \notin Granting'
<1> DEFINE l == AfterWake(t)
           f == IF fn[t] \in {"read_failed", "write_failed"} THEN fn[t] ELSE "none"
<1>1. Moves(t, l, f) /\ wait_lock' = (IF fn[t] = "write_failed" THEN t ELSE NoTask)
    BY DEF Return, Goto, Enter, Moves
<1>2. /\ fn[t] \in Fns \ {"none"} /\ WakerHolds(t) /\ FnOf(t)
      /\ wait_lock = t /\ pc[t] \in LockPlaces /\ pc[t] # "w_bias"
    BY WakerRole, WakePlacesApart DEF PlaceInv, FnOf
<1> USE <1>2
<1>3. /\ fn[t] = "read_failed" => l = "r_state" /\ f = "read_failed" /\ Queued(t)
      /\ fn[t] = "write_failed" => l = "w_state" /\ f = "write_failed" /\ Queued(t)
      /\ fn[t] = "wake" => l = "out" /\ f = "none" /\ ~Queued(t)
      /\ fn[t] = "downgrade_wake" => l = "reading" /\ f = "none" /\ ~Queued(t)
      /\ fn[t] \in {"read_failed", "write_failed", "wake", "downgrade_wake"}
    BY DEF AfterWake, FnOf, Fns
<1> USE <1>3
<1> HIDE DEF l, f
<1>4. /\ l \in PCs /\ f \in Fns /\ l \notin WakePlaces /\ l # "w_bias" /\ l # "grant" /\ l # "undo_grant"
      /\ l \in LockPlaces <=> fn[t] = "write_failed"
    BY DEF PCs, Fns, WakePlaces, LockPlaces
<1> USE <1>4
<1>5. FnAt(l, f, Queued(t))
    BY DEF FnAt, ReadWait, WriteWait, WakePlaces, LockPlaces
<1>6. LockMoves(t, l)
    BY <1>1 DEF LockMoves
<1>7. ListMoves(t, f)
    <2>1. Queued(t) => f = fn[t]
        BY SMT
    <2> QED BY <2>1, ListStays
<1>8. OnlyMoves(t) /\ pc'[t] = l /\ fn'[t] = f
    BY <1>1, <1>7, MovesOnly
<1> USE <1>8
<1>9. FnOf(t)' /\ (Queued(t)' <=> Queued(t))
    BY <1>5 DEF FnAt, FnOf, Queued
<1>10. PlaceInv'
    <2>1. FitsAt(t, l)
        BY <1>9 DEF FitsAt
    <2> QED BY <1>1, <1>6, <1>7, <2>1, MovePlaces
<1>11. Waiting' = Waiting
    BY WaitingStays
<1>12. CASE fn[t] = "read_failed"
    <2>1. l \notin WritePlaces /\ l \in ReadWait /\ l \notin {"reading", "downgrade_wake"}
          /\ l \notin {"r_failed", "w_undo"} /\ l # "w_undo"
        BY <1>12 DEF WritePlaces, ReadWait
    <2>2. fn[t] # "downgrade_wake" /\ Queued(t)
        BY <1>12
    <2>3. Nothing(t)'
        BY <1>9, <2>1, <2>2, RoleDefs DEF Roles, Nothing
    <2> QED BY <1>10, <1>11, <2>2, <2>3 DEF Nothing, WakerHolds
<1>13. CASE fn[t] \in {"write_failed", "wake"}
    <2>1. l \in Idle /\ fn[t] # "downgrade_wake"
        BY <1>13 DEF Idle, Apart
    <2>2. Nothing(t)'
        BY <2>1, IdleRole
    <2> QED BY <1>10, <1>11, <2>1, <2>2 DEF Nothing, WakerHolds
<1>14. CASE fn[t] = "downgrade_wake"
    <2>1. l = "reading" /\ l \notin WritePlaces /\ l \in {"reading", "downgrade_wake"} /\ l # "w_undo"
        BY <1>14 DEF WritePlaces
    <2>2. t \in Readers' /\ t \in Holding' /\ t \notin Writers' /\ t \notin Writing' /\ t \notin Granting'
        BY <2>1, RoleDefs DEF Roles
    <2> QED BY <1>10, <1>11, <1>14, <2>2 DEF WakerHolds
<1> QED BY <1>12, <1>13, <1>14

\* __rwsem_do_wake() up to the grant.
LEMMA WakeKeeps ==
    ASSUME IInv, NEW t \in Tasks, WakeWriter(t) \/ TryReaderGrant(t) \/ UndoGrant(t)
    PROVE  IInv'
<1>0. PlaceInv /\ CountInv /\ Alone /\ count \in Int /\ ActiveMask \in Nat
    BY CountFacts, RwSemAssumption DEF IInv, Alone
<1> USE <1>0
<1>1. pc[t] \in WakePlaces /\ pc[t] \in {"do_wake", "undo_grant"}
    BY DEF WakeWriter, TryReaderGrant, UndoGrant, At, WakePlaces
<1> USE <1>1
<1>2. /\ WakerHolds(t) /\ wait_lock = t /\ pc[t] \in LockPlaces /\ pc[t] # "w_bias"
      /\ wait_list # <<>> /\ FnOf(t) /\ fn[t] \in Fns \ {"none"}
    BY WakerRole, WakePlacesApart DEF PlaceInv, FnOf
<1> USE <1>2
<1>3. CASE WakeWriter(t)
    <2>1. Return(t) /\ UNCHANGED <<wait_list, count, killed>> /\ pc[t] = "do_wake"
        BY <1>3 DEF WakeWriter, At
    <2> USE <2>1
    <2>2. t \notin Granting
        BY DEF WakerHolds
    <2>3. CountInv'
        BY <2>2, ReturnMoves, CountStays DEF WakerHolds
    <2>4. Alone'
        BY ReturnMoves, MoveExcludes
    <2> QED BY <2>3, <2>4, ReturnMoves DEF IInv, Alone
\* The tentative bias comes or goes.
<1>4. ASSUME OnlyMoves(t), UNCHANGED killed, Waiting' = Waiting, t \in Holding' <=> t \in Holding,
             t \notin Writing',
             \/ t \in Granting' /\ t \notin Granting /\ count' = count + ReadBias
             \/ t \notin Granting' /\ t \in Granting /\ count' = count - ReadBias
      PROVE  CountInv'
    <2>0. t \notin Writing
        BY DEF WakerHolds
    <2>1. Joins(t) = 0 /\ Writes(t) = 0
        BY <1>4, <2>0, SMT DEF Joins, Writes, Bit
    <2>2. Grants(t) = (IF t \in Granting' THEN 1 ELSE -1)
        BY <1>4, SMT DEF Grants, Bit
    <2>3. Waiting \in 0..1
        BY SetsFinite
    <2>4. count' = count + Joins(t) + Grants(t)
                   - (ActiveMask + 1) * (Writes(t) + (Waiting' - Waiting) + 0)
        <3>1. Writes(t) + (Waiting' - Waiting) + 0 = 0 /\ (ActiveMask + 1) * 0 = 0
            BY <1>4, <2>1, <2>3, SMT
        <3> QED BY <1>4, <2>1, <2>2, <3>1, SMT DEF ReadBias
    <2> QED BY <1>4, <2>4, StepCount
<1>5. CASE TryReaderGrant(t)
    <2>1. pc[t] = "do_wake" /\ IsReader(Head(wait_list)) /\ UNCHANGED <<wait_list, wait_lock, fn, killed>>
        BY <1>5 DEF TryReaderGrant, At, wait, local
    <2> USE <2>1
    <2>2. PICK l \in {"undo_grant", "grant"} :
             /\ Goto(t, l)
             /\ \/ fn[t] = "downgrade_wake" /\ l = "grant" /\ count' = count
                \/ /\ fn[t] # "downgrade_wake" /\ count' = count + ReadBias
                   /\ l = "grant" => ~(count < WaitingBias)
        BY <1>5 DEF TryReaderGrant
    <2> USE <2>2
    <2>3. l \in WakePlaces /\ l # "w_bias" /\ l \in PCs /\ l \in LockPlaces
        BY DEF WakePlaces, PCs, LockPlaces
    <2> USE <2>3
    <2>4. Moves(t, l, fn[t])
        BY DEF PlaceInv, Moves, Goto
    <2>5. ListMoves(t, fn[t]) /\ OnlyMoves(t) /\ pc'[t] = l /\ fn'[t] = fn[t]
        BY <2>4, ListStays, MovesOnly
    <2> USE <2>5
    <2>6. FitsAt(t, l)
        <3>1. pc[t] \notin ReadWait /\ pc[t] \notin WriteWait \cup {"w_state", "w_try", "w_bias"}
              /\ l \notin ReadWait /\ l \notin WriteWait \cup {"w_state", "w_try", "w_bias"}
            BY WakePlacesApart
        <3>2. FnOf(t)'
            BY <3>1 DEF FnOf, Queued, LockPlaces
        <3>3. IsReader(Head(wait_list))'
            BY DEF IsReader
        <3> QED BY <3>2, <3>3 DEF FitsAt
    <2>7. PlaceInv'
        <3>1. LockMoves(t, l) /\ fn[t] \in Fns
            BY DEF LockMoves
        <3> QED BY <2>4, <2>6, <3>1, MovePlaces
    <2>8. Waiting' = Waiting
        BY WaitingStays
    <2>9. WakerHolds(t)'
        BY <2>7, WakerRole
    <2> USE <2>9
    <2>10. t \notin Granting
        BY DEF WakerHolds
    <2>11. CountInv'
        <3>1. CASE fn[t] = "downgrade_wake"
            <4>1. l = "grant" /\ count' = count /\ "grant" # "undo_grant"
                BY <3>1
            <4>2. t \notin Granting'
                BY <3>1, <4>1 DEF WakerHolds
            <4> QED BY <2>8, <2>10, <4>1, <4>2, CountStays DEF WakerHolds
        <3>2. CASE fn[t] # "downgrade_wake"
            <4>1. count' = count + ReadBias
                BY <3>2
            <4>2. t \in Granting'
                BY <3>2 DEF WakerHolds
            <4> QED BY <1>4, <2>8, <2>10, <4>1, <4>2 DEF WakerHolds
        <3> QED BY <3>1, <3>2
    <2>12. Alone'
        <3>1. CASE fn[t] = "downgrade_wake"
            BY <3>1, MoveExcludes DEF WakerHolds
        <3>2. CASE l # "grant" /\ fn[t] # "downgrade_wake"
            BY <3>2, MoveExcludes DEF WakerHolds
        <3>3. CASE l = "grant" /\ fn[t] # "downgrade_wake"
            <4>1. count >= WaitingBias
                BY <3>3, SMT DEF WaitingBias
            <4>2. Waiting = 1
                BY WaitingBit DEF Bit
            <4>3. Writers = {}
                BY <4>1, <4>2, CountFacts DEF Writing, Writers
            <4> QED BY <4>3, MoveExcludes DEF WakerHolds
        <3> QED BY <3>1, <3>2, <3>3
    <2> QED BY <2>7, <2>11, <2>12 DEF IInv, Alone
<1>6. CASE UndoGrant(t)
    <2>1. pc[t] = "undo_grant" /\ UNCHANGED <<wait_list, killed>> /\ count' = count - ReadBias
        BY <1>6 DEF UndoGrant, At
    <2> USE <2>1
    <2>2. t \in Granting
        BY DEF WakerHolds
    <2>3. CASE Return(t)
        <3>1. CountInv'
            BY <1>4, <2>2, <2>3, ReturnMoves
        <3>2. Alone'
            BY <2>3, ReturnMoves, MoveExcludes
        <3> QED BY <2>3, <3>1, <3>2, ReturnMoves DEF IInv, Alone
    <2>4. CASE Goto(t, "do_wake") /\ UNCHANGED <<wait_lock, fn>>
        <3>1. "do_wake" \in WakePlaces /\ "do_wake" # "w_bias" /\ "do_wake" # "grant" /\ "do_wake" # "undo_grant"
            BY DEF WakePlaces
        <3> USE <3>1
        <3>2. Moves(t, "do_wake", fn[t])
            BY <2>4 DEF PlaceInv, Moves, Goto
        <3>3. ListMoves(t, fn[t]) /\ OnlyMoves(t) /\ pc'[t] = "do_wake" /\ fn'[t] = fn[t]
            BY <3>2, ListStays, MovesOnly
        <3> USE <3>3
        <3>4. FitsAt(t, "do_wake")
            <4>1. pc[t] \notin ReadWait /\ pc[t] \notin WriteWait \cup {"w_state", "w_try", "w_bias"}
                  /\ "do_wake" \notin ReadWait /\ "do_wake" \notin WriteWait \cup {"w_state", "w_try", "w_bias"}
                BY WakePlacesApart
            <4>2. FnOf(t)'
                BY <4>1 DEF FnOf, Queued, LockPlaces
            <4> QED BY <4>2 DEF FitsAt
        <3>5. PlaceInv'
            <4>1. LockMoves(t, "do_wake") /\ fn[t] \in Fns /\ "do_wake" \in PCs
                BY <2>4, WakePlacesApart DEF LockMoves
            <4> QED BY <3>2, <3>4, <4>1, MovePlaces
        <3>6. Waiting' = Waiting
            BY WaitingStays
        <3>7. WakerHolds(t)'
            BY <3>5, WakerRole
        <3>8. t \notin Granting'
            BY <3>7 DEF WakerHolds
        <3>9. CountInv'
            BY <1>4, <2>2, <3>6, <3>7, <3>8 DEF WakerHolds
        <3>10. Alone'
            BY <3>7, MoveExcludes DEF WakerHolds
        <3> QED BY <3>5, <3>9, <3>10 DEF IInv, Alone
    <2> QED BY <1>6, <2>3, <2>4 DEF UndoGrant
<1> QED BY <1>3, <1>5, <1>6

\* A task at a loose place is not on the list.
LEMMA LooseTask ==
    ASSUME PlaceInv, NEW t \in Tasks, pc[t] \in Loose
    PROVE  fn[t] = "none" /\ ~Queued(t) /\ pc[t] # "w_bias" /\ pc[t] \notin LockPlaces
<1>1. pc[t] \notin ReadWait /\ pc[t] \notin WriteWait /\ pc[t] \notin LockPlaces /\ pc[t] # "w_bias"
    BY LooseApart
<1>2. fn[t] = "none"
    BY <1>1 DEF PlaceInv, FnOf
<1>3. fn[t] \notin {"read_failed", "write_failed"}
    BY <1>2
<1> QED BY <1>1, <1>2, <1>3 DEF PlaceInv, FnOf

\* Taking wait_lock in order to wake, and the end of a reader's wait.
LEMMA EnterKeeps ==
    ASSUME IInv, NEW t \in Tasks, WakeLocked(t) \/ DowngradeWake(t) \/ ReadCheck(t)
    PROVE  IInv'
<1>0. PlaceInv
    BY DEF IInv
<1>1. "do_wake" \in WakePlaces /\ "do_wake" \in PCs /\ "do_wake" \in LockPlaces
      /\ "do_wake" # "w_bias" /\ "do_wake" # "undo_grant" /\ "do_wake" # "grant"
    BY DEF WakePlaces, PCs, LockPlaces
<1> USE <1>1
<1>2. ASSUME NEW f \in {"wake", "downgrade_wake"}, pc[t] \in Loose, wait_list # <<>>,
             Goto(t, "do_wake"), wait_lock = NoTask, wait_lock' = t, Enter(t, f),
             UNCHANGED <<wait_list, count, killed>>,
             t \in Readers <=> f = "downgrade_wake", t \in Holding <=> f = "downgrade_wake",
             t \notin Granting, t \notin Writing
      PROVE  IInv'
    <2>1. Moves(t, "do_wake", f) /\ LockMoves(t, "do_wake")
        BY <1>2 DEF Moves, Goto, Enter, LockMoves
    <2>2. f \in Fns /\ ~Queued(t) /\ pc[t] # "w_bias" /\ t \notin Range(wait_list)
        BY <1>0, <1>2, LooseTask DEF Fns, Queued
    <2>3. FnAt("do_wake", f, t \in Range(wait_list))
        BY <1>2, <2>2 DEF FnAt, ReadWait, WriteWait, WakePlaces, LockPlaces
    <2>4. pc'[t] = "do_wake" /\ fn'[t] = f
        BY <1>0, <2>1 DEF Moves, PlaceInv
    <2>5. ASSUME PlaceInv' PROVE WakerHolds(t)' /\ t \notin Granting'
        <3>1. WakerHolds(t)'
            BY <2>4, <2>5, WakerRole
        <3> QED BY <2>4, <3>1 DEF WakerHolds
    <2>6. PlaceInv' => /\ t \in Holding' <=> t \in Holding
                       /\ t \in Granting' <=> t \in Granting
                       /\ t \notin Writing /\ t \notin Writing' /\ t \notin Writers'
                       /\ t \in Readers' => t \in Readers
        BY <1>2, <2>4, <2>5 DEF WakerHolds
    <2>7. "do_wake" \notin {"undo_grant", "grant"}
        OBVIOUS
    <2> QED BY <1>2, <2>1, <2>2, <2>3, <2>6, <2>7, LockedKeeps
<1>3. CASE WakeLocked(t)
    <2>1. pc[t] \in Apart /\ pc[t] \in Idle /\ pc[t] \in Loose /\ "out" \in Apart
          /\ Apart \in Classes
        BY <1>3 DEF WakeLocked, Apart, Idle, Loose, Classes
    <2>2. Nothing(t) /\ "wake" # "downgrade_wake"
        BY <2>1, IdleRole
    <2>3. CASE wait_list # <<>>
        <3>1. Goto(t, "do_wake") /\ wait_lock = NoTask /\ wait_lock' = t /\ Enter(t, "wake")
              /\ UNCHANGED <<wait_list, count, killed>>
            BY <1>3, <2>3 DEF WakeLocked, WakeIfWaiters
        <3> QED BY <1>2, <2>1, <2>2, <2>3, <3>1 DEF Nothing
    <2>4. CASE wait_list = <<>>
        <3>1. Goto(t, "out") /\ UNCHANGED <<count, wait_list, wait_lock, fn>> /\ UNCHANGED killed
            BY <1>3, <2>4 DEF WakeLocked, WakeIfWaiters
        <3> QED BY <2>1, <3>1, QuietKeeps
    <2> QED BY <2>3, <2>4
<1>4. CASE DowngradeWake(t)
    <2>1. pc[t] = "downgrade_wake" /\ pc[t] \in Loose /\ pc[t] \notin WritePlaces /\ pc[t] # "w_bias"
          /\ pc[t] # "undo_grant" /\ pc[t] # "grant" /\ pc[t] # "w_undo"
          /\ {"reading", "downgrade_wake"} \in Classes
        BY <1>4 DEF DowngradeWake, At, Loose, WritePlaces, Classes
    <2>2. t \in Readers /\ t \in Holding /\ t \notin Writing /\ t \notin Granting
        BY <2>1, RoleDefs DEF Roles
    <2>3. CASE wait_list # <<>>
        <3>1. Goto(t, "do_wake") /\ wait_lock = NoTask /\ wait_lock' = t /\ Enter(t, "downgrade_wake")
              /\ UNCHANGED <<wait_list, count, killed>>
            BY <1>4, <2>3 DEF DowngradeWake, WakeIfWaiters
        <3> QED BY <1>2, <2>1, <2>2, <2>3, <3>1
    <2>4. CASE wait_list = <<>>
        <3>1. Goto(t, "reading") /\ UNCHANGED <<count, wait_list, wait_lock, fn>> /\ UNCHANGED killed
            BY <1>4, <2>4 DEF DowngradeWake, WakeIfWaiters
        <3> QED BY <2>1, <3>1, QuietKeeps
    <2> QED BY <2>3, <2>4
<1>5. CASE ReadCheck(t)
    <2>1. pc[t] = "r_check" /\ UNCHANGED <<count, wait_list, wait_lock, killed>>
        BY <1>5 DEF ReadCheck, At, wait
    <2> USE <2>1
    <2>2. CASE Queued(t)
        <3>1. Goto(t, "r_sleep") /\ UNCHANGED fn /\ UNCHANGED <<count, wait_list, wait_lock, fn>>
            BY <1>5, <2>2 DEF ReadCheck, Queued
        <3>2. pc[t] \in ReadWait /\ "r_sleep" \in ReadWait /\ ReadWait \in Classes
            BY DEF ReadWait, Classes
        <3> QED BY <3>1, <3>2, QuietKeeps
    <2>3. CASE ~Queued(t)
        <3>1. Moves(t, "reading", "none")
            BY <1>5, <2>3 DEF ReadCheck, Queued, Moves, Goto, Enter
        <3>2. /\ "reading" \in PCs /\ "none" \in Fns /\ "reading" \notin LockPlaces /\ pc[t] \notin LockPlaces
              /\ "reading" \notin WakePlaces /\ pc[t] \notin WakePlaces /\ pc[t] \in ReadWait
              /\ pc[t] \notin WritePlaces /\ "reading" \notin WritePlaces
              /\ pc[t] # "w_bias" /\ pc[t] # "w_undo" /\ pc[t] # "undo_grant" /\ pc[t] # "grant"
              /\ "reading" # "w_bias" /\ "reading" # "w_undo" /\ "reading" # "undo_grant" /\ "reading" # "grant"
            BY DEF PCs, Fns, LockPlaces, WakePlaces, ReadWait, WritePlaces
        <3> USE <3>2
        <3>3. LockMoves(t, "reading")
            BY DEF LockMoves
        <3>4. FnAt("reading", "none", t \in Range(wait_list))
            BY <2>3 DEF FnAt, Queued, ReadWait, WriteWait, WakePlaces, LockPlaces
        <3>5. pc'[t] = "reading" /\ fn'[t] = "none"
            BY <1>0, <3>1 DEF Moves, PlaceInv
        <3>6. t \in Readers /\ t \in Holding /\ t \notin Granting /\ t \notin Writing
            BY <2>3, RoleDefs DEF Roles
        <3>7. t \in Readers' /\ t \in Holding' /\ t \notin Granting' /\ t \notin Writing' /\ t \notin Writers'
            BY <3>5, RoleDefs DEF Roles
        <3>8. "reading" \notin {"undo_grant", "grant"}
            OBVIOUS
        <3> QED BY <2>3, <3>1, <3>3, <3>4, <3>6, <3>7, <3>8, LockedKeeps
    <2> QED BY <2>2, <2>3
<1> QED BY <1>3, <1>4, <1>5

\* A queued writer takes wait_lock again or drops it.
LEMMA RelockKeeps ==
    ASSUME IInv, NEW t \in Tasks, WriteTryFails(t) \/ WriteRelock(t)
    PROVE  IInv'
<1>0. PlaceInv
    BY DEF IInv
<1>1. PICK l \in {"w_loop", "w_try"} :
         /\ Goto(t, l) /\ pc[t] \in {"w_try", "w_relock"}
         /\ \/ pc[t] = "w_relock" /\ l = "w_try" /\ wait_lock = NoTask /\ wait_lock' = t
            \/ pc[t] = "w_try" /\ l = "w_loop" /\ wait_lock' = NoTask
         /\ UNCHANGED <<wait_list, fn, count, killed>>
    BY DEF WriteTryFails, WriteRelock, At, local
<1> USE <1>1
<1>2. /\ l \in Idle /\ pc[t] \in Idle /\ l \in PCs /\ l \notin WakePlaces /\ l \notin {"undo_grant", "grant"}
      /\ l # "w_bias" /\ pc[t] # "w_bias" /\ "w_try" \in LockPlaces /\ "w_loop" \notin LockPlaces
      /\ pc[t] \in WriteWait \cup {"w_state", "w_try", "w_bias"}
    BY DEF Idle, PCs, WakePlaces, LockPlaces, WriteWait
<1> USE <1>2
<1>3. Moves(t, l, fn[t]) /\ LockMoves(t, l) /\ fn[t] \in Fns
    BY <1>0 DEF Moves, Goto, LockMoves, PlaceInv
<1>4. fn[t] = "write_failed" /\ Queued(t)
    BY <1>0 DEF PlaceInv, FnOf
<1>5. FnAt(l, fn[t], t \in Range(wait_list))
    BY <1>4 DEF FnAt, Queued, ReadWait, WriteWait, WakePlaces, LockPlaces
<1>6. Nothing(t) /\ Nothing(t)'
    <2>1. pc'[t] = l
        BY <1>0, <1>3 DEF Moves, PlaceInv
    <2> QED BY <2>1, IdleRole
<1>7. UNCHANGED <<wait_list, count, killed>>
    OBVIOUS
<1> QED BY <1>3, <1>5, <1>6, <1>7, LockedKeeps DEF Nothing

\* A task that joins the list keeps the invariant.
LEMMA JoinKeeps ==
    ASSUME IInv, NEW t \in Tasks, ReadFailed(t) \/ WriteFailed(t)
    PROVE  IInv'
<1>0. PlaceInv /\ CountInv /\ Alone /\ count \in Int /\ ActiveMask \in Nat
    BY CountFacts, RwSemAssumption DEF IInv, Alone
<1> USE <1>0
\* t joins the list: rwsem_down_read_failed() and __rwsem_down_write_failed_common().
<1>join. ASSUME pc[t] \in Loose, wait_lock = NoTask,
             wait_list' = list_add_tail(wait_list, t),
             NEW l \in {"do_wake", "r_state", "w_state"}, NEW f \in {"read_failed", "write_failed"},
             l = "r_state" => f = "read_failed", l = "w_state" => f = "write_failed",
             Goto(t, l), Enter(t, f), LockMoves(t, l)
      PROVE  /\ PlaceInv' /\ OnlyMoves(t) /\ pc'[t] = l
             /\ Waiting' = 1 /\ Waiting = Bit(wait_list # <<>>)
             /\ Nothing(t)'
    <2> USE <1>join
    <2>1. /\ wait_list' \in Seq(Tasks) /\ IsInjective(wait_list')
          /\ Range(wait_list') = Range(wait_list) \cup {t}
        BY LooseTask, AddTail, ZenonT(60) DEF PlaceInv, Queued
    <2>2. Moves(t, l, f) /\ ListMoves(t, f)
        BY <2>1 DEF Moves, Goto, Enter, ListMoves
    <2>3. OnlyMoves(t) /\ pc'[t] = l /\ fn'[t] = f
        BY <2>2, MovesOnly
    <2> USE <2>3
    <2>4. t \in Range(wait_list') /\ wait_list' # <<>>
        BY <2>1, NoEntry
    <2> USE <2>4
    <2>5. l \in PCs /\ f \in Fns /\ l \notin {"undo_grant", "grant"} /\ l # "w_bias"
          /\ l \notin WritePlaces /\ l # "w_undo" /\ l \notin {"r_failed", "w_undo"}
          /\ l # "undo_grant" /\ l # "grant" /\ l \notin {"reading", "downgrade_wake"} /\ f # "downgrade_wake"
        BY DEF PCs, Fns, WritePlaces
    <2> USE <2>5
    <2>6. FitsAt(t, l)
        <3>1. FnAt(l, f, TRUE)
            BY DEF FnAt, ReadWait, WriteWait, WakePlaces, LockPlaces
        <3>2. FnOf(t)'
            BY <3>1 DEF FnAt, FnOf, Queued
        <3> QED BY <3>2 DEF FitsAt
    <2>7. PlaceInv'
        BY <2>2, <2>6, MovePlaces
    <2>8. Waiting' = 1 /\ Waiting = Bit(wait_list # <<>>)
        BY WaitingBit, LooseTask DEF Bit
    <2>9. Nothing(t)'
        <3>1. Queued(t)'
            BY DEF Queued
        <3> QED BY <3>1, RoleDefs DEF Roles, Nothing
    <2> QED BY <2>7, <2>8, <2>9
<1>1. PICK l \in {"do_wake", "r_state", "w_state"}, f \in {"read_failed", "write_failed"} :
         /\ l = "r_state" => f = "read_failed"
         /\ l = "w_state" => f = "write_failed"
         /\ Goto(t, l) /\ Enter(t, f)
         /\ wait_lock' = IF l = "r_state" THEN wait_lock ELSE t
    BY DEF ReadFailed, WriteFailed
<1> USE <1>1
<1>2. wait_lock = NoTask /\ wait_list' = list_add_tail(wait_list, t) /\ UNCHANGED killed
    BY DEF ReadFailed, WriteFailed
<1> USE <1>2
<1>3. pc[t] \in {"r_failed", "w_failed"} /\ pc[t] \in Loose /\ pc[t] \notin LockPlaces
    <2>1. pc[t] \in {"r_failed", "w_failed"}
        BY DEF ReadFailed, WriteFailed, At
    <2>2. pc[t] \in Loose
        BY <2>1 DEF Loose, Apart
    <2> QED BY <2>1, <2>2, LooseApart
<1>4. LockMoves(t, l)
    <2>1. "r_state" \notin LockPlaces /\ (l # "r_state" => l \in LockPlaces)
        BY DEF LockPlaces, WakePlaces
    <2> QED BY <1>3, <2>1 DEF LockMoves
<1>5. /\ PlaceInv' /\ OnlyMoves(t) /\ Waiting' = 1 /\ Waiting = Bit(wait_list # <<>>) /\ Nothing(t)'
      /\ pc'[t] = l
    BY <1>3, <1>4, <1>join
<1> USE <1>5
<1>6. pc'[t] # "grant"
    OBVIOUS
<1>7. Alone'
    BY <1>6, MoveExcludes DEF Nothing
<1>8. CountInv'
    <2>1. CASE pc[t] = "r_failed"
        <3>1. pc[t] \notin WritePlaces /\ pc[t] # "w_bias" /\ pc[t] # "w_undo" /\ pc[t] # "undo_grant" /\ pc[t] # "grant"
            BY <2>1 DEF WritePlaces
        <3>2. t \in Holding /\ t \notin Writing /\ t \notin Granting
            BY <2>1, <3>1, RoleDefs DEF Roles
        <3>3. Joins(t) = -1 /\ Writes(t) = 0 /\ Grants(t) = 0
            BY <3>2, SMT DEF Nothing, Joins, Writes, Grants, Bit
        <3> USE <3>3
        <3>4. count' = count + ((IF wait_list = <<>> THEN WaitingBias ELSE 0) - ReadBias)
            <4>1. ReadFailed(t)
                BY <2>1 DEF WriteFailed, At
            <4> QED BY <4>1 DEF ReadFailed
        <3>5. count' = count + Joins(t) + Grants(t)
                       - (ActiveMask + 1) * (Writes(t) + (Waiting' - Waiting) + 0)
            <4>1. CASE wait_list = <<>>
                <5>1. Writes(t) + (Waiting' - Waiting) + 0 = 1 /\ (ActiveMask + 1) * 1 = ActiveMask + 1
                    BY <4>1, SMT DEF Bit
                <5> QED BY <3>4, <4>1, <5>1, SMT DEF WaitingBias, ReadBias
            <4>2. CASE wait_list # <<>>
                <5>1. Writes(t) + (Waiting' - Waiting) + 0 = 0 /\ (ActiveMask + 1) * 0 = 0
                    BY <4>2, SMT DEF Bit
                <5> QED BY <3>4, <4>2, <5>1, SMT DEF ReadBias
            <4> QED BY <4>1, <4>2
        <3> QED BY <3>5, StepCount
    <2>2. CASE pc[t] = "w_failed"
        <3>1. pc[t] \in Idle
            BY <2>2 DEF Idle, Apart
        <3>2. Nothing(t)
            BY <3>1, IdleRole
        <3>3. Joins(t) = 0 /\ Writes(t) = 0 /\ Grants(t) = 0
            BY <3>2, SMT DEF Nothing, Joins, Writes, Grants, Bit
        <3> USE <3>3
        <3>4. count' = IF wait_list = <<>> THEN count + WaitingBias ELSE count
            <4>1. WriteFailed(t)
                BY <2>2 DEF ReadFailed, At
            <4> QED BY <4>1 DEF WriteFailed
        <3>5. count' = count + Joins(t) + Grants(t)
                       - (ActiveMask + 1) * (Writes(t) + (Waiting' - Waiting) + 0)
            <4>1. CASE wait_list = <<>>
                <5>1. Writes(t) + (Waiting' - Waiting) + 0 = 1 /\ (ActiveMask + 1) * 1 = ActiveMask + 1
                    BY <4>1, SMT DEF Bit
                <5> QED BY <3>4, <4>1, <5>1, SMT DEF WaitingBias
            <4>2. CASE wait_list # <<>>
                <5>1. Writes(t) + (Waiting' - Waiting) + 0 = 0 /\ (ActiveMask + 1) * 0 = 0
                    BY <4>2, SMT DEF Bit
                <5> QED BY <3>4, <4>2, <5>1, SMT
            <4> QED BY <4>1, <4>2
        <3> QED BY <3>5, StepCount
    <2> QED BY <1>3, <2>1, <2>2
<1> QED BY <1>7, <1>8 DEF IInv, Alone

\* A writer leaves the list, with the lock or with -EINTR.
LEMMA LeaveMoves ==
    ASSUME PlaceInv, NEW t \in Tasks, pc[t] \in {"w_try", "w_bias", "w_intr"},
           wait_lock = NoTask \/ pc[t] \in LockPlaces, wait_lock' = NoTask,
           wait_list' = list_del(wait_list, t), NEW l \in {"w_owner", "out"}, Goto(t, l), Enter(t, "none")
    PROVE  /\ PlaceInv' /\ OnlyMoves(t) /\ pc'[t] = l
           /\ Waiting = Bit(pc[t] # "w_bias") /\ Waiting' = Bit(Range(wait_list) # {t})
<1>1. fn[t] = "write_failed" /\ Queued(t)
    <2>1. pc[t] \in WriteWait \cup {"w_state", "w_try", "w_bias"}
        BY DEF WriteWait
    <2> QED BY <2>1 DEF PlaceInv, FnOf
<1>2. /\ wait_list' \in Seq(Tasks) /\ IsInjective(wait_list') /\ wait_list # <<>>
      /\ Range(wait_list') = Range(wait_list) \ {t} /\ t \in Range(wait_list)
    <2>1. wait_list \in Seq(Tasks) /\ IsInjective(wait_list) /\ t \in Range(wait_list)
        BY <1>1 DEF PlaceInv, Queued
    <2>2. /\ list_del(wait_list, t) \in Seq(Tasks) /\ IsInjective(list_del(wait_list, t))
          /\ Range(list_del(wait_list, t)) = Range(wait_list) \ {t}
        BY <2>1, Del
    <2>3. wait_list # <<>>
        BY <2>1, OneEntry
    <2> QED BY <2>1, <2>2, <2>3
<1> USE <1>2
<1>3. /\ l \in PCs /\ "none" \in Fns /\ l \notin {"undo_grant", "grant"} /\ l # "w_bias"
      /\ l \notin LockPlaces /\ l \notin WakePlaces
    BY DEF PCs, Fns, LockPlaces, WakePlaces
<1> USE <1>3
<1>4. Moves(t, l, "none") /\ ListMoves(t, "none")
    <2>1. \A u \in Tasks \ {t} : u \in Range(wait_list') <=> u \in Range(wait_list)
        OBVIOUS
    <2> QED BY <2>1 DEF Moves, Goto, Enter, ListMoves
<1>5. OnlyMoves(t) /\ pc'[t] = l /\ fn'[t] = "none"
    BY <1>4, MovesOnly
<1> USE <1>5
<1>6. FitsAt(t, l)
    <2>1. FnAt(l, "none", FALSE)
        BY DEF FnAt, ReadWait, WriteWait, WakePlaces, LockPlaces
    <2>2. FnOf(t)'
        BY <2>1 DEF FnAt, FnOf, Queued
    <2> QED BY <2>2 DEF FitsAt
<1>7. LockMoves(t, l)
    BY DEF LockMoves
<1>8. PlaceInv'
    BY <1>4, <1>6, <1>7, MovePlaces
<1>9. wait_list' # <<>> <=> Range(wait_list) # {t}
    <2>1. wait_list' = <<>> <=> Range(wait_list') = {}
        BY NoEntry
    <2> QED BY <2>1
<1>10. Waiting = Bit(wait_list # <<>> /\ pc[t] # "w_bias")
       /\ Waiting' = Bit(wait_list' # <<>> /\ pc'[t] # "w_bias")
    BY WaitingBit
<1>11. Waiting = Bit(pc[t] # "w_bias") /\ Waiting' = Bit(Range(wait_list) # {t})
    BY <1>9, <1>10 DEF Bit
<1> QED BY <1>8, <1>11

\* rwsem_try_write_lock() and the bias it puts back.
LEMMA AcquireKeeps ==
    ASSUME IInv, NEW t \in Tasks, WriteTry(t) \/ WriteAddBias(t)
    PROVE  IInv'
<1>0. PlaceInv /\ CountInv /\ Alone /\ count \in Int /\ ActiveMask \in Nat
    BY CountFacts, RwSemAssumption DEF IInv, Alone
<1> USE <1>0
<1>1. pc[t] \in {"w_try", "w_bias"} /\ pc[t] \in LockPlaces /\ UNCHANGED killed
      /\ pc[t] \in WriteWait \cup {"w_state", "w_try", "w_bias"} /\ pc[t] \in {"w_try", "w_bias", "w_intr"}
    BY DEF WriteTry, WriteAddBias, At, LockPlaces
<1> USE <1>1
<1>2. fn[t] = "write_failed" /\ Queued(t) /\ t \in Range(wait_list)
    BY DEF PlaceInv, FnOf, Queued
<1>3. /\ "w_owner" \in WritePlaces /\ "w_owner" # "undo_grant" /\ "w_owner" # "grant"
      /\ "w_bias" \notin WritePlaces /\ "w_bias" # "undo_grant" /\ "w_bias" # "grant"
      /\ "w_bias" \in PCs /\ "w_bias" \in LockPlaces /\ "w_bias" \notin WakePlaces
    BY DEF WritePlaces, PCs, LockPlaces, WakePlaces
<1> USE <1>3
<1>4. CASE WriteTry(t)
    <2>1. pc[t] = "w_try" /\ count = WaitingBias /\ count' = WriteBias /\ pc[t] \in Idle
        BY <1>4 DEF WriteTry, At, Idle
    <2> USE <2>1
    <2>2. Nothing(t) /\ Holding = {} /\ Granting = {}
        BY IdleRole, CountFacts
    <2>3. ASSUME OnlyMoves(t), Waiting = 1, Waiting' = 0, PlaceInv',
                 pc'[t] \in {"w_owner", "w_bias"}
          PROVE  IInv'
        <3>1. t \in Writers' /\ t \in Holding' /\ t \in Writing' /\ t \notin Granting'
            BY <2>3, RoleDefs DEF Roles
        <3>2. Joins(t) = 1 /\ Writes(t) = 1 /\ Grants(t) = 0
            BY <2>2, <3>1, SMT DEF Nothing, Joins, Writes, Grants, Bit
        <3>3. count' = count + Joins(t) + Grants(t)
                       - (ActiveMask + 1) * (Writes(t) + (Waiting' - Waiting) + 0)
            <4>1. Writes(t) + (Waiting' - Waiting) + 0 = 0 /\ (ActiveMask + 1) * 0 = 0
                BY <2>3, <3>2, SMT
            <4> QED BY <3>2, <4>1, SMT DEF WaitingBias, WriteBias
        <3>4. CountInv'
            BY <2>3, <3>3, StepCount
        <3>5. Alone'
            BY <2>2, <2>3, <3>1, MoveExcludes
        <3> QED BY <2>3, <3>4, <3>5 DEF IInv, Alone
    <2>4. wait_list # <<>> /\ (Len(wait_list) = 1 <=> Range(wait_list) = {t})
        BY <1>2, OneEntry DEF PlaceInv
    <2>5. CASE Len(wait_list) = 1
        <3>1. wait_list' = list_del(wait_list, t) /\ wait_lock' = NoTask /\ Enter(t, "none") /\ Goto(t, "w_owner")
            BY <1>4, <2>5 DEF WriteTry, Acquired
        <3>2. /\ PlaceInv' /\ OnlyMoves(t) /\ pc'[t] = "w_owner"
              /\ Waiting = Bit(pc[t] # "w_bias") /\ Waiting' = Bit(Range(wait_list) # {t})
            BY <3>1, LeaveMoves
        <3>3. Waiting = 1 /\ Waiting' = 0
            BY <2>4, <2>5, <3>2 DEF Bit
        <3> QED BY <2>3, <3>2, <3>3
    <2>6. CASE Len(wait_list) # 1
        <3>1. Goto(t, "w_bias") /\ UNCHANGED <<wait_list, wait_lock, fn>>
            BY <1>4, <2>6 DEF WriteTry, wait
        <3> USE <3>1
        <3>2. Moves(t, "w_bias", fn[t]) /\ ListMoves(t, fn[t]) /\ fn[t] \in Fns
            BY ListStays DEF PlaceInv, Moves, Goto
        <3>3. OnlyMoves(t) /\ pc'[t] = "w_bias" /\ fn'[t] = fn[t]
            BY <3>2, MovesOnly
        <3> USE <3>3
        <3>4. FitsAt(t, "w_bias")
            <4>1. FnAt("w_bias", "write_failed", TRUE)
                BY DEF FnAt, ReadWait, WriteWait, WakePlaces, LockPlaces
            <4>2. FnOf(t)'
                BY <1>2, <4>1 DEF FnAt, FnOf, Queued
            <4>3. "w_bias" \notin {"undo_grant", "grant"}
                OBVIOUS
            <4> QED BY <2>4, <2>6, <4>2, <4>3 DEF FitsAt
        <3>5. PlaceInv'
            <4>1. LockMoves(t, "w_bias")
                BY DEF LockMoves
            <4> QED BY <3>2, <3>4, <4>1, MovePlaces
        <3>6. Waiting = Bit(wait_list # <<>> /\ pc[t] # "w_bias")
              /\ Waiting' = Bit(wait_list' # <<>> /\ pc'[t] # "w_bias")
            BY WaitingBit
        <3>7. Waiting = 1 /\ Waiting' = 0
            BY <2>4, <3>6 DEF Bit
        <3> QED BY <2>3, <3>5, <3>7
    <2> QED BY <2>5, <2>6
<1>5. CASE WriteAddBias(t)
    <2>1. /\ pc[t] = "w_bias" /\ count' = count + WaitingBias
          /\ wait_list' = list_del(wait_list, t) /\ wait_lock' = NoTask /\ Enter(t, "none") /\ Goto(t, "w_owner")
        BY <1>5 DEF WriteAddBias, Acquired, At
    <2> USE <2>1
    <2>2. /\ PlaceInv' /\ OnlyMoves(t) /\ pc'[t] = "w_owner"
          /\ Waiting = Bit(pc[t] # "w_bias") /\ Waiting' = Bit(Range(wait_list) # {t})
        BY LeaveMoves
    <2> USE <2>2
    <2>3. Range(wait_list) # {t}
        BY DEF PlaceInv
    <2>4. Waiting = 0 /\ Waiting' = 1
        BY <2>3 DEF Bit
    <2>5. t \in Writers /\ t \in Holding /\ t \in Writing /\ t \notin Granting
        BY RoleDefs DEF Roles
    <2>6. t \in Writers' /\ t \in Holding' /\ t \in Writing' /\ t \notin Granting'
        BY RoleDefs DEF Roles
    <2>7. Joins(t) = 0 /\ Writes(t) = 0 /\ Grants(t) = 0
        BY <2>5, <2>6, SMT DEF Joins, Writes, Grants, Bit
    <2>8. count' = count + Joins(t) + Grants(t)
                   - (ActiveMask + 1) * (Writes(t) + (Waiting' - Waiting) + 0)
        <3>1. Writes(t) + (Waiting' - Waiting) + 0 = 1 /\ (ActiveMask + 1) * 1 = ActiveMask + 1
            BY <2>4, <2>7, SMT
        <3> QED BY <2>7, <3>1, SMT DEF WaitingBias
    <2>9. CountInv'
        BY <2>8, StepCount
    <2>10. Alone'
        BY <2>5, <2>6, MoveExcludes
    <2> QED BY <2>9, <2>10 DEF IInv, Alone
<1> QED BY <1>4, <1>5

\* The -EINTR path leaves its waiting bias in the count.
LEMMA InterruptKeeps ==
    ASSUME IInv, NEW t \in Tasks, WriteInterrupted(t), killed # {}
    PROVE  IInv'
<1>0. PlaceInv /\ CountInv /\ Alone /\ count \in Int /\ ActiveMask \in Nat
    BY CountFacts, RwSemAssumption DEF IInv, Alone
<1> USE <1>0
<1>1. /\ pc[t] = "w_intr" /\ wait_lock = NoTask /\ wait_lock' = NoTask /\ wait_list' = list_del(wait_list, t)
      /\ Enter(t, "none") /\ Goto(t, "out") /\ count' = count /\ killed' = killed
    BY DEF WriteInterrupted, At
<1> USE <1>1
<1>2. /\ PlaceInv' /\ OnlyMoves(t) /\ pc'[t] = "out"
      /\ Waiting = Bit(pc[t] # "w_bias") /\ Waiting' = Bit(Range(wait_list) # {t})
    BY LeaveMoves
<1> USE <1>2
<1>3. Nothing(t) /\ Nothing(t)' /\ pc'[t] # "grant"
    <2>1. pc[t] \in Idle /\ pc'[t] \in Idle
        BY DEF Idle, WriteWait, Apart
    <2> QED BY <2>1, IdleRole, IdleApart
<1>4. Joins(t) = 0 /\ Writes(t) = 0 /\ Grants(t) = 0
    BY <1>3, SMT DEF Nothing, Joins, Writes, Grants, Bit
<1>5. PICK left \in Nat : Waiting = 1 /\ ((Waiting' = 0 /\ left = 1) \/ (Waiting' = 1 /\ left = 0))
    BY DEF Bit
<1>6. count' = count + Joins(t) + Grants(t)
               - (ActiveMask + 1) * (Writes(t) + (Waiting' - Waiting) + left)
    <2>1. Writes(t) + (Waiting' - Waiting) + left = 0
        <3>1. CASE Waiting' = 0 /\ left = 1
            BY <1>4, <1>5, <3>1, SMT
        <3>2. CASE Waiting' = 1 /\ left = 0
            BY <1>4, <1>5, <3>2, SMT
        <3> QED BY <1>5, <3>1, <3>2
    <2>2. (ActiveMask + 1) * 0 = 0
        BY SMT
    <2> QED BY <1>4, <2>1, <2>2, SMT
<1>7. CountInv'
    BY <1>6, StepCount
<1>8. Alone'
    BY <1>3, MoveExcludes DEF Nothing
<1> QED BY <1>7, <1>8 DEF IInv, Alone

------------------------------------------------------------------------------
\* The grant: all the readers at the front of the list get the semaphore at once.

\* What __rwsem_do_wake() takes off the list: the readers at its front, at least one.
LEMMA FrontTasks ==
    ASSUME PlaceInv, NEW t \in Tasks, pc[t] = "grant"
    PROVE  /\ FrontReaders \in 1..Len(wait_list)
           /\ \A u \in FirstOf(wait_list, FrontReaders) : IsReader(u)
<1>1. /\ wait_list \in Seq(Tasks) /\ wait_list # <<>> /\ IsReader(Head(wait_list))
    <2>1. "grant" \in WakePlaces
        BY DEF WakePlaces
    <2> QED BY <2>1 DEF PlaceInv
<1>2. PICK n \in Nat : n = Len(wait_list) /\ n >= 1 /\ Head(wait_list) = wait_list[1]
    BY <1>1, SMT
<1> DEFINE F == {i \in 1..n : \A m \in 1..i : IsReader(wait_list[m])}
<1>3. FrontReaders = Cardinality(F)
    BY <1>2 DEF FrontReaders
<1>4. F \in SUBSET (1..n) /\ \A i \in F : \A j \in 1..i : j \in F
    BY SMT
<1>5. 1 \in F
    BY <1>1, <1>2, SMT
<1>6. \A i \in F : IsReader(wait_list[i])
    BY SMT
<1> HIDE DEF F
<1>7. Cardinality(F) \in 0..n /\ F = 1..Cardinality(F)
    BY <1>4, NoGaps
<1>8. Cardinality(F) \in 1..n
    BY <1>5, <1>7, SMT
<1>9. PICK w \in 1..n : w = FrontReaders /\ F = 1..w
    BY <1>3, <1>7, <1>8
<1>10. \A u \in FirstOf(wait_list, w) : IsReader(u)
    BY <1>6, <1>9 DEF FirstOf
<1>11. w \in 1..Len(wait_list)
    BY <1>2, <1>9
<1> QED BY <1>9, <1>10, <1>11


\* What the grant changes: the first readers leave the list, nobody else moves.
LEMMA GrantEffect ==
    ASSUME PlaceInv, NEW t \in Tasks, GrantReaders(t), NEW G, G = FirstOf(wait_list, FrontReaders)
    PROVE  /\ PlaceInv'
           /\ \A u \in Tasks \ {t} : pc'[u] = pc[u] /\ fn'[u] = fn[u] /\ pc[u] \notin LockPlaces
           /\ \A u \in Tasks : Queued(u)' <=> Queued(u) /\ u \notin G
           /\ \A u \in G : u \in Tasks /\ Queued(u) /\ fn[u] = "read_failed"
           /\ IsFiniteSet(G) /\ Cardinality(G) = FrontReaders
           /\ FrontReaders \in 1..Len(wait_list)
           /\ wait_list' = <<>> <=> FrontReaders = Len(wait_list)
           /\ pc'[t] = AfterWake(t)
<1> DEFINE l == AfterWake(t)
           f == IF fn[t] \in {"read_failed", "write_failed"} THEN fn[t] ELSE "none"
<1>1. /\ pc[t] = "grant" /\ pc[t] \in WakePlaces /\ Moves(t, l, f)
      /\ wait_lock' = (IF fn[t] = "write_failed" THEN t ELSE NoTask)
      /\ wait_list' = SubSeq(wait_list, FrontReaders + 1, Len(wait_list))
    BY DEF GrantReaders, At, WakePlaces, Return, Goto, Enter, Moves
<1> USE <1>1
<1>2. FrontReaders \in 1..Len(wait_list) /\ \A u \in G : IsReader(u)
    BY FrontTasks
<1>3. PICK w \in 0..Len(wait_list) : w = FrontReaders
    <2>1. wait_list \in Seq(Tasks)
        BY DEF PlaceInv
    <2>2. FrontReaders \in 0..Len(wait_list)
        BY <1>2, <2>1, SMT
    <2> QED BY <2>2
<1>4. wait_list \in Seq(Tasks) /\ IsInjective(wait_list) /\ G = FirstOf(wait_list, w)
      /\ wait_list' = SubSeq(wait_list, w + 1, Len(wait_list))
    BY <1>3 DEF PlaceInv
<1> USE <1>4
<1>5. /\ IsFiniteSet(G) /\ Cardinality(G) = FrontReaders /\ G \subseteq Range(wait_list)
    BY <1>3, FrontSize
<1>6. /\ wait_list' \in Seq(Tasks) /\ IsInjective(wait_list')
      /\ Range(wait_list') = Range(wait_list) \ G
      /\ wait_list' = <<>> <=> FrontReaders = Len(wait_list)
    <2>1. /\ SubSeq(wait_list, w + 1, Len(wait_list)) \in Seq(Tasks)
          /\ IsInjective(SubSeq(wait_list, w + 1, Len(wait_list)))
          /\ Range(SubSeq(wait_list, w + 1, Len(wait_list))) = Range(wait_list) \ FirstOf(wait_list, w)
          /\ SubSeq(wait_list, w + 1, Len(wait_list)) = <<>> <=> w = Len(wait_list)
        BY DelFront
    <2> QED BY <1>3, <2>1
<1>7. Range(wait_list) \subseteq Tasks
    BY SMT DEF Range
<1>8. \A u \in G : u \in Tasks /\ Queued(u) /\ fn[u] = "read_failed"
    BY <1>2, <1>5, <1>7 DEF Queued, IsReader
<1>9. \A u \in Tasks : Queued(u)' <=> Queued(u) /\ u \notin G
    BY <1>6 DEF Queued
<1> USE <1>9
<1>10. /\ fn[t] \in Fns \ {"none"} /\ FnOf(t) /\ wait_lock = t /\ pc[t] \in LockPlaces
    BY WakePlacesApart DEF PlaceInv, FnOf
<1>11. /\ fn[t] = "read_failed" => l = "r_state" /\ f = "read_failed"
       /\ fn[t] = "write_failed" => l = "w_state" /\ f = "write_failed" /\ Queued(t)
       /\ fn[t] = "wake" => l = "out" /\ f = "none" /\ ~Queued(t)
       /\ fn[t] = "downgrade_wake" => l = "reading" /\ f = "none" /\ ~Queued(t)
       /\ fn[t] \in {"read_failed", "write_failed", "wake", "downgrade_wake"}
    BY <1>10 DEF AfterWake, FnOf, Fns
<1> HIDE DEF l, f
<1>12. /\ l \in PCs /\ f \in Fns /\ l \notin WakePlaces /\ l # "w_bias" /\ l # "undo_grant" /\ l # "grant"
       /\ l \in LockPlaces <=> fn[t] = "write_failed"
    BY <1>11 DEF PCs, Fns, WakePlaces, LockPlaces
<1>13. /\ pc' \in [Tasks -> PCs] /\ fn' \in [Tasks -> Fns] /\ pc'[t] = l /\ fn'[t] = f
       /\ \A u \in Tasks \ {t} : pc'[u] = pc[u] /\ fn'[u] = fn[u] /\ pc[u] \notin LockPlaces
    BY <1>10, <1>12, LockOthers DEF PlaceInv, Moves
<1> USE <1>13
<1>14. ASSUME NEW u \in Tasks PROVE FnOf(u)'
    <2>1. CASE u = t
        <3>1. fn[t] = "write_failed" => t \notin G
            BY <1>8
        <3>2. FnAt(l, f, Queued(t)')
            <4>1. fn[t] = "write_failed" => Queued(t)'
                BY <1>11, <3>1
            <4>2. Queued(t)' => Queued(t)
                OBVIOUS
            <4> QED BY <1>11, <4>1, <4>2 DEF FnAt, ReadWait, WriteWait, WakePlaces, LockPlaces
        <3> QED BY <2>1, <3>2 DEF FnAt, FnOf, Queued
    <2>2. CASE u # t
        <3>1. pc'[u] = pc[u] /\ fn'[u] = fn[u] /\ FnOf(u) /\ pc[u] \notin LockPlaces
            BY <2>2 DEF PlaceInv
        <3>2. fn[u] = "write_failed" => u \notin G
            BY <1>8
        <3>3. Queued(u)' <=> Queued(u) /\ u \notin G
            OBVIOUS
        <3>4. WakePlaces \subseteq LockPlaces
            BY DEF LockPlaces
        <3> HIDE DEF Queued
        <3> QED BY <3>1, <3>2, <3>3, <3>4 DEF FnOf
    <2> QED BY <2>1, <2>2
<1>15. \A u \in Tasks : wait_lock' = u <=> pc'[u] \in LockPlaces
    BY <1>12, NoTaskApart
<1>16. \A u \in Tasks : pc'[u] \notin WakePlaces /\ pc'[u] # "w_bias" /\ pc'[u] \notin {"undo_grant", "grant"}
    <2>1. WakePlaces \subseteq LockPlaces /\ "w_bias" \in LockPlaces /\ "undo_grant" \in LockPlaces /\ "grant" \in LockPlaces
        BY DEF LockPlaces, WakePlaces
    <2> QED BY <1>12, <2>1
<1>17. PlaceInv'
    BY <1>6, <1>14, <1>15, <1>16 DEF PlaceInv
<1> QED BY <1>2, <1>5, <1>6, <1>8, <1>17 DEF l

\* Who holds the semaphore after the grant.
LEMMA GrantRoles ==
    ASSUME PlaceInv, NEW t \in Tasks, GrantReaders(t), NEW G, G = FirstOf(wait_list, FrontReaders)
    PROVE  /\ Holding' = Holding \cup G /\ Holding \cap G = {}
           /\ Granting' \ {t} = Granting \ {t} /\ t \notin Granting'
           /\ t \in Granting <=> fn[t] # "downgrade_wake"
           /\ Writing' = Writing /\ Writers' = Writers
<1>1. /\ PlaceInv'
      /\ \A u \in Tasks \ {t} : pc'[u] = pc[u] /\ fn'[u] = fn[u] /\ pc[u] \notin LockPlaces
      /\ \A u \in Tasks : Queued(u)' <=> Queued(u) /\ u \notin G
      /\ \A u \in G : u \in Tasks /\ Queued(u) /\ fn[u] = "read_failed"
      /\ pc'[t] = AfterWake(t)
    BY GrantEffect
<1> USE <1>1
<1>2. pc[t] = "grant" /\ pc[t] \in WakePlaces
    BY DEF GrantReaders, At, WakePlaces
<1>3. WakerHolds(t) /\ fn[t] \in Fns \ {"none"} /\ FnOf(t)
    BY <1>2, WakerRole DEF PlaceInv, FnOf
\* The readers that are granted the lock, t aside.
<1> USE <1>3
<1>4. ASSUME NEW u \in G, u # t
      PROVE  Nothing(u) /\ u \in Holding' /\ u \notin Granting' /\ u \notin Writing' /\ u \notin Writers'
    <2>1. u \in Tasks /\ Queued(u) /\ ~Queued(u)' /\ FnOf(u) /\ fn[u] = "read_failed"
          /\ pc'[u] = pc[u] /\ fn'[u] = fn[u] /\ pc[u] \notin LockPlaces
        BY <1>4 DEF PlaceInv
    <2> USE <2>1
    <2>2. pc[u] \in ReadWait
        BY DEF FnOf
    <2>3. /\ pc[u] \notin WritePlaces /\ pc[u] \notin WakePlaces /\ pc[u] \notin {"reading", "downgrade_wake"}
          /\ pc[u] \notin {"r_failed", "w_undo"} /\ pc[u] # "w_undo" /\ pc[u] # "w_bias"
          /\ pc[u] # "undo_grant" /\ pc[u] # "grant"
        BY <2>2 DEF ReadWait, WritePlaces, WakePlaces
    <2>4. Nothing(u)
        BY <2>3, RoleDefs DEF Roles, Nothing
    <2>5. u \in Readers'
        BY <2>2, RoleDefs DEF Roles
    <2> QED BY <2>3, <2>4, <2>5, RoleDefs DEF Roles
\* The other tasks.
<1>5. ASSUME NEW u \in Tasks, u # t, u \notin G
      PROVE  /\ u \in Holding' <=> u \in Holding
             /\ u \in Granting' <=> u \in Granting
             /\ u \in Writing' <=> u \in Writing
             /\ u \in Writers' <=> u \in Writers
    <2>1. pc'[u] = pc[u] /\ fn'[u] = fn[u] /\ (Queued(u)' <=> Queued(u))
        BY <1>5
    <2>2. (u \in Readers' <=> u \in Readers) /\ (u \in Writers' <=> u \in Writers)
        BY <2>1, RoleDefs DEF Roles
    <2> QED BY <2>1, <2>2, RoleDefs DEF Roles
\* The task that wakes.
<1>6. /\ t \in Holding' <=> t \in Holding \/ t \in G
      /\ t \in G => t \notin Holding
      /\ t \notin Granting' /\ t \notin Writing' /\ t \notin Writers'
    <2>1. /\ fn[t] = "read_failed" => pc'[t] = "r_state" /\ Queued(t)
          /\ fn[t] = "write_failed" => pc'[t] = "w_state"
          /\ fn[t] = "wake" => pc'[t] = "out"
          /\ fn[t] = "downgrade_wake" => pc'[t] = "reading"
          /\ fn[t] \in {"read_failed", "write_failed", "wake", "downgrade_wake"}
        BY <1>2 DEF AfterWake, Fns, FnOf
    <2> USE <2>1
    <2>2. /\ pc'[t] \notin WritePlaces /\ pc'[t] # "w_bias" /\ pc'[t] # "w_undo" /\ pc'[t] # "undo_grant" /\ pc'[t] # "grant"
          /\ pc'[t] \notin {"r_failed", "w_undo"} /\ pc'[t] \notin WakePlaces
        BY DEF WritePlaces, WakePlaces
    <2>3. t \notin Granting' /\ t \notin Writing' /\ t \notin Writers' /\ (t \in Holding' <=> t \in Readers')
        BY <2>2, RoleDefs DEF Roles
    <2>4. CASE fn[t] = "read_failed"
        <3>1. pc'[t] \in ReadWait /\ pc'[t] \notin {"reading", "downgrade_wake"} /\ fn[t] # "downgrade_wake"
            BY <2>4 DEF ReadWait
        <3>2. t \in Readers' <=> t \in G
            BY <2>2, <2>4, <3>1, RoleDefs DEF Roles
        <3> QED BY <2>3, <3>1, <3>2 DEF WakerHolds
    <2>5. CASE fn[t] \in {"write_failed", "wake"}
        <3>1. pc'[t] \in Idle /\ fn[t] # "downgrade_wake" /\ fn[t] # "read_failed"
            BY <2>5 DEF Idle, Apart
        <3>2. Nothing(t)' /\ t \notin G
            BY <3>1, IdleRole
        <3> QED BY <2>3, <3>1, <3>2 DEF WakerHolds, Nothing
    <2>6. CASE fn[t] = "downgrade_wake"
        <3>1. pc'[t] \in {"reading", "downgrade_wake"} /\ fn[t] # "read_failed"
            BY <2>6
        <3>2. t \in Readers' /\ t \notin G
            BY <3>1, RoleDefs DEF Roles
        <3> QED BY <2>3, <2>6, <3>2 DEF WakerHolds
    <2> QED BY <2>4, <2>5, <2>6
<1> USE <1>6
<1>7. G \subseteq Tasks
    OBVIOUS
<1>8. Holding' = Holding \cup G /\ Holding \cap G = {}
    <2>1. \A u \in Tasks : u \in Holding' <=> u \in Holding \/ u \in G
        BY <1>4, <1>5 DEF Nothing
    <2>2. \A u \in G : u \notin Holding
        BY <1>4 DEF Nothing
    <2>3. Holding \subseteq Tasks /\ Holding' \subseteq Tasks
        BY DEF Holding
    <2> QED BY <1>7, <2>1, <2>2, <2>3
<1>9. Granting' \ {t} = Granting \ {t}
    <2>1. \A u \in Tasks \ {t} : u \in Granting' <=> u \in Granting
        BY <1>4, <1>5 DEF Nothing
    <2>2. Granting \subseteq Tasks /\ Granting' \subseteq Tasks
        BY DEF Granting
    <2> QED BY <2>1, <2>2
<1>10. Writing' = Writing
    <2>1. \A u \in Tasks : u \in Writing' <=> u \in Writing
        BY <1>4, <1>5 DEF Nothing, WakerHolds
    <2>2. Writing \subseteq Tasks /\ Writing' \subseteq Tasks
        BY DEF Writing
    <2> QED BY <2>1, <2>2
<1>11. Writers' = Writers
    <2>1. \A u \in Tasks : u \in Writers' <=> u \in Writers
        BY <1>4, <1>5 DEF Nothing, WakerHolds
    <2>2. Writers \subseteq Tasks /\ Writers' \subseteq Tasks
        BY DEF Writers
    <2> QED BY <2>1, <2>2
<1>12. t \in Granting <=> fn[t] # "downgrade_wake"
    BY <1>2 DEF WakerHolds
<1> QED BY <1>8, <1>9, <1>10, <1>11, <1>12

\* A grant to the readers in front keeps the invariant.
LEMMA GrantKeeps ==
    ASSUME IInv, NEW t \in Tasks, GrantReaders(t)
    PROVE  IInv'
<1>0. PlaceInv /\ CountInv /\ count \in Int /\ ActiveMask \in Nat
    BY CountFacts, RwSemAssumption DEF IInv
<1> USE <1>0
<1>1. PICK G : G = FirstOf(wait_list, FrontReaders)
    OBVIOUS
<1> USE <1>1
<1>2. PICK w \in Nat \ {0} : w = FrontReaders /\ Cardinality(G) = w /\ IsFiniteSet(G)
    <2>1. FrontReaders \in 1..Len(wait_list) /\ wait_list \in Seq(Tasks)
        BY GrantEffect DEF PlaceInv
    <2>2. FrontReaders \in Nat \ {0}
        BY <2>1, SMT
    <2> QED BY <2>2, GrantEffect
<1> USE <1>2
<1>3. /\ Holding' = Holding \cup G /\ Holding \cap G = {}
      /\ Granting' \ {t} = Granting \ {t} /\ t \notin Granting'
      /\ t \in Granting <=> fn[t] # "downgrade_wake"
      /\ Writing' = Writing /\ Writers' = Writers
    BY GrantRoles
<1> USE <1>3
<1>4. Writers = {}
    BY DEF IInv, NoWriterAtGrant, GrantReaders, At
<1>5. WritersExclude' /\ NoWriterAtGrant'
    BY <1>4 DEF WritersExclude, NoWriterAtGrant
<1>6. PICK b \in {0, 1} : /\ b = (IF fn[t] = "downgrade_wake" THEN 0 ELSE 1)
                          /\ Cardinality(Granting') = Cardinality(Granting) - b
    <2>1. \A S, T : IsFiniteSet(S) /\ T \ {t} = S \ {t} =>
                        Cardinality(T) = Cardinality(S) + (Bit(t \in T) - Bit(t \in S))
        BY CardChange DEF Bit
    <2>2. Cardinality(Granting') = Cardinality(Granting) + (Bit(t \in Granting') - Bit(t \in Granting))
          /\ Cardinality(Granting) \in Nat
        BY <2>1, SetsFinite
    <2> QED BY <2>2, SMT DEF Bit
<1>7. Cardinality(Holding') = Cardinality(Holding) + w
    <2>1. Cardinality(Holding \cup G) = Cardinality(Holding) + Cardinality(G) - Cardinality(Holding \cap G)
        BY SetsFinite, FS_Union
    <2>2. Cardinality(Holding \cap G) = 0
        BY FS_EmptySet
    <2> QED BY <2>1, <2>2, SetsFinite, SMT
<1>8. Waiting = 1 /\ Waiting' = (IF w = Len(wait_list) THEN 0 ELSE 1)
    <2>1. pc[t] \in LockPlaces /\ pc[t] \in WakePlaces /\ "w_bias" \in LockPlaces
        BY DEF GrantReaders, At, LockPlaces, WakePlaces
    <2>2. wait_list # <<>> /\ \A u \in Tasks : pc[u] # "w_bias"
        BY <2>1, LockOthers, WakePlacesApart DEF PlaceInv
    <2>3. pc'[t] = AfterWake(t) /\ fn[t] \in Fns \ {"none"}
          /\ \A u \in Tasks \ {t} : pc'[u] = pc[u]
        BY <2>1, GrantEffect DEF PlaceInv, FnOf
    <2>4. pc'[t] # "w_bias"
        BY <2>3 DEF AfterWake, Fns
    <2>5. \A u \in Tasks : pc'[u] # "w_bias"
        BY <2>2, <2>3, <2>4
    <2>6. wait_list' = <<>> <=> w = Len(wait_list)
        BY GrantEffect
    <2> QED BY <2>2, <2>5, <2>6 DEF Waiting
<1> USE <1>8
<1>9. count' = count + w - b - (IF w = Len(wait_list) THEN WaitingBias ELSE 0) /\ killed' = killed
    <2>1. count' = count + w * ReadBias - (IF fn[t] = "downgrade_wake" THEN 0 ELSE ReadBias)
                   - (IF w = Len(wait_list) THEN WaitingBias ELSE 0) /\ killed' = killed
        BY DEF GrantReaders
    <2>2. w * ReadBias = w /\ (IF fn[t] = "downgrade_wake" THEN 0 ELSE ReadBias) = b
        BY <1>6, SMT DEF ReadBias
    <2> QED BY <2>1, <2>2
<1>10. PICK stale \in Nat : CountIs(stale) /\ (killed = {} => stale = 0)
    BY DEF CountInv
<1>11. CountIs(stale)'
    <2>1. PICK h \in Nat, g \in Nat, x \in Nat :
             h = Cardinality(Holding) /\ g = Cardinality(Granting) /\ x = Cardinality(Writing)
        BY SetsFinite
    <2>2. PICK n \in Nat, v \in {0, 1} : n = x + v + stale /\ v = Waiting' /\ x + 1 + stale = n + (1 - v)
        <3>1. CASE w = Len(wait_list)
            <4>1. x + 0 + stale \in Nat /\ 0 \in {0, 1} /\ x + 1 + stale = (x + 0 + stale) + (1 - 0)
                BY SMT
            <4> QED BY <3>1, <4>1
        <3>2. CASE w # Len(wait_list)
            <4>1. x + 1 + stale \in Nat /\ 1 \in {0, 1} /\ x + 1 + stale = (x + 1 + stale) + (1 - 1)
                BY SMT
            <4> QED BY <3>2, <4>1
        <3> QED BY <3>1, <3>2
    <2>3. count = h + g - (ActiveMask + 1) * (n + (1 - v))
        BY <1>10, <2>1, <2>2 DEF CountIs
    <2>4. (ActiveMask + 1) * (n + (1 - v)) = (ActiveMask + 1) * n + (IF v = 1 THEN 0 ELSE ActiveMask + 1)
          /\ (ActiveMask + 1) * n \in Int
        <3>1. CASE v = 1
            BY <3>1, SMT
        <3>2. CASE v = 0
            BY <3>2, Product, SMT
        <3> QED BY <3>1, <3>2
    <2>5. (IF w = Len(wait_list) THEN WaitingBias ELSE 0) = -(IF v = 1 THEN 0 ELSE ActiveMask + 1)
        BY <2>2, SMT DEF WaitingBias
    <2>6. count' = (h + w) + (g - b) - (ActiveMask + 1) * n
        BY <1>9, <2>3, <2>4, <2>5, SMT
    <2> QED BY <1>6, <1>7, <2>1, <2>2, <2>6 DEF CountIs
<1>12. CountInv'
    BY <1>9, <1>10, <1>11 DEF CountInv
<1> QED BY <1>5, <1>12, GrantEffect DEF IInv

------------------------------------------------------------------------------
\* The steps that leave the count alone.
LEMMA QuietSteps ==
    ASSUME IInv, NEW t \in Tasks,
           \/ SetOwner(t) \/ ClearOwner(t) \/ SpinSetOwner(t)
           \/ ReadSetState(t) \/ ReadWoken(t) \/ WriteSetState(t)
           \/ CanSpin(t) \/ OsqTurn(t) \/ OsqGiveUp(t) \/ SpinReadOwner(t) \/ OwnerSleeps(t)
           \/ OwnerChanged(t) \/ OwnerGone(t) \/ TryFails(t)
           \/ WriteLoop(t) \/ WriteWoken(t) \/ WriteReadCount(t)
           \/ WakeLookForSpinner(t) \/ WakeTrylockFails(t)
    PROVE  IInv'
<1>0. UNCHANGED <<count, wait_list, wait_lock, fn>> /\ killed' = killed
    BY DEF SetOwner, ClearOwner, SpinSetOwner, ReadSetState, ReadWoken, WriteSetState, CanSpin,
        OsqTurn, OsqGiveUp, SpinReadOwner, OwnerSleeps, OwnerChanged, OwnerGone, TryFails, WriteLoop,
        WriteWoken, WriteReadCount, WakeLookForSpinner, WakeTrylockFails, wait, local
<1> DEFINE In(C) == pc[t] \in C /\ \E l \in C : Goto(t, l)
<1>1. ASSUME NEW C \in Classes, In(C) PROVE IInv'
    BY <1>0, <1>1, QuietKeeps
<1>2. Apart \in Classes /\ ReadWait \in Classes /\ WriteWait \in Classes /\ WritePlaces \in Classes
      /\ {"w_state", "w_try"} \in Classes
    BY DEF Classes
<1> USE <1>2
<1>3. CASE SetOwner(t) \/ ClearOwner(t) \/ SpinSetOwner(t)
    <2>1. In(WritePlaces)
        BY <1>3 DEF SetOwner, ClearOwner, SpinSetOwner, LeaveSpin, At, WritePlaces
    <2> QED BY <1>1, <2>1
<1>4. CASE ReadSetState(t) \/ ReadWoken(t)
    <2>1. In(ReadWait)
        BY <1>4 DEF ReadSetState, ReadWoken, At, ReadWait
    <2> QED BY <1>1, <2>1
<1>5. CASE WriteSetState(t)
    <2>1. In({"w_state", "w_try"})
        BY <1>5 DEF WriteSetState, At
    <2> QED BY <1>1, <2>1
<1>6. CASE CanSpin(t) \/ OsqTurn(t) \/ OsqGiveUp(t) \/ SpinReadOwner(t) \/ OwnerSleeps(t)
    <2>1. In(Apart)
        BY <1>6 DEF CanSpin, OsqTurn, OsqGiveUp, SpinReadOwner, OwnerSleeps, LeaveSpin, At, Apart
    <2> QED BY <1>1, <2>1
<1>7. CASE OwnerChanged(t) \/ OwnerGone(t) \/ TryFails(t)
    <2>1. In(Apart)
        BY <1>7 DEF OwnerChanged, OwnerGone, TryFails, LeaveSpin, At, Apart
    <2> QED BY <1>1, <2>1
<1>8. CASE WriteLoop(t) \/ WriteWoken(t) \/ WriteReadCount(t)
    <2>1. In(WriteWait)
        BY <1>8 DEF WriteLoop, WriteWoken, WriteReadCount, At, WriteWait
    <2> QED BY <1>1, <2>1
<1>9. CASE WakeLookForSpinner(t) \/ WakeTrylockFails(t)
    <2>1. In(Apart)
        BY <1>9 DEF WakeLookForSpinner, WakeTrylockFails, At, Apart
    <2> QED BY <1>1, <2>1
<1> QED BY <1>3, <1>4, <1>5, <1>6, <1>7, <1>8, <1>9

\* Nothing that IInv speaks of changes but the set of killed tasks, which only grows.
LEMMA Untouched ==
    ASSUME IInv, UNCHANGED <<count, wait_list, wait_lock, pc, fn>>, killed' = {} => killed = {}
    PROVE  IInv'
<1>0. count' = count /\ wait_list' = wait_list /\ wait_lock' = wait_lock /\ pc' = pc /\ fn' = fn
    OBVIOUS
<1> USE <1>0
<1>1. \A u : FnOf(u)' <=> FnOf(u)
    BY DEF FnOf, Queued
<1>2. PlaceInv'
    BY <1>1 DEF IInv, PlaceInv, IsReader
<1>3. Readers' = Readers /\ Writers' = Writers
    BY DEF Readers, Writers, Waking, Queued
<1>4. Holding' = Holding /\ Granting' = Granting /\ Writing' = Writing /\ Waiting' = Waiting
    BY <1>3 DEF Holding, Granting, Writing, Waiting
<1>5. CountInv'
    BY <1>4 DEF IInv, CountInv, CountIs
<1>6. WritersExclude' /\ NoWriterAtGrant'
    BY <1>3 DEF IInv, WritersExclude, NoWriterAtGrant
<1> QED BY <1>2, <1>5, <1>6 DEF IInv

\* Only a killed writer takes the -EINTR path.
Interrupts == \A t \in Tasks : pc[t] = "w_intr" => killed # {}

\* Only a killed task gets to where a wait is given up.
LEMMA StepInterrupts ==
    ASSUME IInv, Interrupts, Next
    PROVE  Interrupts'
<1>0. pc \in [Tasks -> PCs]
    BY DEF IInv, PlaceInv
<1>1. ASSUME NEW t \in Tasks, NEW l, Goto(t, l), killed' = killed, l = "w_intr" => killed # {}
      PROVE  Interrupts'
    BY <1>0, <1>1 DEF Interrupts, Goto
<1>2. ASSUME NEW t \in Tasks, Call(t) PROVE Interrupts'
    <2>1. \E l \in {"reading", "r_failed", "w_owner", "w_undo"} : Goto(t, l) /\ killed' = killed
        BY <1>2 DEF Call, DownRead, DownReadTrylock, DownWrite, DownWriteTrylock
    <2> QED BY <1>1, <2>1
<1>3. ASSUME NEW t \in Tasks, Kill(t) \/ StrayWakeUp(t) PROVE Interrupts'
    <2>1. pc' = pc /\ (killed' = {} => killed = {})
        BY <1>3 DEF Kill, StrayWakeUp
    <2> QED BY <2>1 DEF Interrupts
<1>4. ASSUME NEW t \in Tasks, Step(t) PROVE Interrupts'
    <2> DEFINE To(S) == \E l \in S : Goto(t, l) /\ killed' = killed
    <2>0. ASSUME NEW S, To(S), "w_intr" \notin S PROVE Interrupts'
        BY <1>1, <2>0
    <2>1. CASE WriteLoop(t)
        <3>1. killed' = killed /\ Goto(t, IF state[t] = "killable" /\ t \in killed THEN "w_intr" ELSE "w_sleep")
            BY <2>1 DEF WriteLoop
        <3> QED BY <1>1, <3>1
    <2>2. CASE SetOwner(t) \/ UpRead(t) \/ ClearOwner(t) \/ UpWrite(t) \/ DowngradeWrite(t)
               \/ TryReaderGrant(t) \/ ReadFailed(t) \/ ReadSetState(t) \/ ReadCheck(t) \/ ReadWoken(t)
        <3>1. To({"writing", "wake", "out", "up_write", "downgrade", "downgrade_wake", "reading", "grant",
                  "undo_grant", "do_wake", "r_state", "r_check", "r_sleep"})
            BY <2>2 DEF SetOwner, UpRead, ClearOwner, UpWrite, DowngradeWrite, TryReaderGrant,
                ReadFailed, ReadSetState, ReadCheck, ReadWoken
        <3> QED BY <2>0, <3>1
    <2>3. CASE WakeWriter(t) \/ UndoGrant(t) \/ GrantReaders(t)
        <3>1. killed' = killed /\ (Goto(t, "do_wake") \/ Goto(t, AfterWake(t))) /\ pc[t] \in WakePlaces
            BY <2>3 DEF WakeWriter, UndoGrant, GrantReaders, Return, At, WakePlaces
        <3>2. fn[t] \in Fns \ {"none"}
            BY <3>1 DEF IInv, PlaceInv, FnOf
        <3>3. AfterWake(t) # "w_intr" /\ "do_wake" # "w_intr"
            BY <3>2 DEF AfterWake, Fns
        <3> QED BY <1>1, <3>1, <3>3
    <2>4. CASE WriteUndo(t) \/ CanSpin(t) \/ OsqTurn(t) \/ OsqGiveUp(t) \/ SpinReadOwner(t)
               \/ OwnerSleeps(t) \/ OwnerChanged(t) \/ OwnerGone(t) \/ TryUnqueued(t)
               \/ TryFails(t) \/ SpinSetOwner(t)
        <3>1. To({"can_spin", "osq_wait", "w_failed", "spin", "try", "on_owner", "on_count", "spin_owner", "w_owner"})
            BY <2>4 DEF WriteUndo, CanSpin, OsqTurn, OsqGiveUp, SpinReadOwner, OwnerSleeps,
                OwnerChanged, OwnerGone, TryUnqueued, TryFails, SpinSetOwner, LeaveSpin
        <3> QED BY <2>0, <3>1
    <2>5. CASE WriteFailed(t) \/ WriteSetState(t) \/ WriteTry(t) \/ WriteAddBias(t)
               \/ WriteTryFails(t) \/ WriteWoken(t) \/ WriteReadCount(t)
               \/ WriteRelock(t) \/ WriteInterrupted(t)
        <3>1. To({"do_wake", "w_state", "w_try", "w_owner", "w_bias", "w_loop", "w_read", "w_relock", "out"})
            BY <2>5 DEF WriteFailed, WriteSetState, WriteTry, WriteAddBias, Acquired, WriteTryFails,
                WriteWoken, WriteReadCount, WriteRelock, WriteInterrupted
        <3> QED BY <2>0, <3>1
    <2>6. CASE WakeLookForSpinner(t) \/ WakeTrylockFails(t) \/ WakeLocked(t) \/ DowngradeWake(t)
        <3>1. To({"wake_trylock", "wake_lock", "out", "do_wake", "reading"})
            BY <2>6 DEF WakeLookForSpinner, WakeTrylockFails, WakeLocked, DowngradeWake, WakeIfWaiters
        <3> QED BY <2>0, <3>1
    <2> QED BY <1>4, <2>1, <2>2, <2>3, <2>4, <2>5, <2>6 DEF Step
<1> QED BY <1>2, <1>3, <1>4 DEF Next

\* Every step keeps the invariant.
LEMMA StepKeeps ==
    ASSUME IInv, Interrupts, [Next]_vars
    PROVE  IInv'
<1>1. ASSUME NEW t \in Tasks, Call(t) PROVE IInv'
    BY <1>1, FastKeeps DEF Call
<1>2. ASSUME NEW t \in Tasks, Kill(t) \/ StrayWakeUp(t) PROVE IInv'
    <2>1. UNCHANGED <<count, wait_list, wait_lock, pc, fn>> /\ (killed' = {} => killed = {})
        BY <1>2 DEF Kill, StrayWakeUp, wait, local
    <2> QED BY <2>1, Untouched
<1>3. ASSUME UNCHANGED vars PROVE IInv'
    <2>1. UNCHANGED <<count, wait_list, wait_lock, pc, fn>> /\ killed' = killed
        BY <1>3 DEF vars
    <2> QED BY <2>1, Untouched
<1>4. ASSUME NEW t \in Tasks, WriteInterrupted(t) PROVE IInv'
    <2>1. killed # {}
        BY <1>4 DEF WriteInterrupted, At, Interrupts
    <2> QED BY <1>4, <2>1, InterruptKeeps
<1>5. ASSUME NEW t \in Tasks, Step(t) PROVE IInv'
    BY <1>4, <1>5, FastKeeps, QuietSteps, WakeKeeps, GrantKeeps, EnterKeeps, RelockKeeps, JoinKeeps,
       AcquireKeeps, ZenonT(30) DEF Step
<1> QED BY <1>1, <1>2, <1>3, <1>5 DEF Next

\* The invariant holds initially.
LEMMA InitKeeps == Init => IInv /\ Interrupts
<1> SUFFICES ASSUME Init PROVE IInv /\ Interrupts
    OBVIOUS
<1>1. Range(<<>>) = {} /\ <<>> \in Seq(Tasks) /\ IsInjective(<<>>)
    BY SMT DEF Range, IsInjective
<1>2. \A t \in Tasks : pc[t] = "out" /\ fn[t] = "none" /\ ~Queued(t)
    BY <1>1 DEF Init, Queued
<1> USE <1>2
<1>3. "out" \in Idle /\ "out" \notin LockPlaces /\ "out" \notin WakePlaces /\ "out" \notin ReadWait
      /\ "out" \notin WriteWait \cup {"w_state", "w_try", "w_bias"} /\ "out" \notin {"undo_grant", "grant"}
      /\ "out" # "w_bias" /\ "out" # "w_intr" /\ "out" \in PCs /\ "none" \in Fns
      /\ "none" # "write_failed" /\ "none" # "read_failed"
    BY DEF Idle, Apart, LockPlaces, WakePlaces, ReadWait, WriteWait, PCs, Fns
<1> USE <1>3
<1>4. \A t \in Tasks : FnOf(t)
    BY DEF FnOf
<1>5. PlaceInv
    BY <1>1, <1>4, NoTaskApart DEF PlaceInv, Init
<1>6. \A t \in Tasks : Nothing(t)
    BY IdleRole
<1>7. Holding = {} /\ Granting = {} /\ Writing = {} /\ Writers = {}
    BY <1>6 DEF Nothing, Holding, Granting, Writing, Writers
<1>8. CountIs(0)
    <2>1. Cardinality({}) = 0 /\ Waiting = 0 /\ count = 0
        BY FS_EmptySet DEF Waiting, Init
    <2>2. 0 = 0 + 0 - (ActiveMask + 1) * (0 + 0 + 0)
        BY RwSemAssumption, SMT
    <2> QED BY <1>7, <2>1, <2>2 DEF CountIs
<1>9. CountInv
    BY <1>8 DEF CountInv
<1> QED BY <1>5, <1>7, <1>9 DEF IInv, WritersExclude, NoWriterAtGrant, Interrupts

\* The invariant holds in every state.
LEMMA IInvHolds == Spec => [](IInv /\ Interrupts)
<1>1. IInv /\ Interrupts /\ [Next]_vars => (IInv /\ Interrupts)'
    <2>1. ASSUME IInv, Interrupts, UNCHANGED vars PROVE Interrupts'
        BY <2>1 DEF vars, Interrupts
    <2> QED BY <2>1, StepKeeps, StepInterrupts
<1> QED BY <1>1, InitKeeps, PTL DEF Spec

\* A writer holds the semaphore alone, in every state that the fast paths, the slow paths,
\* the spinners, the grants to readers, the downgrades and any number of killed writers reach.
THEOREM WritersExcludeHolds == Spec => []WritersExclude
<1>1. IInv => WritersExclude
    BY DEF IInv
<1> QED BY <1>1, IInvHolds, PTL

\* The count that IInv gives is the one of the guide in rwsem-xadd.c.
LEMMA GuideFollows ==
    ASSUME IInv, killed = {}
    PROVE  CountGuide
<1> DEFINE attempting == {t \in Tasks : pc[t] = "r_failed"}
           undoing == {t \in Tasks : pc[t] = "w_undo"}
<1>1. IsFiniteSet(Readers) /\ IsFiniteSet(attempting) /\ IsFiniteSet(Writers) /\ IsFiniteSet(undoing)
    <2>1. Readers \subseteq Tasks /\ attempting \subseteq Tasks /\ Writers \subseteq Tasks /\ undoing \subseteq Tasks
        BY DEF Readers, Writers
    <2> QED BY <2>1, RwSemAssumption, FS_Subset
<1>2. /\ Writers \cap undoing = {} /\ Readers \cap attempting = {}
      /\ (Readers \cup attempting) \cap (Writers \cup undoing) = {}
    <2>1. ASSUME NEW t \in Tasks
          PROVE  /\ ~(t \in Writers /\ t \in undoing) /\ ~(t \in Readers /\ t \in attempting)
                 /\ ~((t \in Readers \/ t \in attempting) /\ (t \in Writers \/ t \in undoing))
        <3>1. t \in Writers => pc[t] \notin {"w_undo", "r_failed"}
            BY DEF Writers
        <3>2. t \in Readers => pc[t] \notin {"w_undo", "r_failed"}
            BY DEF Readers, Waking
        <3>3. ~(t \in Writers /\ t \in Readers)
            BY DEF IInv, WritersExclude
        <3> QED BY <3>1, <3>2, <3>3
    <2>2. Readers \subseteq Tasks /\ attempting \subseteq Tasks /\ Writers \subseteq Tasks /\ undoing \subseteq Tasks
        BY DEF Readers, Writers
    <2> QED BY <2>1, <2>2
<1>3. Holding = (Readers \cup attempting) \cup (Writers \cup undoing) /\ Writing = Writers \cup undoing
    BY DEF Holding, Writing, Readers, Writers
<1> HIDE DEF attempting, undoing
<1>4. PICK r \in Nat, a \in Nat, w \in Nat, u \in Nat :
         /\ r = Cardinality(Readers) /\ a = Cardinality(attempting)
         /\ w = Cardinality(Writers) /\ u = Cardinality(undoing)
    BY <1>1, FS_CardinalityType
<1>5. Cardinality(Writing) = w + u /\ Cardinality(Holding) = (r + a) + (w + u)
    <2>1. IsFiniteSet(Writers \cup undoing) /\ Cardinality(Writers \cup undoing) = w + u
        BY <1>1, <1>2, <1>4, CardSum
    <2>2. IsFiniteSet(Readers \cup attempting) /\ Cardinality(Readers \cup attempting) = r + a
        BY <1>1, <1>2, <1>4, CardSum
    <2>3. Cardinality((Readers \cup attempting) \cup (Writers \cup undoing)) = (r + a) + (w + u)
        <3>1. PICK S, T : S = Readers \cup attempting /\ T = Writers \cup undoing
            OBVIOUS
        <3>2. IsFiniteSet(S) /\ IsFiniteSet(T) /\ S \cap T = {} /\ Cardinality(S) = r + a /\ Cardinality(T) = w + u
            BY <1>2, <2>1, <2>2, <3>1
        <3>3. Cardinality(S \cup T) = Cardinality(S) + Cardinality(T)
            BY <3>2, CardSum
        <3>4. Cardinality(S \cup T) = (r + a) + (w + u)
            BY <3>2, <3>3
        <3> QED BY <3>1, <3>4
    <2> QED BY <1>3, <2>1, <2>3
<1>6. PICK g \in Nat : g = Cardinality(Granting)
    BY SetsFinite
<1>7. count = ((r + a) + (w + u)) + g - (ActiveMask + 1) * ((w + u) + Waiting + 0)
    BY <1>5, <1>6 DEF IInv, CountInv, CountIs
<1>8. PICK k \in Nat : k = w + u
    <2>1. w + u \in Nat
        BY SMT
    <2> QED BY <2>1
<1> USE <1>8
<1>9. ActiveMask \in Nat /\ WriteBias = -ActiveMask /\ WaitingBias = -ActiveMask - 1
    BY RwSemAssumption, SMT DEF WriteBias, WaitingBias
<1>10. count = r + a + g + WriteBias * (w + u) + (IF Waiting = 1 THEN WaitingBias ELSE 0)
    <2>1. Waiting \in {0, 1}
        BY DEF Waiting
    <2>2. (ActiveMask + 1) * (k + 1) = (ActiveMask + 1) * k + ActiveMask + 1
          /\ (ActiveMask + 1) * k \in Nat
        BY <1>9, Product
    <2>3. (ActiveMask + 1) * k = k - WriteBias * k /\ WriteBias * k \in Int
        BY <1>9, SMT
    <2>4. CASE Waiting = 0
        <3>1. k + Waiting + 0 = k
            BY <2>4, SMT
        <3>2. count = ((r + a) + k) + g - (ActiveMask + 1) * k
            BY <1>7, <3>1
        <3>3. count = r + a + g + WriteBias * k + 0
            BY <2>3, <3>2, SMT
        <3> QED BY <2>4, <3>3, SMT
    <2>5. CASE Waiting = 1
        <3>1. k + Waiting + 0 = k + 1
            BY <2>5, SMT
        <3>2. count = ((r + a) + k) + g - (ActiveMask + 1) * (k + 1)
            BY <1>7, <3>1
        <3>3. count = r + a + g + WriteBias * k + WaitingBias
            BY <1>9, <2>2, <2>3, <3>2, SMT
        <3> QED BY <2>5, <3>3
    <2> QED BY <2>1, <2>4, <2>5
<1>11. Waiting = 1 <=> wait_list # <<>> /\ \A t \in Tasks : pc[t] # "w_bias"
    BY SMT DEF Waiting
<1> QED BY <1>4, <1>6, <1>10, <1>11 DEF CountGuide, Granting, attempting, undoing

\* As long as no writer was killed, sem->count is the sum that the guide at the top of
\* rwsem-xadd.c makes of it, between any two atomic operations on it.
THEOREM CountFollowsGuideHolds == Spec => []CountFollowsGuide
<1>1. IInv => CountFollowsGuide
    BY GuideFollows DEF CountFollowsGuide
<1> QED BY <1>1, IInvHolds, PTL

------------------------------------------------------------------------------
\* No lost wake-up.

\* The semaphore is free and tasks are queued.
Freed == wait_list # <<>> /\ Holding = {} /\ Granting = {}

\* A task that is going to take the semaphore or to wake the front of the list, and that
\* does not rely on another one to do so.
TryPlaces == {"wake", "wake_lock", "can_spin", "osq_wait", "spin", "on_owner", "on_count", "try",
              "w_failed", "w_read", "w_relock"}
Trier(t) ==
    \/ pc[t] \in TryPlaces
    \/ pc[t] = "do_wake" /\ (fn[t] \in {"read_failed", "wake"} \/ IsReader(Head(wait_list)))
    \/ pc[t] \in {"w_loop", "w_sleep"} /\ run[t] = "running"
    \/ pc[t] \in {"w_state", "w_try"} /\ free[t]

\* As long as no writer is killed, a free semaphore with tasks queued has such a task; a
\* writer takes wait_lock again only after it read that the semaphore is free.
RelockFree == \A t \in Tasks : pc[t] = "w_relock" => free[t]
WakesKept == killed = {} => RelockFree /\ (Freed => \E t \in Tasks : Trier(t))

\* The local variables are functions on the tasks.
Locals == free = [t \in Tasks |-> free[t]] /\ run = [t \in Tasks |-> run[t]]

\* What the count is while the semaphore is free and tasks are queued.
FreedMeans == killed = {} /\ Freed => count = WaitingBias /\ Active(count) = 0 /\ count < -1
FreeMeans == Active(count) = 0 => Holding = {} /\ Granting = {}

\* With nobody holding, the count of a semaphore that has waiters is WaitingBias.
LEMMA FreedNow == IInv => FreedMeans /\ FreeMeans
<1> SUFFICES ASSUME IInv PROVE FreedMeans /\ FreeMeans
    OBVIOUS
<1>0. CountInv
    BY DEF IInv
<1>1. ASSUME killed = {}, Freed PROVE count = WaitingBias /\ Active(count) = 0 /\ count < -1
    <2>1. \A t \in Tasks : pc[t] # "w_bias"
        BY <1>1, RoleDefs DEF Roles, Freed
    <2>2. Waiting = 1
        BY <1>1, <2>1 DEF Waiting, Freed
    <2>3. count = WaitingBias /\ Active(count) = 0
        BY <1>0, <1>1, <2>2, CountFacts DEF Freed
    <2>4. Cardinality(Tasks) \in Nat /\ Cardinality(Tasks) # 0
        <3>1. Tasks # {}
            <4>1. wait_list \in Seq(Tasks) /\ wait_list # <<>>
                BY <1>1 DEF IInv, PlaceInv, Freed
            <4> QED BY <4>1, SMT
        <3> QED BY <3>1, RwSemAssumption, FS_CardinalityType, FS_EmptySet
    <2>5. WaitingBias < -1
        BY <2>4, RwSemAssumption, SMT DEF WaitingBias
    <2> QED BY <2>3, <2>5
<1> QED BY <1>0, <1>1, CountFacts DEF FreedMeans, FreeMeans

\* The same of the next state.
LEMMA FreedNext == IInv' => FreedMeans' /\ FreeMeans'
    BY FreedNow, PTL

\* Where a task holds the semaphore.
HeldPlaces == WritePlaces \cup {"w_bias", "reading", "downgrade_wake", "r_failed", "w_undo"}

\* What the place of a task says of whether the semaphore is free and of who is to try.
LEMMA PlaceTells ==
    ASSUME NEW t \in Tasks
    PROVE  /\ pc'[t] \in HeldPlaces => ~Freed'
           /\ pc'[t] \in TryPlaces => Trier(t)'
<1>1. ASSUME pc'[t] \in HeldPlaces PROVE t \in Holding'
    BY <1>1, RoleDefs DEF Roles, HeldPlaces
<1> QED BY <1>1 DEF Freed, Trier

\* Steps that change neither what t holds nor the list.
LEMMA QuietRoles ==
    ASSUME PlaceInv, NEW t \in Tasks, NEW l, Goto(t, l), UNCHANGED <<wait_list, fn>>,
           (pc[t] \in Idle /\ l \in Idle) \/ (pc[t] \in ReadWait /\ l \in ReadWait)
    PROVE  (Freed' => Freed) /\ pc'[t] = l /\ \A u \in Tasks \ {t} : pc'[u] = pc[u]
<1>0. wait_list' = wait_list /\ fn' = fn
    OBVIOUS
<1>1. pc'[t] = l /\ OnlyMoves(t) /\ \A u \in Tasks \ {t} : pc'[u] = pc[u]
    BY <1>0 DEF PlaceInv, Goto, OnlyMoves
<1> USE <1>1
<1>2. (t \in Holding' <=> t \in Holding) /\ (t \in Granting' <=> t \in Granting)
    <2>1. CASE pc[t] \in Idle /\ l \in Idle
        BY <2>1, IdleRole DEF Nothing
    <2>2. CASE pc[t] \in ReadWait /\ l \in ReadWait
        <3>1. \A k \in ReadWait : k \notin WritePlaces /\ k \notin WakePlaces /\ k \notin {"reading", "downgrade_wake"}
                  /\ k \notin {"r_failed", "w_undo"} /\ k # "w_bias" /\ k # "undo_grant" /\ k # "grant"
            BY DEF ReadWait, WritePlaces, WakePlaces
        <3>2. Queued(t)' <=> Queued(t)
            BY <1>0 DEF Queued
        <3>3. (t \in Readers' <=> t \in Readers) /\ t \notin Writers /\ t \notin Writers'
            BY <2>2, <3>1, <3>2, RoleDefs DEF Roles
        <3> QED BY <2>2, <3>1, <3>3, RoleDefs DEF Roles
    <2> QED BY <2>1, <2>2
<1>3. Holding' = Holding /\ Granting' = Granting
    <2>1. Holding' \ {t} = Holding \ {t} /\ Granting' \ {t} = Granting \ {t}
        BY OthersStay
    <2>2. \A S, T : S \ {t} = T \ {t} /\ (t \in S <=> t \in T) => S = T
        BY SMT
    <2> QED BY <1>2, <2>1, <2>2
<1> QED BY <1>0, <1>3 DEF Freed

\* A task that does not step goes on trying.
LEMMA StaysTrier ==
    ASSUME NEW u \in Tasks, Trier(u), pc'[u] = pc[u], free'[u] = free[u],
           run[u] = "running" => run'[u] = "running",
           pc[u] = "do_wake" => wait_list' = wait_list /\ fn' = fn
    PROVE  Trier(u)'
    BY DEF Trier, IsReader

\* The locals of the tasks that do not step.
LEMMA LocalsKept ==
    ASSUME Locals, NEW t \in Tasks
    PROVE  /\ UNCHANGED free => \A u \in Tasks : free'[u] = free[u]
           /\ UNCHANGED run => \A u \in Tasks : run'[u] = run[u]
           /\ \A x : free' = [free EXCEPT ![t] = x] =>
                   free'[t] = x /\ \A u \in Tasks \ {t} : free'[u] = free[u]
           /\ \A u \in Tasks : \A x : run' = [run EXCEPT ![u] = x] =>
                   run'[u] = x /\ \A v \in Tasks \ {u} : run'[v] = run[v]
    BY DEF Locals

\* The steps after which t holds the semaphore, or tries to take it.
LEMMA PlaceKeepsTrier ==
    ASSUME NEW t \in Tasks, pc \in [Tasks -> PCs],
           \/ Call(t) \/ SetOwner(t) \/ ClearOwner(t) \/ SpinSetOwner(t) \/ TryUnqueued(t)
           \/ DowngradeWrite(t) \/ WriteTry(t) \/ WriteAddBias(t) \/ (ReadCheck(t) /\ ~Queued(t))
           \/ WriteUndo(t) \/ CanSpin(t) \/ OsqTurn(t) \/ OsqGiveUp(t) \/ SpinReadOwner(t)
           \/ OwnerSleeps(t) \/ OwnerChanged(t) \/ OwnerGone(t) \/ TryFails(t) \/ WriteWoken(t)
    PROVE  Freed' => Trier(t)'
<1> DEFINE To(S) == \E l \in S : Goto(t, l)
<1>0. ASSUME NEW S, To(S) PROVE pc'[t] \in S
    BY <1>0 DEF Goto
<1>1. CASE Call(t)
    <2>1. To(HeldPlaces)
        BY <1>1 DEF Call, DownRead, DownReadTrylock, DownWrite, DownWriteTrylock, HeldPlaces, WritePlaces
    <2> QED BY <1>0, <2>1, PlaceTells
<1>2. CASE SetOwner(t) \/ ClearOwner(t) \/ SpinSetOwner(t) \/ TryUnqueued(t) \/ DowngradeWrite(t)
    <2>1. To(HeldPlaces)
        BY <1>2 DEF SetOwner, ClearOwner, SpinSetOwner, LeaveSpin, TryUnqueued, DowngradeWrite,
            HeldPlaces, WritePlaces
    <2> QED BY <1>0, <2>1, PlaceTells
<1>3. CASE WriteTry(t) \/ WriteAddBias(t) \/ (ReadCheck(t) /\ ~Queued(t))
    <2>1. To(HeldPlaces)
        BY <1>3 DEF WriteTry, WriteAddBias, Acquired, ReadCheck, Queued, HeldPlaces, WritePlaces
    <2> QED BY <1>0, <2>1, PlaceTells
<1>4. CASE WriteUndo(t) \/ CanSpin(t) \/ OsqTurn(t) \/ OsqGiveUp(t) \/ SpinReadOwner(t) \/ WriteWoken(t)
    <2>1. To(TryPlaces)
        BY <1>4 DEF WriteUndo, CanSpin, OsqTurn, OsqGiveUp, SpinReadOwner, WriteWoken, TryPlaces
    <2> QED BY <1>0, <2>1, PlaceTells
<1>5. CASE OwnerSleeps(t) \/ OwnerChanged(t) \/ OwnerGone(t) \/ TryFails(t)
    <2>1. To(TryPlaces)
        BY <1>5 DEF OwnerSleeps, OwnerChanged, OwnerGone, TryFails, LeaveSpin, TryPlaces
    <2> QED BY <1>0, <2>1, PlaceTells
<1> QED BY <1>1, <1>2, <1>3, <1>4, <1>5

\* The steps that leave the trying to others or go on with it.
LEMMA QuietKeepsTrier ==
    ASSUME IInv, Interrupts, Locals, NEW t \in Tasks, killed = {},
           Freed => \E u \in Tasks : Trier(u),
           \/ ReadSetState(t) \/ ReadWoken(t) \/ (ReadCheck(t) /\ Queued(t))
           \/ WriteSetState(t) \/ WriteTryFails(t) \/ WriteLoop(t) \/ WakeTrylockFails(t)
    PROVE  Freed' => \E u \in Tasks : Trier(u)'
<1> SUFFICES ASSUME Freed' PROVE \E u \in Tasks : Trier(u)'
    OBVIOUS
<1>0. PlaceInv
    BY DEF IInv
<1>1. /\ wait_list' = wait_list /\ fn' = fn /\ free' = free
      /\ run' = run \/ \E x : run' = [run EXCEPT ![t] = x]
    BY DEF ReadSetState, ReadWoken, ReadCheck, Queued, WriteSetState, WriteTryFails, WriteLoop,
        WakeTrylockFails, wait, local
<1> USE <1>1
<1>2. \A u \in Tasks : /\ free'[u] = free[u]
                       /\ u # t => run'[u] = run[u]
    <2>1. \A u \in Tasks : free'[u] = free[u]
        BY LocalsKept
    <2>2. \A u \in Tasks \ {t} : run'[u] = run[u]
        <3>1. CASE run' = run
            BY <3>1, LocalsKept
        <3>2. ASSUME NEW x, run' = [run EXCEPT ![t] = x] PROVE \A u \in Tasks \ {t} : run'[u] = run[u]
            BY <3>2, LocalsKept
        <3> QED BY <3>1, <3>2
    <2> QED BY <2>1, <2>2
<1>3. ASSUME NEW l, Goto(t, l),
             (pc[t] \in Idle /\ l \in Idle) \/ (pc[t] \in ReadWait /\ l \in ReadWait),
             Freed /\ Trier(t) /\ pc'[t] = l => Trier(t)'
      PROVE  \E u \in Tasks : Trier(u)'
    <2>1. Freed /\ pc'[t] = l /\ \A u \in Tasks \ {t} : pc'[u] = pc[u]
        BY <1>0, <1>3, QuietRoles
    <2>2. PICK u \in Tasks : Trier(u)
        BY <2>1
    <2>3. CASE u = t
        BY <1>3, <2>1, <2>2, <2>3
    <2>4. CASE u # t
        <3>1. Trier(u)'
            BY <1>2, <2>1, <2>2, <2>4, StaysTrier
        <3> QED BY <3>1
    <2> QED BY <2>3, <2>4
<1>4. CASE ReadSetState(t) \/ ReadWoken(t) \/ (ReadCheck(t) /\ Queued(t))
    <2>1. PICK l \in ReadWait : pc[t] \in ReadWait /\ Goto(t, l)
        BY <1>4 DEF ReadSetState, ReadWoken, ReadCheck, Queued, At, ReadWait
    <2>2. ~Trier(t)
        BY <2>1 DEF ReadWait, Trier, TryPlaces
    <2> QED BY <1>3, <2>1, <2>2
<1>5. CASE WakeTrylockFails(t)
    <2>1. PICK l \in Idle : l = "out" /\ pc[t] = "wake_trylock" /\ Goto(t, l) /\ pc[t] \in Idle
        BY <1>5 DEF WakeTrylockFails, At, Idle, Apart
    <2>2. ~Trier(t)
        BY <2>1 DEF Trier, TryPlaces
    <2> QED BY <1>3, <2>1, <2>2
<1>6. CASE WriteSetState(t)
    <2>1. PICK l \in Idle : l = "w_try" /\ pc[t] = "w_state" /\ Goto(t, l) /\ pc[t] \in Idle
        BY <1>6 DEF WriteSetState, At, Idle
    <2>2. Trier(t) => free[t]
        BY <2>1 DEF Trier, TryPlaces
    <2>3. pc'[t] = "w_try" /\ free'[t] => Trier(t)'
        BY DEF Trier
    <2>4. Freed /\ Trier(t) /\ pc'[t] = l => Trier(t)'
        BY <1>2, <2>1, <2>2, <2>3
    <2> QED BY <1>3, <2>1, <2>4
<1>7. CASE WriteLoop(t)
    <2>1. pc[t] = "w_loop" /\ pc[t] \in Idle /\ run' = run
        BY <1>7 DEF WriteLoop, At, Idle, WriteWait
    <2>2. PICK l \in Idle : l = "w_sleep" /\ Goto(t, l)
        BY <1>7 DEF WriteLoop, Idle, WriteWait
    <2>3. Trier(t) => run[t] = "running"
        BY <2>1 DEF Trier, TryPlaces
    <2>4. pc'[t] = "w_sleep" /\ run'[t] = "running" => Trier(t)'
        BY DEF Trier
    <2>5. run'[t] = run[t]
        BY <2>1, LocalsKept
    <2>6. Freed /\ Trier(t) /\ pc'[t] = l => Trier(t)'
        BY <2>2, <2>3, <2>4, <2>5
    <2> QED BY <1>3, <2>1, <2>2, <2>6
<1>8. CASE WriteTryFails(t)
    <2>1. PICK l \in Idle :
             /\ pc[t] = "w_try" /\ Goto(t, l) /\ pc[t] \in Idle
             /\ ~(free[t] /\ count = WaitingBias)
        BY <1>8 DEF WriteTryFails, At, Idle, WriteWait
    <2>2. Trier(t) => free[t]
        BY <2>1 DEF Trier, TryPlaces
    <2>3. Freed => count = WaitingBias
        BY FreedNow DEF FreedMeans
    <2>4. Freed /\ Trier(t) /\ pc'[t] = l => Trier(t)'
        BY <2>1, <2>2, <2>3
    <2> QED BY <1>3, <2>1, <2>4
<1> QED BY <1>4, <1>5, <1>6, <1>7, <1>8

\* The steps that leave the semaphore free wake somebody or try themselves.
LEMMA ReleaseKeepsTrier ==
    ASSUME IInv, IInv', Locals, NEW t \in Tasks, killed = {}, killed' = {}, RelockFree,
           \/ UpRead(t) \/ UpWrite(t) \/ UndoGrant(t) \/ TryReaderGrant(t) \/ GrantReaders(t)
           \/ ReadFailed(t) \/ WriteFailed(t) \/ WriteReadCount(t) \/ WriteRelock(t)
           \/ WakeLocked(t) \/ DowngradeWake(t)
    PROVE  Freed' => \E u \in Tasks : Trier(u)'
<1> SUFFICES ASSUME Freed' PROVE Trier(t)'
    OBVIOUS
<1>0. PlaceInv /\ PlaceInv' /\ pc \in [Tasks -> PCs] /\ fn \in [Tasks -> Fns]
    BY DEF IInv, PlaceInv
<1> USE <1>0
<1>1. count' = WaitingBias /\ Active(count') = 0 /\ count' < -1 /\ count' < 0 /\ wait_list' # <<>>
    <2>1. count' = WaitingBias /\ Active(count)' = 0 /\ count' < -1 /\ wait_list' # <<>>
        BY FreedNext DEF FreedMeans, Freed
    <2>2. Active(count)' = Active(count')
        BY DEF Active
    <2>3. WaitingBias \in Int
        BY RwSemAssumption, SMT DEF WaitingBias
    <2>4. count' < 0
        BY <2>1, <2>3, SMT
    <2> QED BY <2>1, <2>2, <2>4
<1> USE <1>1
<1>2. ASSUME NEW l \in TryPlaces \cup HeldPlaces, Goto(t, l) PROVE Trier(t)'
    <2>1. pc'[t] = l
        BY <1>2 DEF Goto
    <2> QED BY <1>2, <2>1, PlaceTells
<1>3. "wake" \in TryPlaces /\ "w_relock" \in TryPlaces /\ "reading" \in HeldPlaces
    BY DEF TryPlaces, HeldPlaces
<1>4. CASE UpRead(t) \/ UpWrite(t)
    <2>1. Goto(t, "wake")
        BY <1>4 DEF UpRead, UpWrite
    <2> QED BY <1>2, <1>3, <2>1
<1>5. CASE UndoGrant(t)
    <2>1. Goto(t, "do_wake") /\ fn' = fn /\ wait_list' = wait_list /\ pc[t] = "undo_grant"
        BY <1>5 DEF UndoGrant, At
    <2>2. pc'[t] = "do_wake" /\ IsReader(Head(wait_list))
        BY <2>1 DEF Goto, PlaceInv
    <2> QED BY <2>1, <2>2 DEF Trier, IsReader
<1>6. CASE TryReaderGrant(t)
    <2>1. PICK l \in {"grant", "undo_grant"} : Goto(t, l)
        BY <1>6 DEF TryReaderGrant
    <2>2. pc'[t] \in WakePlaces /\ pc'[t] \in {"grant", "undo_grant"}
        BY <2>1 DEF Goto, WakePlaces
    <2>3. WakerHolds(t)'
        BY <2>2, WakerRole
    <2>4. t \in Holding' \/ t \in Granting'
        BY <2>2, <2>3 DEF WakerHolds
    <2> QED BY <2>4 DEF Freed
<1>7. CASE GrantReaders(t)
    <2>1. PICK G : G = FirstOf(wait_list, FrontReaders)
        OBVIOUS
    <2>2. Holding' = Holding \cup G
        BY <1>7, <2>1, GrantRoles
    <2>3. Cardinality(G) = FrontReaders /\ FrontReaders \in 1..Len(wait_list) /\ wait_list \in Seq(Tasks)
        BY <1>7, <2>1, GrantEffect DEF PlaceInv
    <2>4. Cardinality(G) # 0
        BY <2>3, SMT
    <2>5. G # {}
        BY <2>4, FS_EmptySet
    <2> QED BY <2>2, <2>5 DEF Freed
<1>8. CASE ReadFailed(t)
    <2>1. Goto(t, "do_wake") /\ Enter(t, "read_failed")
        BY <1>8 DEF ReadFailed
    <2>2. pc'[t] = "do_wake" /\ fn'[t] = "read_failed"
        BY <2>1 DEF Goto, Enter
    <2> QED BY <2>2 DEF Trier
<1>9. CASE WriteFailed(t)
    <2>1. free' = [free EXCEPT ![t] = (count' = WaitingBias)]
        BY <1>9 DEF WriteFailed
    <2>2. free'[t]
        <3>1. free'[t] = (count' = WaitingBias)
            BY <2>1, LocalsKept
        <3> QED BY <3>1
    <2>3. ~(wait_list # <<>> /\ count > WaitingBias)
        <3>1. wait_list # <<>> => count = WaitingBias
            BY <1>9 DEF WriteFailed
        <3>2. WaitingBias \in Int
            BY RwSemAssumption, SMT DEF WaitingBias
        <3> QED BY <3>1, <3>2, SMT
    <2>4. Goto(t, "w_state")
        BY <1>9, <2>3 DEF WriteFailed
    <2>5. pc'[t] = "w_state"
        BY <2>4 DEF Goto
    <2> QED BY <2>2, <2>5 DEF Trier
<1>10. CASE WriteReadCount(t)
    <2>1. Goto(t, "w_relock")
        BY <1>10 DEF WriteReadCount
    <2> QED BY <1>2, <1>3, <2>1
<1>11. CASE WriteRelock(t)
    <2>1. pc[t] = "w_relock" /\ Goto(t, "w_try") /\ free' = free
        BY <1>11 DEF WriteRelock, At, local
    <2>2. pc'[t] = "w_try" /\ free[t] /\ free'[t] = free[t]
        BY <2>1 DEF Goto, RelockFree
    <2> QED BY <2>2 DEF Trier
<1>12. CASE WakeLocked(t)
    <2>1. Goto(t, "do_wake") /\ Enter(t, "wake")
        BY <1>12 DEF WakeLocked, WakeIfWaiters
    <2>2. pc'[t] = "do_wake" /\ fn'[t] = "wake"
        BY <2>1 DEF Goto, Enter
    <2> QED BY <2>2 DEF Trier
<1>13. CASE DowngradeWake(t)
    <2>1. Goto(t, "do_wake") /\ Enter(t, "downgrade_wake")
        BY <1>13 DEF DowngradeWake, WakeIfWaiters
    <2>2. pc'[t] \in WakePlaces /\ fn'[t] = "downgrade_wake"
        BY <2>1 DEF Goto, Enter, WakePlaces
    <2>3. t \in Holding'
        BY <2>2, WakerRole DEF WakerHolds
    <2> QED BY <2>3 DEF Freed
<1> QED BY <1>4, <1>5, <1>6, <1>7, <1>8, <1>9, <1>10, <1>11, <1>12, <1>13

\* A writer at the front of the list is woken.
LEMMA WakeWriterKeepsTrier ==
    ASSUME IInv, Interrupts, Locals, NEW t \in Tasks, killed = {}, WakeWriter(t),
           Freed => \E u \in Tasks : Trier(u)
    PROVE  Freed' => \E u \in Tasks : Trier(u)'
<1> SUFFICES ASSUME Freed' PROVE \E u \in Tasks : Trier(u)'
    OBVIOUS
<1>0. PlaceInv /\ pc \in [Tasks -> PCs] /\ fn \in [Tasks -> Fns]
    BY DEF IInv, PlaceInv
<1> USE <1>0
<1>1. /\ pc[t] = "do_wake" /\ pc[t] \in WakePlaces /\ pc[t] \in LockPlaces /\ Return(t)
      /\ wait_list' = wait_list /\ ~IsReader(Head(wait_list)) /\ free' = free
    BY DEF WakeWriter, At, WakePlaces, LockPlaces
<1> USE <1>1
<1>2. wait_list # <<>> /\ WakerHolds(t) /\ FnOf(t) /\ fn[t] \in Fns \ {"none"}
    BY WakerRole DEF PlaceInv, FnOf
<1> USE <1>2
<1>3. \A u \in Tasks \ {t} : pc'[u] = pc[u] /\ pc[u] \notin LockPlaces
    BY LockOthers DEF Return, Goto
<1>4. \A u \in Tasks : free'[u] = free[u]
    OBVIOUS
<1>5. CASE fn[t] \in {"read_failed", "wake"}
    <2>1. PICK h \in Tasks : h = Head(wait_list) /\ Queued(h)
        BY DelFirst DEF PlaceInv, Queued
    <2>2. fn[h] = "write_failed" /\ FnOf(h) /\ fn[h] \notin {"read_failed", "wake"}
        <3>1. FnOf(h) /\ fn[h] # "read_failed"
            BY <2>1 DEF PlaceInv, IsReader
        <3>2. fn[h] = "write_failed"
            BY <2>1, <3>1 DEF FnOf
        <3> QED BY <3>1, <3>2
    <2>3. h # t
        BY <1>5, <2>2
    <2>4. pc[h] \in WriteWait
        <3>1. pc[h] \in ReadWait \cup WriteWait \cup LockPlaces /\ pc[h] \notin ReadWait /\ pc[h] \notin LockPlaces
            BY <1>3, <2>2, <2>3 DEF FnOf
        <3> QED BY <3>1
    <2>5. pc[h] \in TryPlaces \/ pc[h] \in {"w_loop", "w_sleep"}
        <3>1. pc[h] # "w_intr"
            BY DEF Interrupts
        <3> QED BY <2>4, <3>1 DEF WriteWait, TryPlaces
    <2>6. run'[h] = "running"
        <3>1. run' = [run EXCEPT ![h] = "running"]
            BY <1>5, <2>1 DEF WakeWriter
        <3> QED BY <3>1, LocalsKept
    <2>7. Trier(h)'
        BY <1>3, <2>3, <2>5, <2>6 DEF Trier
    <2> QED BY <2>7
<1>6. CASE fn[t] = "downgrade_wake"
    <2>1. Goto(t, "reading")
        BY <1>6 DEF Return, AfterWake
    <2>2. pc'[t] \in HeldPlaces
        BY <2>1 DEF Goto, HeldPlaces
    <2> QED BY <2>2, PlaceTells
<1>7. CASE fn[t] = "write_failed"
    <2>1. run' = run /\ ~Trier(t)
        <3>1. fn[t] \notin {"read_failed", "wake"} /\ pc[t] \notin TryPlaces
              /\ pc[t] \notin {"w_loop", "w_sleep"} /\ pc[t] \notin {"w_state", "w_try"}
            BY <1>7 DEF TryPlaces
        <3> QED BY <3>1 DEF WakeWriter, Trier
    <2>2. Freed
        <3>1. Holding' \ {t} = Holding \ {t} /\ Granting' \ {t} = Granting \ {t}
            BY ReturnMoves, OthersStay
        <3>2. t \notin Holding /\ t \notin Granting
            BY <1>7 DEF WakerHolds
        <3>3. Holding = {} /\ Granting = {}
            BY <3>1, <3>2 DEF Freed
        <3> QED BY <3>3 DEF Freed
    <2>3. PICK u \in Tasks : Trier(u)
        BY <2>2
    <2>4. u # t /\ pc'[u] = pc[u] /\ pc[u] # "do_wake"
        <3>1. "do_wake" \in LockPlaces
            BY DEF LockPlaces, WakePlaces
        <3> QED BY <1>3, <2>1, <2>3, <3>1
    <2>5. Trier(u)'
        BY <1>4, <2>1, <2>3, <2>4, StaysTrier
    <2> QED BY <2>5
<1> QED BY <1>5, <1>6, <1>7 DEF Fns

\* rwsem_wake() leaves the wake-up to a spinner only when there is one.
LEMMA SpinnerKeepsTrier ==
    ASSUME NEW t \in Tasks, pc \in [Tasks -> PCs], WakeLookForSpinner(t)
    PROVE  Freed' => \E u \in Tasks : Trier(u)'
<1>1. CASE HasSpinner
    <2>1. PICK u \in Tasks : pc[u] \in {"osq_wait", "spin", "on_owner", "on_count", "try", "spin_owner"}
        BY <1>1 DEF HasSpinner
    <2>2. pc[u] \in TryPlaces \cup HeldPlaces /\ pc[u] # "wake"
        BY <2>1 DEF TryPlaces, HeldPlaces, WritePlaces
    <2>3. pc'[u] = pc[u]
        BY <2>2 DEF WakeLookForSpinner, At, Goto
    <2> QED BY <2>2, <2>3, PlaceTells
<1>2. CASE ~HasSpinner
    <2>1. pc'[t] = "wake_lock"
        BY <1>2 DEF WakeLookForSpinner, Goto
    <2>2. pc'[t] \in TryPlaces
        BY <2>1 DEF TryPlaces
    <2> QED BY <2>2, PlaceTells
<1> QED BY <1>1, <1>2

\* A stray wake-up takes no attempt away.
LEMMA StrayKeepsTrier ==
    ASSUME Locals, NEW t \in Tasks, StrayWakeUp(t) \/ UNCHANGED vars,
           Freed => \E u \in Tasks : Trier(u)
    PROVE  Freed' => \E u \in Tasks : Trier(u)'
<1>1. /\ wait_list' = wait_list /\ pc' = pc /\ fn' = fn /\ free' = free
      /\ run' = run \/ run' = [run EXCEPT ![t] = "running"]
    BY DEF StrayWakeUp, vars, wait, local
<1> USE <1>1
<1>2. ASSUME NEW u \in Tasks, Trier(u) PROVE Trier(u)'
    <2>1. run[u] = "running" => run'[u] = "running"
        <3>1. CASE run' = run
            BY <3>1
        <3>2. CASE run' = [run EXCEPT ![t] = "running"]
            <4>1. run'[t] = "running" /\ \A v \in Tasks \ {t} : run'[v] = run[v]
                BY <3>2, LocalsKept
            <4> QED BY <4>1
        <3> QED BY <3>1, <3>2
    <2>2. pc'[u] = pc[u] /\ free'[u] = free[u]
        OBVIOUS
    <2> QED BY <1>2, <2>1, <2>2, StaysTrier
<1>3. Readers' = Readers /\ Writers' = Writers
    BY DEF Readers, Writers, Waking, Queued
<1>4. Holding' = Holding /\ Granting' = Granting
    BY <1>3 DEF Holding, Granting
<1> QED BY <1>2, <1>4 DEF Freed

\* How a step of t changes the local variables, and where it leads.
Frees(t) == free' = free \/ \E x : free' = [free EXCEPT ![t] = x]
Runs == run' = run \/ (\E u, x : run' = [run EXCEPT ![u] = x]) \/ (\E f : run' = [u \in Tasks |-> f[u]])
To(t, S) == \E l \in S : Goto(t, l)

\* What a step of a task leaves alone.
LEMMA Frame ==
    ASSUME IInv, NEW t \in Tasks, Call(t) \/ Step(t)
    PROVE  Frees(t) /\ Runs /\ killed' = killed /\ (WriteReadCount(t) \/ To(t, PCs \ {"w_relock"}))
<1> DEFINE R == Frees(t) /\ Runs /\ killed' = killed
           G == R /\ To(t, PCs \ {"w_relock"})
<1>0. ASSUME NEW S, To(t, S), S \in SUBSET (PCs \ {"w_relock"}) PROVE To(t, PCs \ {"w_relock"})
    BY <1>0 DEF To
<1>1. CASE Call(t)
    <2>1. R /\ To(t, {"reading", "r_failed", "w_owner", "w_undo"})
        BY <1>1 DEF Call, DownRead, DownReadTrylock, DownWrite, DownWriteTrylock, Frees, Runs, To, local
    <2>2. {"reading", "r_failed", "w_owner", "w_undo"} \in SUBSET (PCs \ {"w_relock"})
        BY DEF PCs
    <2> QED BY <1>0, <2>1, <2>2
<1>2. CASE SetOwner(t) \/ UpRead(t) \/ ClearOwner(t) \/ UpWrite(t) \/ DowngradeWrite(t) \/ TryReaderGrant(t)
    <2> DEFINE S == {"writing", "wake", "out", "up_write", "downgrade", "downgrade_wake", "reading", "grant",
                     "undo_grant"}
    <2>1. R /\ To(t, S)
        BY <1>2 DEF SetOwner, UpRead, ClearOwner, UpWrite, DowngradeWrite, TryReaderGrant, Frees, Runs,
            To, local
    <2>2. S \in SUBSET (PCs \ {"w_relock"})
        BY DEF PCs
    <2> QED BY <1>0, <2>1, <2>2
<1>3. CASE ReadFailed(t) \/ ReadSetState(t) \/ ReadCheck(t) \/ ReadWoken(t)
    <2> DEFINE S == {"do_wake", "r_state", "r_check", "r_sleep", "reading"}
    <2>1. R /\ To(t, S)
        BY <1>3 DEF ReadFailed, ReadSetState, ReadCheck, ReadWoken, Frees, Runs, To, local
    <2>2. S \in SUBSET (PCs \ {"w_relock"})
        BY DEF PCs
    <2> QED BY <1>0, <2>1, <2>2
<1>4. CASE WakeWriter(t) \/ UndoGrant(t) \/ GrantReaders(t)
    <2> DEFINE S == {"do_wake", "r_state", "w_state", "out", "reading"}
    <2>1. R /\ (Goto(t, "do_wake") \/ Goto(t, AfterWake(t))) /\ pc[t] \in WakePlaces
        <3>1. CASE WakeWriter(t)
            BY <3>1 DEF WakeWriter, Return, At, WakePlaces, Frees, Runs
        <3>2. CASE UndoGrant(t)
            BY <3>2 DEF UndoGrant, Return, At, WakePlaces, Frees, Runs
        <3>3. CASE GrantReaders(t)
            <4>1. run' = [u \in Tasks |-> IF \E n \in 1..FrontReaders : wait_list[n] = u
                                          THEN "running" ELSE run[u]]
                BY <3>3 DEF GrantReaders
            <4>2. \E f : run' = [u \in Tasks |-> f[u]]
                BY <4>1, SMT
            <4> QED BY <3>3, <4>2 DEF GrantReaders, Return, At, WakePlaces, Frees, Runs
        <3> QED BY <1>4, <3>1, <3>2, <3>3
    <2>2. fn[t] \in Fns \ {"none"}
        BY <2>1 DEF IInv, PlaceInv, FnOf
    <2>3. AfterWake(t) \in S /\ "do_wake" \in S
        BY <2>2 DEF AfterWake, Fns
    <2>4. To(t, S)
        BY <2>1, <2>3 DEF To
    <2>5. S \in SUBSET (PCs \ {"w_relock"})
        BY DEF PCs
    <2> QED BY <1>0, <2>1, <2>4, <2>5
<1>5. CASE WriteUndo(t) \/ CanSpin(t) \/ OsqTurn(t) \/ OsqGiveUp(t) \/ SpinReadOwner(t)
           \/ OwnerSleeps(t) \/ OwnerChanged(t) \/ OwnerGone(t) \/ TryUnqueued(t)
           \/ TryFails(t) \/ SpinSetOwner(t)
    <2> DEFINE S == {"can_spin", "osq_wait", "w_failed", "spin", "try", "on_owner", "on_count", "spin_owner", "w_owner"}
    <2>1. R /\ To(t, S)
        BY <1>5, ZenonT(30) DEF WriteUndo, CanSpin, OsqTurn, OsqGiveUp, SpinReadOwner, OwnerSleeps, OwnerChanged,
            OwnerGone, TryUnqueued, TryFails, SpinSetOwner, LeaveSpin, Frees, Runs, To, local
    <2>2. S \in SUBSET (PCs \ {"w_relock"})
        BY SMT DEF PCs
    <2> QED BY <1>0, <2>1, <2>2
<1>6. CASE WriteFailed(t) \/ WriteSetState(t) \/ WriteTry(t) \/ WriteAddBias(t) \/ WriteTryFails(t)
    <2> DEFINE S == {"do_wake", "w_state", "w_try", "w_owner", "w_bias", "w_loop"}
    <2>1. R /\ To(t, S)
        BY <1>6 DEF WriteFailed, WriteSetState, WriteTry, WriteAddBias, Acquired, WriteTryFails, Frees,
            Runs, To, local
    <2>2. S \in SUBSET (PCs \ {"w_relock"})
        BY DEF PCs
    <2> QED BY <1>0, <2>1, <2>2
<1>7. CASE WriteLoop(t) \/ WriteWoken(t) \/ WriteRelock(t) \/ WriteInterrupted(t)
    <2> DEFINE S == {"w_intr", "w_sleep", "w_read", "w_try", "out"}
    <2>1. R /\ To(t, S)
        BY <1>7 DEF WriteLoop, WriteWoken, WriteRelock, WriteInterrupted, Frees, Runs, To, local
    <2>2. S \in SUBSET (PCs \ {"w_relock"})
        BY DEF PCs
    <2> QED BY <1>0, <2>1, <2>2
<1>8. CASE WriteReadCount(t)
    BY <1>8 DEF WriteReadCount, Frees, Runs
<1>9. CASE WakeLookForSpinner(t) \/ WakeTrylockFails(t) \/ WakeLocked(t) \/ DowngradeWake(t)
    <2> DEFINE S == {"wake_trylock", "wake_lock", "out", "do_wake", "reading"}
    <2>1. R /\ To(t, S)
        BY <1>9 DEF WakeLookForSpinner, WakeTrylockFails, WakeLocked, DowngradeWake, WakeIfWaiters,
            Frees, Runs, To, local
    <2>2. S \in SUBSET (PCs \ {"w_relock"})
        BY DEF PCs
    <2> QED BY <1>0, <2>1, <2>2
<1> QED BY <1>1, <1>2, <1>3, <1>4, <1>5, <1>6, <1>7, <1>8, <1>9 DEF Step

\* The local variables stay functions on the tasks.
LEMMA KeepsLocals ==
    ASSUME IInv, Locals, [Next]_vars
    PROVE  Locals'
<1>1. ASSUME NEW t \in Tasks, Frees(t), Runs PROVE Locals'
    <2>1. free' = [u \in Tasks |-> free'[u]]
        <3>1. CASE free' = free
            BY <3>1 DEF Locals
        <3>2. ASSUME NEW x, free' = [free EXCEPT ![t] = x] PROVE free' = [u \in Tasks |-> free'[u]]
            BY <3>2 DEF Locals
        <3> QED BY <1>1, <3>1, <3>2 DEF Frees
    <2>2. run' = [u \in Tasks |-> run'[u]]
        <3>1. CASE run' = run
            BY <3>1 DEF Locals
        <3>2. ASSUME NEW v, NEW x, run' = [run EXCEPT ![v] = x] PROVE run' = [u \in Tasks |-> run'[u]]
            BY <3>2 DEF Locals
        <3>3. ASSUME NEW f, run' = [u \in Tasks |-> f[u]] PROVE run' = [u \in Tasks |-> run'[u]]
            BY <3>3
        <3> QED BY <1>1, <3>1, <3>2, <3>3 DEF Runs
    <2> QED BY <2>1, <2>2 DEF Locals
<1>2. ASSUME NEW t \in Tasks, Call(t) \/ Step(t) PROVE Locals'
    BY <1>1, <1>2, Frame
<1>3. ASSUME NEW t \in Tasks, Kill(t) \/ StrayWakeUp(t) PROVE Locals'
    <2>1. Frees(t) /\ Runs
        BY <1>3 DEF Kill, StrayWakeUp, Frees, Runs, local
    <2> QED BY <1>1, <2>1
<1>4. CASE UNCHANGED vars
    BY <1>4 DEF vars, Locals
<1> QED BY <1>2, <1>3, <1>4 DEF Next

\* A writer takes wait_lock again only after it read that the semaphore is free.
LEMMA KeepsRelock ==
    ASSUME IInv, Locals, RelockFree, killed = {}, NEW t \in Tasks, Call(t) \/ Step(t)
    PROVE  RelockFree'
<1>0. PlaceInv /\ pc \in [Tasks -> PCs]
    BY DEF IInv, PlaceInv
<1>1. \A u \in Tasks \ {t} : free'[u] = free[u]
    <2>1. CASE free' = free
        BY <2>1
    <2>2. ASSUME NEW x, free' = [free EXCEPT ![t] = x] PROVE \A u \in Tasks \ {t} : free'[u] = free[u]
        BY <2>2, LocalsKept
    <2> QED BY <2>1, <2>2, Frame DEF Frees
<1>2. ASSUME NEW l, Goto(t, l), l = "w_relock" => free'[t] PROVE RelockFree'
    <2>1. pc'[t] = l /\ \A u \in Tasks \ {t} : pc'[u] = pc[u]
        BY <1>0, <1>2 DEF Goto
    <2> QED BY <1>1, <1>2, <2>1 DEF RelockFree
<1>3. CASE WriteReadCount(t)
    <2>1. /\ pc[t] = "w_read" /\ free' = [free EXCEPT ![t] = (count = WaitingBias)]
          /\ Goto(t, IF Active(count) # 0 THEN "w_loop" ELSE "w_relock")
        BY <1>3 DEF WriteReadCount, At
    <2> USE <2>1
    <2>2. CASE Active(count) # 0
        <3>1. Goto(t, "w_loop") /\ "w_loop" # "w_relock"
            BY <2>2
        <3> QED BY <1>2, <3>1
    <2>3. CASE Active(count) = 0
        <3>1. wait_list # <<>>
            <4>1. Queued(t)
                BY <1>0 DEF PlaceInv, FnOf, WriteWait
            <4> QED BY <4>1, SMT DEF Queued, Range
        <3>2. count = WaitingBias
            BY <2>3, <3>1, FreedNow DEF Freed, FreedMeans, FreeMeans
        <3>3. free'[t] = (count = WaitingBias)
            BY LocalsKept
        <3>4. free'[t]
            BY <3>2, <3>3
        <3>5. Goto(t, "w_relock")
            BY <2>3
        <3> QED BY <1>2, <3>4, <3>5
    <2> QED BY <2>2, <2>3
<1>4. CASE To(t, PCs \ {"w_relock"})
    BY <1>2, <1>4 DEF To
<1> QED BY <1>3, <1>4, Frame

\* Every step keeps a task on the way to take or to hand on a freed semaphore.
LEMMA StepWakes ==
    ASSUME IInv, IInv', Interrupts, Locals, WakesKept, [Next]_vars
    PROVE  WakesKept'
<1> SUFFICES ASSUME killed' = {} PROVE RelockFree' /\ (Freed' => \E t \in Tasks : Trier(t)')
    BY DEF WakesKept
<1>0. pc \in [Tasks -> PCs]
    BY DEF IInv, PlaceInv
<1>1. ASSUME NEW t \in Tasks, Call(t) \/ Step(t)
      PROVE  RelockFree' /\ (Freed' => \E u \in Tasks : Trier(u)')
    <2>1. killed = {}
        BY <1>1, Frame
    <2> USE <2>1
    <2>2. RelockFree /\ (Freed => \E u \in Tasks : Trier(u))
        BY DEF WakesKept
    <2> USE <2>2
    <2>3. RelockFree'
        BY <1>1, KeepsRelock
    <2> USE <2>3
    <2>4. ~WriteInterrupted(t)
        BY DEF WriteInterrupted, At, Interrupts
    <2>5. CASE \/ Call(t) \/ SetOwner(t) \/ ClearOwner(t) \/ SpinSetOwner(t) \/ TryUnqueued(t)
               \/ DowngradeWrite(t) \/ WriteTry(t) \/ WriteAddBias(t) \/ (ReadCheck(t) /\ ~Queued(t))
               \/ WriteUndo(t) \/ CanSpin(t) \/ OsqTurn(t) \/ OsqGiveUp(t) \/ SpinReadOwner(t)
               \/ OwnerSleeps(t) \/ OwnerChanged(t) \/ OwnerGone(t) \/ TryFails(t) \/ WriteWoken(t)
        BY <1>0, <2>5, PlaceKeepsTrier
    <2>6. CASE \/ ReadSetState(t) \/ ReadWoken(t) \/ (ReadCheck(t) /\ Queued(t))
               \/ WriteSetState(t) \/ WriteTryFails(t) \/ WriteLoop(t) \/ WakeTrylockFails(t)
        BY <2>6, QuietKeepsTrier
    <2>7. CASE \/ UpRead(t) \/ UpWrite(t) \/ UndoGrant(t) \/ TryReaderGrant(t) \/ GrantReaders(t)
               \/ ReadFailed(t) \/ WriteFailed(t) \/ WriteReadCount(t) \/ WriteRelock(t)
               \/ WakeLocked(t) \/ DowngradeWake(t)
        BY <2>7, ReleaseKeepsTrier
    <2>8. CASE WakeWriter(t)
        BY <2>8, WakeWriterKeepsTrier
    <2>9. CASE WakeLookForSpinner(t)
        BY <1>0, <2>9, SpinnerKeepsTrier
    <2> QED BY <1>1, <2>4, <2>5, <2>6, <2>7, <2>8, <2>9 DEF Step
<1>2. ASSUME NEW t \in Tasks, StrayWakeUp(t) \/ UNCHANGED vars
      PROVE  RelockFree' /\ (Freed' => \E u \in Tasks : Trier(u)')
    <2>1. killed' = killed /\ pc' = pc /\ free' = free
        BY <1>2 DEF StrayWakeUp, vars, local
    <2>2. RelockFree /\ (Freed => \E u \in Tasks : Trier(u))
        BY <2>1 DEF WakesKept
    <2>3. RelockFree'
        BY <2>1, <2>2 DEF RelockFree
    <2> QED BY <1>2, <2>2, <2>3, StrayKeepsTrier
<1>3. ASSUME NEW t \in Tasks, Kill(t) PROVE FALSE
    BY <1>3 DEF Kill
<1>4. CASE UNCHANGED vars
    <2>1. CASE Tasks = {}
        <3>1. wait_list' = <<>>
            <4>1. wait_list' \in Seq(Tasks)
                BY DEF IInv, PlaceInv
            <4> QED BY <2>1, <4>1, SMT
        <3> QED BY <2>1, <3>1 DEF RelockFree, Freed
    <2>2. CASE Tasks # {}
        BY <1>2, <1>4, <2>2
    <2> QED BY <2>1, <2>2
<1> QED BY <1>1, <1>2, <1>3, <1>4 DEF Next

\* A task that tries is one that the comment in rwsem_wake() relies on.
LEMMA TrierCounts ==
    ASSUME IInv, RelockFree, NEW t \in Tasks, Trier(t)
    PROVE  \/ WillTry(t)
           \/ pc[t] \in {"wake", "wake_lock", "wake_trylock", "do_wake", "undo_grant"}
           \/ pc[t] \in {"can_spin", "osq_wait", "spin", "on_owner", "on_count", "try", "w_failed"}
<1>0. FnOf(t)
    BY DEF IInv, PlaceInv
<1>1. ASSUME pc[t] \in WriteWait \cup {"w_state", "w_try", "w_bias"} PROVE Queued(t) /\ ~IsReader(t)
    <2>1. fn[t] = "write_failed" /\ Queued(t)
        BY <1>0, <1>1 DEF FnOf
    <2> QED BY <2>1 DEF IsReader
<1>2. CASE pc[t] \in {"w_read", "w_relock"}
    <2>1. Queued(t) /\ ~IsReader(t)
        BY <1>1, <1>2 DEF WriteWait
    <2> QED BY <1>2, <2>1 DEF WillTry, RelockFree
<1>3. CASE pc[t] \in {"w_loop", "w_sleep"} /\ run[t] = "running"
    <2>1. Queued(t) /\ ~IsReader(t)
        BY <1>1, <1>3 DEF WriteWait
    <2> QED BY <1>3, <2>1 DEF WillTry
<1>4. CASE pc[t] \in {"w_state", "w_try"} /\ free[t]
    <2>1. Queued(t) /\ ~IsReader(t)
        BY <1>1, <1>4
    <2> QED BY <1>4, <2>1 DEF WillTry
<1> QED BY <1>2, <1>3, <1>4 DEF Trier, TryPlaces

\* So there is one in every state in which nobody was killed.
LEMMA WakesHold == Spec => [](IInv /\ Locals /\ WakesKept)
<1>1. Init => Locals /\ WakesKept
    <2> SUFFICES ASSUME Init PROVE Locals /\ WakesKept
        OBVIOUS
    <2>1. wait_list = <<>> /\ \A t \in Tasks : pc[t] # "w_relock"
        BY DEF Init
    <2>2. Locals
        BY DEF Init, Locals
    <2> QED BY <2>1, <2>2 DEF WakesKept, RelockFree, Freed
<1>2. IInv /\ IInv' /\ Interrupts /\ Locals /\ WakesKept /\ [Next]_vars => Locals' /\ WakesKept'
    BY KeepsLocals, StepWakes
<1> QED BY <1>1, <1>2, IInvHolds, PTL DEF Spec

\* As long as no writer is killed no wake-up is lost: when the semaphore is free and tasks are
\* queued, some task is on its way to take it or to wake the front of the list, although
\* rwsem_wake() leaves that to a spinner and writers take the semaphore out of turn.
THEOREM WakeUpsKeptHolds == Spec => []WakeUpsKept
<1>1. IInv /\ WakesKept => WakeUpsKept
    <2> SUFFICES ASSUME IInv, WakesKept, killed = {}, wait_list # <<>>, Active(count) = 0 PROVE NoLostWakeUp
        BY DEF WakeUpsKept, NoLostWakeUp
    <2>1. Freed /\ RelockFree
        BY FreedNow DEF Freed, FreeMeans, WakesKept
    <2>2. PICK t \in Tasks : Trier(t)
        BY <2>1 DEF WakesKept
    <2> QED BY <2>1, <2>2, TrierCounts DEF NoLostWakeUp
<1> QED BY <1>1, WakesHold, PTL
==============================================================================
