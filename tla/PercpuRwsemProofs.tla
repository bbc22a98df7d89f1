---------------------------- MODULE PercpuRwsemProofs ----------------------------
(***************************************************************************)
(* Proofs about rcu_sync and the per-CPU reader/writer semaphore, for any  *)
(* number of readers, writers and CPUs, and any range of the counters      *)
(* beyond the number of readers and CPUs.                                  *)
(***************************************************************************)
EXTENDS PercpuRwsem, FiniteSetTheorems, TLAPS

\* The updaters between rcu_sync_enter() and rcu_sync_exit().
In == {u \in Updaters : upd[u] # "out"}

\* gp_count is at least the updaters inside, and keeps the readers off their fast path.
CountInv ==
    /\ IsFiniteSet(In) /\ Cardinality(In) <= gp_count
    /\ gp_count > 0 => gp_state # "idle"

\* What gp_state means to the updaters: pending while one of them, and only one, waits for
\* the grace period that ends the fast sections, and passed from then on.
StateInv ==
    /\ \A u \in Updaters : upd[u] \in {"check", "entered"} => gp_state = "passed"
    /\ \A u \in Updaters : upd[u] = "sync" => gp_state = "pending" /\ fast \subseteq sync_wait[u]
    /\ \A u, v \in Updaters : upd[u] = "sync" /\ upd[v] = "sync" => u = v
    /\ gp_state = "pending" => \E u \in Updaters : upd[u] = "sync"
    /\ gp_state = "passed" => fast = {}
    /\ \A u \in Updaters : upd[u] # "BUG"

\* What the callback waits for, and what rcu_sync_dtor() leaves of it.
CallbackInv ==
    /\ cb_state # "idle" => gp_state = "passed"
    /\ cb_state = "pending" /\ gp_count = 0 => slow_since \subseteq cb_wait
    /\ dtor = "barrier" => cb_state = "pending" /\ gp_count = 0
    /\ dtor = "barrier_done" => cb_state = "idle" /\ gp_count = 0
    /\ dtor # "BUG"

\* The inductive invariant of rcu_sync.
RcuInv == TypeOK /\ CountInv /\ StateInv /\ CallbackInv

\* Nobody is about after rcu_sync_init(); rcu_sync_enter_start() only counts.
LEMMA InitRcuInv == Init => RcuInv
<1> SUFFICES ASSUME Init PROVE RcuInv
    OBVIOUS
<1>1. In = {} /\ IsFiniteSet(In) /\ Cardinality(In) = 0
    BY FS_EmptySet DEF Init, In
<1>2. TypeOK
    BY DEF Init, TypeOK
<1> QED BY <1>1, <1>2 DEF Init, RcuInv, CountInv, StateInv, CallbackInv

\* With gp_count at 0 every updater is outside; one that is inside is counted.
LEMMA CountedUpdaters ==
    ASSUME RcuInv, NEW u \in Updaters
    PROVE  /\ gp_count = 0 => upd[u] = "out"
           /\ IsFiniteSet(In \cup {u}) /\ IsFiniteSet(In \ {u})
           /\ upd[u] = "out" => Cardinality(In \cup {u}) <= gp_count + 1
           /\ upd[u] # "out" => gp_count >= 1 /\ Cardinality(In \ {u}) <= gp_count - 1
<1>1. IsFiniteSet(In) /\ Cardinality(In) \in Nat /\ Cardinality(In) <= gp_count /\ gp_count \in Nat
    BY FS_CardinalityType DEF RcuInv, CountInv, TypeOK
<1>2. upd[u] # "out" => u \in In /\ Cardinality(In) # 0 /\ Cardinality(In \ {u}) = Cardinality(In) - 1
    BY <1>1, FS_EmptySet, FS_RemoveElement, ZenonT(30) DEF In
<1>3. upd[u] = "out" => Cardinality(In \cup {u}) = Cardinality(In) + 1
    BY <1>1, FS_AddElement, Zenon DEF In
<1>4. IsFiniteSet(In \cup {u}) /\ IsFiniteSet(In \ {u})
    BY <1>1, FS_AddElement, FS_RemoveElement
<1> QED BY <1>1, <1>2, <1>3, <1>4

\* rcu_sync_enter() up to its wait.
LEMMA EnterKeeps ==
    ASSUME RcuInv, NEW u \in Updaters, Enter(u)
    PROVE  RcuInv'
<1>1. /\ upd' = [upd EXCEPT ![u] = upd'[u]]
      /\ upd'[u] = IF gp_state = "idle" THEN "sync" ELSE IF gp_count > 0 THEN "wait" ELSE "check"
      /\ upd[u] = "out"
    BY DEF Enter, RcuInv, CountInv, TypeOK
<1>2. TypeOK'
    BY <1>1 DEF RcuInv, Enter, TypeOK, rss, sections
<1>3. CountInv'
    <2>1. In' = In \cup {u}
        BY <1>1 DEF In, RcuInv, TypeOK
    <2> QED BY <1>1, <2>1, CountedUpdaters, Zenon DEF RcuInv, CountInv, Enter, TypeOK
<1>4. gp_count = 0 => \A v \in Updaters : upd[v] = "out"
    BY CountedUpdaters, Zenon
<1>5. StateInv'
    BY <1>1, <1>4 DEF RcuInv, CountInv, StateInv, Enter, TypeOK, sections
<1>6. CallbackInv'
    BY DEF RcuInv, CountInv, CallbackInv, Enter, TypeOK, sections
<1> QED BY <1>2, <1>3, <1>5, <1>6 DEF RcuInv

\* The ends of the waits in rcu_sync_enter().
LEMMA EnteredKeeps ==
    ASSUME RcuInv, NEW u \in Updaters, EnterSynced(u) \/ EnterWaited(u) \/ EnterChecked(u)
    PROVE  RcuInv'
<1>1. /\ upd[u] \in {"sync", "wait", "check"} /\ gp_state' = "passed"
      /\ upd' = [upd EXCEPT ![u] = "entered"] /\ fast = {}
      /\ UNCHANGED <<gp_count, cb_state, sync_wait, cb_wait, dtor, sections, slow_since>>
      /\ gp_state = "passed" \/ upd[u] = "sync"
    BY DEF EnterSynced, EnterWaited, EnterChecked, RcuInv, StateInv, rss, TypeOK
<1>2. In' = In
    BY <1>1 DEF In, RcuInv, TypeOK
<1>3. TypeOK' /\ CountInv'
    BY <1>1, <1>2 DEF RcuInv, CountInv, TypeOK, sections
<1>4. StateInv'
    BY <1>1 DEF RcuInv, StateInv, TypeOK, sections
<1>5. CallbackInv'
    BY <1>1 DEF RcuInv, CallbackInv, TypeOK, sections
<1> QED BY <1>3, <1>4, <1>5 DEF RcuInv

\* rcu_sync_exit().
LEMMA ExitKeeps ==
    ASSUME RcuInv, NEW u \in Updaters, Exit(u)
    PROVE  RcuInv'
<1>1. /\ upd[u] = "entered" /\ upd' = [upd EXCEPT ![u] = "out"] /\ gp_count' = gp_count - 1
      /\ slow_since' = inside /\ UNCHANGED <<gp_state, sync_wait, dtor, sections>>
      /\ cb_state' \in {"idle", "pending", "replay"} /\ cb_wait' \subseteq Readers
    BY DEF Exit, RcuInv, TypeOK
<1>2. gp_count >= 1 /\ IsFiniteSet(In \ {u}) /\ Cardinality(In \ {u}) <= gp_count - 1
    BY <1>1, CountedUpdaters, Zenon
<1>3. TypeOK' /\ CountInv'
    <2>1. In' = In \ {u}
        BY <1>1 DEF In, RcuInv, TypeOK
    <2>2. TypeOK'
        BY <1>1, <1>2 DEF RcuInv, TypeOK, sections
    <2> QED BY <1>1, <1>2, <2>1, <2>2 DEF RcuInv, CountInv, TypeOK
<1>4. StateInv'
    BY <1>1 DEF RcuInv, StateInv, TypeOK, sections
<1>5. CallbackInv'
    BY <1>1, <1>2 DEF RcuInv, StateInv, CallbackInv, Exit, TypeOK, sections
<1> QED BY <1>3, <1>4, <1>5 DEF RcuInv

\* rcu_sync_func() and rcu_sync_dtor().
LEMMA CallbackKeeps ==
    ASSUME RcuInv, Callback \/ Dtor \/ DtorChecked
    PROVE  RcuInv'
<1>1. UNCHANGED <<gp_count, upd, sync_wait, sections, slow_since>> /\ In' = In
    BY DEF Callback, Dtor, DtorChecked, rss, In
<1>2. TypeOK' /\ CountInv'
    BY <1>1 DEF RcuInv, CountInv, TypeOK, Callback, Dtor, DtorChecked, rss, sections
<1>3. gp_count = 0 => \A v \in Updaters : upd[v] = "out"
    BY CountedUpdaters, Zenon
<1>4. StateInv'
    BY <1>1, <1>3, Zenon DEF RcuInv, StateInv, CallbackInv, TypeOK, Callback, Dtor, DtorChecked, rss, sections
<1>5. CallbackInv'
    BY <1>1, Zenon DEF RcuInv, CallbackInv, TypeOK, Callback, Dtor, DtorChecked, rss, sections
<1> QED BY <1>2, <1>4, <1>5 DEF RcuInv

\* The readers.
LEMMA ReadKeeps ==
    ASSUME RcuInv, NEW r \in Readers, ReadLock(r) \/ SeesIdle(r) \/ ReadUnlock(r)
    PROVE  RcuInv'
<1>1. UNCHANGED <<rss, upd, dtor>> /\ In' = In
    BY DEF ReadLock, SeesIdle, ReadUnlock, In
<1>2. TypeOK' /\ CountInv'
    BY <1>1, ZenonT(30) DEF RcuInv, CountInv, TypeOK, ReadLock, SeesIdle, ReadUnlock, rss, sections
<1>3. StateInv'
    BY <1>1 DEF RcuInv, StateInv, TypeOK, ReadLock, SeesIdle, ReadUnlock, rss
<1>4. CallbackInv'
    BY <1>1, Zenon DEF RcuInv, CallbackInv, TypeOK, ReadLock, SeesIdle, ReadUnlock, rss
<1> QED BY <1>2, <1>3, <1>4 DEF RcuInv

\* Every step of rcu_sync keeps the inductive invariant.
LEMMA RcuStepKeeps ==
    ASSUME RcuInv, [Next]_rcuVars
    PROVE  RcuInv'
<1>1. ASSUME Next PROVE RcuInv'
    BY <1>1, EnterKeeps, EnteredKeeps, ExitKeeps, CallbackKeeps, ReadKeeps, Zenon
    DEF Next, Update, Read
<1>2. ASSUME UNCHANGED rcuVars PROVE RcuInv'
    BY <1>2, Zenon DEF rcuVars, rss, sections, RcuInv, TypeOK, CountInv, StateInv, CallbackInv, In
<1> QED BY <1>1, <1>2, Zenon

\* The inductive invariant of rcu_sync holds in every reachable state.
LEMMA RcuInvariance == Spec => []RcuInv
BY InitRcuInv, RcuStepKeeps, PTL DEF Spec

\* None of the BUG_ON()s of sync.c fires.
THEOREM NoBugHolds == Spec => []NoBug
<1>1. RcuInv => NoBug
    BY DEF RcuInv, StateInv, CallbackInv, NoBug
<1> QED BY RcuInvariance, <1>1, PTL

\* Between the return of rcu_sync_enter() and rcu_sync_exit() no reader takes the fast path.
THEOREM FastPathsEndedHolds == Spec => []FastPathsEnded
<1>1. RcuInv => FastPathsEnded
    BY DEF RcuInv, StateInv, FastPathsEnded
<1> QED BY RcuInvariance, <1>1, PTL

\* Readers get their fast path back only a grace period after the last rcu_sync_exit().
THEOREM GracePeriodAfterExitHolds == Spec => GracePeriodAfterExit
<1>1. ASSUME RcuInv, [Next]_rcuVars
      PROVE  [gp_state # "idle" /\ gp_state' = "idle" => slow_since = {}]_rcuVars
    <2>1. CASE Callback
        BY <1>1, <2>1 DEF RcuInv, CallbackInv, TypeOK, Callback
    <2>2. CASE UNCHANGED rcuVars
        BY <2>2
    <2>3. CASE Next /\ ~Callback
        BY <2>3, Zenon DEF Next, Update, Read, Enter, EnterSynced, EnterWaited, EnterChecked, Exit,
              Dtor, DtorChecked, ReadLock, SeesIdle, ReadUnlock, rss
    <2> QED BY <1>1, <2>1, <2>2, <2>3
<1> QED BY RcuInvariance, <1>1, PTL DEF Spec, GracePeriodAfterExit

--------------------------------------------------------------------------------
\* Equal up to turns of the counters.
Cong(a, b) == \E z \in Int : a = b + z * Modulus

\* The counters have a range.
LEMMA CounterRange == Modulus \in Nat /\ Modulus > 0
BY PercpuAssumption, FS_CardinalityType

\* Reducing a number changes it by turns only.
LEMMA Reduced ==
    ASSUME NEW a \in Int
    PROVE  a % Modulus \in 0..(Modulus - 1) /\ Cong(a % Modulus, a)
<1>1. Modulus \in Nat /\ Modulus > 0
    BY CounterRange
<1>2. /\ a % Modulus \in 0..(Modulus - 1) /\ a \div Modulus \in Int
      /\ a = (a \div Modulus) * Modulus + (a % Modulus)
    BY <1>1
<1> DEFINE q == a \div Modulus
           r == a % Modulus
<1>3. q \in Int /\ r \in Int /\ a = q * Modulus + r
    BY <1>2
<1> HIDE DEF q, r
<1>4. -q \in Int /\ r = a + (-q) * Modulus
    BY <1>1, <1>3
<1> QED BY <1>2, <1>4 DEF Cong, r

\* A number is equal to itself.
LEMMA CongSame ==
    ASSUME NEW a \in Int
    PROVE  Cong(a, a)
<1>1. a = a + 0 * Modulus
    BY PercpuAssumption
<1> QED BY <1>1 DEF Cong

\* A part of a sum may be replaced by one that is equal up to turns.
LEMMA CongSwap ==
    ASSUME NEW a \in Int, NEW b \in Int, NEW c \in Int, NEW d \in Int, Cong(a, b), Cong(c, d)
    PROVE  Cong(a + (c - d), b)
<1>1. PICK y \in Int : a = b + y * Modulus
    BY DEF Cong
<1>2. PICK z \in Int : c = d + z * Modulus
    BY DEF Cong
<1>3. a + (c - d) = b + (y + z) * Modulus /\ y + z \in Int
    BY <1>1, <1>2, CounterRange
<1> QED BY <1>3 DEF Cong

\* Within one turn they are the same.
LEMMA CongUnique ==
    ASSUME NEW a \in 0..(Modulus - 1), NEW b \in 0..(Modulus - 1), Cong(a, b)
    PROVE  a = b
<1>1. PICK z \in Int : a = b + z * Modulus
    BY DEF Cong
<1>2. Modulus \in Nat
    BY PercpuAssumption
<1>3. CASE z >= 1
    <2>1. z * Modulus >= Modulus
        BY <1>2, <1>3
    <2> QED BY <1>1, <1>2, <2>1
<1>4. CASE z <= -1
    <2>1. z * Modulus <= -Modulus
        BY <1>2, <1>4
    <2> QED BY <1>1, <1>2, <2>1
<1>5. CASE z = 0
    BY <1>1, <1>2, <1>5
<1> QED BY <1>3, <1>4, <1>5

--------------------------------------------------------------------------------
Counters == [CPUs -> 0..(Modulus - 1)]

\* There are finitely many units.
LEMMA UnitsFinite ==
    ASSUME NEW f \in Counters, NEW S \in SUBSET CPUs
    PROVE  IsFiniteSet(Units(f, S)) /\ Cardinality(Units(f, S)) \in Nat
<1>1. IsFiniteSet(S) /\ IsFiniteSet(0..(Modulus - 1))
    BY PercpuAssumption, FS_Subset, FS_Interval
<1>2. IsFiniteSet(S \X (0..(Modulus - 1)))
    BY <1>1, FS_Product, Zenon
<1> QED BY <1>2, FS_Subset, FS_CardinalityType DEF Units

\* The counter of one CPU and those of the others make up the sum.
LEMMA UnitsSplit ==
    ASSUME NEW f \in Counters, NEW S \in SUBSET CPUs, NEW c \in S
    PROVE  Cardinality(Units(f, S)) = Cardinality(Units(f, S \ {c})) + f[c]
<1> DEFINE U == Units(f, {c})
           V == Units(f, S \ {c})
           h == [n \in 0..(f[c] - 1) |-> <<c, n>>]
<1>1. f[c] \in 0..(Modulus - 1) /\ Modulus \in Nat
    BY PercpuAssumption DEF Counters
<1>2. IsFiniteSet(0..(f[c] - 1)) /\ Cardinality(0..(f[c] - 1)) = f[c]
    <2>1. 0 \in Int /\ f[c] - 1 \in Int /\ f[c] >= 0 /\ f[c] \in Int
        BY <1>1
    <2>2. Cardinality(0..(f[c] - 1)) = IF 0 > f[c] - 1 THEN 0 ELSE (f[c] - 1) - 0 + 1
        BY <2>1, FS_Interval, Zenon
    <2>3. IsFiniteSet(0..(f[c] - 1))
        BY <2>1, FS_Interval
    <2> QED BY <2>1, <2>2, <2>3
<1>3. \A x : x \in U <=> \E n \in 0..(f[c] - 1) : x = <<c, n>>
    BY <1>1 DEF Units
<1>4. h \in Bijection(0..(f[c] - 1), U)
    BY <1>3, Zenon DEF Bijection, Injection, Surjection, IsInjective
<1>5. Cardinality(U) = f[c]
    BY <1>2, <1>4, FS_Bijection DEF ExistsBijection
<1>6. Units(f, S) = V \cup U /\ V \cap U = {}
    BY DEF Units
<1>7. IsFiniteSet(U) /\ IsFiniteSet(V) /\ Cardinality(V) \in Nat
    BY UnitsFinite
<1> HIDE DEF U, V
<1>8. Cardinality(V \cup U) = Cardinality(V) + Cardinality(U) - Cardinality({})
    BY <1>6, <1>7, FS_Union
<1> QED BY <1>1, <1>5, <1>6, <1>7, <1>8, FS_EmptySet DEF V

\* this_cpu_add() changes the sum of any CPUs that include its own, up to turns, and no
\* other.
LEMMA SumChange ==
    ASSUME read_count \in Counters, NEW c \in CPUs, NEW n \in Int, Add(c, n)
    PROVE  /\ read_count' \in Counters
           /\ \A S \in SUBSET CPUs, s \in Int, b \in Int :
                 Cong(s + Cardinality(Units(read_count, S)), b) =>
                     Cong(s + Cardinality(Units(read_count', S)), IF c \in S THEN b + n ELSE b)
<1> DEFINE f == read_count
           g == read_count'
<1>1. f[c] \in Int /\ f[c] + n \in Int
    BY PercpuAssumption DEF Counters
<1>2. (f[c] + n) % Modulus \in 0..(Modulus - 1) /\ Cong((f[c] + n) % Modulus, f[c] + n)
    BY <1>1, Reduced
<1>3. g \in Counters /\ g[c] = (f[c] + n) % Modulus /\ \A d \in CPUs \ {c} : g[d] = f[d]
    BY <1>1, <1>2 DEF Counters, Add
<1> HIDE DEF f, g
<1>4. \A T \in SUBSET CPUs : c \notin T => Units(g, T) = Units(f, T)
    BY <1>3 DEF Units
<1>5. ASSUME NEW S \in SUBSET CPUs, NEW s \in Int, NEW b \in Int, c \in S,
             Cong(s + Cardinality(Units(f, S)), b)
      PROVE  Cong(s + Cardinality(Units(g, S)), b + n)
    <2> DEFINE v == Cardinality(Units(f, S \ {c}))
    <2>1. v \in Int /\ Cardinality(Units(f, S)) = v + f[c]
        BY <1>5, UnitsSplit, UnitsFinite DEF f
    <2>2. Cardinality(Units(g, S)) = v + g[c]
        BY <1>3, <1>4, <1>5, UnitsSplit
    <2>3. g[c] \in Int /\ Modulus \in Int
        BY <1>2, <1>3, PercpuAssumption
    <2> HIDE DEF v
    <2>4. PICK y \in Int : s + (v + f[c]) = b + y * Modulus
        BY <1>5, <2>1 DEF Cong
    <2>5. PICK z \in Int : g[c] = (f[c] + n) + z * Modulus
        BY <1>2, <1>3, Zenon DEF Cong
    <2>6. s + (v + g[c]) = (b + n) + (y + z) * Modulus /\ y + z \in Int
        BY <1>1, <1>5, <2>1, <2>3, <2>4, <2>5
    <2> QED BY <2>2, <2>6 DEF Cong
<1> QED BY <1>3, <1>4, <1>5 DEF f, g

--------------------------------------------------------------------------------
\* The places of readers in a section with preemption off, and of the writer that holds
\* rw_sem.
InSection == {"d_idle", "d_block", "d_undo", "d_wake", "u_idle", "u_fast", "u_slow", "u_wake"}
Holding == {"block", "prepare", "sum", "sleep", "writing", "release"}

\* The sections of RcuSync are those of the readers, one on a CPU.
PlacesInv ==
    /\ inside = {r \in Readers : rpc[r] \in InSection}
    /\ fast = {r \in Readers : rpc[r] = "u_fast"}
    /\ \A r \in inside : cpu[r] \in CPUs
    /\ \A r, s \in inside : cpu[r] = cpu[s] => r = s
    /\ rw_readers = {r \in Readers : rpc[r] \in {"d_inc", "d_up"}}

\* The writer with rw_sem is between rcu_sync_enter() and rcu_sync_exit(), and blocks readers
\* while it looks for them.
WriterInv ==
    /\ \A w \in Updaters : wpc[w] \in Holding <=> rw_writer = w
    /\ rw_writer # NoWriter => rw_readers = {}
    /\ \A w \in Updaters : wpc[w] # "none" => upd[w] = "entered"
    /\ \A w \in Updaters : wpc[w] \in {"prepare", "sum", "sleep", "writing"} => readers_block

\* The readers that hold the semaphore or are on their way in, all of them counted; and those
\* that will call wake_up() before they are through.
Counted == Reading \cup Entering
WillWake == {r \in Readers : rpc[r] \in {"d_idle", "d_block", "d_undo", "d_wake", "reading",
                                         "u_idle", "u_slow", "u_wake"}}
EnteringOn(S) == {r \in Entering : cpu[r] \in S}

\* What the sum, begun and not finished, is going to show: e, for the readers inside and those
\* that passed a CPU already read, and the readers on their way in on the CPUs to be read.
Seen(e) ==
    /\ Cardinality(Reading) <= e
    /\ e <= Cardinality(Readers) + Cardinality(CPUs \ unread)
    /\ Cong(sum + CounterSum(unread), e + Cardinality(EnteringOn(unread)))
    /\ queued /\ WillWake = {} => e = 0

TotalInv == Cong(CounterSum(CPUs), Cardinality(Counted))

ScanInv ==
    \A w \in Updaters :
        /\ wpc[w] = "sum" => \E e \in 0..(Modulus - 1) : Seen(e)
        /\ wpc[w] = "sleep" /\ queued => WillWake # {}
        /\ wpc[w] = "writing" => Reading = {}

\* The inductive invariant of the semaphore.
Shape == RcuInv /\ PTypeOK /\ PlacesInv /\ WriterInv
PInv == Shape /\ TotalInv /\ ScanInv

\* Nobody is about at first.
LEMMA InitPInv == PInit => PInv
<1> SUFFICES ASSUME PInit PROVE PInv
    OBVIOUS
<1>1. RcuInv
    BY InitRcuInv DEF PInit
<1>2. PTypeOK
    <2>1. 0 \in 0..(Modulus - 1)
        BY CounterRange
    <2> QED BY <1>1, <2>1, Zenon DEF PInit, PTypeOK, RcuInv
<1>3. PlacesInv
    BY DEF PInit, Init, PlacesInv, InSection
<1>4. WriterInv /\ ScanInv
    BY PercpuAssumption DEF PInit, WriterInv, ScanInv, Holding
<1>5. TotalInv
    <2>1. Counted = {} /\ Units(read_count, CPUs) = {}
        BY DEF PInit, Counted, Reading, Entering, Units
    <2> QED BY <2>1, FS_EmptySet, CongSame DEF TotalInv, CounterSum
<1> QED BY <1>1, <1>2, <1>3, <1>4, <1>5 DEF PInv, Shape

\* Every step of the semaphore is one of its rcu_sync, or leaves that alone.
LEMMA StepIsRcuStep ==
    ASSUME Shape, [PNext]_vars
    PROVE  [Next]_rcuVars
<1>1. ASSUME NEW r \in Readers, NEW c \in CPUs, DownReadInc(r, c) \/ UpRead(r, c)
      PROVE  Read(r)
    BY <1>1, Zenon DEF Shape, PlacesInv, InSection, DownReadInc, UpRead, RAt, PreemptDisable, Read
<1>2. ASSUME NEW r \in Readers, ReaderStep(r), \A c \in CPUs : ~UpRead(r, c)
      PROVE  Read(r) \/ UNCHANGED rcuVars
    BY <1>2, Zenon DEF Shape, PlacesInv, InSection, ReaderStep, DownReadIdle, DownReadBlock,
       DownReadUndo, DownReadWake, DownReadSem, DownReadSemInc, DownReadSemUp, UpReadIdle,
       UpReadFast, UpReadSlow, UpReadWake, RAt, PreemptEnable, Read
<1>3. ASSUME NEW w \in Updaters, WriterStep(w) \/ RcuEnter(w)
      PROVE  Update(w) \/ UNCHANGED rcuVars
    BY <1>3, Zenon DEF WriterStep, RcuEnter, Update, DownWriteSem, DownWriteBlock,
       DownWritePrepare, DownWriteSum, DownWriteCheck, DownWriteWoken, UpWriteUnblock,
       UpWriteSem, UpWriteExit
<1>4. ASSUME PNext PROVE Next \/ UNCHANGED rcuVars
    BY <1>1, <1>2, <1>3, <1>4, Zenon DEF PNext, Next, RcuCallback, ReaderStep
<1>5. ASSUME UNCHANGED vars PROVE UNCHANGED rcuVars
    BY <1>5, Zenon DEF vars
<1> QED BY <1>4, <1>5, Zenon

\* A step that adds to a counter, if any, leaves it an unsigned word.
LEMMA CountersKept ==
    ASSUME PTypeOK, NEW c \in CPUs, NEW n \in Int, Add(c, n)
    PROVE  read_count' \in [CPUs -> 0..(Modulus - 1)]
<1>1. read_count[c] + n \in Int
    BY CounterRange DEF PTypeOK
<1> QED BY <1>1, Reduced, Zenon DEF PTypeOK, Add

\* A reader that moves to p, with inside, fast and rw_readers telling it.
LEMMA MoveKeepsPlaces ==
    ASSUME Shape, NEW r \in Readers, NEW p, RGoto(r, p),
           inside' = IF p \in InSection THEN inside \cup {r} ELSE inside \ {r},
           fast' = IF p = "u_fast" THEN fast \cup {r} ELSE fast \ {r},
           rw_readers' = IF p \in {"d_inc", "d_up"} THEN rw_readers \cup {r} ELSE rw_readers \ {r},
           \A s \in Readers : s # r => cpu'[s] = cpu[s],
           p \in InSection => cpu'[r] \in CPUs /\ \A s \in inside \ {r} : cpu[s] # cpu'[r]
    PROVE  PlacesInv'
<1>1. rpc'[r] = p /\ \A s \in Readers : s # r => rpc'[s] = rpc[s]
    BY Zenon DEF Shape, PTypeOK, RGoto
<1>2. inside \subseteq Readers
    BY Zenon DEF Shape, PlacesInv
<1>3. inside' = {s \in Readers : rpc'[s] \in InSection}
    BY <1>1, Zenon DEF Shape, PlacesInv
<1>4. fast' = {s \in Readers : rpc'[s] = "u_fast"}
    BY <1>1, ZenonT(30) DEF Shape, PlacesInv
<1>5. rw_readers' = {s \in Readers : rpc'[s] \in {"d_inc", "d_up"}}
    BY <1>1, Zenon DEF Shape, PlacesInv
<1>6. \A s \in inside' : cpu'[s] \in CPUs
    BY <1>2, Zenon DEF Shape, PlacesInv
<1>7. \A s, t \in inside' : cpu'[s] = cpu'[t] => s = t
    BY <1>2 DEF Shape, PlacesInv
<1> QED BY <1>3, <1>4, <1>5, <1>6, <1>7, Zenon DEF PlacesInv

\* What a reader's place says of it.
LEMMA PlaceOf ==
    ASSUME Shape, NEW r \in Readers
    PROVE  /\ r \in inside <=> rpc[r] \in InSection
           /\ r \in fast <=> rpc[r] = "u_fast"
           /\ r \in rw_readers <=> rpc[r] \in {"d_inc", "d_up"}
           /\ rpc[r] \in InSection => cpu[r] \in CPUs /\ \A s \in inside \ {r} : cpu[s] # cpu[r]
BY Zenon DEF Shape, PlacesInv

\* The steps of readers that begin a section.
LEMMA BeginKeepsShape ==
    ASSUME Shape, RcuInv', NEW r \in Readers, NEW c \in CPUs, DownReadInc(r, c) \/ UpRead(r, c)
    PROVE  Shape'
<1>1. /\ rpc[r] \in {"out", "reading"}
      /\ PreemptDisable(r, c) /\ UNCHANGED <<readers_block, rwsem, writerVars>>
      /\ Add(c, 1) \/ UNCHANGED read_count
    BY Zenon DEF DownReadInc, UpRead, RAt
<1>2. PICK p \in {"d_idle", "u_idle"} : RGoto(r, p)
    BY Zenon DEF DownReadInc, UpRead
<1>3. read_count' \in [CPUs -> 0..(Modulus - 1)]
    BY <1>1, CountersKept DEF Shape, PTypeOK
<1>4. PTypeOK'
    BY <1>1, <1>2, <1>3, Zenon DEF Shape, RcuInv, PTypeOK, RGoto, PreemptDisable, rwsem, writerVars
<1>5. PlacesInv'
    <2>1. /\ inside' = inside \cup {r} /\ fast' = fast /\ rw_readers' = rw_readers
          /\ cpu'[r] = c /\ \A s \in Readers : s # r => cpu'[s] = cpu[s]
          /\ \A s \in inside : cpu[s] # c
        BY <1>1, Zenon DEF Shape, PTypeOK, PreemptDisable, ReadLock, rwsem
    <2>2. r \notin fast /\ r \notin rw_readers
        BY <1>1, PlaceOf, Zenon
    <2>3. p \in InSection /\ p # "u_fast" /\ p \notin {"d_inc", "d_up"}
        BY <1>2, Zenon DEF InSection
    <2>4. fast' = fast \ {r} /\ rw_readers' = rw_readers \ {r}
        BY <2>1, <2>2, Zenon
    <2> QED BY <1>2, <2>1, <2>3, <2>4, MoveKeepsPlaces, Zenon
<1>6. WriterInv'
    BY <1>1, Zenon DEF Shape, WriterInv, PreemptDisable, ReadLock, rwsem, writerVars
<1> QED BY <1>4, <1>5, <1>6, Zenon DEF Shape

\* The steps of readers that end one.
LEMMA EndKeepsShape ==
    ASSUME Shape, RcuInv', NEW r \in Readers, PreemptEnable(r),
           NEW p \in {"reading", "d_sem", "out"}, RGoto(r, p),
           \/ DownReadIdle(r) \/ DownReadBlock(r) \/ DownReadWake(r)
           \/ UpReadFast(r) \/ UpReadWake(r)
    PROVE  Shape'
<1>1. /\ UNCHANGED <<readers_block, rwsem, wpc, sum, unread>> /\ queued' \in BOOLEAN
      /\ Add(cpu[r], -1) \/ UNCHANGED read_count
    BY Zenon DEF Shape, PTypeOK, DownReadIdle, DownReadBlock, DownReadWake, UpReadFast, UpReadWake,
       writerVars
<1>2. rpc[r] \in InSection
    BY Zenon DEF DownReadIdle, DownReadBlock, DownReadWake, UpReadFast, UpReadWake, RAt, InSection
<1>3. read_count' \in [CPUs -> 0..(Modulus - 1)]
    BY <1>1, <1>2, PlaceOf, CountersKept DEF Shape, PTypeOK
<1>4. PTypeOK'
    BY <1>1, <1>3, Zenon DEF Shape, RcuInv, PTypeOK, RGoto, PreemptEnable, rwsem
<1>5. PlacesInv'
    <2>1. /\ inside' = inside \ {r} /\ fast' = fast \ {r} /\ rw_readers' = rw_readers
          /\ \A s \in Readers : s # r => cpu'[s] = cpu[s]
        BY <1>1, Zenon DEF Shape, PTypeOK, PreemptEnable, ReadUnlock, rwsem
    <2>2. r \notin rw_readers
        BY <1>2, PlaceOf, Zenon DEF InSection
    <2>3. p \notin InSection /\ p # "u_fast" /\ p \notin {"d_inc", "d_up"}
        BY Zenon DEF InSection
    <2>4. rw_readers' = rw_readers \ {r}
        BY <2>1, <2>2, Zenon
    <2> QED BY <2>1, <2>3, <2>4, MoveKeepsPlaces, Zenon
<1>6. WriterInv'
    BY <1>1, Zenon DEF Shape, WriterInv, PreemptEnable, ReadUnlock, rwsem
<1> QED BY <1>4, <1>5, <1>6, Zenon DEF Shape

\* The steps of readers within one, or outside.
LEMMA MiddleKeepsShape ==
    ASSUME Shape, RcuInv', NEW r \in Readers, UNCHANGED <<rcuVars, cpu>>,
           \/ DownReadIdle(r) \/ DownReadBlock(r) \/ DownReadUndo(r)
           \/ UpReadIdle(r) \/ UpReadSlow(r)
    PROVE  Shape'
<1>1. /\ UNCHANGED <<readers_block, rwsem, writerVars>>
      /\ Add(cpu[r], -1) \/ UNCHANGED read_count
    BY Zenon DEF DownReadIdle, DownReadBlock, DownReadUndo, UpReadIdle, UpReadSlow
<1>2. rpc[r] \in InSection \ {"u_fast"}
    BY Zenon DEF DownReadIdle, DownReadBlock, DownReadUndo, UpReadIdle, UpReadSlow, RAt, InSection
<1>3. PICK p \in {"d_block", "d_undo", "d_wake", "u_slow", "u_wake"} : RGoto(r, p)
    <2>1. CASE DownReadUndo(r) \/ UpReadSlow(r)
        BY <2>1, Zenon DEF DownReadUndo, UpReadSlow
    <2>2. r \in inside /\ r \notin fast
        BY <1>2, PlaceOf, Zenon
    <2>3. ~PreemptEnable(r) /\ ~SeesIdle(r)
        BY <2>2, Zenon DEF PreemptEnable, ReadUnlock, SeesIdle, rcuVars, sections
    <2>4. CASE DownReadIdle(r) \/ DownReadBlock(r) \/ UpReadIdle(r)
        BY <2>3, <2>4, Zenon DEF DownReadIdle, DownReadBlock, UpReadIdle
    <2> QED BY <2>1, <2>4, Zenon
<1>4. read_count' \in [CPUs -> 0..(Modulus - 1)]
    BY <1>1, <1>2, PlaceOf, CountersKept DEF Shape, PTypeOK
<1>5. PTypeOK'
    BY <1>1, <1>3, <1>4, Zenon DEF Shape, RcuInv, PTypeOK, RGoto, rwsem, writerVars
<1>6. PlacesInv'
    <2>1. inside' = inside /\ fast' = fast /\ rw_readers' = rw_readers /\ cpu' = cpu
        BY <1>1, Zenon DEF rwsem, rcuVars, sections
    <2>2. /\ r \in inside /\ r \notin fast /\ r \notin rw_readers
          /\ cpu[r] \in CPUs /\ \A s \in inside \ {r} : cpu[s] # cpu[r]
        BY <1>2, PlaceOf, Zenon DEF InSection
    <2>3. p \in InSection /\ p # "u_fast" /\ p \notin {"d_inc", "d_up"}
        BY <1>3, Zenon DEF InSection
    <2>4. inside' = inside \cup {r} /\ fast' = fast \ {r} /\ rw_readers' = rw_readers \ {r}
        BY <2>1, <2>2, Zenon
    <2> QED BY <1>3, <2>1, <2>2, <2>3, <2>4, MoveKeepsPlaces, Zenon
<1>7. WriterInv'
    BY <1>1, Zenon DEF Shape, WriterInv, rcuVars, rwsem, writerVars
<1> QED BY <1>5, <1>6, <1>7, Zenon DEF Shape

\* The reader that goes by rw_sem.
LEMMA SemKeepsShape ==
    ASSUME Shape, RcuInv', NEW r \in Readers,
           DownReadSem(r) \/ DownReadSemUp(r) \/ \E c \in CPUs : DownReadSemInc(r, c)
    PROVE  Shape'
<1>1. /\ UNCHANGED <<rcuVars, readers_block, rw_writer, cpu, writerVars>>
      /\ UNCHANGED read_count \/ \E c \in CPUs : Add(c, 1)
      /\ rpc[r] \in {"d_sem", "d_inc", "d_up"}
    BY Zenon DEF DownReadSem, DownReadSemInc, DownReadSemUp, rwsem, RAt
<1>2. PICK p \in {"d_inc", "d_up", "reading"} :
          /\ RGoto(r, p)
          /\ rw_readers' = IF p \in {"d_inc", "d_up"} THEN rw_readers \cup {r} ELSE rw_readers \ {r}
    <2>1. CASE DownReadSem(r)
        BY <2>1, Zenon DEF DownReadSem
    <2>2. CASE DownReadSemUp(r)
        BY <2>2, Zenon DEF DownReadSemUp
    <2>3. CASE \E c \in CPUs : DownReadSemInc(r, c)
        <3>1. rpc[r] = "d_inc" /\ rw_readers' = rw_readers /\ RGoto(r, "d_up")
            BY <2>3, Zenon DEF DownReadSemInc, RAt, rwsem
        <3>2. rw_readers' = rw_readers \cup {r}
            BY <3>1, PlaceOf, Zenon
        <3> QED BY <3>1, <3>2, Zenon
    <2> QED BY <2>1, <2>2, <2>3, Zenon
<1>3. read_count' \in [CPUs -> 0..(Modulus - 1)]
    BY <1>1, CountersKept DEF Shape, PTypeOK
<1>4. rw_readers' \subseteq Readers
    BY <1>2, Zenon DEF Shape, PTypeOK
<1>5. PTypeOK'
    BY <1>1, <1>2, <1>3, <1>4, Zenon DEF Shape, RcuInv, PTypeOK, RGoto, writerVars
<1>6. PlacesInv'
    <2>1. inside' = inside /\ fast' = fast /\ cpu' = cpu /\ r \notin inside /\ r \notin fast
        BY <1>1, PlaceOf, Zenon DEF rcuVars, sections, InSection
    <2>2. p \notin InSection /\ p # "u_fast"
        BY <1>2, Zenon DEF InSection
    <2>3. inside' = inside \ {r} /\ fast' = fast \ {r}
        BY <2>1, Zenon
    <2> QED BY <1>2, <2>1, <2>2, <2>3, MoveKeepsPlaces, Zenon
<1>7. rw_writer # NoWriter => rw_readers' = {}
    BY Zenon DEF Shape, WriterInv, DownReadSem, DownReadSemInc, DownReadSemUp, rwsem
<1>8. WriterInv'
    BY <1>1, <1>7, Zenon DEF Shape, WriterInv, writerVars, rcuVars
<1> QED BY <1>5, <1>6, <1>8, Zenon DEF Shape

\* The fast path of percpu_up_read().
LEMMA FastKeepsShape ==
    ASSUME Shape, RcuInv', NEW r \in Readers, UpReadIdle(r), SeesIdle(r), RGoto(r, "u_fast")
    PROVE  Shape'
<1>1. /\ rpc[r] = "u_idle" /\ UNCHANGED <<read_count, readers_block, rwsem, cpu, writerVars, upd>>
      /\ fast' = fast \cup {r} /\ inside' = inside
    BY Zenon DEF UpReadIdle, SeesIdle, RAt
<1>2. PTypeOK'
    BY <1>1, Zenon DEF Shape, RcuInv, PTypeOK, RGoto, rwsem, writerVars
<1>3. PlacesInv'
    <2>1. /\ r \in inside /\ r \notin rw_readers
          /\ cpu[r] \in CPUs /\ \A s \in inside \ {r} : cpu[s] # cpu[r]
        BY <1>1, PlaceOf, Zenon DEF InSection
    <2>2. inside' = inside \cup {r} /\ rw_readers' = rw_readers \ {r} /\ cpu' = cpu
        BY <1>1, <2>1, Zenon DEF rwsem
    <2>3. "u_fast" \in InSection /\ "u_fast" \notin {"d_inc", "d_up"}
        BY Zenon DEF InSection
    <2> QED BY <1>1, <2>1, <2>2, <2>3, MoveKeepsPlaces, Zenon
<1>4. WriterInv'
    BY <1>1, Zenon DEF Shape, WriterInv, rwsem, writerVars
<1> QED BY <1>2, <1>3, <1>4, Zenon DEF Shape

\* The writers.
LEMMA WriterKeepsShape ==
    ASSUME Shape, RcuInv', NEW w \in Updaters, WriterStep(w) \/ RcuEnter(w)
    PROVE  Shape'
<1>1. UNCHANGED <<read_count, readerVars, rw_readers, sections>>
    BY Zenon DEF WriterStep, RcuEnter, DownWriteSem, DownWriteBlock, DownWritePrepare, DownWriteSum,
       DownWriteCheck, DownWriteWoken, UpWriteUnblock, UpWriteSem, UpWriteExit, rwsem, rcuVars,
       Enter, EnterSynced, EnterWaited, EnterChecked, Exit
<1>2. ASSUME RcuEnter(w) PROVE Shape'
    <2>1. PTypeOK' /\ PlacesInv'
        <3>1. UNCHANGED <<read_count, readers_block, rwsem, readerVars, writerVars>>
            BY <1>2, Zenon DEF RcuEnter
        <3>2. PTypeOK'
            BY <3>1, Zenon DEF Shape, RcuInv, PTypeOK, readerVars, rwsem, writerVars
        <3>3. PlacesInv'
            BY <1>1, Zenon DEF Shape, PlacesInv, readerVars, sections
        <3> QED BY <3>2, <3>3, Zenon
    <2>2. WriterInv'
        BY <1>1, <1>2, ZenonT(30) DEF Shape, RcuInv, TypeOK, WriterInv, RcuEnter, Enter, EnterSynced,
           EnterWaited, EnterChecked, rwsem, writerVars
    <2> QED BY <2>1, <2>2 DEF Shape
<1>3. ASSUME WriterStep(w) PROVE Shape'
    <2>1. /\ \E p \in {"none", "exit"} \cup Holding : WGoto(w, p)
          /\ sum' \in 0..(Modulus - 1) /\ unread' \in SUBSET CPUs
          /\ readers_block' \in BOOLEAN /\ queued' \in BOOLEAN
          /\ rw_writer' \in Updaters \cup {NoWriter}
        <3>1. 0 \in 0..(Modulus - 1)
            BY CounterRange
        <3>2. \A c \in CPUs : DownWriteSum(w, c) => sum' \in 0..(Modulus - 1)
            BY Reduced, CounterRange DEF Shape, PTypeOK, DownWriteSum
        <3>3. CASE \E c \in CPUs : DownWriteSum(w, c)
            BY <3>2, <3>3, ZenonT(30) DEF Shape, PTypeOK, DownWriteSum, WAt, WGoto, Holding, rwsem
        <3>4. CASE DownWriteSem(w) \/ DownWriteBlock(w) \/ UpWriteUnblock(w) \/ UpWriteSem(w)
            BY <3>4, Zenon DEF Shape, PTypeOK, DownWriteSem, DownWriteBlock, UpWriteUnblock, UpWriteSem,
               Holding, rwsem
        <3>5. CASE DownWritePrepare(w) \/ DownWriteCheck(w) \/ DownWriteWoken(w) \/ UpWriteExit(w)
            BY <3>1, <3>5, Zenon DEF Shape, PTypeOK, DownWritePrepare, DownWriteCheck, DownWriteWoken,
               UpWriteExit, Holding, rwsem
        <3> QED BY <1>3, <3>3, <3>4, <3>5, Zenon DEF WriterStep
    <2>2. PTypeOK' /\ PlacesInv'
        <3>1. PTypeOK'
            BY <1>1, <2>1, Zenon DEF Shape, RcuInv, PTypeOK, readerVars, WGoto, Holding
        <3>2. PlacesInv'
            BY <1>1, Zenon DEF Shape, PlacesInv, readerVars, sections
        <3> QED BY <3>1, <3>2, Zenon
    <2>3. WriterInv'
        <3>1. CASE DownWriteSem(w)
            BY <1>1, <3>1, PercpuAssumption, Zenon DEF Shape, PTypeOK, WriterInv, Holding, DownWriteSem, WAt,
               WGoto, rcuVars
        <3>2. CASE \/ DownWriteBlock(w) \/ DownWritePrepare(w) \/ DownWriteCheck(w)
                   \/ DownWriteWoken(w) \/ UpWriteUnblock(w) \/ \E c \in CPUs : DownWriteSum(w, c)
            <4>1. /\ UNCHANGED <<rw_writer, rw_readers, upd>>
                  /\ wpc[w] \in Holding /\ wpc'[w] \in Holding
                  /\ wpc'[w] \in {"prepare", "sum", "sleep", "writing"} => readers_block'
                  /\ \A v \in Updaters : v # w => wpc'[v] = wpc[v]
                <5>1. CASE DownWriteBlock(w) \/ UpWriteUnblock(w)
                    BY <5>1, Zenon DEF Shape, PTypeOK, Holding, DownWriteBlock, UpWriteUnblock, WAt,
                       WGoto, rwsem, rcuVars
                <5>2. CASE DownWritePrepare(w) \/ DownWriteWoken(w) \/ \E c \in CPUs : DownWriteSum(w, c)
                    BY <5>2, ZenonT(30) DEF Shape, PTypeOK, WriterInv, Holding, DownWritePrepare,
                       DownWriteWoken, DownWriteSum, WAt, WGoto, rwsem, rcuVars
                <5>3. CASE DownWriteCheck(w)
                    BY <5>3, Zenon DEF Shape, PTypeOK, WriterInv, Holding, DownWriteCheck, WAt,
                       WGoto, rwsem, rcuVars
                <5> QED BY <3>2, <5>1, <5>2, <5>3, Zenon
            <4>2. rw_writer = w /\ rw_readers = {} /\ upd[w] = "entered"
                BY <4>1, PercpuAssumption, Zenon DEF Shape, WriterInv, Holding
            <4>3. \A v \in Updaters : v # w => wpc[v] \notin Holding
                BY <4>2, Zenon DEF Shape, WriterInv
            <4>4. \A v \in Updaters : wpc'[v] \in {"prepare", "sum", "sleep", "writing"} => v = w
                BY <4>1, <4>3, Zenon DEF Holding
            <4> QED BY <4>1, <4>2, <4>3, <4>4, Zenon DEF Shape, WriterInv
        <3>3. CASE UpWriteSem(w)
            BY <1>1, <3>3, PercpuAssumption, ZenonT(30) DEF Shape, PTypeOK, WriterInv, Holding, UpWriteSem, WAt,
               WGoto, rcuVars
        <3>4. CASE UpWriteExit(w)
            <4>1. /\ UNCHANGED <<rw_writer, rw_readers, readers_block>>
                  /\ wpc[w] = "exit" /\ wpc'[w] = "none" /\ \A v \in Updaters : v # w => wpc'[v] = wpc[v]
                BY <3>4, Zenon DEF Shape, PTypeOK, UpWriteExit, WAt, WGoto, rwsem
            <4>2. \A v \in Updaters : v # w => upd'[v] = upd[v]
                BY <3>4, Zenon DEF Shape, RcuInv, TypeOK, UpWriteExit, Exit
            <4> QED BY <4>1, <4>2, Zenon DEF Shape, WriterInv, Holding
        <3> QED BY <1>3, <3>1, <3>2, <3>3, <3>4, Zenon DEF WriterStep
    <2> QED BY <2>2, <2>3 DEF Shape
<1> QED BY <1>2, <1>3

\* Every step keeps the shape.
LEMMA StepKeepsShape ==
    ASSUME Shape, [PNext]_vars
    PROVE  Shape'
<1>1. RcuInv'
    BY StepIsRcuStep, RcuStepKeeps DEF Shape
<1>2. ASSUME NEW r \in Readers, NEW c \in CPUs, DownReadInc(r, c) PROVE Shape'
    BY <1>1, <1>2, BeginKeepsShape
<1>3. ASSUME NEW r \in Readers, ReaderStep(r) PROVE Shape'
    <2>1. CASE \E c \in CPUs : UpRead(r, c)
        BY <1>1, <2>1, BeginKeepsShape
    <2>2. CASE DownReadSem(r) \/ DownReadSemUp(r) \/ \E c \in CPUs : DownReadSemInc(r, c)
        BY <1>1, <2>2, SemKeepsShape
    <2>3. CASE DownReadWake(r) \/ UpReadFast(r) \/ UpReadWake(r)
        <3>1. PreemptEnable(r) /\ \E p \in {"reading", "d_sem", "out"} : RGoto(r, p)
            BY <2>3, Zenon DEF DownReadWake, UpReadFast, UpReadWake
        <3> QED BY <1>1, <2>3, <3>1, EndKeepsShape, Zenon
    <2>4. CASE DownReadIdle(r) \/ DownReadBlock(r)
        <3>1. \/ UNCHANGED <<rcuVars, cpu>>
              \/ PreemptEnable(r) /\ RGoto(r, "reading")
            BY <2>4, Zenon DEF DownReadIdle, DownReadBlock
        <3> QED BY <1>1, <2>4, <3>1, EndKeepsShape, MiddleKeepsShape, Zenon
    <2>5. CASE DownReadUndo(r) \/ UpReadSlow(r)
        <3>1. UNCHANGED <<rcuVars, cpu>>
            BY <2>5, Zenon DEF DownReadUndo, UpReadSlow
        <3> QED BY <1>1, <2>5, <3>1, MiddleKeepsShape
    <2>6. CASE UpReadIdle(r)
        <3>1. CASE UNCHANGED <<rcuVars, cpu>>
            BY <1>1, <2>6, <3>1, MiddleKeepsShape
        <3>2. CASE SeesIdle(r) /\ RGoto(r, "u_fast")
            BY <1>1, <2>6, <3>2, FastKeepsShape, Zenon
        <3> QED BY <2>6, <3>1, <3>2, Zenon DEF UpReadIdle
    <2> QED BY <1>3, <2>1, <2>2, <2>3, <2>4, <2>5, <2>6, Zenon DEF ReaderStep
<1>4. ASSUME NEW w \in Updaters, WriterStep(w) \/ RcuEnter(w) PROVE Shape'
    BY <1>1, <1>4, WriterKeepsShape
<1>5. ASSUME RcuCallback PROVE Shape'
    BY <1>1, <1>5, ZenonT(30) DEF RcuCallback, Callback, Shape, RcuInv, PTypeOK, PlacesInv, WriterInv, rwsem,
       readerVars, writerVars, sections
<1>6. ASSUME UNCHANGED vars PROVE Shape'
    <2>1. PTypeOK'
        BY <1>1, <1>6, Zenon DEF vars, Shape, RcuInv, PTypeOK, rwsem, readerVars, writerVars
    <2>2. PlacesInv' /\ WriterInv'
        BY <1>6, Zenon DEF vars, rcuVars, Shape, PlacesInv, WriterInv, rwsem, readerVars, writerVars,
           sections
    <2> QED BY <1>1, <2>1, <2>2, Zenon DEF Shape
<1> QED BY <1>2, <1>3, <1>4, <1>5, <1>6, Zenon DEF PNext

--------------------------------------------------------------------------------
\* Sets of readers are finite, and grow and shrink by one.
LEMMA ReaderSets ==
    ASSUME NEW S \in SUBSET Readers
    PROVE  /\ IsFiniteSet(S) /\ Cardinality(S) \in Nat /\ Cardinality(S) <= Cardinality(Readers)
           /\ Cardinality(S) = 0 => S = {}
           /\ \A r : r \notin S => Cardinality(S \cup {r}) = Cardinality(S) + 1
           /\ \A r \in S : Cardinality(S) >= 1 /\ Cardinality(S \ {r}) = Cardinality(S) - 1
<1>1. IsFiniteSet(S) /\ Cardinality(S) \in Nat /\ Cardinality(S) <= Cardinality(Readers)
    BY PercpuAssumption, FS_Subset, FS_CardinalityType, Zenon
<1>2. Cardinality(S) = 0 => S = {}
    BY <1>1, FS_EmptySet
<1>3. \A r : r \notin S => Cardinality(S \cup {r}) = Cardinality(S) + 1
    BY <1>1, FS_AddElement, Zenon
<1>4. \A r \in S : Cardinality(S \ {r}) = Cardinality(S) - 1
    BY <1>1, FS_RemoveElement, Zenon
<1> QED BY <1>1, <1>2, <1>3, <1>4

\* The counters add up to the readers, when a step adds or takes away both.
LEMMA TotalKeeps ==
    ASSUME Shape, TotalInv, NEW r \in Readers, NEW c \in CPUs,
           \/ Add(c, 1) /\ r \notin Counted /\ Counted' = Counted \cup {r}
           \/ Add(c, -1) /\ r \in Counted /\ Counted' = Counted \ {r}
    PROVE  TotalInv'
<1> DEFINE x == Cardinality(Units(read_count, CPUs))
           y == Cardinality(Units(read_count', CPUs))
           k == Cardinality(Counted)
           k1 == Cardinality(Counted')
<1>1. read_count \in Counters
    BY Zenon DEF Shape, PTypeOK, Counters
<1>2. Counted \in SUBSET Readers
    BY Zenon DEF Counted, Reading, Entering
<1>3. /\ k \in Nat
      /\ r \notin Counted => Cardinality(Counted \cup {r}) = k + 1
      /\ r \in Counted => Cardinality(Counted \ {r}) = k + (-1)
    BY <1>2, ReaderSets, Zenon
<1>4. PICK n \in Int : Add(c, n) /\ k1 = k + n
    BY <1>3
<1>5. read_count' \in Counters /\ Cong(0 + y, k1)
    <2>1. Cong(0 + x, k)
        BY <1>1, UnitsFinite DEF TotalInv, CounterSum
    <2>2. /\ read_count' \in Counters
          /\ \A s \in Int, b \in Int : Cong(s + x, b) => Cong(s + y, b + n)
        BY <1>1, <1>4, SumChange, Zenon
    <2> HIDE DEF x, y, k, k1
    <2> QED BY <1>3, <1>4, <2>1, <2>2
<1>6. y \in Nat
    BY <1>5, UnitsFinite, Zenon
<1> QED BY <1>5, <1>6 DEF TotalInv, CounterSum

\* While a writer holds rw_sem readers are off the fast path, and off rw_sem.
LEMMA WriterHolds ==
    ASSUME Shape, NEW w \in Updaters, wpc[w] \in Holding
    PROVE  /\ gp_state = "passed" /\ fast = {} /\ rw_readers = {}
           /\ \A v \in Updaters : wpc[v] \in Holding => v = w
           /\ wpc[w] \in {"prepare", "sum", "sleep", "writing"} => readers_block
BY PercpuAssumption, Zenon DEF Shape, RcuInv, StateInv, WriterInv, Holding

\* A reader that adds to a counter while the writer sums them: what the sum will show follows.
LEMMA SeenKeeps ==
    ASSUME Shape, NEW c \in CPUs, NEW n \in Int, Add(c, n), UNCHANGED <<sum, unread>>,
           NEW e \in Nat, Seen(e), NEW d \in Nat, Cardinality(Reading)' <= d, d <= e, WillWake' # {},
           d + Cardinality(EnteringOn(unread)') =
               IF c \in unread THEN e + Cardinality(EnteringOn(unread)) + n
               ELSE e + Cardinality(EnteringOn(unread))
    PROVE  Seen(d)'
<1> DEFINE k == Cardinality(EnteringOn(unread))
<1>1. read_count \in Counters /\ unread \in SUBSET CPUs /\ sum \in Int
    BY CounterRange DEF Shape, PTypeOK, Counters
<1>2. EnteringOn(unread) \in SUBSET Readers
    BY Zenon DEF EnteringOn, Entering
<1>3. k \in Nat
    BY <1>2, ReaderSets, Zenon
<1>4. Cong(sum + Cardinality(Units(read_count, unread)), e + k)
    BY Zenon DEF Seen, CounterSum
<1>5. Cong(sum + Cardinality(Units(read_count', unread)), IF c \in unread THEN e + k + n ELSE e + k)
    <2>1. \A s \in Int, b \in Int :
              Cong(s + Cardinality(Units(read_count, unread)), b) =>
                  Cong(s + Cardinality(Units(read_count', unread)), IF c \in unread THEN b + n ELSE b)
        BY <1>1, SumChange, Zenon
    <2> HIDE DEF k
    <2> QED BY <1>1, <1>3, <1>4, <2>1
<1>6. Cong(sum' + CounterSum(unread)', d + Cardinality(EnteringOn(unread)'))
    BY <1>5, Zenon DEF CounterSum
<1>7. Cardinality(Readers) \in Nat /\ Cardinality(CPUs \ unread) \in Nat
    BY PercpuAssumption, FS_CardinalityType, FS_Difference, Zenon
<1> QED BY <1>6, <1>7 DEF Seen

\* A reader that adds to a counter, and is going to call wake_up(); m of them leave.
LEMMA ScanKeeps ==
    ASSUME PInv, NEW c \in CPUs, NEW n \in Int, Add(c, n), UNCHANGED <<wpc, sum, unread>>,
           WillWake' # {}, Reading' \subseteq Reading,
           NEW m \in {0, 1}, Cardinality(Reading)' = Cardinality(Reading) - m,
           Cardinality(EnteringOn(unread)') =
               IF c \in unread THEN Cardinality(EnteringOn(unread)) + n + m
               ELSE Cardinality(EnteringOn(unread))
    PROVE  ScanInv'
<1> SUFFICES ASSUME NEW w \in Updaters, wpc[w] = "sum"
             PROVE  (\E e \in 0..(Modulus - 1) : Seen(e))'
    BY Zenon DEF PInv, ScanInv
<1>1. PICK e \in 0..(Modulus - 1) : Seen(e)
    BY Zenon DEF PInv, ScanInv
<1>0. PICK d : d = IF c \in unread THEN e - m ELSE e
    BY Zenon
<1>2. Reading \in SUBSET Readers /\ EnteringOn(unread) \in SUBSET Readers
    BY Zenon DEF Reading, EnteringOn, Entering
<1>3. /\ Cardinality(Reading) \in Nat /\ Cardinality(EnteringOn(unread)) \in Nat
      /\ Cardinality(Reading) <= Cardinality(Readers) /\ Cardinality(Readers) \in Nat
    BY <1>2, ReaderSets, PercpuAssumption, FS_CardinalityType, Zenon
<1>4. Cardinality(Reading)' \in Nat
    <2>1. Reading' \in SUBSET Readers
        BY <1>2, Zenon
    <2> QED BY <2>1, ReaderSets, Zenon
<1>5. Cardinality(Reading) <= e /\ Modulus \in Nat
    BY <1>1, CounterRange, Zenon DEF Seen
<1>6. /\ d \in 0..(Modulus - 1) /\ Cardinality(Reading)' <= d /\ d <= e /\ e \in Nat /\ d \in Nat
      /\ d + Cardinality(EnteringOn(unread)') =
             IF c \in unread THEN e + Cardinality(EnteringOn(unread)) + n
             ELSE e + Cardinality(EnteringOn(unread))
    BY <1>0, <1>3, <1>4, <1>5
<1>7. Seen(d)'
    BY <1>1, <1>6, SeenKeeps, Zenon DEF PInv
<1> QED BY <1>6, <1>7, Zenon

\* The first step of percpu_down_read().
LEMMA ArriveKeeps ==
    ASSUME PInv, NEW r \in Readers, NEW c \in CPUs, DownReadInc(r, c)
    PROVE  TotalInv' /\ ScanInv'
<1>1. /\ Reading' = Reading /\ r \notin Counted /\ Counted' = Counted \cup {r} /\ r \in WillWake'
      /\ r \notin EnteringOn(unread)
      /\ EnteringOn(unread)' = IF c \in unread THEN EnteringOn(unread) \cup {r} ELSE EnteringOn(unread)
      /\ Add(c, 1) /\ UNCHANGED <<wpc, sum, unread>>
    BY Zenon DEF PInv, Shape, PTypeOK, DownReadInc, RAt, RGoto, PreemptDisable, writerVars, Counted,
       Reading, Entering, EnteringOn, WillWake
<1>2. EnteringOn(unread) \in SUBSET Readers /\ Reading \in SUBSET Readers
    BY Zenon DEF EnteringOn, Entering, Reading
<1>3. /\ Cardinality(EnteringOn(unread) \cup {r}) = Cardinality(EnteringOn(unread)) + 1 + 0
      /\ Cardinality(Reading) = Cardinality(Reading) - 0
    BY <1>1, <1>2, ReaderSets
<1>4. TotalInv'
    BY <1>1, TotalKeeps, Zenon DEF PInv
<1>5. ScanInv'
    BY <1>1, <1>3, ScanKeeps
<1> QED BY <1>4, <1>5

\* __percpu_down_read() takes the count back.
LEMMA UndoKeeps ==
    ASSUME PInv, NEW r \in Readers, DownReadUndo(r)
    PROVE  TotalInv' /\ ScanInv'
<1>1. /\ Reading' = Reading /\ r \in Counted /\ Counted' = Counted \ {r} /\ r \in WillWake'
      /\ cpu[r] \in unread => r \in EnteringOn(unread)
      /\ EnteringOn(unread)' =
             IF cpu[r] \in unread THEN EnteringOn(unread) \ {r} ELSE EnteringOn(unread)
      /\ Add(cpu[r], -1) /\ UNCHANGED <<wpc, sum, unread>> /\ cpu[r] \in CPUs
    BY Zenon DEF PInv, Shape, PTypeOK, PlacesInv, InSection, DownReadUndo, RAt, RGoto, writerVars, Counted,
       Reading, Entering, EnteringOn, WillWake
<1>2. EnteringOn(unread) \in SUBSET Readers /\ Reading \in SUBSET Readers
    BY Zenon DEF EnteringOn, Entering, Reading
<1>3. /\ cpu[r] \in unread =>
             Cardinality(EnteringOn(unread) \ {r}) = Cardinality(EnteringOn(unread)) + (-1) + 0
      /\ Cardinality(Reading) = Cardinality(Reading) - 0
    BY <1>1, <1>2, ReaderSets
<1>4. TotalInv'
    BY <1>1, TotalKeeps, Zenon DEF PInv
<1>5. ScanInv'
    BY <1>1, <1>3, ScanKeeps, SMTT(30)
<1> QED BY <1>4, <1>5

\* __percpu_up_read() takes the count back.
LEMMA LeaveKeeps ==
    ASSUME PInv, NEW r \in Readers, UpReadSlow(r)
    PROVE  TotalInv' /\ ScanInv'
<1>1. /\ r \in Reading /\ Reading' = Reading \ {r} /\ r \in Counted /\ Counted' = Counted \ {r}
      /\ r \in WillWake' /\ EnteringOn(unread)' = EnteringOn(unread)
      /\ Add(cpu[r], -1) /\ UNCHANGED <<wpc, sum, unread>> /\ cpu[r] \in CPUs
    BY Zenon DEF PInv, Shape, PTypeOK, PlacesInv, InSection, UpReadSlow, RAt, RGoto, writerVars, Counted,
       Reading, Entering, EnteringOn, WillWake
<1>2. EnteringOn(unread) \in SUBSET Readers /\ Reading \in SUBSET Readers
    BY DEF EnteringOn, Entering, Reading
<1>3. /\ Cardinality(EnteringOn(unread)) = Cardinality(EnteringOn(unread)) + (-1) + 1
      /\ Cardinality(Reading \ {r}) = Cardinality(Reading) - 1
    BY <1>1, <1>2, ReaderSets
<1>4. TotalInv'
    BY <1>1, TotalKeeps, Zenon DEF PInv
<1>5. ScanInv'
    BY <1>1, <1>3, ScanKeeps, SMTT(30)
<1> QED BY <1>4, <1>5

\* Steps the sum does not notice.
LEMMA QuietKeeps ==
    ASSUME PInv, UNCHANGED <<wpc, sum, unread>>,
           \A w \in Updaters : wpc[w] \in {"sum", "sleep", "writing"} =>
               /\ Reading' = Reading /\ EnteringOn(unread)' = EnteringOn(unread)
               /\ UNCHANGED read_count
               /\ queued' => queued /\ WillWake \subseteq WillWake'
    PROVE  ScanInv'
<1>1. ASSUME NEW w \in Updaters, wpc[w] = "sum" PROVE (\E e \in 0..(Modulus - 1) : Seen(e))'
    BY <1>1, Zenon DEF PInv, ScanInv, Seen, CounterSum
<1> QED BY <1>1, Zenon DEF PInv, ScanInv

\* The other steps of readers.
LEMMA OtherReaderKeeps ==
    ASSUME PInv, NEW r \in Readers, ReaderStep(r), ~DownReadUndo(r), ~UpReadSlow(r)
    PROVE  TotalInv' /\ ScanInv'
<1>1. CASE UpReadFast(r) \/ \E c \in CPUs : DownReadSemInc(r, c)
    <2>1. /\ UNCHANGED <<wpc, sum, unread>>
          /\ \A w \in Updaters : wpc[w] \notin {"sum", "sleep", "writing"}
        BY <1>1, WriterHolds, Zenon DEF PInv, Shape, PlacesInv, Holding, UpReadFast, DownReadSemInc, RAt,
           writerVars
    <2>2. CASE UpReadFast(r)
        <3>1. Add(cpu[r], -1) /\ r \in Counted /\ Counted' = Counted \ {r} /\ cpu[r] \in CPUs
            BY <2>2, Zenon DEF PInv, Shape, PTypeOK, PlacesInv, InSection, UpReadFast, RAt, RGoto, Counted,
               Reading, Entering
        <3> QED BY <2>1, <3>1, TotalKeeps, QuietKeeps, Zenon DEF PInv
    <2>3. ASSUME NEW c \in CPUs, DownReadSemInc(r, c) PROVE TotalInv' /\ ScanInv'
        <3>1. Add(c, 1) /\ r \notin Counted /\ Counted' = Counted \cup {r}
            BY <2>3, Zenon DEF PInv, Shape, PTypeOK, DownReadSemInc, RAt, RGoto, Counted, Reading, Entering
        <3> QED BY <2>1, <3>1, TotalKeeps, QuietKeeps, Zenon DEF PInv
    <2> QED BY <1>1, <2>2, <2>3, Zenon
<1>2. CASE \/ DownReadIdle(r) \/ DownReadBlock(r) \/ DownReadWake(r) \/ DownReadSem(r)
           \/ DownReadSemUp(r) \/ UpReadIdle(r) \/ UpReadWake(r) \/ \E c \in CPUs : UpRead(r, c)
    <2>1. UNCHANGED <<wpc, sum, unread, read_count>> /\ Counted' = Counted
        <3>1. UNCHANGED <<wpc, sum, unread, read_count>>
            BY <1>2, Zenon DEF DownReadIdle, DownReadBlock, DownReadWake, DownReadSem,
               DownReadSemUp, UpReadIdle, UpReadWake, UpRead, writerVars
        <3>2. \/ rpc[r] = "d_idle" /\ (RGoto(r, "reading") \/ RGoto(r, "d_block"))
              \/ rpc[r] = "d_block" /\ (RGoto(r, "reading") \/ RGoto(r, "d_undo"))
              \/ rpc[r] = "d_wake" /\ (RGoto(r, "d_sem") \/ RGoto(r, "out"))
              \/ rpc[r] = "d_sem" /\ RGoto(r, "d_inc")
              \/ rpc[r] = "d_up" /\ RGoto(r, "reading")
              \/ rpc[r] = "u_idle" /\ (RGoto(r, "u_fast") \/ RGoto(r, "u_slow"))
              \/ rpc[r] = "u_wake" /\ RGoto(r, "out")
              \/ rpc[r] = "reading" /\ RGoto(r, "u_idle")
            BY <1>2, Zenon DEF DownReadIdle, DownReadBlock, DownReadWake, DownReadSem,
               DownReadSemUp, UpReadIdle, UpReadWake, UpRead, RAt
        <3>3. Counted' = Counted
            BY <3>2, ZenonT(30) DEF PInv, Shape, PTypeOK, RGoto, Counted, Reading, Entering
        <3> QED BY <3>1, <3>3, Zenon
    <2>2. TotalInv'
        BY <2>1, Zenon DEF PInv, TotalInv, CounterSum
    <2>3. ASSUME NEW w \in Updaters, wpc[w] \in {"sum", "sleep", "writing"}
          PROVE  /\ Reading' = Reading /\ EnteringOn(unread)' = EnteringOn(unread)
                 /\ queued' => queued /\ WillWake \subseteq WillWake'
        <3>1. gp_state # "idle" /\ readers_block
            BY <2>3, WriterHolds, Zenon DEF PInv, Holding
        <3>2. CASE \/ DownReadIdle(r) \/ DownReadBlock(r) \/ UpReadIdle(r)
                   \/ DownReadSem(r) \/ DownReadSemUp(r)
            <4>1. /\ UNCHANGED <<cpu, queued>>
                  /\ \/ rpc[r] = "d_idle" /\ RGoto(r, "d_block")
                     \/ rpc[r] = "d_block" /\ RGoto(r, "d_undo")
                     \/ rpc[r] = "u_idle" /\ RGoto(r, "u_slow")
                     \/ rpc[r] = "d_sem" /\ RGoto(r, "d_inc")
                     \/ rpc[r] = "d_up" /\ RGoto(r, "reading")
                BY <3>1, <3>2, Zenon DEF DownReadIdle, DownReadBlock, UpReadIdle, DownReadSem,
                   DownReadSemUp, RAt, writerVars
            <4> QED BY <2>1, <4>1, ZenonT(30) DEF PInv, Shape, PTypeOK, RGoto, Reading, Entering, EnteringOn,
                   WillWake
        <3>3. CASE DownReadWake(r) \/ UpReadWake(r) \/ \E c \in CPUs : UpRead(r, c)
            <4>1. /\ \/ rpc[r] = "d_wake" /\ (RGoto(r, "d_sem") \/ RGoto(r, "out"))
                     \/ rpc[r] = "u_wake" /\ RGoto(r, "out")
                     \/ rpc[r] = "reading" /\ RGoto(r, "u_idle")
                  /\ \A s \in Readers : s # r => cpu'[s] = cpu[s]
                  /\ UNCHANGED unread
                BY <3>3, Zenon DEF PInv, Shape, PTypeOK, DownReadWake, UpReadWake, UpRead, RAt,
                   PreemptDisable, PreemptEnable, writerVars
            <4>2. queued' => queued /\ WillWake \subseteq WillWake'
                BY <3>3, Zenon DEF PInv, Shape, PTypeOK, DownReadWake, UpReadWake, UpRead, RAt, RGoto,
                   writerVars, WillWake
            <4>3. Reading' = Reading /\ EnteringOn(unread)' = EnteringOn(unread)
                BY <4>1, ZenonT(30) DEF PInv, Shape, PTypeOK, RGoto, Reading, Entering, EnteringOn
            <4> QED BY <4>2, <4>3, Zenon
        <3> QED BY <1>2, <3>2, <3>3, Zenon
    <2> QED BY <2>1, <2>2, <2>3, QuietKeeps, Zenon
<1> QED BY <1>1, <1>2, Zenon DEF ReaderStep

\* The writer starts its sum: it will show the readers inside.
LEMMA PrepareKeeps ==
    ASSUME PInv, NEW w \in Updaters, DownWritePrepare(w)
    PROVE  ScanInv'
<1> DEFINE e == Cardinality(Reading)
<1>1. /\ wpc' = [wpc EXCEPT ![w] = "sum"] /\ queued' = TRUE /\ sum' = 0 /\ unread' = CPUs
      /\ UNCHANGED <<read_count, rpc, cpu>> /\ wpc[w] \in Holding
    BY Zenon DEF DownWritePrepare, WAt, WGoto, Holding, readerVars
<1>2. \A v \in Updaters \ {w} : wpc'[v] \notin {"sum", "sleep", "writing"}
    BY <1>1, WriterHolds, Zenon DEF PInv, Shape, PTypeOK, Holding
<1>3. Reading' = Reading /\ EnteringOn(unread)' = Entering /\ WillWake' = WillWake
    BY <1>1, Zenon DEF PInv, Shape, PlacesInv, InSection, Reading, EnteringOn, Entering, WillWake
<1>4. Reading \subseteq WillWake
    BY <1>1, WriterHolds, Zenon DEF PInv, Shape, PTypeOK, PlacesInv, Reading, WillWake
<1>5. Reading \in SUBSET Readers /\ Entering \in SUBSET Readers /\ Reading \cap Entering = {}
    BY Zenon DEF Reading, Entering
<1>6. /\ e \in Nat /\ e <= Cardinality(Readers) /\ e < Modulus /\ Cardinality(Readers) \in Nat
      /\ Reading = {} => e = 0
      /\ Cardinality(Counted) = e + Cardinality(Entering)
    <2>1. /\ IsFiniteSet(Reading) /\ IsFiniteSet(Entering) /\ e \in Nat /\ Cardinality(Entering) \in Nat
          /\ e <= Cardinality(Readers)
        BY <1>5, ReaderSets, Zenon
    <2>2. Cardinality(Readers) \in Nat /\ Cardinality(CPUs) \in Nat /\ Cardinality({}) = 0
        BY PercpuAssumption, FS_CardinalityType, FS_EmptySet, Zenon
    <2>3. Cardinality(Counted) = e + Cardinality(Entering) - Cardinality({})
        BY <1>5, <2>1, FS_Union, Zenon DEF Counted
    <2>4. e < Modulus
        BY <2>1, <2>2, PercpuAssumption
    <2> QED BY <2>1, <2>2, <2>3, <2>4
<1>7. CounterSum(CPUs) \in Nat /\ CounterSum(unread)' = CounterSum(CPUs)
    BY <1>1, UnitsFinite, Zenon DEF PInv, Shape, PTypeOK, Counters, CounterSum
<1>8. Cong(sum' + CounterSum(unread)', e + Cardinality(EnteringOn(unread)'))
    BY <1>1, <1>3, <1>6, <1>7 DEF PInv, TotalInv
<1>9. PICK d \in 0..(Modulus - 1) : d = e
    BY <1>6, CounterRange
<1>10. Cardinality(CPUs \ unread') = 0
    BY <1>1, FS_EmptySet, Zenon
<1>11. Seen(d)'
    BY <1>1, <1>3, <1>4, <1>6, <1>8, <1>9, <1>10 DEF Seen
<1> QED BY <1>1, <1>2, <1>11, Zenon DEF PInv, Shape, PTypeOK, ScanInv

\* The writer reads one more counter, and with it at most one reader on its way in.
LEMMA SumKeeps ==
    ASSUME PInv, NEW w \in Updaters, NEW c \in CPUs, DownWriteSum(w, c)
    PROVE  ScanInv'
<1> DEFINE E == EnteringOn(unread)
           F == EnteringOn(unread \ {c})
           x == Cardinality(Units(read_count, unread))
           y == Cardinality(Units(read_count, unread \ {c}))
<1>1. /\ wpc[w] = "sum" /\ c \in unread /\ sum' = (sum + read_count[c]) % Modulus
      /\ unread' = unread \ {c} /\ UNCHANGED <<read_count, rpc, cpu, queued, wpc>>
    BY Zenon DEF DownWriteSum, WAt, readerVars
<1>2. PICK e \in 0..(Modulus - 1) : Seen(e)
    BY <1>1, Zenon DEF PInv, ScanInv
<1>3. /\ unread \in SUBSET CPUs /\ read_count \in Counters /\ sum \in Int
      /\ read_count[c] \in Int /\ Modulus \in Int
    BY CounterRange DEF PInv, Shape, PTypeOK, Counters
<1>4. x = y + read_count[c] /\ y \in Nat
    BY <1>1, <1>3, UnitsSplit, UnitsFinite, Zenon
<1>5. E \in SUBSET Readers /\ (F = E \/ \E r \in E : F = E \ {r})
    <2>1. \A r, s \in Entering : cpu[r] = cpu[s] => r = s
        BY Zenon DEF PInv, Shape, PlacesInv, InSection, Entering
    <2>2. E \in SUBSET Readers
        BY Zenon DEF EnteringOn, Entering
    <2>3. ASSUME NEW r \in Entering, cpu[r] = c PROVE r \in E /\ F = E \ {r}
        BY <1>1, <2>1, <2>3, Zenon DEF EnteringOn
    <2>4. ASSUME \A r \in Entering : cpu[r] # c PROVE F = E
        BY <2>4, Zenon DEF EnteringOn
    <2> QED BY <2>2, <2>3, <2>4, Zenon
<1>6. PICK m \in {0, 1} : Cardinality(F) = Cardinality(E) - m /\ (WillWake = {} => m = 0)
    <2>1. Cardinality(E) \in Nat /\ \A r \in E : Cardinality(E \ {r}) = Cardinality(E) - 1
        BY <1>5, ReaderSets, Zenon
    <2>2. CASE F = E
        <3>1. Cardinality(F) = Cardinality(E) - 0
            BY <2>1, <2>2
        <3> QED BY <3>1, Zenon
    <2>3. CASE \E r \in E : F = E \ {r}
        <3>1. WillWake # {}
            BY <2>3, Zenon DEF EnteringOn, Entering, WillWake
        <3> QED BY <2>1, <2>3, <3>1, Zenon
    <2> QED BY <1>5, <2>2, <2>3, Zenon
<1>7. Cardinality(E) \in Nat
    BY <1>5, ReaderSets, Zenon
<1>8. Cong(sum' + y, (e + m) + Cardinality(F))
    <2>1. sum + read_count[c] \in Int /\ sum + x \in Int /\ e + Cardinality(E) \in Int
        BY <1>2, <1>3, <1>4, <1>7
    <2>2. Cong(sum + x, e + Cardinality(E)) /\ sum' \in Int /\ Cong(sum', sum + read_count[c])
        BY <1>1, <1>2, <1>3, <2>1, Reduced DEF Seen, CounterSum
    <2> HIDE DEF E, F, x, y
    <2>3. Cong((sum + x) + (sum' - (sum + read_count[c])), e + Cardinality(E))
        BY <2>1, <2>2, CongSwap, Zenon
    <2>4. /\ (sum + x) + (sum' - (sum + read_count[c])) = sum' + y
          /\ e + Cardinality(E) = (e + m) + Cardinality(F)
        BY <1>2, <1>3, <1>4, <1>6, <1>7, <2>2
    <2> QED BY <2>3, <2>4, Zenon
<1>9. /\ Cardinality(CPUs \ unread') = Cardinality(CPUs \ unread) + 1
      /\ Cardinality(CPUs \ unread) \in Nat /\ Cardinality(Readers) \in Nat /\ Cardinality(CPUs) \in Nat
      /\ Cardinality(CPUs \ unread') <= Cardinality(CPUs)
    <2>1. CPUs \ unread' = (CPUs \ unread) \cup {c} /\ c \notin CPUs \ unread
        BY <1>1, Zenon
    <2>2. IsFiniteSet(CPUs \ unread)
        BY PercpuAssumption, FS_Difference, Zenon
    <2> QED BY <2>1, <2>2, PercpuAssumption, FS_AddElement, FS_CardinalityType, FS_Subset, Zenon
<1>10. PICK d \in 0..(Modulus - 1) : d = e + m /\ d <= Cardinality(Readers) + Cardinality(CPUs \ unread')
    BY <1>2, <1>9, PercpuAssumption DEF Seen
<1>11. /\ Reading' = Reading /\ WillWake' = WillWake /\ EnteringOn(unread)' = F
       /\ CounterSum(unread)' = y
    BY <1>1, Zenon DEF Reading, WillWake, EnteringOn, Entering, CounterSum
<1>12. Cardinality(Reading) \in Nat
    <2>1. Reading \in SUBSET Readers
        BY Zenon DEF Reading
    <2> QED BY <2>1, ReaderSets, Zenon
<1>13. Seen(d)'
    BY <1>1, <1>2, <1>6, <1>8, <1>10, <1>11, <1>12 DEF Seen
<1> QED BY <1>1, <1>11, <1>13, Zenon DEF PInv, ScanInv

\* The writer has read all counters: the sum is what it was going to show.
LEMMA CheckKeeps ==
    ASSUME PInv, NEW w \in Updaters, DownWriteCheck(w)
    PROVE  ScanInv'
<1>1. /\ wpc[w] = "sum" /\ unread = {} /\ UNCHANGED <<rpc, cpu>>
      /\ \/ sum = 0 /\ wpc' = [wpc EXCEPT ![w] = "writing"]
         \/ sum # 0 /\ wpc' = [wpc EXCEPT ![w] = "sleep"] /\ queued' = queued
    BY Zenon DEF DownWriteCheck, WAt, WGoto, readerVars
<1>2. PICK e \in 0..(Modulus - 1) : Seen(e)
    BY <1>1, Zenon DEF PInv, ScanInv
<1>3. Units(read_count, unread) = {} /\ EnteringOn(unread) = {}
    BY <1>1, Zenon DEF Units, EnteringOn
<1>4. sum \in 0..(Modulus - 1) /\ Modulus \in Nat
    BY CounterRange, Zenon DEF PInv, Shape, PTypeOK
<1>5. Cong(sum + 0, e + 0)
    BY <1>2, <1>3, FS_EmptySet, Zenon DEF Seen, CounterSum
<1>6. sum = e
    BY <1>4, <1>5, CongUnique
<1>7. Reading \in SUBSET Readers
    BY Zenon DEF Reading
<1>8. sum = 0 => Reading = {}
    BY <1>2, <1>6, <1>7, ReaderSets DEF Seen
<1>9. queued /\ sum # 0 => WillWake # {}
    BY <1>2, <1>6, Zenon DEF Seen
<1>10. Reading' = Reading /\ WillWake' = WillWake
    BY <1>1, Zenon DEF Reading, WillWake
<1>11. \A v \in Updaters \ {w} : wpc'[v] \notin {"sum", "sleep", "writing"}
    BY <1>1, WriterHolds, Zenon DEF PInv, Shape, PTypeOK, Holding
<1> QED BY <1>1, <1>8, <1>9, <1>10, <1>11, Zenon DEF PInv, Shape, PTypeOK, ScanInv

\* The other steps of writers.
LEMMA OtherWriterKeeps ==
    ASSUME PInv, NEW w \in Updaters,
           \/ DownWriteSem(w) \/ DownWriteBlock(w) \/ DownWriteWoken(w)
           \/ UpWriteUnblock(w) \/ UpWriteSem(w) \/ UpWriteExit(w)
    PROVE  ScanInv'
<1>1. /\ UNCHANGED <<read_count, rpc, cpu, queued, sum, unread>>
      /\ \E p \in {"block", "prepare", "release", "exit", "none"} : wpc' = [wpc EXCEPT ![w] = p]
    BY Zenon DEF DownWriteSem, DownWriteBlock, DownWriteWoken, UpWriteUnblock, UpWriteSem, UpWriteExit,
       WGoto, readerVars
<1>2. \A v \in Updaters : wpc'[v] \in {"sum", "sleep", "writing"} => wpc'[v] = wpc[v]
    BY <1>1, Zenon DEF PInv, Shape, PTypeOK
<1>3. Reading' = Reading /\ WillWake' = WillWake /\ EnteringOn(unread)' = EnteringOn(unread)
    BY <1>1, Zenon DEF Reading, WillWake, EnteringOn, Entering
<1>4. \A e \in 0..(Modulus - 1) : Seen(e) => Seen(e)'
    BY <1>1, <1>3, Zenon DEF Seen, CounterSum
<1> QED BY <1>1, <1>2, <1>3, <1>4, Zenon DEF PInv, ScanInv

\* The inductive invariant of the semaphore is inductive.
LEMMA StepKeepsPInv ==
    ASSUME PInv, [PNext]_vars
    PROVE  PInv'
<1>1. ASSUME NEW r \in Readers, NEW c \in CPUs, DownReadInc(r, c) PROVE TotalInv' /\ ScanInv'
    BY <1>1, ArriveKeeps, Zenon
<1>2. ASSUME NEW r \in Readers, ReaderStep(r) PROVE TotalInv' /\ ScanInv'
    BY <1>2, UndoKeeps, LeaveKeeps, OtherReaderKeeps, Zenon
<1>3. ASSUME NEW w \in Updaters, WriterStep(w) PROVE TotalInv' /\ ScanInv'
    <2>1. ScanInv'
        BY <1>3, PrepareKeeps, SumKeeps, CheckKeeps, OtherWriterKeeps, Zenon DEF WriterStep
    <2>2. UNCHANGED <<read_count, readerVars>>
        BY <1>3, Zenon DEF WriterStep, DownWriteSem, DownWriteBlock, DownWritePrepare, DownWriteSum,
           DownWriteCheck, DownWriteWoken, UpWriteUnblock, UpWriteSem, UpWriteExit
    <2>3. TotalInv'
        BY <2>2, Zenon DEF PInv, TotalInv, CounterSum, Counted, Reading, Entering, readerVars
    <2> QED BY <2>1, <2>3
<1>4. ASSUME UNCHANGED <<read_count, readerVars, writerVars>> PROVE TotalInv' /\ ScanInv'
    <2>1. Reading' = Reading /\ Counted' = Counted /\ WillWake' = WillWake
          /\ EnteringOn(unread)' = EnteringOn(unread)
        BY <1>4, Zenon DEF Reading, Counted, WillWake, EnteringOn, Entering, readerVars, writerVars
    <2> QED BY <1>4, <2>1, QuietKeeps, Zenon DEF PInv, TotalInv, CounterSum, writerVars
<1>5. TotalInv' /\ ScanInv'
    BY <1>1, <1>2, <1>3, <1>4, Zenon DEF PNext, RcuEnter, RcuCallback, vars
<1>6. Shape'
    BY StepKeepsShape DEF PInv
<1> QED BY <1>5, <1>6, Zenon DEF PInv

\* It holds in every reachable state.
LEMMA PInvariance == PSpec => []PInv
BY InitPInv, StepKeepsPInv, PTL DEF PSpec

\* The semaphore uses its rcu_sync as RcuSync says it is used: what holds of rcu_sync holds
\* within the semaphore.
THEOREM UsesRcuSync == PSpec => Spec
<1>1. PInit => Init
    BY Zenon DEF PInit
<1>2. PInv => Shape
    BY DEF PInv
<1> QED BY PInvariance, StepIsRcuStep, <1>1, <1>2, PTL DEF PSpec, Spec

\* The writer that percpu_down_write() let in is alone.
THEOREM WriterAloneHolds == PSpec => []WriterAlone
<1>1. ASSUME PInv PROVE WriterAlone
    <2> SUFFICES ASSUME NEW w \in Updaters, wpc[w] = "writing"
                 PROVE  Reading = {} /\ \A v \in Updaters \ {w} : wpc[v] \in {"none", "exit"}
        BY Zenon DEF WriterAlone
    <2>1. \A v \in Updaters \ {w} : wpc[v] \notin Holding
        BY <1>1, WriterHolds, Zenon DEF PInv, Holding
    <2> QED BY <1>1, <2>1, Zenon DEF PInv, Shape, PTypeOK, ScanInv, Holding
<1> QED BY PInvariance, <1>1, PTL

\* The per-CPU counters add up to the readers.
THEOREM SumIsReadersHolds == PSpec => []SumIsReaders
<1>1. ASSUME PInv PROVE SumIsReaders
    <2>1. Reading \in SUBSET Readers /\ Entering \in SUBSET Readers /\ Counted \in SUBSET Readers
          /\ Reading \cap Entering = {}
        BY Zenon DEF Counted, Reading, Entering
    <2>2. /\ IsFiniteSet(Reading) /\ IsFiniteSet(Entering) /\ Cardinality(Reading) \in Nat
          /\ Cardinality(Entering) \in Nat
          /\ Cardinality(Counted) \in Nat /\ Cardinality(Counted) <= Cardinality(Readers)
        BY <2>1, ReaderSets, Zenon
    <2>3. Cardinality(Counted) = Cardinality(Reading) + Cardinality(Entering) - Cardinality({})
        BY <2>1, <2>2, FS_Union, Zenon DEF Counted
    <2>4. Cardinality(Counted) = Cardinality(Reading) + Cardinality(Entering)
        BY <2>2, <2>3, FS_EmptySet
    <2>5. Cardinality(Counted) \in 0..(Modulus - 1)
        BY <2>2, PercpuAssumption, FS_CardinalityType
    <2>6. CounterSum(CPUs) \in Int
        BY <1>1, UnitsFinite DEF PInv, Shape, PTypeOK, Counters, CounterSum
    <2> DEFINE x == CounterSum(CPUs)
               k == Cardinality(Counted)
    <2>7. Cong(x % Modulus, x) /\ x % Modulus \in 0..(Modulus - 1) /\ Cong(x, k)
        BY <1>1, <2>6, Reduced, Zenon DEF PInv, TotalInv
    <2> HIDE DEF x, k
    <2>8. Cong(x % Modulus, k)
        <3>1. x \in Int /\ k \in Int /\ x % Modulus \in Int
            BY <2>5, <2>6, <2>7 DEF x, k
        <3>2. Cong(x + ((x % Modulus) - x), k)
            BY <2>7, <3>1, CongSwap, Zenon
        <3>3. x + ((x % Modulus) - x) = x % Modulus
            BY <3>1
        <3> QED BY <3>2, <3>3, Zenon
    <2> QED BY <2>4, <2>5, <2>7, <2>8, CongUnique, Zenon DEF SumIsReaders, x, k
<1> QED BY PInvariance, <1>1, PTL

\* A writer asleep on sem->writer has somebody to wake it.
THEOREM WriterWillBeWokenHolds == PSpec => []WriterWillBeWoken
<1>1. ASSUME PInv PROVE WriterWillBeWoken
    <2> SUFFICES ASSUME NEW w \in Updaters, wpc[w] = "sleep", queued
                 PROVE  /\ \E r \in Readers : rpc[r] \notin {"out", "d_sem", "d_inc", "d_up", "u_fast"}
                        /\ \A r \in Readers : rpc[r] # "u_fast"
        BY Zenon DEF WriterWillBeWoken
    <2>1. WillWake # {}
        BY <1>1, Zenon DEF PInv, ScanInv
    <2>2. fast = {}
        BY <1>1, WriterHolds, Zenon DEF PInv, Holding
    <2> QED BY <1>1, <2>1, <2>2, Zenon DEF PInv, Shape, PlacesInv, WillWake
<1> QED BY PInvariance, <1>1, PTL
==================================================================================
