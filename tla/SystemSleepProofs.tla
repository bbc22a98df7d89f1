-------------------------- MODULE SystemSleepProofs --------------------------
(***************************************************************************)
(* Proofs about SystemSleep, for any wakeup sources, any writers of        *)
(* /sys/power/autosleep and any limits: the vendor's timed sync never runs *)
(* under suspended devices; a system told to autosleep goes on trying; an  *)
(* event reported after the count was read keeps the system awake; and no  *)
(* reader of the count is left asleep.                                     *)
(***************************************************************************)
EXTENDS SystemSleep, FiniteSetTheorems, TLAPS

------------------------------------------------------------------------------
(***************************************************************************)
(* The packed counter of wakeup events, for any sources, readers and width *)
(* of its parts.  The low part counts the active sources, so it neither    *)
(* overflows into the high part nor borrows from it; the sum of the parts  *)
(* is what a report adds to and an end leaves alone, and that sum is how a *)
(* reader of the count learns of events.                                   *)
(***************************************************************************)
Base == MAX_IN_PROGRESS + 1
Active == {s \in Sources : active[s]}

\* A reader whose count is still to be used can see from the counter that something was
\* reported since, or is in progress.
NewsIsSeen ==
    \A t \in reading : t \in news \/ inpr > 0 => (cnt + inpr) % CntModulus # count[t]

CounterInv ==
    /\ combined_event_count \in 0..(Base * CntModulus - 1)
    /\ active \in [Sources -> BOOLEAN]
    /\ unrelaxed = [s \in Sources |-> IF active[s] THEN 1 ELSE 0]
    /\ inpr = Cardinality(Active)
    /\ count \in [Readers -> Nat]
    /\ NewsIsSeen

\* The parts of a number packed in base B.
LEMMA Unpacked ==
    ASSUME NEW B \in Nat, B > 0, NEW q \in Nat, NEW r \in 0..(B - 1)
    PROVE  (q * B + r) \div B = q /\ (q * B + r) % B = r
OBVIOUS

\* A packed number is its parts, and the high part is below N when the number is below B * N.
LEMMA Packed ==
    ASSUME NEW B \in Nat, B > 0, NEW N \in Nat, N > 0, NEW c \in 0..(B * N - 1)
    PROVE  \E q \in 0..(N - 1), r \in 0..(B - 1) :
              q = c \div B /\ r = c % B /\ c = q * B + r
<1>1. c = (c \div B) * B + (c % B) /\ c % B \in 0..(B - 1) /\ c \div B \in Nat
    OBVIOUS
<1>2. c \div B < N
    OBVIOUS
<1> QED BY <1>1, <1>2

\* Packed numbers stay below B * N.
LEMMA PackedBound ==
    ASSUME NEW B \in Nat, B > 0, NEW N \in Nat, N > 0, NEW q \in 0..(N - 1),
           NEW r \in 0..(B - 1)
    PROVE  q * B + r \in 0..(B * N - 1)
OBVIOUS

\* Moving one unit from the low part to the high part leaves their sum alone.
LEMMA SumKept ==
    ASSUME NEW N \in Nat, N > 1, NEW a \in 0..(N - 1), NEW k \in Nat
    PROVE  (((a + 1) % N) + k) % N = (a + k + 1) % N
<1>1. CASE a + 1 < N
    <2>1. (a + 1) % N = a + 1 /\ (a + 1) + k = a + k + 1
        BY <1>1
    <2> QED BY <2>1
<1>2. CASE a + 1 = N
    <2>1. (a + 1) % N = 0 /\ a + k + 1 = N + k
        BY <1>2
    <2>2. PICK q \in Nat, r \in 0..(N - 1) : k = q * N + r
        <3>1. k = (k \div N) * N + (k % N) /\ k % N \in 0..(N - 1) /\ k \div N \in Nat
            OBVIOUS
        <3> QED BY <3>1, Zenon
    <2>3. N + k = (q + 1) * N + r
        BY <2>2
    <2>4. k % N = r /\ (N + k) % N = r
        BY <2>2, <2>3, Unpacked
    <2> QED BY <2>1, <2>4
<1> QED BY <1>1, <1>2

\* What the assumptions say of the packed counter.
LEMMA Bases ==
    /\ Base \in Nat /\ Base > 0 /\ Base - 1 = MAX_IN_PROGRESS
    /\ CntModulus \in Nat /\ CntModulus > 1
BY WakeupAssumption DEF Base

\* The number of active sources fits the low part, with one to spare while one is inactive.
LEMMA ActiveFits ==
    ASSUME NEW s \in Sources
    PROVE  /\ Cardinality(Active) \in Nat
           /\ ~active[s] => /\ Cardinality(Active) + 1 < Base
                            /\ Cardinality(Active \cup {s}) = Cardinality(Active) + 1
           /\ active[s] => /\ Cardinality(Active) > 0
                           /\ Cardinality(Active \ {s}) = Cardinality(Active) - 1
<1>1. IsFiniteSet(Active) /\ Active \subseteq Sources /\ Cardinality(Active) \in Nat
    BY WakeupAssumption, FS_Subset, FS_CardinalityType DEF Active
<1>2. ASSUME ~active[s]
      PROVE  /\ Cardinality(Active) + 1 < Base
             /\ Cardinality(Active \cup {s}) = Cardinality(Active) + 1
    <2>1. s \notin Active
        BY <1>2 DEF Active
    <2>2. Cardinality(Active \cup {s}) = Cardinality(Active) + 1
        BY <1>1, <2>1, FS_AddElement, Zenon
    <2>3. Cardinality(Active \cup {s}) <= Cardinality(Sources) /\ Cardinality(Sources) \in Nat
        BY <1>1, WakeupAssumption, FS_Subset, FS_CardinalityType
    <2> QED BY <1>1, <2>2, <2>3, WakeupAssumption DEF Base
<1>3. ASSUME active[s]
      PROVE  Cardinality(Active) > 0 /\ Cardinality(Active \ {s}) = Cardinality(Active) - 1
    <2>1. s \in Active
        BY <1>3 DEF Active
    <2>2. Cardinality(Active \ {s}) = Cardinality(Active) - 1
        BY <1>1, <2>1, FS_RemoveElement, Zenon
    <2>3. Cardinality(Active) # 0
        BY <1>1, <2>1, FS_EmptySet
    <2> QED BY <1>1, <2>2, <2>3
<1> QED BY <1>1, <1>2, <1>3

\* The ranges of the two parts, and the low part while a source is active or not.
LEMMA CounterParts ==
    ASSUME CounterInv
    PROVE  /\ inpr \in Nat /\ cnt \in 0..(CntModulus - 1)
           /\ \A s \in Sources : /\ ~active[s] => inpr + 1 < Base
                                 /\ active[s] => inpr > 0
<1>1. inpr \in Nat /\ cnt \in 0..(CntModulus - 1)
    BY Bases, Packed DEF CounterInv, inpr, cnt, Base
<1> QED BY <1>1, ActiveFits, Zenon DEF CounterInv

\* atomic_inc() of the packed counter: one more in progress.
LEMMA AfterUp ==
    ASSUME NEW c \in 0..(Base * CntModulus - 1), (c % Base) + 1 < Base
    PROVE  /\ AddCombined(c, 1) \in 0..(Base * CntModulus - 1)
           /\ AddCombined(c, 1) \div Base = c \div Base
           /\ AddCombined(c, 1) % Base = (c % Base) + 1
<1> DEFINE d == AddCombined(c, 1)
<1>1. /\ Base \in Nat /\ Base > 0 /\ CntModulus \in Nat /\ CntModulus > 0
      /\ d = (c + 1) % (Base * CntModulus)
    BY Bases DEF AddCombined, Base
<1> HIDE DEF d
<1>2. PICK q \in 0..(CntModulus - 1), r \in 0..(Base - 1) :
          q = c \div Base /\ r = c % Base /\ c = q * Base + r
    BY <1>1, Packed
<1>3. r + 1 \in 0..(Base - 1) /\ q \in Nat
    BY <1>1, <1>2
<1>4. q * Base + (r + 1) \in 0..(Base * CntModulus - 1)
    BY <1>1, <1>3, PackedBound
<1>5. d = q * Base + (r + 1)
    BY <1>1, <1>2, <1>4
<1>6. (q * Base + (r + 1)) \div Base = q /\ (q * Base + (r + 1)) % Base = r + 1
    BY <1>1, <1>3, Unpacked
<1> QED BY <1>2, <1>4, <1>5, <1>6, Zenon DEF d

\* atomic_add_return(MAX_IN_PROGRESS): one less in progress, one more registered.
LEMMA AfterDown ==
    ASSUME NEW c \in 0..(Base * CntModulus - 1), c % Base > 0
    PROVE  /\ Deactivated(c) \in 0..(Base * CntModulus - 1)
           /\ Deactivated(c) \div Base = ((c \div Base) + 1) % CntModulus
           /\ Deactivated(c) % Base = (c % Base) - 1
<1> DEFINE d == Deactivated(c)
<1>1. /\ Base \in Nat /\ Base > 0 /\ CntModulus \in Nat /\ CntModulus > 0
      /\ d = (c + (Base - 1)) % (Base * CntModulus)
    BY Bases DEF Deactivated, AddCombined, Base
<1> HIDE DEF d
<1>2. PICK q \in 0..(CntModulus - 1), r \in 0..(Base - 1) :
          q = c \div Base /\ r = c % Base /\ c = q * Base + r
    BY <1>1, Packed
<1>3. r - 1 \in 0..(Base - 1) /\ q \in Nat /\ c + (Base - 1) = (q + 1) * Base + (r - 1)
    BY <1>1, <1>2
<1>4. CASE q + 1 < CntModulus
    <2>1. (q + 1) * Base + (r - 1) \in 0..(Base * CntModulus - 1)
        BY <1>1, <1>3, <1>4, PackedBound
    <2>2. d = (q + 1) * Base + (r - 1)
        BY <1>1, <1>3, <2>1
    <2>3. /\ ((q + 1) * Base + (r - 1)) \div Base = q + 1
          /\ ((q + 1) * Base + (r - 1)) % Base = r - 1
        BY <1>1, <1>3, Unpacked
    <2>4. (q + 1) % CntModulus = q + 1
        BY <1>1, <1>3, <1>4
    <2> QED BY <1>2, <2>1, <2>2, <2>3, <2>4, Zenon DEF d
<1>5. CASE q + 1 = CntModulus
    <2>1. /\ 0 * Base + (r - 1) \in 0..(Base * CntModulus - 1)
          /\ (q + 1) * Base + (r - 1) = Base * CntModulus + (r - 1)
        BY <1>1, <1>3, <1>5, PackedBound
    <2>2. d = 0 * Base + (r - 1)
        BY <1>1, <1>3, <2>1
    <2>3. (0 * Base + (r - 1)) \div Base = 0 /\ (0 * Base + (r - 1)) % Base = r - 1
        BY <1>1, <1>3, Unpacked
    <2>4. (q + 1) % CntModulus = 0
        BY <1>1, <1>5
    <2> QED BY <1>2, <2>1, <2>2, <2>3, <2>4, Zenon DEF d
<1> QED BY <1>1, <1>2, <1>4, <1>5

\* A step that moves neither the counter nor the sources, and tells no reader of news.
LEMMA CounterFrame ==
    ASSUME CounterInv, UNCHANGED <<combined_event_count, active, unrelaxed, readVars, news>>
    PROVE  CounterInv' /\ cnt' = cnt /\ inpr' = inpr
BY DEF CounterInv, NewsIsSeen, Active, cnt, inpr, readVars

\* __pm_stay_awake() leaves an event in progress.
LEMMA StayAwakeKeeps ==
    ASSUME CounterInv, NEW s \in Sources, __pm_stay_awake(s)
    PROVE  CounterInv' /\ inpr' # 0 /\ \A x \in Sources : active[x] \/ x = s => active'[x]
<1>1. /\ active' = [active EXCEPT ![s] = TRUE]
      /\ unrelaxed' = [unrelaxed EXCEPT ![s] = IF active[s] THEN @ ELSE @ + 1]
      /\ combined_event_count' = Reported(s)
      /\ count' = count /\ reading' = reading /\ news' = reading
      /\ \A t \in reading : (cnt + inpr + 1) % CntModulus # count[t]
    BY DEF __pm_stay_awake, Activated, Report, NoFullCircle, readVars
<1>2. /\ active' \in [Sources -> BOOLEAN]
      /\ unrelaxed' = [x \in Sources |-> IF active'[x] THEN 1 ELSE 0]
      /\ Active' = Active \cup {s}
    BY <1>1 DEF CounterInv, Active
<1>3. ASSUME active[s] PROVE CounterInv' /\ inpr' # 0
    <2>1. combined_event_count' = combined_event_count /\ cnt' = cnt /\ inpr' = inpr
        BY <1>1, <1>3 DEF Reported, cnt, inpr
    <2>2. inpr > 0 /\ inpr # 0 /\ Active' = Active
        BY <1>2, <1>3, CounterParts DEF Active
    <2>3. NewsIsSeen'
        BY <1>1, <2>1, <2>2 DEF CounterInv, NewsIsSeen
    <2> QED BY <1>1, <1>2, <2>1, <2>2, <2>3, Zenon DEF CounterInv
<1>4. ASSUME ~active[s] PROVE CounterInv' /\ inpr' # 0
    <2>1. /\ combined_event_count' \in 0..(Base * CntModulus - 1)
          /\ cnt' = cnt /\ inpr' = inpr + 1
        BY <1>1, <1>4, CounterParts, AfterUp, Zenon DEF Reported, cnt, inpr, CounterInv, Base
    <2>2. inpr' = Cardinality(Active')
        BY <1>2, <1>4, <2>1, ActiveFits, Zenon DEF CounterInv
    <2>3. (cnt' + inpr') % CntModulus = (cnt + inpr + 1) % CntModulus
        <3>1. cnt' + inpr' = cnt + inpr + 1
            BY <2>1, CounterParts
        <3> QED BY <3>1
    <2>4. inpr' # 0
        BY <2>1, CounterParts
    <2> QED BY <1>1, <1>2, <2>1, <2>2, <2>3, <2>4 DEF CounterInv, NewsIsSeen
<1>5. \A x \in Sources : active[x] \/ x = s => active'[x]
    BY <1>1 DEF CounterInv
<1> QED BY <1>3, <1>4, <1>5

\* The common part of __pm_relax() and of the end of an event that is over at once: with
\* the counter at c, whose low part counts the active sources and s.
LEMMA DeactivateKeeps ==
    ASSUME CounterInv, NEW s \in Sources, NEW c \in 0..(Base * CntModulus - 1),
           c % Base = Cardinality(Active \cup {s}), Deactivate(s, c, 1)
    PROVE  /\ combined_event_count' \in 0..(Base * CntModulus - 1)
           /\ active' \in [Sources -> BOOLEAN]
           /\ unrelaxed' = [x \in Sources |-> IF active'[x] THEN 1 ELSE 0]
           /\ inpr' = Cardinality(Active')
           /\ (cnt' + inpr') % CntModulus = ((c \div Base) + (c % Base)) % CntModulus
           /\ inpr' = (c % Base) - 1
           /\ s \in ending' /\ \A x \in Sources : x # s => active'[x] = active[x]
<1>1. /\ combined_event_count' = Deactivated(c)
      /\ unrelaxed' = [unrelaxed EXCEPT ![s] = 0]
      /\ active' = [active EXCEPT ![s] = FALSE]
      /\ s \in ending'
    BY Zenon DEF Deactivate, CounterInv
<1>2. /\ active' \in [Sources -> BOOLEAN]
      /\ unrelaxed' = [x \in Sources |-> IF active'[x] THEN 1 ELSE 0]
      /\ Active' = Active \ {s}
      /\ \A x \in Sources : x # s => active'[x] = active[x]
    BY <1>1 DEF CounterInv, Active
<1>3. c % Base > 0 /\ c % Base \in Nat /\ Cardinality(Active') = (c % Base) - 1
    <2> DEFINE k == c % Base
    <2> SUFFICES k > 0 /\ k \in Nat /\ Cardinality(Active') = k - 1
        OBVIOUS
    <2>0. k = Cardinality(Active \cup {s})
        OBVIOUS
    <2> HIDE DEF k
    <2>1. CASE active[s]
        <3>1. Active \cup {s} = Active
            BY <2>1 DEF Active
        <3> QED BY <1>2, <2>0, <2>1, <3>1, ActiveFits, Zenon
    <2>2. CASE ~active[s]
        <3>1. Active \ {s} = Active
            BY <2>2 DEF Active
        <3>2. /\ Cardinality(Active) \in Nat
              /\ Cardinality(Active \cup {s}) = Cardinality(Active) + 1
            BY <2>2, ActiveFits, Zenon
        <3>3. Cardinality(Active') = Cardinality(Active)
            BY <1>2, <3>1, Zenon
        <3> QED BY <2>0, <3>2, <3>3
    <2> QED BY <2>1, <2>2
<1>4. /\ combined_event_count' \in 0..(Base * CntModulus - 1)
      /\ cnt' = ((c \div Base) + 1) % CntModulus /\ inpr' = (c % Base) - 1
    BY <1>1, <1>3, AfterDown DEF cnt, inpr, Base
<1>5. (cnt' + inpr') % CntModulus = ((c \div Base) + (c % Base)) % CntModulus
    <2>1. c \div Base \in 0..(CntModulus - 1)
        BY Bases, Packed
    <2>2. (c % Base) - 1 \in Nat
        BY <1>3
    <2>3. (cnt' + inpr') % CntModulus
            = ((c \div Base) + ((c % Base) - 1) + 1) % CntModulus
        BY <1>4, <2>1, <2>2, Bases, SumKept, Zenon
    <2>4. (c \div Base) + ((c % Base) - 1) + 1 = (c \div Base) + (c % Base)
        BY <2>1, <2>2, <1>3
    <2> QED BY <2>3, <2>4
<1> QED BY <1>1, <1>2, <1>3, <1>4, <1>5, Zenon

\* __pm_relax() leaves the sum of the parts alone, and goes on to wake readers.
LEMMA RelaxKeeps ==
    ASSUME CounterInv, NEW s \in Sources, __pm_relax(s)
    PROVE  CounterInv' /\ s \in ending' /\ \A x \in Sources : x # s => active'[x] = active[x]
<1> DEFINE c == combined_event_count
<1>1. Deactivate(s, c, 1) /\ active[s] /\ UNCHANGED <<count, reading, news>>
    BY DEF __pm_relax, CounterInv, readVars
<1>2. c \in 0..(Base * CntModulus - 1) /\ c % Base = Cardinality(Active \cup {s})
    <2>1. Active \cup {s} = Active
        BY <1>1 DEF Active
    <2> QED BY <2>1, Zenon DEF CounterInv, inpr, Base
<1>3. c \div Base = cnt /\ c % Base = inpr
    BY DEF cnt, inpr, Base
<1>4. /\ combined_event_count' \in 0..(Base * CntModulus - 1)
      /\ active' \in [Sources -> BOOLEAN]
      /\ unrelaxed' = [x \in Sources |-> IF active'[x] THEN 1 ELSE 0]
      /\ inpr' = Cardinality(Active')
      /\ (cnt' + inpr') % CntModulus = (cnt + inpr) % CntModulus
      /\ s \in ending' /\ \A x \in Sources : x # s => active'[x] = active[x]
    BY <1>1, <1>2, <1>3, DeactivateKeeps
<1>5. inpr > 0
    BY <1>1, CounterParts
<1> QED BY <1>1, <1>4, <1>5 DEF CounterInv, NewsIsSeen

\* An event that is over at once is one more registered, or ends the one in progress.
LEMMA EventNowKeeps ==
    ASSUME CounterInv, NEW s \in Sources, WakeupEventNow(s)
    PROVE  CounterInv' /\ s \in ending' /\ \A x \in Sources : x # s => active'[x] = active[x]
<1> DEFINE c == Reported(s)
<1>1. /\ Deactivate(s, c, 1) /\ UNCHANGED <<count, reading>> /\ news' = reading
      /\ \A t \in reading : (cnt + inpr + 1) % CntModulus # count[t]
    BY DEF WakeupEventNow, CounterInv, readVars, Report, NoFullCircle
<1>2. /\ c \in 0..(Base * CntModulus - 1) /\ c % Base = Cardinality(Active \cup {s})
      /\ c \div Base = cnt /\ c % Base = IF active[s] THEN inpr ELSE inpr + 1
    <2>1. CASE active[s]
        <3>1. Active \cup {s} = Active /\ c = combined_event_count
            BY <2>1 DEF Active, Reported
        <3> QED BY <2>1, <3>1, Zenon DEF CounterInv, inpr, cnt, Base
    <2>2. CASE ~active[s]
        <3>1. c = AddCombined(combined_event_count, 1)
            BY <2>2 DEF Reported
        <3>2. /\ c \in 0..(Base * CntModulus - 1) /\ c \div Base = cnt
              /\ c % Base = inpr + 1
            BY <2>2, <3>1, CounterParts, AfterUp, Zenon DEF CounterInv, inpr, cnt, Base
        <3> HIDE DEF c
        <3> QED BY <2>2, <3>2, ActiveFits, Zenon DEF CounterInv
    <2> QED BY <2>1, <2>2
<1> HIDE DEF c
<1>3. /\ combined_event_count' \in 0..(Base * CntModulus - 1)
      /\ active' \in [Sources -> BOOLEAN]
      /\ unrelaxed' = [x \in Sources |-> IF active'[x] THEN 1 ELSE 0]
      /\ inpr' = Cardinality(Active')
      /\ (cnt' + inpr') % CntModulus = (cnt + (c % Base)) % CntModulus
      /\ s \in ending' /\ \A x \in Sources : x # s => active'[x] = active[x]
    BY <1>1, <1>2, DeactivateKeeps, Zenon
<1>4. \A t \in reading : (cnt + (c % Base)) % CntModulus # count[t]
    <2>1. CASE active[s]
        BY <1>2, <2>1, CounterParts, Zenon DEF CounterInv, NewsIsSeen
    <2>2. CASE ~active[s]
        <3>1. cnt + (c % Base) = cnt + inpr + 1
            BY <1>2, <2>2, CounterParts
        <3> QED BY <1>1, <3>1
    <2> QED BY <2>1, <2>2
<1> QED BY <1>1, <1>3, <1>4, Zenon DEF CounterInv, NewsIsSeen

\* The final split_counters() of pm_get_wakeup_count(), and the end of its count.
LEMMA ReadKeeps ==
    ASSUME CounterInv, NEW t \in Readers,
           TakeCount(t) \/ (DropCount(t) /\ UNCHANGED <<counters, sourceVars>>)
    PROVE  CounterInv'
<1>0. inpr \in Nat /\ cnt \in 0..(CntModulus - 1)
    BY CounterParts
<1>1. CASE TakeCount(t)
    <2>1. /\ UNCHANGED <<combined_event_count, active, unrelaxed>>
          /\ count' = [count EXCEPT ![t] = IF inpr = 0 THEN cnt ELSE 0]
          /\ reading' = IF inpr = 0 THEN reading \cup {t} ELSE reading \ {t}
          /\ news' = news \ {t}
        BY <1>1 DEF TakeCount, counters, sourceVars
    <2>2. cnt' = cnt /\ inpr' = inpr /\ Active' = Active /\ count' \in [Readers -> Nat]
        BY <1>0, <2>1 DEF cnt, inpr, Active, CounterInv
    <2>3. NewsIsSeen'
        BY <1>0, <2>1, <2>2 DEF CounterInv, NewsIsSeen
    <2> QED BY <2>1, <2>2, <2>3 DEF CounterInv
<1>2. CASE DropCount(t) /\ UNCHANGED <<counters, sourceVars>>
    <2>1. /\ UNCHANGED <<combined_event_count, active, unrelaxed>>
          /\ count' = [count EXCEPT ![t] = 0]
          /\ reading' = reading \ {t} /\ news' = news \ {t}
        BY <1>2 DEF DropCount, counters, sourceVars
    <2>2. cnt' = cnt /\ inpr' = inpr /\ Active' = Active /\ count' \in [Readers -> Nat]
        BY <2>1 DEF cnt, inpr, Active, CounterInv
    <2>3. NewsIsSeen'
        BY <1>0, <2>1, <2>2 DEF CounterInv, NewsIsSeen
    <2> QED BY <2>1, <2>2, <2>3 DEF CounterInv
<1> QED BY <1>1, <1>2

\* The last look finds a change of the counter since a reader read it: with the check in
\* force and nothing pending, nothing was reported to the reader.
LEMMA LastLook ==
    ASSUME CounterInv, NEW t \in reading, events_check_enabled, saved_count = count[t],
           ~pm_wakeup_pending
    PROVE  t \notin news
<1>1. cnt = count[t] /\ ~(inpr > 0)
    BY DEF pm_wakeup_pending, EventsPending
<1>2. inpr \in Nat /\ cnt \in 0..(CntModulus - 1)
    BY CounterParts
<1>3. inpr = 0 /\ (cnt + inpr) % CntModulus = cnt
    BY <1>1, <1>2, Bases
<1> QED BY <1>1, <1>3 DEF CounterInv, NewsIsSeen

------------------------------------------------------------------------------
(***************************************************************************)
(* The transitions.                                                        *)
(***************************************************************************)
USE SleepAssumption DEF Sleepers, Tasks

\* Between mutex_trylock(&pm_mutex) in enter_state() and its unlock.
InTransition ==
    {"sync", "syncing", "freezing", "devices", "noirq", "syscore", "asleep", "undo",
     "resume"}

PCs ==
    InTransition \cup
    {"idle", "count", "count_look", "count_sleep", "count_take", "lock", "save", "save_count",
     "saved", "suspend", "failed", "slept", "unlock", "unlock_stop", "out", "set_lock", "set_queue",
     "check", "pause", "reboot"}

\* pm_mutex admits one transition at a time.
MutexOfTransition == \A t \in Sleepers : pc[t] \in InTransition => pm_mutex = t

\* A transition gets past its own sync only when that has ended.
SyncedBefore ==
    \A t \in Sleepers :
        pc[t] \in {"freezing", "devices", "noirq", "syscore", "asleep"} => ~sys_sync_ongoing

\* The inductive invariant.  That a sync does not start behind a frozen system needs the
\* mutex: the other sleeper could start one.
IInv ==
    /\ pc \in [Tasks -> PCs]
    /\ MutexOfTransition /\ SyncedBefore /\ AutosleepGoesOn

------------------------------------------------------------------------------
\* Nothing is running at boot.
LEMMA InitIInv == Init => IInv
<1> SUFFICES ASSUME Init PROVE IInv
    OBVIOUS
<1>1. pc \in [Tasks -> PCs] /\ \A t \in Tasks : pc[t] = "idle"
    BY DEF Init, PCs
<1>2. AutosleepGoesOn
    BY DEF Init, AutosleepGoesOn
<1> QED BY <1>1, <1>2 DEF IInv, MutexOfTransition, SyncedBefore, InTransition

\* The steps of pm_suspend(), by either sleeper.
LEMMA SuspendKeepsIInv ==
    ASSUME IInv, NEW t \in Sleepers, SuspendStep(t)
    PROVE  IInv'
<1> USE DEF IInv, MutexOfTransition, SyncedBefore, AutosleepGoesOn, InTransition, PCs, At,
            Goto, autosleep, others, SuspendReturns
<1>1. CASE SuspendTrylock(t)
    BY <1>1 DEF SuspendTrylock
<1>2. CASE SyncEnqueue(t)
    BY <1>2 DEF SyncEnqueue
<1>3. CASE SyncTimeout(t)
    BY <1>3, Zenon DEF SyncTimeout
<1>4. CASE SuspendPrepare(t)
    BY <1>4, Zenon DEF SuspendPrepare
<1>5. CASE SuspendRefused(t)
    BY <1>5, Zenon DEF SuspendRefused
<1>6. CASE FreezeDone(t)
    BY <1>6, Zenon DEF FreezeDone
<1>7. CASE FreezeAbort(t)
    BY <1>7, Zenon DEF FreezeAbort, Aborts
<1>8. CASE FreezeTimeout(t)
    BY <1>8, Zenon DEF FreezeTimeout
<1>9. CASE DevicesAbort(t)
    BY <1>9, Zenon DEF DevicesAbort, Aborts
<1>10. CASE DevicesFail(t)
    BY <1>10, Zenon DEF DevicesFail
<1>11. CASE DevicesSuspended(t)
    BY <1>11, Zenon DEF DevicesSuspended
<1>12. CASE IrqsOff(t)
    BY <1>12, Zenon DEF IrqsOff
<1>13. CASE Enter(t)
    BY <1>13, Zenon DEF Enter
<1>14. CASE Wake(t)
    BY <1>14 DEF Wake
<1>15. CASE SuspendFinish(t)
    BY <1>15, Zenon DEF SuspendFinish
<1> QED BY <1>1, <1>2, <1>3, <1>4, <1>5, <1>6, <1>7, <1>8, <1>9, <1>10, <1>11, <1>12,
           <1>13, <1>14, <1>15, Zenon DEF SuspendStep

\* The steps of try_to_suspend() outside pm_suspend().
LEMMA WorkerKeepsIInv ==
    ASSUME IInv, WorkerStep
    PROVE  IInv'
<1> USE DEF IInv, MutexOfTransition, SyncedBefore, AutosleepGoesOn, InTransition, PCs, At,
            Goto, autosleep, others
<1>1. CASE WorkerStart
    BY <1>1, Zenon DEF WorkerStart
<1>2. CASE WorkerLock
    BY <1>2, Zenon DEF WorkerLock, TakeLock
<1>3. CASE WorkerSave
    BY <1>3, Zenon DEF WorkerSave
<1>4. CASE WorkerSaved
    BY <1>4, Zenon DEF WorkerSaved
<1>5. CASE WorkerUnlock
    BY <1>5, Zenon DEF WorkerUnlock
<1>6. CASE WorkerOut
    BY <1>6, Zenon DEF WorkerOut
<1>7. CASE CountPrepare(Worker)
    BY <1>7, Zenon DEF CountPrepare
<1>8. CASE CountLook(Worker)
    BY <1>8 DEF CountLook
<1>9. CASE CountSleep(Worker)
    BY <1>9, Zenon DEF CountSleep
<1>10. CASE CountTake(Worker)
    BY <1>10, Zenon DEF CountTake
<1>11. CASE SuspendStep(Worker)
    BY <1>11, SuspendKeepsIInv, Zenon
<1>12. CASE WorkerDisables
    BY <1>12, Zenon DEF WorkerDisables
<1> QED BY <1>1, <1>2, <1>3, <1>4, <1>5, <1>6, <1>7, <1>8, <1>9, <1>10, <1>11, <1>12, Zenon
        DEF WorkerStep, CountStep

\* The steps of the suspend cooler.
LEMMA CoolerKeepsIInv ==
    ASSUME IInv, CoolerStep \/ CoolerTrips
    PROVE  IInv'
<1> USE DEF IInv, MutexOfTransition, SyncedBefore, AutosleepGoesOn, InTransition, PCs, At,
            Goto, autosleep, others
<1>1. CASE CoolerTrips
    BY <1>1, Zenon DEF CoolerTrips
<1>2. CASE CoolerCheck
    BY <1>2 DEF CoolerCheck
<1>3. CASE CoolerFailed
    BY <1>3, Zenon DEF CoolerFailed
<1>4. CASE CoolerSlept
    BY <1>4, Zenon DEF CoolerSlept
<1>5. CASE CoolerPause
    BY <1>5, Zenon DEF CoolerPause
<1>6. CASE SuspendStep(Cooler)
    BY <1>6, SuspendKeepsIInv, Zenon
<1> QED BY <1>1, <1>2, <1>3, <1>4, <1>5, <1>6, Zenon DEF CoolerStep

\* The steps of a writer of /sys/power/autosleep.
LEMMA UserKeepsIInv ==
    ASSUME IInv, NEW u \in Users, UserStep(u) \/ \E v \in BOOLEAN : AutosleepStore(u, v)
    PROVE  IInv'
<1> USE DEF IInv, MutexOfTransition, SyncedBefore, AutosleepGoesOn, PCs, InTransition, At, Goto
<1>1. CASE SetState(u)
    BY <1>1, Zenon DEF SetState, TakeLock
<1>2. CASE SetQueue(u)
    BY <1>2, Zenon DEF SetQueue
<1>3. ASSUME NEW v \in BOOLEAN, AutosleepStore(u, v) PROVE IInv'
    BY <1>3, Zenon DEF AutosleepStore
<1> QED BY <1>1, <1>2, <1>3, Zenon DEF UserStep

\* The inductive invariant holds in every reachable state.
LEMMA Invariance == Spec => []IInv
<1>1. ASSUME IInv, Next PROVE IInv'
    <2>1. CASE \E t \in Sleepers : SuspendStep(t)
        BY <1>1, <2>1, SuspendKeepsIInv
    <2>2. CASE UNCHANGED <<pc, others>>
        BY <1>1, <2>2, Zenon DEF IInv, MutexOfTransition, SyncedBefore, AutosleepGoesOn, At, others,
                          autosleep
    <2>3. CASE pm_system_irq_wakeup \/ suspend_sys_sync
        BY <1>1, <2>3 DEF IInv, MutexOfTransition, SyncedBefore, AutosleepGoesOn, At, others,
                          autosleep, pm_system_irq_wakeup, suspend_sys_sync
    <2>4. CASE WorkerStep
        BY <1>1, <2>4, WorkerKeepsIInv
    <2>5. CASE CoolerStep \/ CoolerTrips
        BY <1>1, <2>5, CoolerKeepsIInv
    <2>6. CASE \E u \in Users : UserStep(u) \/ \E v \in BOOLEAN : AutosleepStore(u, v)
        BY <1>1, <2>6, UserKeepsIInv
    <2> QED BY <1>1, <2>1, <2>2, <2>3, <2>4, <2>5, <2>6 DEF Next
<1>2. IInv /\ UNCHANGED vars => IInv'
    BY DEF vars, others, autosleep, IInv, MutexOfTransition, SyncedBefore, AutosleepGoesOn, At
<1> QED BY InitIInv, <1>1, <1>2, PTL DEF Spec

------------------------------------------------------------------------------
(***************************************************************************)
(* The check of the saved count.  It is in force from pm_save_wakeup_count()*)
(* by the worker to the end of its transition, or until a transition of    *)
(* either sleeper has consumed it.                                         *)
(***************************************************************************)

\* Where the worker holds a count it has read.
Counted ==
    InTransition \cup {"lock", "save", "save_count", "saved", "suspend", "failed", "slept",
                       "unlock", "unlock_stop"}

ArmedInv ==
    /\ events_check_enabled \in BOOLEAN
    /\ pc[Worker] \in Counted => Worker \in reading
    /\ pc[Worker] = "save_count" => ~events_check_enabled
    /\ armed \subseteq {Worker}
    /\ Worker \in armed =>
         /\ pc[Worker] \in Counted \ {"lock", "save", "save_count"}
         /\ pc[Worker] = "undo" \/ (events_check_enabled /\ saved_count = count[Worker])

\* A single writer of autosleep that waits for the lock keeps its wakeup source active.
OneWriter == \A u, v \in Users : u = v
WriterAwake == OneWriter => \A u \in Users : At(u, "set_lock") => active[autosleep_ws]

\* The inductive invariant of the wakeup events, over IInv.
EventsInv ==
    /\ CounterInv /\ ArmedInv /\ WriterAwake
    /\ CountReadersAreWoken /\ EventsAbortSleep

\* At boot nothing is active and nothing is armed.
LEMMA InitEventsInv == Init => EventsInv
<1> SUFFICES ASSUME Init PROVE EventsInv
    OBVIOUS
<1>1. /\ combined_event_count = 0 /\ active = [s \in Sources |-> FALSE]
      /\ unrelaxed = [s \in Sources |-> 0] /\ events_check_enabled = FALSE
      /\ count = [t \in Readers |-> 0] /\ reading = {} /\ armed = {}
      /\ pc = [t \in Tasks |-> "idle"]
    BY Zenon DEF Init, WInit
<1>2. combined_event_count \in 0..(Base * CntModulus - 1) /\ inpr = 0
    <2>1. 0 * Base + 0 \in 0..(Base * CntModulus - 1)
        BY Bases, PackedBound
    <2>2. 0 % Base = 0
        BY Bases
    <2> QED BY <1>1, <2>1, <2>2, Bases DEF inpr, Base
<1>3. Active = {} /\ Cardinality(Active) = 0
    BY <1>1, FS_EmptySet, Zenon DEF Active
<1>4. CounterInv
    BY <1>1, <1>2, <1>3, Zenon DEF CounterInv, NewsIsSeen
<1>5. ArmedInv /\ WriterAwake /\ CountReadersAreWoken /\ EventsAbortSleep
    BY <1>1, Zenon DEF ArmedInv, Counted, InTransition, WriterAwake, CountReadersAreWoken,
                EventsAbortSleep, At
<1> QED BY <1>4, <1>5, Zenon DEF EventsInv

\* A step that leaves the counter, the sources and the readers alone.
Quiet == UNCHANGED <<counters, sourceVars, readVars, news>>

\* What such a step has to show: only pc, the check and armed move.
LEMMA QuietKeeps ==
    ASSUME IInv, EventsInv, Quiet, ArmedInv',
           \A u \in Users : pc'[u] = "set_lock" => pc[u] = "set_lock",
           pc'[Worker] = "count_sleep" => pc[Worker] = "count_sleep",
           pc'[Worker] = "asleep" /\ Worker \in armed' => Worker \notin news
    PROVE  EventsInv'
<1>1. CounterInv' /\ inpr' = inpr
    BY CounterFrame, Zenon DEF EventsInv, Quiet, counters, sourceVars
<1>2. WriterAwake'
    BY Zenon DEF EventsInv, WriterAwake, OneWriter, Quiet, sourceVars, At
<1>3. CountReadersAreWoken'
    BY <1>1, Zenon DEF EventsInv, CountReadersAreWoken, Quiet, counters, sourceVars, At
<1>4. EventsAbortSleep'
    BY Zenon DEF EventsInv, ArmedInv, EventsAbortSleep, Quiet, At
<1> QED BY <1>1, <1>2, <1>3, <1>4, Zenon DEF EventsInv

\* The steps of pm_suspend(), by either sleeper.
LEMMA SuspendKeepsEvents ==
    ASSUME IInv, EventsInv, NEW t \in Sleepers, SuspendStep(t)
    PROVE  EventsInv'
<1>1. Quiet
    BY Zenon DEF SuspendStep, SuspendTrylock, SyncEnqueue, SyncTimeout, SuspendPrepare,
        SuspendRefused, FreezeDone, FreezeAbort, FreezeTimeout, DevicesAbort, DevicesFail,
        DevicesSuspended, IrqsOff, Enter, Wake, SuspendFinish, Aborts, Quiet, wakeupVars,
        counters, sourceVars, readVars
<1>2. /\ pc \in [Tasks -> PCs] /\ ArmedInv /\ t \in Tasks
      /\ Worker \in armed /\ pc[Worker] = "asleep" => Worker \notin news
    BY DEF IInv, EventsInv, EventsAbortSleep, At
<1> USE DEF ArmedInv, Counted, InTransition, At, Goto, wakeupVars, checkVars, others,
            SuspendReturns, Quiet, readVars
<1> DEFINE Done ==
        /\ ArmedInv'
        /\ \A u \in Users : pc'[u] = "set_lock" => pc[u] = "set_lock"
        /\ pc'[Worker] = "count_sleep" => pc[Worker] = "count_sleep"
        /\ pc'[Worker] = "asleep" /\ Worker \in armed' => Worker \notin news
<1>3. ASSUME SuspendTrylock(t) PROVE Done
    BY <1>1, <1>2, <1>3 DEF SuspendTrylock
<1>4. ASSUME SyncEnqueue(t) PROVE Done
    BY <1>1, <1>2, <1>4 DEF SyncEnqueue
<1>5. ASSUME SyncTimeout(t) PROVE Done
    BY <1>1, <1>2, <1>5, Zenon DEF SyncTimeout
<1>6. ASSUME SuspendPrepare(t) PROVE Done
    BY <1>1, <1>2, <1>6 DEF SuspendPrepare
<1>61. ASSUME SuspendRefused(t) PROVE Done
    BY <1>1, <1>2, <1>61 DEF SuspendRefused
<1>7. ASSUME FreezeDone(t) PROVE Done
    BY <1>1, <1>2, <1>7 DEF FreezeDone
<1>71. ASSUME FreezeTimeout(t) PROVE Done
    BY <1>1, <1>2, <1>71 DEF FreezeTimeout
<1>8. ASSUME FreezeAbort(t) \/ DevicesAbort(t) PROVE Done
    BY <1>1, <1>2, <1>8, Zenon DEF FreezeAbort, DevicesAbort, Aborts, CheckConsumed
<1>9. ASSUME DevicesFail(t) PROVE Done
    BY <1>1, <1>2, <1>9 DEF DevicesFail
<1>91. ASSUME DevicesSuspended(t) PROVE Done
    BY <1>1, <1>2, <1>91 DEF DevicesSuspended
<1>92. ASSUME IrqsOff(t) PROVE Done
    BY <1>1, <1>2, <1>92 DEF IrqsOff
<1>10. ASSUME Enter(t) PROVE Done
    <2>1. t = Worker /\ Worker \in armed => Worker \notin news
        BY <1>2, <1>10, LastLook, Zenon DEF Enter, EventsInv
    <2> QED BY <1>1, <1>2, <1>10, <2>1 DEF Enter
<1>11. ASSUME Wake(t) PROVE Done
    BY <1>1, <1>2, <1>11, Zenon DEF Wake
<1>12. ASSUME SuspendFinish(t) PROVE Done
    BY <1>1, <1>2, <1>12, Zenon DEF SuspendFinish
<1>13. Done
    BY <1>3, <1>4, <1>5, <1>6, <1>61, <1>7, <1>71, <1>8, <1>9, <1>91, <1>92, <1>10, <1>11,
       <1>12, Zenon DEF SuspendStep
<1> QED BY <1>1, <1>13, QuietKeeps, Zenon

\* The steps of try_to_suspend() outside pm_suspend().
LEMMA WorkerKeepsEvents ==
    ASSUME IInv, EventsInv, WorkerStep
    PROVE  EventsInv'
<1>1. /\ pc \in [Tasks -> PCs] /\ ArmedInv /\ CounterInv /\ Worker \in Tasks
      /\ Worker \in Readers /\ WriterAwake /\ CountReadersAreWoken
    BY DEF IInv, EventsInv
<1> USE DEF ArmedInv, Counted, InTransition, At, Goto, wakeupVars, checkVars, counters,
            sourceVars, readVars, others
<1> DEFINE Done ==
        /\ Quiet /\ ArmedInv'
        /\ \A u \in Users : pc'[u] = "set_lock" => pc[u] = "set_lock"
        /\ pc'[Worker] = "count_sleep" => pc[Worker] = "count_sleep"
        /\ pc'[Worker] = "asleep" /\ Worker \in armed' => Worker \notin news
<1>2. ASSUME WorkerStart \/ WorkerLock \/ WorkerOut \/ CountSleep(Worker) PROVE Done
    BY <1>1, <1>2, Zenon DEF WorkerStart, WorkerLock, TakeLock, WorkerOut, CountSleep, Quiet
<1>3. ASSUME WorkerDisables PROVE Done
    BY <1>1, <1>3, Zenon DEF WorkerDisables, SaveDisables, Quiet
<1>4. ASSUME WorkerSave PROVE Done
    BY <1>1, <1>4, Zenon DEF WorkerSave, pm_save_wakeup_count, Quiet
<1>5. ASSUME WorkerSaved PROVE Done
    BY <1>1, <1>5, Zenon DEF WorkerSaved, Quiet
<1>6. CASE Done
    BY <1>6, QuietKeeps, Zenon
<1>7. CASE WorkerUnlock
    <2>1. CounterInv'
        BY <1>1, <1>7, ReadKeeps, Zenon DEF WorkerUnlock
    <2>2. ArmedInv' /\ EventsAbortSleep'
        BY <1>1, <1>7, Zenon DEF WorkerUnlock, DropCount, EventsAbortSleep
    <2>3. WriterAwake' /\ CountReadersAreWoken'
        BY <1>1, <1>7, Zenon DEF WorkerUnlock, WriterAwake, OneWriter, CountReadersAreWoken
    <2> QED BY <2>1, <2>2, <2>3, Zenon DEF EventsInv
<1>8. CASE CountPrepare(Worker) \/ CountLook(Worker)
    <2>1. CounterInv' /\ inpr' = inpr
        BY <1>1, <1>8, CounterFrame, Zenon DEF CountPrepare, CountLook, PrepareToWait, FinishWait
    <2>2. ArmedInv' /\ EventsAbortSleep'
        <3>1. CASE CountPrepare(Worker)
            BY <1>1, <3>1 DEF CountPrepare, PrepareToWait, EventsAbortSleep
        <3>2. CASE CountLook(Worker)
            BY <1>1, <3>2 DEF CountLook, FinishWait, EventsAbortSleep
        <3> QED BY <1>8, <3>1, <3>2, Zenon
    <2>3. WriterAwake' /\ CountReadersAreWoken'
        BY <1>1, <1>8, <2>1, Zenon DEF CountPrepare, CountLook, PrepareToWait, FinishWait,
                                WriterAwake, OneWriter, CountReadersAreWoken
    <2> QED BY <2>1, <2>2, <2>3, Zenon DEF EventsInv
<1>9. CASE CountTake(Worker)
    <2>1. CounterInv'
        BY <1>1, <1>9, ReadKeeps, Zenon DEF CountTake
    <2>2. ArmedInv' /\ EventsAbortSleep'
        BY <1>1, <1>9, Zenon DEF CountTake, TakeCount, EventsAbortSleep
    <2>3. WriterAwake' /\ CountReadersAreWoken'
        BY <1>1, <1>9, Zenon DEF CountTake, TakeCount, WriterAwake, OneWriter, CountReadersAreWoken
    <2> QED BY <2>1, <2>2, <2>3, Zenon DEF EventsInv
<1>10. CASE SuspendStep(Worker)
    BY <1>10, SuspendKeepsEvents
<1> QED BY <1>2, <1>3, <1>4, <1>5, <1>6, <1>7, <1>8, <1>9, <1>10, Zenon
        DEF WorkerStep, CountStep

\* The steps of the suspend cooler, of the sync and of a wakeup interrupt.
LEMMA CoolerKeepsEvents ==
    ASSUME IInv, EventsInv,
           CoolerStep \/ CoolerTrips \/ pm_system_irq_wakeup \/ suspend_sys_sync
    PROVE  EventsInv'
<1>1. CASE SuspendStep(Cooler)
    BY <1>1, SuspendKeepsEvents
<1>2. CASE ~SuspendStep(Cooler)
    <2>1. /\ Quiet /\ UNCHANGED <<events_check_enabled, saved_count, armed>>
          /\ pc'[Worker] = pc[Worker] /\ \A u \in Users : pc'[u] = pc[u]
        BY <1>2, Zenon DEF CoolerStep, CoolerTrips, CoolerCheck, CoolerFailed, CoolerSlept,
              CoolerPause, pm_system_irq_wakeup, suspend_sys_sync, Quiet, wakeupVars,
              checkVars, others, Goto, IInv
    <2>2. ArmedInv'
        BY <2>1, Zenon DEF ArmedInv, EventsInv, Quiet, readVars
    <2>3. pc'[Worker] = "asleep" /\ Worker \in armed' => Worker \notin news
        BY <2>1, Zenon DEF EventsInv, EventsAbortSleep, At
    <2> QED BY <2>1, <2>2, <2>3, QuietKeeps, Zenon
<1> QED BY <1>1, <1>2

\* Reports and ends of events while some CPU still takes interrupts.
LEMMA SourceKeepsEvents ==
    ASSUME IInv, EventsInv, ~Stopped, UNCHANGED <<pc, others>>, NEW s \in Sources,
           DeactivateWake(s) \/ (s # autosleep_ws /\ SourceStep(s))
    PROVE  EventsInv'
<1>1. /\ UNCHANGED <<pc, armed, readVars, checkVars>> /\ pc[Worker] # "asleep"
      /\ CounterInv /\ WriterAwake /\ CountReadersAreWoken
    BY Zenon DEF others, SourceStep, __pm_stay_awake, __pm_relax, WakeupEventNow, DeactivateWake,
           Stopped, EventsInv
<1>2. ArmedInv' /\ EventsAbortSleep'
    BY <1>1, Zenon DEF EventsInv, ArmedInv, EventsAbortSleep, At, readVars, checkVars
<1>3. CASE DeactivateWake(s)
    <2>1. CounterInv' /\ inpr' = inpr
        BY <1>1, <1>3, CounterFrame, Zenon DEF DeactivateWake
    <2>2. WriterAwake' /\ CountReadersAreWoken'
        BY <1>1, <1>3, <2>1, Zenon
        DEF DeactivateWake, WriterAwake, OneWriter, CountReadersAreWoken, At
    <2> QED BY <1>2, <2>1, <2>2, Zenon DEF EventsInv
<1>4. CASE __pm_stay_awake(s)
    <2>1. CounterInv' /\ inpr' # 0 /\ (active[autosleep_ws] => active'[autosleep_ws])
        BY <1>1, <1>4, StayAwakeKeeps, Zenon
    <2>2. inpr' # 0
        BY <2>1, Zenon
    <2>3. WriterAwake' /\ CountReadersAreWoken'
        BY <1>1, <2>1, <2>2, Zenon DEF WriterAwake, OneWriter, CountReadersAreWoken, At
    <2> QED BY <1>2, <2>1, <2>3, Zenon DEF EventsInv
<1>5. CASE s # autosleep_ws /\ (__pm_relax(s) \/ WakeupEventNow(s))
    <2>1. CounterInv' /\ ending' # {} /\ active'[autosleep_ws] = active[autosleep_ws]
        BY <1>1, <1>5, RelaxKeeps, EventNowKeeps, Zenon
    <2>2. WriterAwake' /\ CountReadersAreWoken'
        BY <1>1, <2>1, Zenon DEF WriterAwake, OneWriter, CountReadersAreWoken, At
    <2> QED BY <1>2, <2>1, <2>2, Zenon DEF EventsInv
<1> QED BY <1>3, <1>4, <1>5, Zenon DEF SourceStep

\* The steps of a writer of /sys/power/autosleep.
LEMMA UserKeepsEvents ==
    ASSUME IInv, EventsInv, NEW u \in Users,
           UserStep(u) \/ \E v \in BOOLEAN : AutosleepStore(u, v)
    PROVE  EventsInv'
<1>1. /\ UNCHANGED <<armed, readVars, checkVars>> /\ pc'[Worker] = pc[Worker]
      /\ CounterInv /\ WriterAwake /\ CountReadersAreWoken /\ pc \in [Tasks -> PCs]
    BY Zenon DEF UserStep, SetState, SetQueue, AutosleepStore, TakeLock, Goto, __pm_stay_awake,
           __pm_relax, wakeupVars, EventsInv, IInv
<1>2. ArmedInv'
    BY <1>1, Zenon DEF EventsInv, ArmedInv, readVars, checkVars
<1>3. ASSUME NEW v \in BOOLEAN, AutosleepStore(u, v) PROVE EventsInv'
    <2>1. CounterInv' /\ inpr' # 0 /\ active'[autosleep_ws]
        BY <1>1, <1>3, StayAwakeKeeps, Zenon DEF AutosleepStore
    <2>2. WriterAwake' /\ CountReadersAreWoken'
        BY <1>1, <2>1, Zenon DEF WriterAwake, OneWriter, CountReadersAreWoken, At
    <2>3. EventsAbortSleep'
        BY <1>1, <1>2, <1>3, Zenon DEF AutosleepStore, Frozen, EventsAbortSleep, At, ArmedInv
    <2> QED BY <1>2, <2>1, <2>2, <2>3, Zenon DEF EventsInv
<1>4. CASE SetQueue(u)
    <2>1. CounterInv' /\ inpr' = inpr /\ news' = news
        BY <1>1, <1>4, CounterFrame, Zenon DEF SetQueue, wakeupVars, counters, sourceVars
    <2>2. WriterAwake' /\ CountReadersAreWoken'
        BY <1>1, <1>4, <2>1, Zenon DEF SetQueue, wakeupVars, counters, sourceVars, WriterAwake,
              OneWriter, CountReadersAreWoken, At, Goto
    <2>3. EventsAbortSleep'
        BY <1>1, <1>2, <2>1, Zenon DEF EventsInv, EventsAbortSleep, At, ArmedInv
    <2> QED BY <1>2, <2>1, <2>2, <2>3, Zenon DEF EventsInv
<1>5. CASE SetState(u)
    <2>1. pc' = [pc EXCEPT ![u] = "set_queue"]
        BY <1>5, Zenon DEF SetState, TakeLock, Goto
    <2>2. WriterAwake'
        BY <1>1, <2>1, Zenon DEF WriterAwake, OneWriter, At
    <2>3. CASE __pm_relax(autosleep_ws)
        <3>1. CounterInv' /\ ending' # {}
            BY <1>1, <2>3, RelaxKeeps, Zenon
        <3>2. EventsAbortSleep' /\ CountReadersAreWoken'
            BY <1>1, <1>2, <2>3, <3>1, Zenon DEF EventsInv, EventsAbortSleep, At, ArmedInv,
                  CountReadersAreWoken, __pm_relax
        <3> QED BY <1>2, <2>2, <3>1, <3>2, Zenon DEF EventsInv
    <2>4. CASE UNCHANGED wakeupVars
        <3>1. CounterInv' /\ inpr' = inpr
            BY <1>1, <2>4, CounterFrame, Zenon DEF wakeupVars, counters, sourceVars
        <3>2. EventsAbortSleep' /\ CountReadersAreWoken'
            BY <1>1, <1>2, <2>4, <3>1, Zenon DEF EventsInv, EventsAbortSleep, At, ArmedInv,
                  CountReadersAreWoken, wakeupVars, counters, sourceVars
        <3> QED BY <1>2, <2>2, <3>1, <3>2, Zenon DEF EventsInv
    <2> QED BY <1>5, <2>3, <2>4, Zenon DEF SetState
<1> QED BY <1>3, <1>4, <1>5, Zenon DEF UserStep

\* The inductive invariant of the wakeup events holds in every reachable state.
LEMMA EventsInvariance == Spec => []EventsInv
<1>1. ASSUME IInv, EventsInv, Next PROVE EventsInv'
    <2>1. CASE \E t \in Sleepers : SuspendStep(t)
        BY <1>1, <2>1, SuspendKeepsEvents
    <2>2. CASE /\ ~Stopped /\ UNCHANGED <<pc, others>>
               /\ \/ \E s \in Sources \ {autosleep_ws} : SourceStep(s)
                  \/ DeactivateWake(autosleep_ws)
        BY <1>1, <2>2, SourceKeepsEvents
    <2>3. CASE CoolerStep \/ CoolerTrips \/ pm_system_irq_wakeup \/ suspend_sys_sync
        BY <1>1, <2>3, CoolerKeepsEvents
    <2>4. CASE WorkerStep
        BY <1>1, <2>4, WorkerKeepsEvents
    <2>5. CASE \E u \in Users : UserStep(u) \/ \E v \in BOOLEAN : AutosleepStore(u, v)
        BY <1>1, <2>5, UserKeepsEvents, Zenon
    <2> QED BY <1>1, <2>1, <2>2, <2>3, <2>4, <2>5, Zenon DEF Next
<1>2. ASSUME IInv, EventsInv, UNCHANGED vars PROVE EventsInv'
    <2>1. Quiet /\ ArmedInv' /\ pc' = pc
        BY <1>2, Zenon DEF EventsInv, ArmedInv, Quiet, vars, wakeupVars, readVars, checkVars, others
    <2>2. pc'[Worker] = "asleep" /\ Worker \in armed' => Worker \notin news
        BY <1>2, Zenon DEF EventsInv, EventsAbortSleep, At, vars, others
    <2> QED BY <1>2, <2>1, <2>2, QuietKeeps, Zenon
<1> QED BY InitEventsInv, Invariance, <1>1, <1>2, PTL DEF Spec

------------------------------------------------------------------------------
\* Devices are never suspended with a file system sync of either sleeper still running.
THEOREM NoSyncWhileFrozenHolds == Spec => []NoSyncWhileFrozen
<1>1. IInv => NoSyncWhileFrozen
    BY Zenon DEF IInv, SyncedBefore, NoSyncWhileFrozen, Frozen
<1> QED BY Invariance, <1>1, PTL

\* With autosleep on, the work that suspends is queued, running, or about to be queued.
THEOREM AutosleepGoesOnHolds == Spec => []AutosleepGoesOn
<1>1. IInv => AutosleepGoesOn
    BY DEF IInv
<1> QED BY Invariance, <1>1, PTL

\* A sleeper whose saved count is in force does not take the system to sleep once an event
\* has been reported after it read the count.
THEOREM EventsAbortSleepHolds == Spec => []EventsAbortSleep
<1>1. EventsInv => EventsAbortSleep
    BY DEF EventsInv
<1> QED BY EventsInvariance, <1>1, PTL

\* A reader of wakeup_count does not sleep on with nothing in progress and nobody about to
\* wake it.
THEOREM CountReadersAreWokenHolds == Spec => []CountReadersAreWoken
<1>1. EventsInv => CountReadersAreWoken
    BY DEF EventsInv
<1> QED BY EventsInvariance, <1>1, PTL

\* With a single task that writes to /sys/power/autosleep, its wakeup source stops a freezer
\* that waits for it.  With two the first to get the lock relaxes the source they share,
\* and the claim is lost.
THEOREM WriterStopsFreezerHolds ==
    ASSUME \A u, v \in Users : u = v
    PROVE  Spec => []WriterStopsFreezer
<1>1. EventsInv => WriterStopsFreezer
    <2> SUFFICES ASSUME EventsInv, NEW u \in Users, Worker \in armed, At(Worker, "freezing"),
                        At(u, "set_lock")
                 PROVE  pm_wakeup_pending
        BY Zenon DEF WriterStopsFreezer
    <2>1. active[autosleep_ws] /\ events_check_enabled /\ CounterInv
        BY Zenon DEF EventsInv, WriterAwake, OneWriter, ArmedInv, At
    <2>2. inpr > 0
        BY <2>1, CounterParts, Zenon
    <2> QED BY <2>1, <2>2 DEF pm_wakeup_pending, EventsPending
<1> QED BY EventsInvariance, <1>1, PTL
==============================================================================
