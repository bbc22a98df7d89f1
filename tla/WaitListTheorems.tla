-------------------------- MODULE WaitListTheorems --------------------------
(***************************************************************************)
(* Facts about the waiter lists of the sleeping locks: a list without      *)
(* repetitions stays one under list_add_tail(), list_del() and the removal *)
(* of its first entries, and its set of entries changes as expected; and   *)
(* how many entries that are, with the sizes of the sets they make up.     *)
(***************************************************************************)
EXTENDS TaskState, FiniteSetTheorems, TLAPS

\* A part of a list.
LEMMA PartOfList ==
    ASSUME NEW S, NEW l \in Seq(S), NEW p \in Nat \ {0}, NEW q \in 0..Len(l)
    PROVE  /\ SubSeq(l, p, q) \in Seq(S)
           /\ Len(SubSeq(l, p, q)) = IF p <= q THEN q - p + 1 ELSE 0
           /\ \A i \in 1..(q - p + 1) : SubSeq(l, p, q)[i] = l[p + i - 1]
OBVIOUS

\* Two lists in one.
LEMMA JoinedLists ==
    ASSUME NEW S, NEW a \in Seq(S), NEW b \in Seq(S)
    PROVE  /\ a \o b \in Seq(S)
           /\ Len(a \o b) = Len(a) + Len(b)
           /\ \A i \in 1..(Len(a) + Len(b)) :
                 (a \o b)[i] = IF i <= Len(a) THEN a[i] ELSE b[i - Len(a)]
OBVIOUS

\* list_add_tail() of an entry that is not on the list.
LEMMA AddTail ==
    ASSUME NEW S, NEW l \in Seq(S), NEW e \in S,
           IsInjective(l), e \notin Range(l)
    PROVE  /\ list_add_tail(l, e) \in Seq(S)
           /\ IsInjective(list_add_tail(l, e))
           /\ Range(list_add_tail(l, e)) = Range(l) \cup {e}
<1> DEFINE m == Append(l, e)
<1>1. /\ m \in Seq(S)
      /\ Len(m) = Len(l) + 1
      /\ \A i \in 1..Len(l) : m[i] = l[i]
      /\ m[Len(l) + 1] = e
      /\ Len(l) \in Nat
      /\ DOMAIN l = 1..Len(l)
      /\ DOMAIN m = 1..(Len(l) + 1)
    OBVIOUS
<1> HIDE DEF m
<1>2. Range(m) = Range(l) \cup {e}
    BY <1>1 DEF Range
<1>3. \A i \in 1..Len(l) : l[i] # e
    BY <1>1 DEF Range
<1>4. IsInjective(m)
    BY <1>1, <1>3 DEF IsInjective
<1> QED
    BY <1>1, <1>2, <1>4 DEF m, list_add_tail

\* m is what is left of l, which has n entries, once entry k is gone.
IsWithout(m, l, n, k) ==
    /\ n \in Nat
    /\ k \in 1..n
    /\ DOMAIN l = 1..n
    /\ DOMAIN m = 1..(n - 1)
    /\ \A i \in 1..(k - 1) : m[i] = l[i]
    /\ \A i \in k..(n - 1) : m[i] = l[i + 1]

\* Removing one entry removes it from the set of entries and repeats nothing.
LEMMA DropAt ==
    ASSUME NEW l, NEW m, NEW n, NEW k, IsInjective(l), IsWithout(m, l, n, k)
    PROVE  /\ IsInjective(m)
           /\ Range(m) = Range(l) \ {l[k]}
<1> USE DEF IsWithout
<1>1. \A i, j \in 1..n : l[i] = l[j] => i = j
    BY DEF IsInjective
<1>2. ASSUME NEW i \in 1..(n - 1)
      PROVE  \E p \in 1..n : /\ m[i] = l[p] /\ p # k
                             /\ p = IF i < k THEN i ELSE i + 1
    <2>1. CASE i < k
        BY <2>1
    <2>2. CASE ~(i < k)
        BY <2>2
    <2> QED BY <2>1, <2>2
<1>3. ASSUME NEW i \in 1..(n - 1), NEW j \in 1..(n - 1), m[i] = m[j]
      PROVE  i = j
    <2>1. PICK p \in 1..n : /\ m[i] = l[p]
                            /\ p = IF i < k THEN i ELSE i + 1
        BY <1>2
    <2>2. PICK q \in 1..n : /\ m[j] = l[q]
                            /\ q = IF j < k THEN j ELSE j + 1
        BY <1>2
    <2>3. p = q
        BY <2>1, <2>2, <1>1, <1>3
    <2> QED BY <2>1, <2>2, <2>3
<1>4. IsInjective(m)
    BY <1>3 DEF IsInjective
<1>5. ASSUME NEW i \in 1..(n - 1) PROVE m[i] \in Range(l) \ {l[k]}
    BY <1>1, <1>2 DEF Range
<1>6. ASSUME NEW p \in 1..n, l[p] # l[k]
      PROVE  \E i \in 1..(n - 1) : m[i] = l[p]
    <2>1. p # k
        BY <1>6
    <2>2. CASE p < k
        BY <2>2
    <2>3. CASE p > k
        <3>1. p - 1 \in 1..(n - 1) /\ p - 1 \in k..(n - 1) /\ (p - 1) + 1 = p
            BY <2>3
        <3>2. m[p - 1] = l[p]
            BY <3>1
        <3> QED BY <3>1, <3>2
    <2> QED BY <2>1, <2>2, <2>3
<1>7. Range(m) = Range(l) \ {l[k]}
    <2>1. \A x \in Range(m) : x \in Range(l) \ {l[k]}
        BY <1>5 DEF Range
    <2>2. ASSUME NEW x \in Range(l) \ {l[k]} PROVE x \in Range(m)
        <3>1. PICK p \in 1..n : l[p] = x
            BY DEF Range
        <3>2. PICK i \in 1..(n - 1) : m[i] = x
            BY <1>6, <3>1
        <3> QED BY <3>2 DEF Range
    <2> QED BY <2>1, <2>2
<1> QED BY <1>4, <1>7

\* list_del() of an entry that is on the list.
LEMMA Del ==
    ASSUME NEW S, NEW l \in Seq(S), NEW e, IsInjective(l), e \in Range(l)
    PROVE  /\ list_del(l, e) \in Seq(S)
           /\ IsInjective(list_del(l, e))
           /\ Range(list_del(l, e)) = Range(l) \ {e}
<1>1. PICK n \in Nat : n = Len(l)
    OBVIOUS
<1>2. DOMAIN l = 1..n
    BY <1>1
<1>3. PICK k \in 1..n : l[k] = e /\ k = CHOOSE i \in DOMAIN l : l[i] = e
    BY <1>2 DEF Range
<1> DEFINE a == SubSeq(l, 1, k - 1)
           b == SubSeq(l, k + 1, n)
           m == a \o b
<1>4. /\ a \in Seq(S)
      /\ Len(a) = k - 1
      /\ \A i \in 1..(k - 1) : a[i] = l[i]
    <2>1. PICK p \in Nat \ {0}, q \in 0..Len(l) : p = 1 /\ q = k - 1
        BY <1>1
    <2>3. /\ SubSeq(l, p, q) \in Seq(S)
          /\ Len(SubSeq(l, p, q)) = IF p <= q THEN q - p + 1 ELSE 0
          /\ \A i \in 1..(q - p + 1) : SubSeq(l, p, q)[i] = l[p + i - 1]
        BY PartOfList, Zenon
    <2>4. a = SubSeq(l, p, q)
        BY <2>1
    <2> HIDE DEF a
    <2>5. q - p + 1 = k - 1 /\ \A i \in Int : p + i - 1 = i
        BY <2>1
    <2> QED BY <2>1, <2>3, <2>4, <2>5
<1>6. /\ b \in Seq(S)
      /\ Len(b) = n - k
      /\ \A i \in 1..(n - k) : b[i] = l[i + k]
    <2>1. PICK p \in Nat \ {0} : p = k + 1
        OBVIOUS
    <2>2. n \in 0..Len(l)
        BY <1>1
    <2>3. /\ SubSeq(l, p, n) \in Seq(S)
          /\ Len(SubSeq(l, p, n)) = IF p <= n THEN n - p + 1 ELSE 0
          /\ \A i \in 1..(n - p + 1) : SubSeq(l, p, n)[i] = l[p + i - 1]
        BY <2>2, PartOfList, Zenon
    <2>4. b = SubSeq(l, p, n)
        BY <2>1
    <2> HIDE DEF b
    <2>5. n - p + 1 = n - k /\ \A i \in Int : p + i - 1 = i + k
        BY <2>1
    <2> QED BY <2>1, <2>3, <2>4, <2>5
<1> HIDE DEF a, b
<1>9. /\ m \in Seq(S)
      /\ Len(m) = n - 1
      /\ \A i \in 1..(n - 1) : m[i] = IF i <= k - 1 THEN a[i] ELSE b[i - (k - 1)]
    <2>1. /\ m \in Seq(S)
          /\ Len(m) = Len(a) + Len(b)
          /\ \A i \in 1..(Len(a) + Len(b)) :
                m[i] = IF i <= Len(a) THEN a[i] ELSE b[i - Len(a)]
        BY <1>4, <1>6, JoinedLists, Zenon
    <2>2. Len(a) + Len(b) = n - 1
        BY <1>4, <1>6
    <2> HIDE DEF m
    <2> QED BY <1>4, <2>1, <2>2
<1> HIDE DEF m
<1>10. DOMAIN m = 1..(n - 1)
    BY <1>9
<1>11. \A i \in 1..(k - 1) : m[i] = l[i]
    BY <1>4, <1>9
<1>12. ASSUME NEW i \in k..(n - 1) PROVE m[i] = l[i + 1]
    <2>1. i - (k - 1) \in 1..(n - k) /\ (i - (k - 1)) + k = i + 1
        BY <1>3
    <2>2. m[i] = b[i - (k - 1)]
        BY <1>3, <1>9
    <2> QED BY <2>1, <2>2, <1>6
<1>13. IsInjective(m) /\ Range(m) = Range(l) \ {e}
    <2>1. IsWithout(m, l, n, k)
        BY <1>2, <1>10, <1>11, <1>12 DEF IsWithout
    <2>2. IsInjective(m) /\ Range(m) = Range(l) \ {l[k]}
        BY <2>1, DropAt, Zenon
    <2> QED BY <1>3, <2>2, Zenon
<1>14. list_del(l, e) = m
    BY <1>1, <1>3 DEF list_del, m, a, b
<1> QED
    BY <1>9, <1>13, <1>14

\* Taking the first entry off a list.
LEMMA DelFirst ==
    ASSUME NEW S, NEW l \in Seq(S), IsInjective(l), l # <<>>
    PROVE  /\ Tail(l) \in Seq(S)
           /\ Head(l) \in Range(l)
           /\ Head(l) \in S
           /\ IsInjective(Tail(l))
           /\ Range(Tail(l)) = Range(l) \ {Head(l)}
<1>1. PICK n \in Nat \ {0} : n = Len(l)
    OBVIOUS
<1>2. /\ DOMAIN l = 1..n /\ Head(l) = l[1]
      /\ \A i \in 1..n : l[i] \in S
    BY <1>1
<1> DEFINE m == Tail(l)
<1>3. m \in Seq(S)
    OBVIOUS
<1>4. DOMAIN m = 1..(n - 1) /\ \A i \in 1..(n - 1) : m[i] = l[i + 1]
    BY <1>1
<1> HIDE DEF m
<1>5. IsInjective(m) /\ Range(m) = Range(l) \ {l[1]}
    <2>1. PICK k \in 1..n : k = 1
        OBVIOUS
    <2>2. IsWithout(m, l, n, k)
        BY <1>2, <1>4, <2>1 DEF IsWithout
    <2>3. IsInjective(m) /\ Range(m) = Range(l) \ {l[k]}
        BY <2>2, DropAt, Zenon
    <2> QED BY <2>1, <2>3
<1>6. Head(l) \in Range(l) /\ Head(l) \in S
    BY <1>1, <1>2 DEF Range
<1> QED
    BY <1>2, <1>3, <1>5, <1>6 DEF m

\* A list without repetitions that holds e alone has one entry.
LEMMA OneEntry ==
    ASSUME NEW S, NEW l \in Seq(S), IsInjective(l), NEW e \in Range(l)
    PROVE  /\ l # <<>>
           /\ Len(l) = 1 <=> Range(l) = {e}
<1> USE Zenon
<1>1. PICK n \in Nat : n = Len(l) /\ DOMAIN l = 1..n
    BY SMT
<1> USE <1>1
<1>2. PICK i \in 1..n : l[i] = e
    BY DEF Range
<1>3. n = 1 => Range(l) = {e}
    BY <1>2, SMT DEF Range
<1>4. ASSUME Range(l) = {e} PROVE n = 1
    <2>0. \A j \in 1..n : l[j] \in Range(l)
        BY DEF Range
    <2>1. l[1] = e /\ l[n] = e
        BY <1>2, <1>4, <2>0, SMT
    <2> QED BY <1>2, <2>1, SMT DEF IsInjective
<1>5. l # <<>>
    BY <1>2, SMT
<1> QED BY <1>3, <1>4, <1>5

\* A list is empty when it has no entries.
LEMMA NoEntry ==
    ASSUME NEW S, NEW l \in Seq(S)
    PROVE  l = <<>> <=> Range(l) = {}
<1> USE Zenon
<1>1. Range(<<>>) = {}
    BY SMT DEF Range
<1>2. ASSUME l # <<>> PROVE l[1] \in Range(l)
    BY <1>2, SMT DEF Range
<1> QED BY <1>1, <1>2

\* A set of numbers from 1 on without gaps is an interval.
LEMMA NoGaps ==
    ASSUME NEW n \in Nat, NEW F \in SUBSET (1..n), \A i \in F : \A j \in 1..i : j \in F
    PROVE  Cardinality(F) \in 0..n /\ F = 1..Cardinality(F)
<1> USE Zenon
<1>1. IsFiniteSet(1..n) /\ Cardinality(1..n) = n
    BY FS_Interval, SMT
<1>2. PICK c \in Nat : c = Cardinality(F)
    BY <1>1, FS_Subset, FS_CardinalityType
<1>3. IsFiniteSet(F) /\ c <= n
    <2>1. IsFiniteSet(F) /\ Cardinality(F) <= Cardinality(1..n)
        BY <1>1, FS_Subset
    <2> QED BY <1>1, <1>2, <2>1
<1>4. IsFiniteSet(1..c) /\ Cardinality(1..c) = c
    BY FS_Interval, SMT
<1>5. CASE c = 0
    <2>1. F = {}
        BY <1>2, <1>3, <1>5, FS_EmptySet
    <2>2. 1..0 = {}
        BY SMT
    <2> QED BY <1>2, <1>5, <2>1, <2>2, SMT
<1>6. CASE c > 0
    <2>1. c \in F
        <3>1. SUFFICES ASSUME c \notin F PROVE FALSE
            OBVIOUS
        <3>2. F \subseteq 1..(c - 1)
            <4>1. ASSUME NEW j \in F PROVE j \in 1..(c - 1)
                <5>1. ~(c <= j)
                    BY <1>6, <3>1, SMT
                <5> QED BY <5>1, SMT
            <4> QED BY <4>1
        <3>3. IsFiniteSet(1..(c - 1)) /\ Cardinality(1..(c - 1)) = c - 1
            BY <1>6, FS_Interval, SMT
        <3>4. Cardinality(F) <= Cardinality(1..(c - 1))
            BY <3>2, <3>3, FS_Subset
        <3>5. c <= c - 1
            BY <1>2, <3>3, <3>4
        <3> QED BY <3>5, SMT
    <2>2. 1..c \subseteq F
        BY <2>1
    <2>3. F = 1..c
        BY <1>2, <1>3, <1>4, <2>2, FS_Subset
    <2> QED BY <1>2, <1>3, <2>3, SMT
<1> QED BY <1>5, <1>6, SMT

\* The first w entries of the list l.
FirstOf(l, w) == {l[i] : i \in 1..w}

\* The first w entries of a list without repetitions are w.
LEMMA FrontSize ==
    ASSUME NEW S, NEW l \in Seq(S), IsInjective(l), NEW w \in 0..Len(l)
    PROVE  /\ IsFiniteSet(FirstOf(l, w)) /\ Cardinality(FirstOf(l, w)) = w
           /\ FirstOf(l, w) \subseteq Range(l)
<1> USE Zenon
<1>1. PICK n \in Nat : n = Len(l) /\ DOMAIN l = 1..n
    BY SMT
<1>2. w \in Nat /\ \A i \in 1..w : i \in 1..n
    BY <1>1, SMT
<1> DEFINE G == FirstOf(l, w)
           f == [i \in 1..w |-> l[i]]
<1>3. f \in [1..w -> G]
    BY DEF FirstOf
<1>4. ASSUME NEW i \in 1..w, NEW j \in 1..w, f[i] = f[j] PROVE i = j
    BY <1>1, <1>2, <1>4 DEF IsInjective
<1>5. \A g \in G : \E i \in 1..w : f[i] = g
    BY DEF FirstOf
<1> HIDE DEF f, G
<1>6. f \in Injection(1..w, G)
    BY <1>3, <1>4 DEF Injection, IsInjective
<1>7. f \in Surjection(1..w, G)
    BY <1>3, <1>5 DEF Surjection
<1>8. IsFiniteSet(1..w) /\ Cardinality(1..w) = w
    BY <1>2, FS_Interval, SMT
<1>9. IsFiniteSet(G) /\ Cardinality(G) = w
    BY <1>6, <1>7, <1>8, FS_Surjection
<1>10. FirstOf(l, w) \subseteq Range(l)
    BY <1>1, <1>2 DEF FirstOf, Range
<1> QED BY <1>9, <1>10 DEF G

\* Taking the first w entries off such a list.
LEMMA DelFront ==
    ASSUME NEW S, NEW l \in Seq(S), IsInjective(l), NEW w \in 0..Len(l)
    PROVE  /\ SubSeq(l, w + 1, Len(l)) \in Seq(S) /\ IsInjective(SubSeq(l, w + 1, Len(l)))
           /\ Range(SubSeq(l, w + 1, Len(l))) = Range(l) \ FirstOf(l, w)
           /\ SubSeq(l, w + 1, Len(l)) = <<>> <=> w = Len(l)
<1> USE Zenon
<1>1. PICK n \in Nat : n = Len(l) /\ DOMAIN l = 1..n
    BY SMT
<1>2. \A i \in 1..n : l[i] \in S
    BY <1>1, SMT
<1>3. PICK p \in Nat \ {0} : p = w + 1
    BY SMT
<1>4. n \in 0..Len(l)
    BY <1>1, SMT
<1> DEFINE m == SubSeq(l, p, n)
<1>5. /\ m \in Seq(S) /\ Len(m) = (IF p <= n THEN n - p + 1 ELSE 0)
      /\ \A i \in 1..(n - p + 1) : m[i] = l[p + i - 1]
    BY <1>4, PartOfList
<1> HIDE DEF m
<1>6. PICK k \in Nat : k = n - w
    <2>1. n - w \in Nat
        BY <1>1, SMT
    <2> QED BY <2>1
<1>7. /\ m \in Seq(S) /\ Len(m) = k /\ DOMAIN m = 1..k
      /\ \A i \in 1..k : m[i] = l[w + i] /\ w + i \in 1..n
    <2>1. n - p + 1 = k /\ (p <= n <=> k > 0)
        BY <1>1, <1>3, <1>6, SMT
    <2>2. \A i \in 1..k : p + i - 1 = w + i /\ w + i \in 1..n
        BY <1>1, <1>3, <1>6, SMT
    <2>3. Len(m) = k
        BY <1>5, <2>1, SMT
    <2>4. \A i \in 1..k : m[i] = l[w + i]
        BY <1>5, <2>1, <2>2
    <2>5. m \in Seq(S) /\ DOMAIN m = 1..k
        BY <1>5, <2>3, SMT
    <2> QED BY <2>2, <2>3, <2>4, <2>5
<1>8. \A i, j \in 1..n : l[i] = l[j] => i = j
    BY <1>1 DEF IsInjective
<1>9. IsInjective(m)
    <2>1. ASSUME NEW i \in 1..k, NEW j \in 1..k, m[i] = m[j] PROVE i = j
        <3>1. l[w + i] = l[w + j] /\ w + i \in 1..n /\ w + j \in 1..n
            BY <1>7, <2>1
        <3>2. w + i = w + j
            BY <1>8, <3>1
        <3> QED BY <3>2, SMT
    <2> QED BY <1>7, <2>1 DEF IsInjective
<1>10. Range(m) = Range(l) \ FirstOf(l, w)
    <2>1. ASSUME NEW x \in Range(m) PROVE x \in Range(l) /\ x \notin FirstOf(l, w)
        <3>1. PICK i \in 1..k : x = l[w + i] /\ w + i \in 1..n
            BY <1>7 DEF Range
        <3>2. \A j \in 1..w : j \in 1..n /\ j # w + i
            BY <1>1, SMT
        <3>3. x \notin FirstOf(l, w)
            BY <1>8, <3>1, <3>2 DEF FirstOf
        <3> QED BY <1>1, <3>1, <3>3 DEF Range
    <2>2. ASSUME NEW x \in Range(l), x \notin FirstOf(l, w) PROVE x \in Range(m)
        <3>1. PICK i \in 1..n : x = l[i]
            BY <1>1 DEF Range
        <3>2. i \notin 1..w
            BY <2>2, <3>1 DEF FirstOf
        <3>3. i - w \in 1..k /\ w + (i - w) = i
            BY <1>1, <1>6, <3>2, SMT
        <3>4. m[i - w] = x
            BY <1>7, <3>1, <3>3
        <3> QED BY <1>7, <3>3, <3>4 DEF Range
    <2> QED BY <2>1, <2>2
<1>11. m = <<>> <=> w = n
    BY <1>1, <1>6, <1>7, SMT
<1> QED BY <1>1, <1>3, <1>7, <1>9, <1>10, <1>11 DEF m

\* The size of the union of two sets that do not meet.
LEMMA CardSum ==
    ASSUME NEW S, NEW T, IsFiniteSet(S), IsFiniteSet(T), S \cap T = {}
    PROVE  /\ IsFiniteSet(S \cup T) /\ Cardinality(S \cup T) = Cardinality(S) + Cardinality(T)
           /\ Cardinality(S) \in Nat /\ Cardinality(T) \in Nat
<1> USE Zenon
<1>1. /\ IsFiniteSet(S \cup T)
      /\ Cardinality(S \cup T) = Cardinality(S) + Cardinality(T) - Cardinality(S \cap T)
    BY FS_Union
<1>2. Cardinality(S \cap T) = 0 /\ Cardinality(S) \in Nat /\ Cardinality(T) \in Nat
    BY FS_EmptySet, FS_CardinalityType
<1> QED BY <1>1, <1>2, SMT
==============================================================================
