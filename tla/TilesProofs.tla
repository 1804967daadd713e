---------------------------- MODULE TilesProofs ----------------------------
(***************************************************************************)
(* Facts about the operations on one hand, for every hand size: what they  *)
(* yield, in which order, and how many tiles of a kind they leave.         *)
(***************************************************************************)
EXTENDS HuCheck, TLAPS, FiniteSetTheorems, WellFoundedInduction

\* A non-empty set of naturals has a least element, and Min finds it.
LEMMA MinExists ==
    ASSUME NEW S \in SUBSET Nat, S # {}
    PROVE  Min(S) \in S /\ \A y \in S : Min(S) <= y
<1>1. PICK x \in S : \A y \in S : ~(<<y, x>> \in OpToRel(<, Nat))
    BY NatLessThanWellFounded, WFMin
<1>2. ASSUME NEW y \in S PROVE x <= y
  <2>1. x \in Nat /\ y \in Nat  OBVIOUS
  <2>2. <<y, x>> \in Nat \X Nat  BY <2>1
  <2>3. <<y, x>>[1] = y /\ <<y, x>>[2] = x  OBVIOUS
  <2>4. ~(y < x)  BY <1>1, <2>2, <2>3 DEF OpToRel
  <2> QED  BY <2>1, <2>4
<1> QED  BY <1>2 DEF Min

\* The range 0..n-1 of slot numbers is finite and has n members.
LEMMA SlotRange ==
    ASSUME NEW n \in Nat
    PROVE  IsFiniteSet(0..(n - 1)) /\ Cardinality(0..(n - 1)) = n
<1>1. 0 \in Int /\ n - 1 \in Int  OBVIOUS
<1> QED  BY <1>1, FS_Interval

\* Sorting a hand moves its tiles about: the i-th smallest value on an index
\* set with more than i members is the value at one of them.
LEMMA NthIsMember ==
    ASSUME NEW R, IsFiniteSet(R), NEW d, \A j \in R : d[j] \in 0..58,
           NEW i \in Nat, i < Cardinality(R)
    PROVE  \E j \in R : Nth(d, R, i) = d[j]
<1> DEFINE Below(v) == {m \in R : d[m] <= v}
           T == {v \in 0..58 : Cardinality(Below(v)) > i}
           S == {v \in {d[j] : j \in R} : Cardinality(Below(v)) > i}
<1>1. \A v \in Nat : IsFiniteSet(Below(v)) /\ Cardinality(Below(v)) \in Nat
    BY FS_Subset, FS_CardinalityType
<1>2. 58 \in T
  <2>1. Below(58) = R  OBVIOUS
  <2> QED  BY <2>1
<1>3. T \in SUBSET Nat /\ T # {}
  <2>1. \A v \in T : v \in 0..58  OBVIOUS
  <2>2. \A v \in T : v \in Nat  BY <2>1
  <2> HIDE DEF T
  <2> QED  BY <1>2, <2>2
<1>4. PICK u \in T : \A y \in T : u <= y
    BY <1>3, MinExists
<1>5. u \in S
  <2>1. SUFFICES ASSUME \A j \in R : d[j] # u PROVE FALSE
      BY <1>4
  <2>2. CASE u = 0
    <3>1. Below(u) = {}  BY <2>1, <2>2
    <3> QED  BY <3>1, <1>4, FS_EmptySet
  <2>3. CASE u # 0
    <3>1. u - 1 \in 0..58  BY <2>3, <1>4
    <3>2. Below(u) = Below(u - 1)  BY <2>1, <3>1, <1>4
    <3>3. u - 1 \in T  BY <3>1, <3>2, <1>4
    <3> QED  BY <3>3, <1>4
  <2> QED  BY <2>2, <2>3
<1>6. S \in SUBSET Nat  OBVIOUS
<1>7. Min(S) \in S  BY <1>5, <1>6, MinExists
<1>8. Nth(d, R, i) = Min(S)  BY DEF Nth
<1> QED  BY <1>7, <1>8

\* Every entry of a deck is a natural number of at most 58.
LEMMA EntryBound == Entry \subseteq 0..58
    BY DEF Entry, Tile, Playable, Suited, DAZI, FLOWER, Null

\* At most n of the first n slots hold a given tile.
LEMMA CountBound ==
    ASSUME NEW d, NEW n \in Nat, NEW t
    PROVE  Count(d, n, t) \in Nat /\ Count(d, n, t) <= n
<1> DEFINE Same == {j \in 0..(n - 1) : d[j] = t}
<1>1. Same \in SUBSET (0..(n - 1))  OBVIOUS
<1>2. IsFiniteSet(Same) /\ Cardinality(Same) <= n
    BY <1>1, SlotRange, FS_Subset
<1> QED  BY <1>2, FS_CardinalityType DEF Count

\* decks_quick_sort fills the sorted slots from those slots, and leaves the
\* others as they are.
LEMMA SortMembers ==
    ASSUME NEW d \in [Slots -> Entry], NEW k \in -1..HandSize
    PROVE  /\ decks_quick_sort(d, k) \in [Slots -> Entry]
           /\ \A i \in 0..k : \E j \in 0..k : decks_quick_sort(d, k)[i] = d[j]
           /\ \A i \in Slots : i > k => decks_quick_sort(d, k)[i] = d[i]
<1> USE HandSizeAssumption
<1> DEFINE e == decks_quick_sort(d, k)
<1>1. /\ DOMAIN d = Slots
      /\ e = [i \in Slots |-> IF i <= k THEN Nth(d, 0..k, i) ELSE d[i]]
    BY DEF decks_quick_sort
<1>2. 0..k \subseteq Slots  BY DEF Slots
<1>3. IsFiniteSet(0..k) /\ Cardinality(0..k) = k + 1
  <2>1. k + 1 \in Nat /\ (k + 1) - 1 = k  OBVIOUS
  <2> QED  BY <2>1, SlotRange
<1>4. \A j \in 0..k : d[j] \in 0..58
    BY <1>2, EntryBound
<1>5. ASSUME NEW i \in 0..k PROVE \E j \in 0..k : e[i] = d[j]
  <2>1. i \in Nat /\ i < Cardinality(0..k)  BY <1>3
  <2>2. \E j \in 0..k : Nth(d, 0..k, i) = d[j]
      BY <1>3, <1>4, <2>1, NthIsMember
  <2>3. e[i] = Nth(d, 0..k, i)  BY <1>1, <1>2
  <2> QED  BY <2>2, <2>3
<1>6. ASSUME NEW i \in Slots, i > k PROVE e[i] = d[i]
    BY <1>1, <1>6 DEF Slots
<1>7. ASSUME NEW i \in Slots PROVE e[i] \in Entry
  <2>1. CASE i <= k
    <3>1. i \in 0..k  BY <2>1 DEF Slots
    <3> QED  BY <3>1, <1>5, <1>2
  <2>2. CASE i > k  BY <2>2, <1>6
  <2> QED  BY <2>1, <2>2 DEF Slots
<1> QED  BY <1>1, <1>5, <1>6, <1>7

\* The removal loop of a claim empties at most need slots.
LEMMA FirstMatches ==
    ASSUME NEW d, NEW n \in Nat, NEW t, NEW need \in Nat
    PROVE  /\ IsFiniteSet(FirstSlots(d, n, t, need))
           /\ Cardinality(FirstSlots(d, n, t, need)) \in Nat
           /\ Cardinality(FirstSlots(d, n, t, need)) <= need
<1>0. PICK gone : gone = FirstSlots(d, n, t, need)
    OBVIOUS
<1>a. gone = {i \in 0..(n - 1) : d[i] = t /\ Count(d, i, t) < need}
    BY <1>0 DEF FirstSlots
<1>1. gone \in SUBSET (0..(n - 1))  BY <1>a
<1>2. IsFiniteSet(gone) /\ Cardinality(gone) \in Nat
    BY <1>1, SlotRange, FS_Subset, FS_CardinalityType
<1>3. CASE gone = {}
    BY <1>0, <1>2, <1>3, FS_EmptySet
<1>4. CASE gone # {}
  <2> DEFINE Mirror == {n - 1 - i : i \in gone}
  <2>1. Mirror \in SUBSET Nat /\ Mirror # {}
    <3>1. \A i \in gone : n - 1 - i \in Nat  BY <1>1
    <3>2. PICK i \in gone : TRUE  BY <1>4
    <3> QED  BY <3>1, <3>2
  <2>2. PICK m \in Mirror : \A y \in Mirror : m <= y
      BY <2>1, MinExists
  <2>3. PICK u \in gone : m = n - 1 - u  BY <2>2
  <2>4. u \in Nat /\ u \in 0..(n - 1)  BY <1>1, <2>3
  <2>5. \A i \in gone : i <= u
    <3>1. SUFFICES ASSUME NEW i \in gone PROVE i <= u
        OBVIOUS
    <3>2. i \in 0..(n - 1)  BY <1>1
    <3>3. n - 1 - u <= n - 1 - i  BY <2>2, <2>3
    <3> QED  BY <2>4, <3>2, <3>3
  <2> DEFINE Same == {j \in 0..(u - 1) : d[j] = t}
  <2>6. gone \ {u} \in SUBSET Same
      BY <1>a, <2>4, <2>5
  <2>7. IsFiniteSet(Same) /\ Cardinality(Same) \in Nat /\ Cardinality(Same) < need
    <3>1. Same \in SUBSET (0..(u - 1))  OBVIOUS
    <3>2. IsFiniteSet(Same)  BY <3>1, <2>4, SlotRange, FS_Subset
    <3>3. Cardinality(Same) = Count(d, u, t)  BY DEF Count
    <3> QED  BY <3>2, <3>3, <2>3, <1>a, FS_CardinalityType
  <2>8. Cardinality(gone \ {u}) <= Cardinality(Same)
      BY <2>6, <2>7, FS_Subset
  <2>9. Cardinality(gone \ {u}) = Cardinality(gone) - 1
      BY <1>2, <2>3, FS_RemoveElement
  <2> QED  BY <1>0, <1>2, <2>7, <2>8, <2>9
<1> QED  BY <1>3, <1>4

\* What a claim leaves in the first n - need slots comes from the first n.
LEMMA RemoveMembers ==
    ASSUME NEW d \in [Slots -> Entry], NEW n \in 0..HandSize, NEW t,
           NEW need \in 0..n
    PROVE  /\ Remove(d, n, t, need) \in [Slots -> Entry]
           /\ \A i \in 0..(n - need - 1) :
                \E j \in 0..(n - 1) : Remove(d, n, t, need)[i] = d[j]
<1> USE HandSizeAssumption
<1>a. PICK gone : gone = FirstSlots(d, n, t, need)
    OBVIOUS
<1>b. PICK rest : rest = (0..(n - 1)) \ gone
    OBVIOUS
<1> DEFINE e == Remove(d, n, t, need)
<1>1. /\ DOMAIN d = Slots
      /\ e = [i \in Slots |-> IF i < n - need THEN Nth(d, rest, i)
                               ELSE IF i < n THEN Null ELSE d[i]]
    BY <1>a, <1>b DEF Remove
<1>2. 0..(n - 1) \subseteq Slots  BY DEF Slots
<1>3. IsFiniteSet(gone) /\ Cardinality(gone) \in Nat /\ Cardinality(gone) <= need
  <2>1. n \in Nat /\ need \in Nat  OBVIOUS
  <2> QED  BY <2>1, <1>a, FirstMatches
<1>4. IsFiniteSet(rest) /\ Cardinality(rest) >= n - need
  <2>1. n \in Nat  OBVIOUS
  <2>2. IsFiniteSet(0..(n - 1)) /\ Cardinality(0..(n - 1)) = n  BY <2>1, SlotRange
  <2>3. (0..(n - 1)) \cap gone = gone  BY <1>a DEF FirstSlots
  <2>a. /\ IsFiniteSet((0..(n - 1)) \ gone)
        /\ Cardinality((0..(n - 1)) \ gone)
             = Cardinality(0..(n - 1)) - Cardinality((0..(n - 1)) \cap gone)
      BY <2>2, FS_Difference
  <2>4. IsFiniteSet(rest) /\ Cardinality(rest) = n - Cardinality(gone)
      BY <2>2, <2>3, <2>a, <1>b
  <2> QED  BY <2>4, <1>3
<1>5. \A j \in rest : d[j] \in 0..58
    BY <1>b, <1>2, EntryBound
<1>6. ASSUME NEW i \in 0..(n - need - 1) PROVE \E j \in 0..(n - 1) : e[i] = d[j]
  <2>1. i \in Nat /\ i < Cardinality(rest)
    <3>1. Cardinality(rest) \in Nat  BY <1>4, FS_CardinalityType
    <3> QED  BY <3>1, <1>4
  <2>2. \E j \in rest : Nth(d, rest, i) = d[j]
      BY <1>4, <1>5, <2>1, NthIsMember
  <2>3. e[i] = Nth(d, rest, i)
    <3>1. i \in Slots /\ i < n - need  BY <1>2
    <3> QED  BY <1>1, <3>1
  <2> QED  BY <2>2, <2>3, <1>b
<1>7. ASSUME NEW i \in Slots PROVE e[i] \in Entry
  <2>1. CASE i < n - need
    <3>1. i \in 0..(n - need - 1)  BY <2>1 DEF Slots
    <3> QED  BY <3>1, <1>6, <1>2
  <2>2. CASE ~(i < n - need)
    <3>1. e[i] = Null \/ e[i] = d[i]  BY <1>1, <2>2
    <3> QED  BY <3>1 DEF Entry
  <2> QED  BY <2>1, <2>2
<1> QED  BY <1>1, <1>6, <1>7

-----------------------------------------------------------------------------
(* How many of each tile there are, before and after                       *)

\* How many of the slots in S hold v.
Tally(d, S, v) == Cardinality({i \in S : d[i] = v})
\* The indices whose value is at most v.
AtMost(d, R, v) == {m \in R : d[m] <= v}

\* A part of a finite set has a natural number of members.
LEMMA PartSize ==
    ASSUME NEW S, IsFiniteSet(S), NEW T, T \subseteq S
    PROVE  IsFiniteSet(T) /\ Cardinality(T) \in Nat /\ Cardinality(T) <= Cardinality(S)
<1>1. T \in SUBSET S  OBVIOUS
<1> QED  BY <1>1, FS_Subset, FS_CardinalityType

\* The members of a set that is in two parts are those of the one and those
\* of the other.
LEMMA TwoParts ==
    ASSUME NEW A, IsFiniteSet(A), NEW B, IsFiniteSet(B), A \cap B = {}, NEW C,
           C = A \cup B
    PROVE  /\ IsFiniteSet(C) /\ Cardinality(C) = Cardinality(A) + Cardinality(B)
           /\ Cardinality(A) \in Nat /\ Cardinality(B) \in Nat
<1>1. Cardinality(A) \in Nat /\ Cardinality(B) \in Nat  BY FS_CardinalityType
<1>2. /\ IsFiniteSet(A \cup B)
      /\ Cardinality(A \cup B) = Cardinality(A) + Cardinality(B) - Cardinality(A \cap B)
    BY FS_Union
<1>3. Cardinality(A \cap B) = 0  BY FS_EmptySet
<1> QED  BY <1>1, <1>2, <1>3

\* The i-th smallest value is at most v exactly if more than i values are.
LEMMA NthAtMost ==
    ASSUME NEW R, IsFiniteSet(R), NEW d, \A j \in R : d[j] \in 0..58,
           NEW i \in Nat, i < Cardinality(R), NEW v \in -1..58
    PROVE  /\ Nth(d, R, i) \in 0..58
           /\ Nth(d, R, i) <= v <=> Cardinality(AtMost(d, R, v)) > i
<1> DEFINE Below(w) == {m \in R : d[m] <= w}
           S == {w \in {d[j] : j \in R} : Cardinality(Below(w)) > i}
<1>1. PICK j0 \in R : Nth(d, R, i) = d[j0]  BY NthIsMember
<1>2. PICK x \in 0..58 : x = Nth(d, R, i)  BY <1>1
<1>3. x = Min(S) /\ S \in SUBSET Nat  BY <1>2 DEF Nth
<1>4. ASSUME NEW w \in 0..58 PROVE Cardinality(Below(w)) \in Nat
    BY PartSize
<1>5. S # {}
  <2>1. SUFFICES ASSUME S = {} PROVE FALSE  OBVIOUS
  <2>2. \A w \in {d[j] : j \in R} : ~(Cardinality(Below(w)) > i)  BY <2>1
  <2> DEFINE T == {w \in 0..58 : Cardinality(Below(w)) > i}
  <2>3. Below(58) = R  OBVIOUS
  <2>4. 58 \in T  BY <2>3
  <2>5. T \in SUBSET Nat  OBVIOUS
  <2> HIDE DEF T
  <2>6. PICK u \in T : \A y \in T : u <= y  BY <2>4, <2>5, MinExists
  <2>7. u \in 0..58 /\ Cardinality(Below(u)) > i  BY <2>6 DEF T
  <2>8. \A j \in R : d[j] # u  BY <2>2, <2>7
  <2>9. CASE u = 0
    <3>1. Below(u) = {}  BY <2>8, <2>9
    <3> QED  BY <2>7, <3>1, FS_EmptySet
  <2>10. CASE u # 0
    <3>1. u - 1 \in 0..58  BY <2>7, <2>10
    <3>2. Below(u) = Below(u - 1)  BY <2>7, <2>8, <3>1
    <3>3. u - 1 \in T  BY <2>7, <3>1, <3>2 DEF T
    <3> QED  BY <2>6, <2>7, <3>3
  <2> QED  BY <2>9, <2>10
<1>6. x \in S /\ \A y \in S : x <= y  BY <1>3, <1>5, MinExists
<1>7. Cardinality(Below(x)) > i  BY <1>6
<1>8. ASSUME x <= v PROVE Cardinality(Below(v)) > i
  <2>1. v \in 0..58  BY <1>8
  <2>2. Below(x) \subseteq Below(v)  BY <1>8
  <2>3. IsFiniteSet(Below(v))  BY PartSize
  <2> HIDE DEF Below
  <2>4. Cardinality(Below(x)) <= Cardinality(Below(v))  BY <2>2, <2>3, PartSize
  <2> QED  BY <1>4, <1>7, <2>1, <2>4
<1>9. ASSUME Cardinality(Below(v)) > i PROVE x <= v
  <2>1. SUFFICES ASSUME ~(x <= v) PROVE FALSE  OBVIOUS
  <2>2. Below(v) # {}  BY <1>9, FS_EmptySet
  <2>3. v \in 0..58  BY <2>2
  <2> DEFINE W == {d[j] : j \in Below(v)}
  <2>4. W # {} /\ W \in SUBSET Nat  BY <2>2
  <2> DEFINE M == {58 - w : w \in W}
  <2>5. M # {} /\ M \in SUBSET Nat
    <3>1. \A w \in W : 58 - w \in Nat  OBVIOUS
    <3>2. PICK w \in W : TRUE  BY <2>4
    <3> HIDE DEF W
    <3> QED  BY <3>1, <3>2
  <2>6. PICK m \in M : \A y \in M : m <= y  BY <2>5, MinExists
  <2>7. PICK w0 \in W : m = 58 - w0  BY <2>6
  <2>8. \A w \in W : w <= w0
    <3>1. \A w \in W : w \in 0..58  OBVIOUS
    <3>2. \A w \in W : 58 - w0 <= 58 - w  BY <2>6, <2>7
    <3> HIDE DEF W
    <3> QED  BY <3>1, <3>2
  <2>9. w0 <= v /\ w0 \in 0..58  OBVIOUS
  <2>10. Below(w0) = Below(v)  BY <2>3, <2>8, <2>9
  <2>11. w0 \in S  BY <1>9, <2>10
  <2>12. x <= w0  BY <1>6, <2>11
  <2> QED  BY <1>2, <2>1, <2>3, <2>9, <2>12
<1>10. Below(v) = AtMost(d, R, v)  BY DEF AtMost
<1> QED  BY <1>2, <1>8, <1>9, <1>10

\* The values on an index set that are v are those that are at most v but
\* not at most v - 1.
LEMMA TallyByRank ==
    ASSUME NEW R, IsFiniteSet(R), NEW d, \A j \in R : d[j] \in Int, NEW v \in Int
    PROVE  Tally(d, R, v) = Cardinality(AtMost(d, R, v)) - Cardinality(AtMost(d, R, v - 1))
<1> DEFINE B == {m \in R : d[m] <= v}
           A == {m \in R : d[m] <= v - 1}
           E == {m \in R : d[m] = v}
<1>1. IsFiniteSet(A) /\ IsFiniteSet(E)  BY PartSize
<1>2. A \cap E = {} /\ B = A \cup E  OBVIOUS
<1> HIDE DEF A, B, E
<1>3. Cardinality(B) = Cardinality(A) + Cardinality(E)
      /\ Cardinality(A) \in Nat /\ Cardinality(E) \in Nat
    BY <1>1, <1>2, TwoParts
<1>4. Cardinality(E) = Cardinality(B) - Cardinality(A)  BY <1>3
<1> QED  BY <1>4 DEF A, B, E, Tally, AtMost

\* Sorting is a rearrangement: the values in order are as many of each kind
\* as the values were.
LEMMA NthTally ==
    ASSUME NEW R, IsFiniteSet(R), NEW d, \A j \in R : d[j] \in 0..58,
           NEW n \in Nat, n = Cardinality(R), NEW Q, \A x : x \in Q <=> x \in Nat /\ x < n,
           NEW e, \A i \in Q : e[i] = Nth(d, R, i),
           NEW v \in 0..58
    PROVE  Tally(e, Q, v) = Tally(d, R, v)
<1>0. Q = 0..(n - 1)
  <2>1. \A x : x \in 0..(n - 1) <=> x \in Nat /\ x < n  OBVIOUS
  <2> QED  BY <2>1
<1>1. ASSUME NEW w \in -1..58
      PROVE  Cardinality(AtMost(e, Q, w)) = Cardinality(AtMost(d, R, w))
  <2>1. AtMost(d, R, w) \subseteq R  BY DEF AtMost
  <2>2. Cardinality(AtMost(d, R, w)) \in Nat /\ Cardinality(AtMost(d, R, w)) <= n
      BY <2>1, PartSize
  <2>3. PICK k \in Nat : k = Cardinality(AtMost(d, R, w)) /\ k <= n  BY <2>2
  <2>4. \A i \in Q : e[i] <= w <=> i < k
    <3>1. SUFFICES ASSUME NEW i \in Q PROVE e[i] <= w <=> i < k
        OBVIOUS
    <3>2. i \in Nat /\ i < Cardinality(R)  OBVIOUS
    <3>3. Nth(d, R, i) <= w <=> Cardinality(AtMost(d, R, w)) > i  BY <3>2, NthAtMost
    <3> QED  BY <2>3, <3>2, <3>3
  <2>5. AtMost(e, Q, w) = 0..(k - 1)
    <3>1. \A i : i \in Q /\ i < k <=> i \in 0..(k - 1)  BY <2>3
    <3>2. \A i : i \in AtMost(e, Q, w) <=> i \in Q /\ e[i] <= w
        BY Zenon DEF AtMost
    <3>3. \A i : i \in AtMost(e, Q, w) <=> i \in 0..(k - 1)
        BY <2>4, <3>1, <3>2, Zenon
    <3> QED  BY <3>3
  <2>6. Cardinality(0..(k - 1)) = k  BY SlotRange
  <2> QED  BY <2>3, <2>5, <2>6
<1>2. \A i \in Q : e[i] \in Int
  <2>1. SUFFICES ASSUME NEW i \in Q PROVE e[i] \in Int  OBVIOUS
  <2>2. i \in Nat /\ i < Cardinality(R)  OBVIOUS
  <2>3. \E j \in R : Nth(d, R, i) = d[j]  BY <2>2, NthIsMember
  <2> QED  BY <2>3
<1>3. v \in Int  OBVIOUS
<1>4. Tally(e, Q, v) = Cardinality(AtMost(e, Q, v)) - Cardinality(AtMost(e, Q, v - 1))
  <2>1. IsFiniteSet(Q)  BY <1>0, SlotRange
  <2>2. \A j \in Q : e[j] \in Int  BY <1>2
  <2> QED  BY <1>3, <2>1, <2>2, TallyByRank, Zenon
<1>5. Tally(d, R, v) = Cardinality(AtMost(d, R, v)) - Cardinality(AtMost(d, R, v - 1))
  <2>1. \A j \in R : d[j] \in Int
    <3>1. 0..58 \subseteq Int  OBVIOUS
    <3> QED  BY <3>1, Zenon
  <2> QED  BY <1>3, <2>1, TallyByRank, Zenon
<1>6. v \in -1..58 /\ v - 1 \in -1..58  OBVIOUS
<1> QED  BY <1>1, <1>4, <1>5, <1>6

\* The values come out in order.
LEMMA NthOrdered ==
    ASSUME NEW R, IsFiniteSet(R), NEW d, \A j \in R : d[j] \in 0..58,
           NEW i \in Nat, NEW k \in Nat, i <= k, k < Cardinality(R)
    PROVE  Nth(d, R, i) <= Nth(d, R, k)
<1>1. Cardinality(R) \in Nat  BY FS_CardinalityType
<1>2. i < Cardinality(R)  BY <1>1
<1>3. PICK v \in 0..58 : v = Nth(d, R, k)
  <2>1. PICK j \in R : Nth(d, R, k) = d[j]  BY NthIsMember
  <2> QED  BY <2>1
<1>4. PICK c : c = Cardinality(AtMost(d, R, v))  OBVIOUS
<1>5. c \in Nat
  <2>1. AtMost(d, R, v) \subseteq R  BY DEF AtMost
  <2> QED  BY <1>4, <2>1, PartSize
<1>6. v \in -1..58  OBVIOUS
<1>7. c > k  BY <1>3, <1>4, <1>6, NthAtMost
<1>8. c > i  BY <1>5, <1>7
<1> QED  BY <1>2, <1>3, <1>4, <1>6, <1>8, NthAtMost

\* A tally over two separate index sets is the sum of the two.
LEMMA TallyParts ==
    ASSUME NEW d, NEW A, IsFiniteSet(A), NEW B, IsFiniteSet(B), NEW C,
           \A x : x \in C <=> x \in A \/ x \in B,
           \A x : ~(x \in A /\ x \in B), NEW v
    PROVE  /\ Tally(d, C, v) = Tally(d, A, v) + Tally(d, B, v)
           /\ Tally(d, A, v) \in Nat /\ Tally(d, B, v) \in Nat
<1>1. PICK X : X = {i \in A : d[i] = v}  OBVIOUS
<1>2. PICK Y : Y = {i \in B : d[i] = v}  OBVIOUS
<1>3. PICK Z : Z = {i \in C : d[i] = v}  OBVIOUS
<1>4. X \subseteq A /\ Y \subseteq B /\ X \cap Y = {} /\ Z = X \cup Y
    BY <1>1, <1>2, <1>3
<1>5. IsFiniteSet(X) /\ IsFiniteSet(Y)  BY <1>4, PartSize
<1>6. /\ Cardinality(Z) = Cardinality(X) + Cardinality(Y)
      /\ Cardinality(X) \in Nat /\ Cardinality(Y) \in Nat
    BY <1>4, <1>5, TwoParts
<1> QED  BY <1>1, <1>2, <1>3, <1>6 DEF Tally

\* A tally is a natural number.
LEMMA TallyNat ==
    ASSUME NEW d, NEW S, IsFiniteSet(S), NEW v
    PROVE  Tally(d, S, v) \in Nat
<1>1. {i \in S : d[i] = v} \subseteq S  OBVIOUS
<1> QED  BY <1>1, PartSize DEF Tally

\* It depends only on the slots it looks at.
LEMMA TallySame ==
    ASSUME NEW d, NEW e, NEW S, \A i \in S : d[i] = e[i], NEW v
    PROVE  Tally(d, S, v) = Tally(e, S, v)
<1>1. {i \in S : d[i] = v} = {i \in S : e[i] = v}  OBVIOUS
<1> QED  BY <1>1 DEF Tally

\* No slot holds v if the tally is zero, and the other way round.
LEMMA TallyZero ==
    ASSUME NEW d, NEW S, IsFiniteSet(S), NEW v
    PROVE  Tally(d, S, v) = 0 <=> \A i \in S : d[i] # v
<1>1. PICK X : X = {i \in S : d[i] = v}  OBVIOUS
<1>2. IsFiniteSet(X)  BY <1>1, PartSize
<1>3. Cardinality(X) = 0 <=> X = {}  BY <1>2, FS_EmptySet
<1> QED  BY <1>1, <1>3 DEF Tally

\* One if a and b are the same, and zero if not.
One(a, b) == IF a = b THEN 1 ELSE 0

\* A single slot.
LEMMA TallyOne ==
    ASSUME NEW d, NEW i, NEW v
    PROVE  Tally(d, {i}, v) = One(d[i], v)
<1>1. CASE d[i] = v
  <2>1. {j \in {i} : d[j] = v} = {i}  BY <1>1
  <2> QED  BY <1>1, <2>1, FS_Singleton DEF Tally, One
<1>2. CASE d[i] # v
  <2>1. {j \in {i} : d[j] = v} = {}  BY <1>2
  <2> QED  BY <1>2, <2>1, FS_EmptySet DEF Tally, One
<1> QED  BY <1>1, <1>2

\* Taking one slot out of those looked at.
LEMMA TallyWithout ==
    ASSUME NEW d, NEW S, IsFiniteSet(S), NEW i \in S, NEW A,
           \A x : x \in A <=> x \in S /\ x # i, NEW v
    PROVE  /\ Tally(d, S, v) = Tally(d, A, v) + One(d[i], v)
           /\ Tally(d, A, v) \in Nat /\ IsFiniteSet(A)
<1>1. PICK B : B = {i}  OBVIOUS
<1>2. /\ \A x : x \in S <=> x \in A \/ x \in B
      /\ \A x : ~(x \in A /\ x \in B)
    BY <1>1
<1>3. IsFiniteSet(A) /\ IsFiniteSet(B)
  <2>1. A \subseteq S  OBVIOUS
  <2> QED  BY <1>1, <2>1, PartSize, FS_Singleton
<1>4. Tally(d, S, v) = Tally(d, A, v) + Tally(d, B, v) /\ Tally(d, A, v) \in Nat
    BY <1>2, <1>3, TallyParts
<1>5. Tally(d, B, v) = One(d[i], v)  BY <1>1, TallyOne
<1> QED  BY <1>3, <1>4, <1>5

\* The hands e and d differ at most in slot i.
ButFor(e, d, S, i) == \A j \in S : j # i => e[j] = d[j]

\* Putting a tile into a slot in place of another.
LEMMA TallyPut ==
    ASSUME NEW d, NEW e, NEW S, IsFiniteSet(S), NEW i \in S,
           ButFor(e, d, S, i), NEW v
    PROVE  Tally(e, S, v) = Tally(d, S, v) - One(d[i], v) + One(e[i], v)
<1>0. PICK A : \A x : x \in A <=> x \in S /\ x # i
  <2>1. \A x : x \in S \ {i} <=> x \in S /\ x # i  OBVIOUS
  <2> QED  BY <2>1
<1>1. Tally(e, A, v) = Tally(d, A, v)
  <2>1. \A j \in A : e[j] = d[j]  BY <1>0 DEF ButFor
  <2> QED  BY <2>1, TallySame
<1>2. Tally(d, S, v) = Tally(d, A, v) + One(d[i], v)  BY <1>0, TallyWithout
<1>5. Tally(d, A, v) \in Nat
  <2>1. A \subseteq S  BY <1>0
  <2> QED  BY <2>1, PartSize, TallyNat
<1>3. Tally(e, S, v) = Tally(e, A, v) + One(e[i], v)  BY <1>0, TallyWithout
<1>4. One(d[i], v) \in Int /\ One(e[i], v) \in Int  BY DEF One
<1> QED  BY <1>1, <1>2, <1>3, <1>4, <1>5

\* swap() exchanges two tiles of a hand.
LEMMA SwapTally ==
    ASSUME NEW d \in [Slots -> Entry], NEW S, IsFiniteSet(S), S \subseteq Slots,
           NEW i \in S, NEW j \in S, NEW v
    PROVE  Tally(swap(d, i, j), S, v) = Tally(d, S, v)
<1>1. PICK a : a = d[i]  OBVIOUS
<1>2. PICK b : b = d[j]  OBVIOUS
<1>3. a \in Entry /\ b \in Entry  BY <1>1, <1>2
<1>4. PICK e \in [Slots -> Entry] : e = [d EXCEPT ![i] = b]  BY <1>3
<1>5. PICK f : f = swap(d, i, j)  OBVIOUS
<1>6. /\ e[i] = b /\ \A m \in S \ {i} : e[m] = d[m]
      /\ f[j] = a /\ \A m \in S \ {j} : f[m] = e[m]
    BY <1>1, <1>2, <1>4, <1>5 DEF swap
<1>7. /\ Tally(e, S, v) = Tally(d, S, v) - One(d[i], v) + One(e[i], v)
      /\ Tally(f, S, v) = Tally(e, S, v) - One(e[j], v) + One(f[j], v)
  <2>1. ButFor(e, d, S, i) /\ ButFor(f, e, S, j)  BY <1>6 DEF ButFor
  <2> QED  BY <2>1, TallyPut
<1>8. e[j] = b  BY <1>2, <1>4
<1>9. Tally(d, S, v) \in Int /\ One(a, v) \in Int /\ One(b, v) \in Int
    BY TallyNat DEF One
<1> QED  BY <1>1, <1>5, <1>6, <1>7, <1>8, <1>9

\* The slots of a hand.
LEMMA SlotsFinite == IsFiniteSet(Slots) /\ \A S \in SUBSET Slots : IsFiniteSet(S)
<1>1. 0 \in Int /\ HandSize \in Int  BY HandSizeAssumption
<1>2. IsFiniteSet(Slots)  BY <1>1, FS_Interval DEF Slots
<1> QED  BY <1>2, FS_Subset

\* decks_quick_sort rearranges the hand.
LEMMA SortTally ==
    ASSUME NEW d \in [Slots -> Entry], NEW k \in -1..HandSize,
           NEW S, S \subseteq Slots, 0..k \subseteq S, NEW v \in Entry
    PROVE  Tally(decks_quick_sort(d, k), S, v) = Tally(d, S, v)
<1> USE HandSizeAssumption
<1>1. PICK e : e = decks_quick_sort(d, k)  OBVIOUS
<1>2. PICK A : A = 0..k  OBVIOUS
<1>3. PICK B : B = S \ A  OBVIOUS
<1>4. IsFiniteSet(A) /\ IsFiniteSet(B)
      /\ (\A x : x \in S <=> x \in A \/ x \in B) /\ \A x : ~(x \in A /\ x \in B)
  <2>1. A \in SUBSET Slots /\ B \in SUBSET Slots  BY <1>2, <1>3
  <2> QED  BY <1>2, <1>3, <2>1, SlotsFinite
<1>5. Tally(e, A, v) = Tally(d, A, v)
  <2>1. PICK n \in Nat : n = k + 1  OBVIOUS
  <2>2. \A x : x \in A <=> x \in Nat /\ x < n  BY <1>2, <2>1
  <2>3. n = Cardinality(A)
    <3>1. A = 0..(n - 1)  BY <1>2, <2>1
    <3> QED  BY <3>1, SlotRange
  <2>4. \A j \in A : d[j] \in 0..58  BY <1>2, <1>4, EntryBound
  <2>5. \A i \in A : e[i] = Nth(d, A, i)
    <3>1. \A i \in 0..k : i \in Slots /\ i <= k  OBVIOUS
    <3> QED  BY <1>1, <1>2, <2>1, <3>1 DEF decks_quick_sort
  <2>6. v \in 0..58  BY EntryBound
  <2> QED  BY <1>4, <2>2, <2>3, <2>4, <2>5, <2>6, NthTally
<1>6. Tally(e, B, v) = Tally(d, B, v)
  <2>1. \A i \in B : i \in Slots /\ i > k  BY <1>2, <1>3 DEF Slots
  <2>2. \A i \in B : e[i] = d[i]  BY <1>1, <2>1, SortMembers
  <2> QED  BY <2>2, TallySame
<1>7. Tally(e, S, v) = Tally(e, A, v) + Tally(e, B, v)  BY <1>4, TallyParts
<1>8. Tally(d, S, v) = Tally(d, A, v) + Tally(d, B, v)  BY <1>4, TallyParts
<1> QED  BY <1>1, <1>5, <1>6, <1>7, <1>8

\* It puts the first slots in order.
LEMMA SortOrdered ==
    ASSUME NEW d \in [Slots -> Entry], NEW k \in -1..HandSize,
           NEW i \in 0..k, NEW j \in 0..k, i <= j
    PROVE  decks_quick_sort(d, k)[i] <= decks_quick_sort(d, k)[j]
<1> USE HandSizeAssumption
<1>1. PICK A : A = 0..k  OBVIOUS
<1>2. IsFiniteSet(A) /\ Cardinality(A) = k + 1
  <2>1. k + 1 \in Nat /\ (k + 1) - 1 = k  OBVIOUS
  <2> QED  BY <1>1, <2>1, SlotRange
<1>3. \A m \in A : d[m] \in 0..58
  <2>1. A \subseteq Slots  BY <1>1 DEF Slots
  <2> QED  BY <2>1, EntryBound
<1>4. i \in Nat /\ j \in Nat /\ j < Cardinality(A)  BY <1>2
<1>5. Nth(d, A, i) <= Nth(d, A, j)  BY <1>2, <1>3, <1>4, NthOrdered
<1>6. i \in Slots /\ j \in Slots /\ i <= k /\ j <= k  BY DEF Slots
<1> QED  BY <1>1, <1>5, <1>6 DEF decks_quick_sort

\* A claim that counts enough tiles of its kind empties exactly as many
\* slots as it needs.
LEMMA FirstExactly ==
    ASSUME NEW d, NEW n \in Nat, NEW t, NEW need \in Nat, Count(d, n, t) >= need,
           NEW gone, gone = FirstSlots(d, n, t, need)
    PROVE  Cardinality(gone) = need /\ IsFiniteSet(gone)
<1>1. /\ IsFiniteSet(gone) /\ Cardinality(gone) \in Nat /\ Cardinality(gone) <= need
    BY FirstMatches
<1>2. PICK all : all = {j \in 0..(n - 1) : d[j] = t}  OBVIOUS
<1>3. gone \subseteq all /\ Count(d, n, t) = Cardinality(all)
    BY <1>2 DEF FirstSlots, Count
<1>4. CASE all \subseteq gone
  <2>1. all = gone  BY <1>3, <1>4
  <2> QED  BY <1>1, <1>3, <2>1
<1>5. CASE ~(all \subseteq gone)
  <2>1. PICK left : left = all \ gone  OBVIOUS
  <2>2. left \in SUBSET Nat /\ left # {}  BY <1>2, <1>5, <2>1
  <2>3. PICK u \in left : \A y \in left : u <= y  BY <2>2, MinExists
  <2>4. u \in 0..(n - 1) /\ d[u] = t /\ u \notin gone  BY <1>2, <2>1, <2>3
  <2>5. Count(d, u, t) \in Nat /\ ~(Count(d, u, t) < need)
    <3>1. u \in Nat  BY <2>4
    <3>2. ~(Count(d, u, t) < need)  BY <2>4 DEF FirstSlots
    <3> QED  BY <3>1, <3>2, CountBound
  <2>6. PICK low : low = {j \in 0..(u - 1) : d[j] = t}  OBVIOUS
  <2>7. low \subseteq gone
    <3>1. SUFFICES ASSUME NEW j \in low, j \notin gone PROVE FALSE  OBVIOUS
    <3>2. j \in 0..(u - 1) /\ d[j] = t  BY <2>6
    <3>3. j \in left  BY <1>2, <2>1, <2>4, <3>1, <3>2
    <3>4. u <= j  BY <2>3, <3>3
    <3> QED  BY <2>4, <3>2, <3>4
  <2>8. Cardinality(low) <= Cardinality(gone)  BY <1>1, <2>7, PartSize
  <2>9. Cardinality(low) = Count(d, u, t)  BY <2>6 DEF Count
  <2> QED  BY <1>1, <2>5, <2>8, <2>9
<1> QED  BY <1>1, <1>4, <1>5

\* What Remove leaves where: the rest in order, then as many empty slots as
\* it took tiles, then what was above.
LEMMA RemoveSlots ==
    ASSUME NEW d \in [Slots -> Entry], NEW n \in 0..HandSize, NEW t, NEW need \in 0..n,
           Count(d, n, t) >= need
    PROVE  \E R : /\ R \subseteq 0..(n - 1) /\ IsFiniteSet(R) /\ Cardinality(R) = n - need
                  /\ \A j \in 0..(n - 1) : j \notin R => d[j] = t
                  /\ \A i \in 0..(n - need - 1) : Remove(d, n, t, need)[i] = Nth(d, R, i)
<1> USE HandSizeAssumption
<1>1. PICK gone : gone = FirstSlots(d, n, t, need)  OBVIOUS
<1>2. n \in Nat /\ need \in Nat  OBVIOUS
<1>3. Cardinality(gone) = need /\ IsFiniteSet(gone)  BY <1>1, <1>2, FirstExactly
<1>4. PICK R : R = (0..(n - 1)) \ gone  OBVIOUS
<1>5. gone \subseteq 0..(n - 1) /\ \A j \in gone : d[j] = t  BY <1>1 DEF FirstSlots
<1>6. R \subseteq 0..(n - 1) /\ \A j \in 0..(n - 1) : j \notin R => d[j] = t
    BY <1>4, <1>5
<1>7. IsFiniteSet(R) /\ Cardinality(R) = n - need
  <2>1. PICK A : A = 0..(n - 1)  OBVIOUS
  <2>2. IsFiniteSet(A) /\ Cardinality(A) = n  BY <1>2, <2>1, SlotRange
  <2>3. IsFiniteSet(R)  BY <1>6, <2>1, <2>2, PartSize
  <2>4. R \cap gone = {} /\ A = R \cup gone  BY <1>4, <1>5, <2>1
  <2>5. Cardinality(A) = Cardinality(R) + Cardinality(gone) /\ Cardinality(R) \in Nat
      BY <1>3, <2>3, <2>4, TwoParts
  <2> QED  BY <1>3, <2>2, <2>3, <2>5
<1>8. \A i \in 0..(n - need - 1) : Remove(d, n, t, need)[i] = Nth(d, R, i)
  <2>1. \A i \in 0..(n - need - 1) : i \in Slots /\ i < n - need  BY DEF Slots
  <2> QED  BY <1>1, <1>4, <2>1 DEF Remove
<1> QED  BY <1>6, <1>7, <1>8

\* The slots above the rest.
LEMMA RemoveAbove ==
    ASSUME NEW d \in [Slots -> Entry], NEW n \in 0..HandSize, NEW t, NEW need \in 0..n
    PROVE  /\ \A i \in (n - need)..(n - 1) : Remove(d, n, t, need)[i] = Null
           /\ \A i \in n..HandSize : Remove(d, n, t, need)[i] = d[i]
<1> USE HandSizeAssumption
<1>1. \A i \in (n - need)..(n - 1) : i \in Slots /\ ~(i < n - need) /\ i < n  BY DEF Slots
<1>2. \A i \in n..HandSize : i \in Slots /\ ~(i < n - need) /\ ~(i < n)  BY DEF Slots
<1> QED  BY <1>1, <1>2 DEF Remove

\* Remove leaves the rest in order.
LEMMA RemoveOrdered ==
    ASSUME NEW d \in [Slots -> Entry], NEW n \in 0..HandSize, NEW t, NEW need \in 0..n,
           Count(d, n, t) >= need,
           NEW i \in 0..(n - need - 1), NEW j \in 0..(n - need - 1), i <= j
    PROVE  Remove(d, n, t, need)[i] <= Remove(d, n, t, need)[j]
<1> USE HandSizeAssumption
<1>1. PICK R : /\ R \subseteq 0..(n - 1) /\ IsFiniteSet(R) /\ Cardinality(R) = n - need
               /\ \A m \in 0..(n - need - 1) : Remove(d, n, t, need)[m] = Nth(d, R, m)
    BY RemoveSlots
<1>2. R \subseteq Slots  BY <1>1 DEF Slots
<1>3. \A m \in R : d[m] \in 0..58  BY <1>2, EntryBound
<1>4. i \in Nat /\ j \in Nat /\ j < Cardinality(R)  BY <1>1
<1>5. Nth(d, R, i) <= Nth(d, R, j)  BY <1>1, <1>3, <1>4, NthOrdered
<1> QED  BY <1>1, <1>5

\* Remove takes need tiles of kind t out of the hand and no other.
LEMMA RemoveTally ==
    ASSUME NEW d \in [Slots -> Entry], NEW n \in 0..HandSize, NEW t, NEW need \in 0..n,
           Count(d, n, t) >= need,
           NEW S, S \subseteq Slots, 0..(n - 1) \subseteq S, NEW v \in Tile
    PROVE  Tally(Remove(d, n, t, need), S, v)
             = Tally(d, S, v) - (IF v = t THEN need ELSE 0)
<1> USE HandSizeAssumption
<1>1. PICK e : e = Remove(d, n, t, need)  OBVIOUS
<1>2. PICK R : /\ R \subseteq 0..(n - 1) /\ IsFiniteSet(R) /\ Cardinality(R) = n - need
               /\ \A j \in 0..(n - 1) : j \notin R => d[j] = t
               /\ \A m \in 0..(n - need - 1) : e[m] = Nth(d, R, m)
    BY <1>1, RemoveSlots
<1>3. PICK G : G = (0..(n - 1)) \ R  OBVIOUS
<1>4. PICK A : A = 0..(n - 1)  OBVIOUS
<1>5. PICK B : B = S \ A  OBVIOUS
<1>6. PICK Q : Q = 0..(n - need - 1)  OBVIOUS
<1>7. PICK E : E = (n - need)..(n - 1)  OBVIOUS
<1>8. IsFiniteSet(A) /\ IsFiniteSet(B) /\ IsFiniteSet(G) /\ IsFiniteSet(Q) /\ IsFiniteSet(E)
  <2>1. A \in SUBSET Slots /\ B \in SUBSET Slots /\ G \in SUBSET Slots
        /\ Q \in SUBSET Slots /\ E \in SUBSET Slots
      BY <1>3, <1>4, <1>5, <1>6, <1>7 DEF Slots
  <2> QED  BY <2>1, SlotsFinite
<1>9. /\ \A x : x \in S <=> x \in A \/ x \in B
      /\ \A x : ~(x \in A /\ x \in B)
    BY <1>4, <1>5
<1>10. /\ \A x : x \in A <=> x \in R \/ x \in G
       /\ \A x : ~(x \in R /\ x \in G)
    BY <1>2, <1>3, <1>4
<1>11. /\ \A x : x \in A <=> x \in Q \/ x \in E
       /\ \A x : ~(x \in Q /\ x \in E)
    BY <1>4, <1>6, <1>7
<1>12. Tally(e, B, v) = Tally(d, B, v)
  <2>1. \A i \in B : i \in n..HandSize  BY <1>4, <1>5 DEF Slots
  <2>2. \A i \in B : e[i] = d[i]  BY <1>1, <2>1, RemoveAbove
  <2> QED  BY <2>2, TallySame
<1>13. Tally(e, E, v) = 0
  <2>1. Null # v  BY DEF Tile, Playable, Suited, DAZI, FLOWER, Null
  <2>2. \A i \in E : e[i] # v  BY <1>1, <1>7, <2>1, RemoveAbove
  <2> QED  BY <1>8, <2>2, TallyZero
<1>14. Tally(e, Q, v) = Tally(d, R, v)
  <2>1. PICK m \in Nat : m = n - need  OBVIOUS
  <2>2. \A x : x \in Q <=> x \in Nat /\ x < m  BY <1>6, <2>1
  <2>3. R \subseteq Slots  BY <1>2 DEF Slots
  <2>4. \A j \in R : d[j] \in 0..58  BY <2>3, EntryBound
  <2>5. m = Cardinality(R) /\ v \in 0..58  BY <1>2, <2>1, EntryBound DEF Entry
  <2>6. \A i \in Q : e[i] = Nth(d, R, i)  BY <1>2, <1>6
  <2>7. IsFiniteSet(R)  BY <1>2
  <2> QED  BY <2>2, <2>4, <2>5, <2>6, <2>7, NthTally
<1>15. Cardinality(G) = need
  <2>1. Cardinality(A) = n  BY <1>4, SlotRange
  <2>2. R \cap G = {} /\ A = R \cup G  BY <1>10
  <2>3. Cardinality(A) = Cardinality(R) + Cardinality(G) /\ Cardinality(G) \in Nat
      BY <1>2, <1>8, <2>2, TwoParts
  <2> QED  BY <1>2, <2>1, <2>3
<1>16. Tally(d, G, v) = IF v = t THEN need ELSE 0
  <2>1. \A j \in G : d[j] = t  BY <1>2, <1>3
  <2>2. CASE v = t
    <3>1. {j \in G : d[j] = v} = G  BY <2>1, <2>2
    <3> QED  BY <1>15, <2>2, <3>1 DEF Tally
  <2>3. CASE v # t
    <3>1. \A j \in G : d[j] # v  BY <2>1, <2>3
    <3> QED  BY <1>8, <2>3, <3>1, TallyZero
  <2> QED  BY <2>2, <2>3
<1>17. /\ Tally(e, S, v) = Tally(e, A, v) + Tally(e, B, v)
       /\ Tally(d, S, v) = Tally(d, A, v) + Tally(d, B, v)
    BY <1>8, <1>9, TallyParts
<1>18. Tally(e, A, v) = Tally(e, Q, v) + Tally(e, E, v)  BY <1>8, <1>11, TallyParts
<1>19. Tally(d, A, v) = Tally(d, R, v) + Tally(d, G, v)  BY <1>2, <1>8, <1>10, TallyParts
<1>20. Tally(d, R, v) \in Int /\ Tally(d, B, v) \in Int /\ Tally(d, G, v) \in Int
    BY <1>2, <1>8, TallyNat
<1>21. Tally(e, S, v) = Tally(d, S, v) - Tally(d, G, v)
    BY <1>12, <1>13, <1>14, <1>17, <1>18, <1>19, <1>20
<1> QED  BY <1>1, <1>16, <1>21

\* A tile among the slots that are sorted is still among them afterwards.
LEMMA SortCovers ==
    ASSUME NEW d \in [Slots -> Entry], NEW k \in -1..HandSize, NEW j \in 0..k
    PROVE  \E i \in 0..k : decks_quick_sort(d, k)[i] = d[j]
<1> USE HandSizeAssumption
<1>1. PICK e : e = decks_quick_sort(d, k)  OBVIOUS
<1>2. PICK A : A = 0..k  OBVIOUS
<1>3. A \in SUBSET Slots /\ 0..k \subseteq A /\ j \in A  BY <1>2 DEF Slots
<1>4. IsFiniteSet(A)  BY <1>3, SlotsFinite
<1>5. PICK v \in Entry : v = d[j]  BY <1>3
<1>6. Tally(e, A, v) = Tally(d, A, v)  BY <1>1, <1>3, SortTally
<1>7. Tally(d, A, v) # 0  BY <1>3, <1>4, <1>5, TallyZero
<1>8. ~ \A i \in A : e[i] # v  BY <1>4, <1>6, <1>7, TallyZero
<1> QED  BY <1>1, <1>2, <1>5, <1>8

\* A rearrangement: as many of each kind before as after.
LEMMA TallyMoved ==
    ASSUME NEW S, IsFiniteSet(S), NEW T, NEW f \in [S -> T],
           \A i, j \in S : f[i] = f[j] => i = j,
           \A k \in T : \E i \in S : f[i] = k,
           NEW e, NEW w, \A i \in S : e[i] = w[f[i]], NEW v
    PROVE  Tally(e, S, v) = Tally(w, T, v)
<1> DEFINE A == {i \in S : e[i] = v}
           B == {k \in T : w[k] = v}
           g == [i \in A |-> f[i]]
<1>1. IsFiniteSet(A)  BY PartSize
<1>2. g \in [A -> B]  OBVIOUS
<1>3. \A i, j \in A : g[i] = g[j] => i = j  OBVIOUS
<1>4. \A k \in B : \E i \in A : g[i] = k  OBVIOUS
<1> HIDE DEF A, B, g
<1>5. g \in Bijection(A, B)
    BY <1>2, <1>3, <1>4 DEF Bijection, Injection, Surjection, IsInjective
<1>6. ExistsBijection(A, B)  BY <1>5 DEF ExistsBijection
<1>7. Cardinality(A) = Cardinality(B)  BY <1>1, <1>6, FS_Bijection
<1> QED  BY <1>7 DEF A, B, Tally

\* The numbers in F, taken in order, get the entries of w from b on.
Ranked(e, w, F, b) ==
    \A i \in F : i \in Nat /\ e[i] = w[b + Cardinality({j \in F : j < i})]

\* Each gets its own.
LEMMA RankTally ==
    ASSUME NEW F, IsFiniteSet(F), NEW b \in Nat, NEW e, NEW w, Ranked(e, w, F, b), NEW v
    PROVE  Tally(e, F, v) = Tally(w, b..(b + Cardinality(F) - 1), v)
<1>0. PICK m \in Nat : m = Cardinality(F)  BY FS_CardinalityType
<1> F \subseteq Nat  BY DEF Ranked
<1> DEFINE T == b..(b + m - 1)
           Under(i) == {j \in F : j < i}
           r == [i \in F |-> b + Cardinality(Under(i))]
<1>1. ASSUME NEW i \in F
      PROVE  IsFiniteSet(Under(i)) /\ Cardinality(Under(i)) \in Nat /\ Cardinality(Under(i)) < m
  <2>1. Under(i) \subseteq F \ {i}  OBVIOUS
  <2>2. IsFiniteSet(F \ {i}) /\ Cardinality(F \ {i}) = m - 1  BY <1>0, FS_RemoveElement
  <2> HIDE DEF Under
  <2>3. /\ IsFiniteSet(Under(i)) /\ Cardinality(Under(i)) \in Nat
        /\ Cardinality(Under(i)) <= m - 1
      BY <2>1, <2>2, PartSize
  <2> QED  BY <2>3
<1>2. ASSUME NEW i \in F, NEW k \in F, i < k
      PROVE  Cardinality(Under(i)) < Cardinality(Under(k))
  <2>0. \A j \in F : j \in Nat  OBVIOUS
  <2>1. Under(i) \subseteq Under(k) \ {i} /\ i \in Under(k)
    <3>1. i \in Nat /\ k \in Nat /\ i < k  BY <1>2
    <3>2. \A j \in F : j < i => j \in Nat /\ j < k /\ j # i  BY <2>0, <3>1
    <3> QED  BY <1>2, <3>2
  <2>2. IsFiniteSet(Under(k)) /\ Cardinality(Under(k)) \in Nat  BY <1>1
  <2> HIDE DEF Under
  <2>3. /\ IsFiniteSet(Under(k) \ {i})
        /\ Cardinality(Under(k) \ {i}) = Cardinality(Under(k)) - 1
      BY <2>1, <2>2, FS_RemoveElement
  <2>4. /\ Cardinality(Under(i)) \in Nat
        /\ Cardinality(Under(i)) <= Cardinality(Under(k)) - 1
      BY <2>1, <2>3, PartSize
  <2> QED  BY <2>2, <2>4
<1> HIDE DEF Under
<1>3. r \in [F -> T]  BY <1>1
<1>4. ASSUME NEW i \in F, NEW k \in F, r[i] = r[k] PROVE i = k
  <2>1. Cardinality(Under(i)) = Cardinality(Under(k))  BY <1>1, <1>4
  <2>2. i \in Nat /\ k \in Nat  OBVIOUS
  <2>3. ~(i < k)  BY <1>1, <1>2, <2>1
  <2>4. ~(k < i)  BY <1>1, <1>2, <2>1
  <2> QED  BY <2>2, <2>3, <2>4
<1>5. IsFiniteSet(T) /\ Cardinality(T) = m
  <2>1. T = b..(b + m - 1)  OBVIOUS
  <2>2. PICK c \in Int : c = b + m - 1  OBVIOUS
  <2>3. IsFiniteSet(b..c) /\ Cardinality(b..c) = IF b > c THEN 0 ELSE c - b + 1
    <3>1. b \in Int  OBVIOUS
    <3> QED  BY <3>1, FS_Interval
  <2> QED  BY <2>1, <2>2, <2>3
<1>6. \A i \in F : e[i] = w[r[i]]  BY DEF Under, Ranked
<1> HIDE DEF r, T
<1>7. r \in Injection(F, T)  BY <1>3, <1>4 DEF Injection, IsInjective
<1>8. r \in Surjection(F, T)  BY <1>0, <1>5, <1>7, FS_Injection
<1>9. \A k \in T : \E i \in F : r[i] = k  BY <1>8 DEF Surjection
<1>10. \A i, j \in F : r[i] = r[j] => i = j  BY <1>4
<1>11. PICK f \in [F -> T] : f = r  BY <1>3
<1>12. \A i \in F : e[i] = w[f[i]]  BY <1>6, <1>11
<1>13. \A k \in T : \E i \in F : f[i] = k  BY <1>9, <1>11
<1>14. \A i, j \in F : f[i] = f[j] => i = j  BY <1>10, <1>11
<1>15. Tally(e, F, v) = Tally(w, T, v)
    BY ONLY IsFiniteSet(F), f \in [F -> T], <1>12, <1>13, <1>14, TallyMoved
<1> QED  BY <1>0, <1>15 DEF T

\* One entry more.
LEMMA TallyLonger ==
    ASSUME NEW d, NEW m \in Nat, NEW v
    PROVE  /\ Tally(d, 1..(m + 1), v) = Tally(d, 1..m, v) + One(d[m + 1], v)
           /\ Tally(d, 1..m, v) \in Nat
<1>1. PICK k \in Int : k = m + 1  OBVIOUS
<1>2. PICK A, B : A = 1..m /\ B = 1..k  OBVIOUS
<1>3. IsFiniteSet(B)  BY <1>2, FS_Interval
<1>4. \A x : x \in A <=> x \in B /\ x # k  BY <1>1, <1>2
<1>5. k \in B  BY <1>1, <1>2
<1>6. Tally(d, B, v) = Tally(d, A, v) + One(d[k], v) /\ Tally(d, A, v) \in Nat
    BY <1>3, <1>4, <1>5, TallyWithout
<1> QED  BY <1>1, <1>2, <1>6

-----------------------------------------------------------------------------
(* The deal, four tiles at a time                                          *)

\* The places of the wall that go to the add-th player.
Places(n, add) == {k \in 0..(4 * n - 1) : (k \div 4) % 4 = add}

\* e is the hand of n tiles that the add-th player is dealt from w.
DealtFrom(e, w, n, add) ==
    \A i \in 0..(n - 1) : e[i] = w[(i \div 4) * 16 + add * 4 + (i % 4)]

\* A hand of n tiles is dealt from the player's own places, one from each.
LEMMA DealtPlaces ==
    ASSUME NEW n \in Nat, n % 4 = 0, NEW add \in 0..3, NEW w, NEW e,
           DealtFrom(e, w, n, add), NEW v
    PROVE  Tally(e, 0..(n - 1), v) = Tally(w, Places(n, add), v)
<1> DEFINE S == 0..(n - 1)
           T == Places(n, add)
           f == [i \in S |-> (i \div 4) * 16 + add * 4 + (i % 4)]
<1>1. IsFiniteSet(S)  BY SlotRange
<1>2. PICK h \in Nat : n = 4 * h
  <2>1. n = 4 * (n \div 4) /\ n \div 4 \in Nat  OBVIOUS
  <2> QED  BY <2>1
<1>3. ASSUME NEW i \in S
      PROVE  \E a \in 0..(h - 1), c \in 0..3 : i = 4 * a + c /\ f[i] = 16 * a + 4 * add + c
  <2>1. /\ i \div 4 \in 0..(h - 1) /\ i % 4 \in 0..3 /\ i = 4 * (i \div 4) + (i % 4)
      BY <1>2
  <2>2. f[i] = 16 * (i \div 4) + 4 * add + (i % 4)  BY <2>1
  <2> QED  BY <2>1, <2>2
<1>4. f \in [S -> T]
  <2>1. SUFFICES ASSUME NEW i \in S PROVE f[i] \in T  OBVIOUS
  <2>2. PICK a \in 0..(h - 1), c \in 0..3 : i = 4 * a + c /\ f[i] = 16 * a + 4 * add + c
      BY <1>3
  <2>3. PICK k \in Int : k = 16 * a + 4 * add + c  OBVIOUS
  <2>4. k \in 0..(4 * n - 1)  BY <1>2, <2>3
  <2>5. k \div 4 = 4 * a + add  BY <2>3
  <2>6. (4 * a + add) % 4 = add  OBVIOUS
  <2> QED  BY <2>2, <2>3, <2>4, <2>5, <2>6 DEF Places
<1>5. ASSUME NEW i \in S, NEW j \in S, f[i] = f[j] PROVE i = j
  <2>1. PICK a \in 0..(h - 1), c \in 0..3 : i = 4 * a + c /\ f[i] = 16 * a + 4 * add + c
      BY <1>3
  <2>2. PICK a2 \in 0..(h - 1), c2 \in 0..3 : j = 4 * a2 + c2 /\ f[j] = 16 * a2 + 4 * add + c2
      BY <1>3
  <2>3. 16 * a + c = 16 * a2 + c2  BY <1>5, <2>1, <2>2
  <2> QED  BY <2>1, <2>2, <2>3
<1>6. ASSUME NEW k \in T PROVE \E i \in S : f[i] = k
  <2>1. k \in 0..(16 * h - 1) /\ (k \div 4) % 4 = add  BY <1>2 DEF Places
  <2>2. PICK a \in Nat, c \in 0..3 : k = 16 * a + 4 * add + c /\ a < h
    <3>1. PICK b \in Int : b = k \div 4  BY <2>1
    <3>2. k = 4 * b + (k % 4) /\ k % 4 \in 0..3 /\ b \in Nat  BY <2>1, <3>1
    <3>3. b = 4 * (b \div 4) + add /\ b \div 4 \in Nat  BY <2>1, <3>1, <3>2
    <3>4. k = 16 * (b \div 4) + 4 * add + (k % 4)  BY <3>2, <3>3
    <3>5. b \div 4 < h  BY <2>1, <3>2, <3>3, <3>4
    <3> QED  BY <3>2, <3>3, <3>4, <3>5
  <2>3. PICK i \in Int : i = 4 * a + c  OBVIOUS
  <2>4. i \in S  BY <1>2, <2>2, <2>3
  <2>5. i \div 4 = a /\ i % 4 = c  BY <2>2, <2>3
  <2>6. f[i] = k  BY <2>2, <2>4, <2>5
  <2> QED  BY <2>4, <2>6
<1>7. \A i \in S : e[i] = w[f[i]]  BY DEF DealtFrom
<1>8. \A i, j \in S : f[i] = f[j] => i = j  BY <1>5
<1>9. \A k \in T : \E i \in S : f[i] = k  BY <1>6
<1> HIDE DEF f, S, T
<1>10. Tally(e, S, v) = Tally(w, T, v)
  <2>1. PICK g \in [S -> T] : g = f  BY <1>4
  <2>2. \A i \in S : e[i] = w[g[i]]  BY <1>7, <2>1
  <2>3. \A k \in T : \E i \in S : g[i] = k  BY <1>9, <2>1
  <2>4. \A i, j \in S : g[i] = g[j] => i = j  BY <1>8, <2>1
  <2> QED  BY ONLY <1>1, g \in [S -> T], <2>2, <2>3, <2>4, TallyMoved
<1> QED  BY <1>10 DEF S, T

\* The four players' places are the first 4 * n of the wall.
LEMMA PlacesPart ==
    ASSUME NEW n \in Nat, NEW w, NEW v
    PROVE  /\ Tally(w, 0..(4 * n - 1), v)
                = Tally(w, Places(n, 0), v) + Tally(w, Places(n, 1), v)
                  + Tally(w, Places(n, 2), v) + Tally(w, Places(n, 3), v)
           /\ \A add \in 0..3 : Tally(w, Places(n, add), v) \in Nat
<1>1. PICK W : W = 0..(4 * n - 1)  OBVIOUS
<1>2. IsFiniteSet(W)
  <2>1. PICK c \in Int : c = 4 * n - 1  OBVIOUS
  <2> QED  BY <1>1, <2>1, FS_Interval
<1>3. \A add : Places(n, add) \subseteq W  BY <1>1 DEF Places
<1>4. \A add : IsFiniteSet(Places(n, add))  BY <1>2, <1>3, PartSize
<1>5. \A add : Tally(w, Places(n, add), v) \in Nat  BY <1>4, TallyNat
<1>6. \A x \in W : x \in Nat /\ (x \div 4) % 4 \in 0..3  BY <1>1
<1>7. \A x, add : x \in Places(n, add) <=> x \in W /\ (x \div 4) % 4 = add
    BY <1>1 DEF Places
<1> DEFINE C1 == {x \in W : (x \div 4) % 4 \in {0, 1}}
           C2 == {x \in W : (x \div 4) % 4 \in {2, 3}}
<1>8. Tally(w, C1, v) = Tally(w, Places(n, 0), v) + Tally(w, Places(n, 1), v)
  <2>1. \A x : x \in C1 <=> x \in Places(n, 0) \/ x \in Places(n, 1)  BY <1>7
  <2>2. \A x : ~(x \in Places(n, 0) /\ x \in Places(n, 1))  BY <1>7
  <2> HIDE DEF C1
  <2> QED  BY <1>4, <2>1, <2>2, TallyParts
<1>9. Tally(w, C2, v) = Tally(w, Places(n, 2), v) + Tally(w, Places(n, 3), v)
  <2>1. \A x : x \in C2 <=> x \in Places(n, 2) \/ x \in Places(n, 3)  BY <1>7
  <2>2. \A x : ~(x \in Places(n, 2) /\ x \in Places(n, 3))  BY <1>7
  <2> HIDE DEF C2
  <2> QED  BY <1>4, <2>1, <2>2, TallyParts
<1>10. Tally(w, W, v) = Tally(w, C1, v) + Tally(w, C2, v)
  <2>1. \A x : x \in W <=> x \in C1 \/ x \in C2  BY <1>6
  <2>2. \A x : ~(x \in C1 /\ x \in C2)  OBVIOUS
  <2>3. IsFiniteSet(C1) /\ IsFiniteSet(C2)  BY <1>2, PartSize
  <2> HIDE DEF C1, C2
  <2> QED  BY <2>1, <2>2, <2>3, TallyParts
<1> HIDE DEF C1, C2
<1> QED  BY <1>1, <1>5, <1>8, <1>9, <1>10

-----------------------------------------------------------------------------
(* The claim tests                                                         *)

\* A count of at least one comes from a slot.
LEMMA CountedSlot ==
    ASSUME NEW d, NEW n \in Nat, NEW x \in Kinds, Counts(d, n)[x] >= 1
    PROVE  \E j \in 0..(n - 1) : KindIndex(d[j]) = x
<1> DEFINE Same == {j \in 0..(n - 1) : d[j] # Null /\ KindIndex(d[j]) = x}
<1>1. Counts(d, n)[x] = Cardinality(Same)  BY DEF Counts
<1>2. Same # {}
  <2>1. SUFFICES ASSUME Same = {} PROVE FALSE  OBVIOUS
  <2>2. Cardinality(Same) = 0  BY <2>1, FS_EmptySet
  <2> HIDE DEF Same
  <2> QED  BY <1>1, <2>2
<1> QED  BY <1>2

\* KindIndex numbers the tiles of a suit in their order: a counted kind next
\* to that of a tile in the same suit belongs to the tile next to it.
LEMMA SameSuit ==
    ASSUME NEW a \in Entry, NEW t \in Entry, NEW x \in Kinds, KindIndex(a) = x,
           t # Null, t \notin DAZI, x \div 9 = KindIndex(t) \div 9
    PROVE  /\ a - t = x - KindIndex(t) /\ a \div 10 = t \div 10
           /\ t \in Suited /\ a \in Suited
<1>1. a \in 0..58 /\ t \in 0..58  BY EntryBound
<1>2. KindIndex(a) = ((a \div 10) - 1) * 9 + (a % 10) - 1
      /\ KindIndex(t) = ((t \div 10) - 1) * 9 + (t % 10) - 1
    BY DEF KindIndex
<1>3. x \in 0..33  BY DEF Kinds
<1>4. a \in Suited \/ a \in DAZI \/ a \in FLOWER \/ a = 0
    BY DEF Entry, Tile, Playable, Null
<1>5. t \in Suited \/ t \in FLOWER
    BY DEF Entry, Tile, Playable
<1>6. t \in FLOWER => KindIndex(t) \div 9 = 4  BY <1>2 DEF FLOWER
<1>7. x \div 9 \in 0..3  BY <1>3
<1>8. t \in Suited  BY <1>5, <1>6, <1>7
<1>9. KindIndex(t) \div 9 = (t \div 10) - 1 /\ KindIndex(t) \div 9 \in 0..2
    BY <1>2, <1>8 DEF Suited
<1>10. a \in Suited
  <2>1. a \in DAZI => KindIndex(a) \div 9 = 3  BY <1>2 DEF DAZI
  <2>2. a \in FLOWER => KindIndex(a) \div 9 = 4  BY <1>2 DEF FLOWER
  <2>3. a = 0 => KindIndex(a) = -10  BY <1>2
  <2> QED  BY <1>3, <1>4, <1>9, <2>1, <2>2, <2>3
<1>11. KindIndex(a) \div 9 = (a \div 10) - 1
    BY <1>2, <1>10 DEF Suited
<1>12. a \div 10 = t \div 10  BY <1>1, <1>9, <1>11
<1>13. a = 10 * (a \div 10) + (a % 10) /\ t = 10 * (t \div 10) + (t % 10)  BY <1>1
<1> QED  BY <1>1, <1>2, <1>8, <1>10, <1>12, <1>13

\* Three consecutive tiles of a suit, in whatever order, can be eaten.
LEMMA ConsecutiveEatable ==
    ASSUME NEW lo \in Nat, NEW a \in Nat, NEW b \in Nat, NEW t \in Nat,
           {a, b, t} = {lo, lo + 1, lo + 2}, lo \div 10 = (lo + 2) \div 10
    PROVE  eatable(a, b, t)
<1>1. Min({a, b, t}) \in {a, b, t} /\ \A y \in {a, b, t} : Min({a, b, t}) <= y
  <2>1. {a, b, t} \in SUBSET Nat /\ {a, b, t} # {}  OBVIOUS
  <2> QED  BY <2>1, MinExists
<1>2. Min({a, b, t}) = lo
  <2>1. PICK m : m = Min({a, b, t})  OBVIOUS
  <2>2. m \in {lo, lo + 1, lo + 2} /\ \A y \in {lo, lo + 1, lo + 2} : m <= y
      BY <1>1, <2>1
  <2> QED  BY <2>1, <2>2
<1> QED  BY <1>2 DEF eatable

\* A hand that is_eat_possible() agrees to has the two tiles.
LEMMA EatOfferChoice ==
    ASSUME NEW d, NEW n \in Nat, \A j \in 0..(n - 1) : d[j] \in Entry, NEW t \in Entry, t # Null,
           is_eat_possible(d, n, t)
    PROVE  \E e1, e2 \in 0..(n - 1) : eatable(d[e1], d[e2], t)
<1> DEFINE k == KindIndex(t)
           Has(x) == x \in Kinds /\ x \div 9 = k \div 9 /\ Counts(d, n)[x] >= 1
<1>1. t \in 0..58 /\ t \in Nat  BY EntryBound
<1>2. k \in Int  BY <1>1 DEF KindIndex
<1>3. t \notin DAZI  BY DEF is_eat_possible
<1>4. ASSUME NEW x, Has(x)
      PROVE  \E j \in 0..(n - 1) : /\ d[j] - t = x - k /\ d[j] \div 10 = t \div 10
                                   /\ d[j] \in Nat
  <2>0. x \in Kinds /\ x \div 9 = k \div 9 /\ Counts(d, n)[x] >= 1 /\ n \in Nat  BY <1>4
  <2>1. PICK j \in 0..(n - 1) : KindIndex(d[j]) = x
      BY <2>0, CountedSlot
  <2>a. d[j] \in Entry  OBVIOUS
  <2>3. d[j] \in Entry /\ d[j] \in Nat
    <3>1. d[j] \in 0..58  BY <2>a, EntryBound
    <3> QED  BY <2>a, <3>1
  <2>4. d[j] - t = x - k /\ d[j] \div 10 = t \div 10
      BY <1>3, <2>0, <2>1, <2>3, SameSuit
  <2> QED  BY <2>3, <2>4
<1>5. ASSUME NEW u \in {1, -2}, Has(k + u), Has(k + u + 1)
      PROVE  \E e1, e2 \in 0..(n - 1) : eatable(d[e1], d[e2], t)
  <2>1. PICK e1 \in 0..(n - 1) : d[e1] - t = (k + u) - k /\ d[e1] \div 10 = t \div 10
                                 /\ d[e1] \in Nat
      BY <1>4, <1>5
  <2>2. PICK e2 \in 0..(n - 1) : d[e2] - t = (k + u + 1) - k /\ d[e2] \div 10 = t \div 10
                                 /\ d[e2] \in Nat
      BY <1>4, <1>5
  <2> HIDE DEF k, Has
  <2>3. d[e1] = t + u /\ d[e2] = t + u + 1  BY <1>1, <1>2, <2>1, <2>2
  <2>4. CASE u = 1
    <3>1. {d[e1], d[e2], t} = {t, t + 1, t + 2} /\ t \div 10 = (t + 2) \div 10
        BY <1>1, <2>2, <2>3, <2>4
    <3> QED  BY <1>1, <2>1, <2>2, <3>1, ConsecutiveEatable
  <2>5. CASE u = -2
    <3>1. PICK lo \in Nat : lo = d[e1]  BY <2>1
    <3>2. {d[e1], d[e2], t} = {lo, lo + 1, lo + 2} /\ lo \div 10 = (lo + 2) \div 10
        BY <1>1, <2>1, <2>3, <2>5, <3>1
    <3> QED  BY <1>1, <2>1, <2>2, <3>1, <3>2, ConsecutiveEatable
  <2> QED  BY <2>4, <2>5
<1>6. ASSUME Has(k + 1), Has(k - 1)
      PROVE  \E e1, e2 \in 0..(n - 1) : eatable(d[e1], d[e2], t)
  <2>1. PICK e1 \in 0..(n - 1) : d[e1] - t = (k + 1) - k /\ d[e1] \div 10 = t \div 10
                                 /\ d[e1] \in Nat
      BY <1>4, <1>6
  <2>2. PICK e2 \in 0..(n - 1) : d[e2] - t = (k - 1) - k /\ d[e2] \div 10 = t \div 10
                                 /\ d[e2] \in Nat
      BY <1>4, <1>6
  <2> HIDE DEF k, Has
  <2>3. PICK lo \in Nat : lo = d[e2]  BY <2>2
  <2>4. {d[e1], d[e2], t} = {lo, lo + 1, lo + 2} /\ lo \div 10 = (lo + 2) \div 10
      BY <1>1, <1>2, <2>1, <2>2, <2>3
  <2> QED  BY <1>1, <2>1, <2>2, <2>4, ConsecutiveEatable
<1>7. \/ Has(k + 1) /\ Has(k + 2)
      \/ Has(k + 1) /\ Has(k - 1)
      \/ Has(k - 2) /\ Has(k - 1)
    BY DEF is_eat_possible
<1>8. CASE Has(k + 1) /\ Has(k + 2)
  <2>1. k + 2 = k + 1 + 1  BY <1>2
  <2>2. Has(k + 1) /\ Has(k + 1 + 1)  BY <1>8, <2>1
  <2> QED  BY <1>5, <2>2
<1>9. CASE Has(k - 2) /\ Has(k - 1)
  <2>1. k - 2 = k + (-2) /\ k - 1 = k + (-2) + 1  BY <1>2
  <2>2. Has(k + (-2)) /\ Has(k + (-2) + 1)  BY <1>9, <2>1
  <2> QED  BY <1>5, <2>2
<1> QED  BY <1>6, <1>7, <1>8, <1>9
=============================================================================
