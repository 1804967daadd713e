--------------------------- MODULE HuCheckProofs ---------------------------
(***************************************************************************)
(* The winning-hand and claim tests decide what they are meant to decide,  *)
(* for hands of every length.                                              *)
(***************************************************************************)
EXTENDS MCHuCheck, TilesProofs

\* One call of hu_recursive_check(), with the calls it makes answered by h.
OneCall(h, call) ==
    \/ call[2] = 0
    \/ \E i \in Kinds :
          \/ /\ HasChow(call[1], i)
             /\ h[<<[call[1] EXCEPT ![i] = @ - 1, ![i + 1] = @ - 1, ![i + 2] = @ - 1],
                    call[2] - 3>>]
          \/ /\ call[1][i] >= 3
             /\ h[<<[call[1] EXCEPT ![i] = @ - 3], call[2] - 3>>]

\* If some function answers every call the way the calls it makes are
\* answered, then hu_recursive_check() is one.
LEMMA CheckUnfolds ==
    ASSUME NEW g, g = [call \in Calls |-> OneCall(g, call)]
    PROVE  hu_recursive_check = [call \in Calls |-> OneCall(hu_recursive_check, call)]
<1>1. hu_recursive_check = CHOOSE h : h = [call \in Calls |-> OneCall(h, call)]
    BY DEF hu_recursive_check, OneCall
<1> QED  BY <1>1

-----------------------------------------------------------------------------
(* Tiles and their kinds                                                   *)

\* The tile of kind x.
TileAt(x) == x + 11 + x \div 9

\* KindIndex() numbers the tiles without gaps.
LEMMA KindsOfTiles ==
    /\ \A t \in Playable : /\ KindIndex(t) \in Kinds /\ TileAt(KindIndex(t)) = t
                           /\ KindIndex(t) = t - 10 - t \div 10
    /\ \A x \in Kinds : TileAt(x) \in Playable /\ KindIndex(TileAt(x)) = x
<1>1. ASSUME NEW t \in Playable
      PROVE  /\ KindIndex(t) \in Kinds /\ TileAt(KindIndex(t)) = t
             /\ KindIndex(t) = t - 10 - t \div 10
  <2>1. t \in 11..19 \/ t \in 21..29 \/ t \in 31..39 \/ t \in 41..47
      BY DEF Playable, Suited, DAZI
  <2>2. \/ t \in 11..19 /\ t \div 10 = 1 /\ t % 10 = t - 10
        \/ t \in 21..29 /\ t \div 10 = 2 /\ t % 10 = t - 20
        \/ t \in 31..39 /\ t \div 10 = 3 /\ t % 10 = t - 30
        \/ t \in 41..47 /\ t \div 10 = 4 /\ t % 10 = t - 40
      BY <2>1
  <2>3. /\ KindIndex(t) = t - 10 - t \div 10 /\ KindIndex(t) \in 0..33
        /\ KindIndex(t) \div 9 = t \div 10 - 1
      BY <2>2 DEF KindIndex
  <2> QED  BY <2>2, <2>3 DEF TileAt, Kinds
<1>2. ASSUME NEW x \in Kinds
      PROVE  TileAt(x) \in Playable /\ KindIndex(TileAt(x)) = x
  <2>1. \/ x \in 0..8 /\ x \div 9 = 0
        \/ x \in 9..17 /\ x \div 9 = 1
        \/ x \in 18..26 /\ x \div 9 = 2
        \/ x \in 27..33 /\ x \div 9 = 3
      BY DEF Kinds
  <2>2. TileAt(x) \in Playable /\ TileAt(x) - 10 - TileAt(x) \div 10 = x
      BY <2>1 DEF TileAt, Playable, Suited, DAZI
  <2> QED  BY <1>1, <2>2
<1> QED  BY <1>1, <1>2

\* Tiles are natural numbers.
LEMMA PlayableNat == \A t \in Playable : t \in Nat /\ t \in 11..47
    BY DEF Playable, Suited, DAZI

\* The runs of three that the test looks for are those of three consecutive
\* tiles of a suit.
LEMMA ChowTilesOf ==
    ASSUME NEW t \in Playable, {t, t + 1, t + 2} \subseteq Suited
    PROVE  /\ ChowAt(KindIndex(t))
           /\ KindIndex(t + 1) = KindIndex(t) + 1 /\ KindIndex(t + 2) = KindIndex(t) + 2
<1>1. \/ t \in 11..17 /\ t \div 10 = 1 /\ (t + 1) \div 10 = 1 /\ (t + 2) \div 10 = 1
      \/ t \in 21..27 /\ t \div 10 = 2 /\ (t + 1) \div 10 = 2 /\ (t + 2) \div 10 = 2
      \/ t \in 31..37 /\ t \div 10 = 3 /\ (t + 1) \div 10 = 3 /\ (t + 2) \div 10 = 3
    BY DEF Suited
<1>2. t + 1 \in Playable /\ t + 2 \in Playable  BY DEF Playable
<1>3. /\ KindIndex(t) = t - 10 - t \div 10
      /\ KindIndex(t + 1) = (t + 1) - 10 - (t + 1) \div 10
      /\ KindIndex(t + 2) = (t + 2) - 10 - (t + 2) \div 10
    BY <1>2, KindsOfTiles
<1>4. \/ t \in 11..17 /\ KindIndex(t) = t - 11 /\ KindIndex(t) \in 0..6
      \/ t \in 21..27 /\ KindIndex(t) = t - 12 /\ KindIndex(t) \in 9..15
      \/ t \in 31..37 /\ KindIndex(t) = t - 13 /\ KindIndex(t) \in 18..24
    BY <1>1, <1>3
<1> QED  BY <1>1, <1>3, <1>4 DEF ChowAt

\* And the other way round.
LEMMA ChowKindsOf ==
    ASSUME NEW x \in Kinds, ChowAt(x)
    PROVE  /\ {TileAt(x), TileAt(x) + 1, TileAt(x) + 2} \subseteq Suited
           /\ x + 1 \in Kinds /\ x + 2 \in Kinds
<1>1. \/ x \in 0..6 /\ x \div 9 = 0
      \/ x \in 9..15 /\ x \div 9 = 1
      \/ x \in 18..24 /\ x \div 9 = 2
    BY DEF ChowAt, Kinds
<1> QED  BY <1>1 DEF TileAt, Suited, Kinds

-----------------------------------------------------------------------------
(* Groups                                                                  *)

\* All the groups there are.
Every == Groups(Playable)

\* How many tiles t, and how many tiles of kind x, a group has.
Of(g, t) == One(g[1], t) + One(g[2], t) + One(g[3], t)
OfKind(g, x) == One(KindIndex(g[1]), x) + One(KindIndex(g[2]), x) + One(KindIndex(g[3]), x)

\* A group is a triplet or three consecutive tiles of a suit.
LEMMA TwoSorts ==
    ASSUME NEW g
    PROVE  g \in Every <=>
              \/ \E t \in Playable : g = <<t, t, t>>
              \/ \E t \in Playable : {t, t + 1, t + 2} \subseteq Suited /\ g = <<t, t + 1, t + 2>>
    BY DEF Every, Groups

\* The three tiles of a group.
LEMMA GroupTiles ==
    ASSUME NEW g \in Every
    PROVE  g[1] \in Playable /\ g[2] \in Playable /\ g[3] \in Playable
<1>1. CASE \E t \in Playable : g = <<t, t, t>>  BY <1>1
<1>2. CASE \E t \in Playable : {t, t + 1, t + 2} \subseteq Suited /\ g = <<t, t + 1, t + 2>>
  <2>1. Suited \subseteq Playable  BY DEF Playable
  <2> QED  BY <1>2, <2>1
<1> QED  BY <1>1, <1>2, TwoSorts

\* Counting by kinds and by tiles is the same.
LEMMA OfKindOf ==
    ASSUME NEW g \in Every, NEW t \in Playable
    PROVE  OfKind(g, KindIndex(t)) = Of(g, t) /\ Of(g, t) \in Nat
<1>1. \A u \in Playable : One(KindIndex(u), KindIndex(t)) = One(u, t)
  <2> SUFFICES ASSUME NEW u \in Playable PROVE KindIndex(u) = KindIndex(t) <=> u = t
      BY DEF One
  <2> QED  BY KindsOfTiles
<1>2. \A a, b : One(a, b) \in {0, 1}  BY DEF One
<1>3. /\ One(KindIndex(g[1]), KindIndex(t)) = One(g[1], t)
      /\ One(KindIndex(g[2]), KindIndex(t)) = One(g[2], t)
      /\ One(KindIndex(g[3]), KindIndex(t)) = One(g[3], t)
    BY <1>1, GroupTiles
<1> QED  BY <1>2, <1>3 DEF OfKind, Of

\* The counts c without the tiles of a group, and whether c has them.
Take(c, g) == [x \in Kinds |-> c[x] - OfKind(g, x)]
Has(c, g) == \A x \in Kinds : OfKind(g, x) <= c[x]

\* What is left are counts.
LEMMA TakeType ==
    ASSUME NEW c \in [Kinds -> Nat], NEW g, Has(c, g)
    PROVE  Take(c, g) \in [Kinds -> Nat]
<1>1. \A a, b : One(a, b) \in {0, 1}  BY DEF One
<1>2. \A x \in Kinds : OfKind(g, x) \in Nat  BY <1>1 DEF OfKind
<1>3. \A x \in Kinds : c[x] - OfKind(g, x) \in Nat  BY <1>2 DEF Has
<1> QED  BY <1>3 DEF Take

\* The kinds of a group of three consecutive tiles.
LEMMA ChowOfKind ==
    ASSUME NEW t \in Playable, {t, t + 1, t + 2} \subseteq Suited, NEW x \in Kinds
    PROVE  OfKind(<<t, t + 1, t + 2>>, x)
              = IF x \in {KindIndex(t), KindIndex(t) + 1, KindIndex(t) + 2} THEN 1 ELSE 0
<1>1. PICK k : k = KindIndex(t)  OBVIOUS
<1>2. k \in Kinds /\ k \in Int  BY <1>1, KindsOfTiles DEF Kinds
<1>3. KindIndex(t + 1) = k + 1 /\ KindIndex(t + 2) = k + 2  BY <1>1, ChowTilesOf
<1>4. OfKind(<<t, t + 1, t + 2>>, x) = One(k, x) + One(k + 1, x) + One(k + 2, x)
    BY <1>1, <1>3 DEF OfKind
<1>5. x \in Int  BY DEF Kinds
<1>6. CASE x = k
  <2>1. One(k, x) = 1 /\ One(k + 1, x) = 0 /\ One(k + 2, x) = 0  BY <1>2, <1>6 DEF One
  <2> QED  BY <1>1, <1>4, <1>6, <2>1
<1>7. CASE x = k + 1
  <2>1. One(k, x) = 0 /\ One(k + 1, x) = 1 /\ One(k + 2, x) = 0  BY <1>2, <1>7 DEF One
  <2> QED  BY <1>1, <1>4, <1>7, <2>1
<1>8. CASE x = k + 2
  <2>1. One(k, x) = 0 /\ One(k + 1, x) = 0 /\ One(k + 2, x) = 1  BY <1>2, <1>8 DEF One
  <2> QED  BY <1>1, <1>4, <1>8, <2>1
<1>9. CASE x \notin {k, k + 1, k + 2}
  <2>1. One(k, x) = 0 /\ One(k + 1, x) = 0 /\ One(k + 2, x) = 0  BY <1>9 DEF One
  <2> QED  BY <1>1, <1>4, <1>9, <2>1
<1> QED  BY <1>6, <1>7, <1>8, <1>9

\* Those of a triplet.
LEMMA TripletOfKind ==
    ASSUME NEW t \in Playable, NEW x \in Kinds
    PROVE  OfKind(<<t, t, t>>, x) = IF x = KindIndex(t) THEN 3 ELSE 0
<1>1. OfKind(<<t, t, t>>, x)
        = One(KindIndex(t), x) + One(KindIndex(t), x) + One(KindIndex(t), x)
    BY DEF OfKind
<1>2. CASE x = KindIndex(t)  BY <1>1, <1>2 DEF One
<1>3. CASE x # KindIndex(t)
  <2>1. One(KindIndex(t), x) = 0  BY <1>3 DEF One
  <2> QED  BY <1>1, <1>3, <2>1
<1> QED  BY <1>2, <1>3

\* The three decrements of the test take a chow from the counts.
LEMMA ChowTaken ==
    ASSUME NEW c \in [Kinds -> Nat], NEW t \in Playable, {t, t + 1, t + 2} \subseteq Suited,
           NEW i, i = KindIndex(t)
    PROVE  /\ HasChow(c, i) <=> Has(c, <<t, t + 1, t + 2>>)
           /\ Take(c, <<t, t + 1, t + 2>>)
                = [c EXCEPT ![i] = @ - 1, ![i + 1] = @ - 1, ![i + 2] = @ - 1]
<1>1. i \in Kinds /\ i \in Int  BY KindsOfTiles DEF Kinds
<1>2. ChowAt(i)  BY ChowTilesOf
<1>3. i + 1 \in Kinds /\ i + 2 \in Kinds  BY <1>1, <1>2, ChowKindsOf
<1>4. PICK g : g = <<t, t + 1, t + 2>>  OBVIOUS
<1>5. \A x \in Kinds : OfKind(g, x) = IF x \in {i, i + 1, i + 2} THEN 1 ELSE 0
    BY <1>4, ChowOfKind
<1>6. HasChow(c, i) <=> Has(c, g)
  <2>1. Has(c, g) <=> \A x \in {i, i + 1, i + 2} : 1 <= c[x]
      BY <1>1, <1>3, <1>5 DEF Has
  <2>2. HasChow(c, i) <=> c[i] >= 1 /\ c[i + 1] >= 1 /\ c[i + 2] >= 1
      BY <1>2 DEF HasChow
  <2>3. c[i] \in Nat /\ c[i + 1] \in Nat /\ c[i + 2] \in Nat  BY <1>1, <1>3
  <2> QED  BY <2>1, <2>2, <2>3
<1>7. PICK e : e = [c EXCEPT ![i] = @ - 1, ![i + 1] = @ - 1, ![i + 2] = @ - 1]  OBVIOUS
<1>8. \A x \in Kinds : e[x] = c[x] - OfKind(g, x)
  <2> SUFFICES ASSUME NEW x \in Kinds PROVE e[x] = c[x] - OfKind(g, x)
      OBVIOUS
  <2>1. i # i + 1 /\ i # i + 2 /\ i + 1 # i + 2  BY <1>1
  <2>2. c[x] \in Nat  OBVIOUS
  <2>3. CASE x \in {i, i + 1, i + 2}
    <3>1. e[x] = c[x] - 1  BY <1>1, <1>3, <1>7, <2>1, <2>3
    <3> QED  BY <1>5, <2>3, <3>1
  <2>4. CASE x \notin {i, i + 1, i + 2}
    <3>1. e[x] = c[x]  BY <1>7, <2>4
    <3> QED  BY <1>5, <2>2, <2>4, <3>1
  <2> QED  BY <2>3, <2>4
<1>9. e = [x \in Kinds |-> e[x]]  BY <1>7
<1>10. e = Take(c, g)  BY <1>8, <1>9 DEF Take
<1> QED  BY <1>4, <1>6, <1>7, <1>10

\* Its one subtraction takes a triplet.
LEMMA TripletTaken ==
    ASSUME NEW c \in [Kinds -> Nat], NEW t \in Playable, NEW i, i = KindIndex(t)
    PROVE  /\ c[i] >= 3 <=> Has(c, <<t, t, t>>)
           /\ Take(c, <<t, t, t>>) = [c EXCEPT ![i] = @ - 3]
<1>1. i \in Kinds  BY KindsOfTiles
<1>4. PICK g : g = <<t, t, t>>  OBVIOUS
<1>5. \A x \in Kinds : OfKind(g, x) = IF x = i THEN 3 ELSE 0
    BY <1>4, TripletOfKind
<1>6. c[i] >= 3 <=> Has(c, g)
  <2>1. Has(c, g) <=> 3 <= c[i]  BY <1>1, <1>5 DEF Has
  <2>2. c[i] \in Nat  BY <1>1
  <2> QED  BY <2>1, <2>2
<1>7. PICK e : e = [c EXCEPT ![i] = @ - 3]  OBVIOUS
<1>8. \A x \in Kinds : e[x] = c[x] - OfKind(g, x)  BY <1>1, <1>5, <1>7
<1>9. e = [x \in Kinds |-> e[x]]  BY <1>7
<1>10. e = Take(c, g)  BY <1>8, <1>9 DEF Take
<1> QED  BY <1>4, <1>6, <1>7, <1>10

-----------------------------------------------------------------------------
(* The recursion                                                           *)

\* A call takes a group that is there and calls itself for the rest.
LEMMA CallTakesGroup ==
    ASSUME NEW h, NEW c \in [Kinds -> Nat], NEW m
    PROVE  OneCall(h, <<c, m>>) <=>
              m = 0 \/ \E g \in Every : Has(c, g) /\ h[<<Take(c, g), m - 3>>]
<1> DEFINE Chow(i) == [c EXCEPT ![i] = @ - 1, ![i + 1] = @ - 1, ![i + 2] = @ - 1]
           Three(i) == [c EXCEPT ![i] = @ - 3]
<1>1. OneCall(h, <<c, m>>) <=>
         \/ m = 0
         \/ \E i \in Kinds : \/ HasChow(c, i) /\ h[<<Chow(i), m - 3>>]
                             \/ c[i] >= 3 /\ h[<<Three(i), m - 3>>]
    BY DEF OneCall
<1>2. ASSUME NEW i \in Kinds, HasChow(c, i), h[<<Chow(i), m - 3>>]
      PROVE  \E g \in Every : Has(c, g) /\ h[<<Take(c, g), m - 3>>]
  <2>1. PICK t : t = TileAt(i)  OBVIOUS
  <2>2. t \in Playable /\ i = KindIndex(t)  BY <2>1, KindsOfTiles
  <2>3. {t, t + 1, t + 2} \subseteq Suited  BY <1>2, <2>1, ChowKindsOf DEF HasChow
  <2>4. PICK g : g = <<t, t + 1, t + 2>>  OBVIOUS
  <2>5. g \in Every  BY <2>2, <2>3, <2>4, TwoSorts
  <2>6. Has(c, g) /\ Take(c, g) = Chow(i)  BY <1>2, <2>2, <2>3, <2>4, ChowTaken
  <2> QED  BY <1>2, <2>5, <2>6
<1>3. ASSUME NEW i \in Kinds, c[i] >= 3, h[<<Three(i), m - 3>>]
      PROVE  \E g \in Every : Has(c, g) /\ h[<<Take(c, g), m - 3>>]
  <2>1. PICK t : t = TileAt(i)  OBVIOUS
  <2>2. t \in Playable /\ i = KindIndex(t)  BY <2>1, KindsOfTiles
  <2>4. PICK g : g = <<t, t, t>>  OBVIOUS
  <2>5. g \in Every  BY <2>2, <2>4, TwoSorts
  <2>6. Has(c, g) /\ Take(c, g) = Three(i)  BY <1>3, <2>2, <2>4, TripletTaken
  <2> QED  BY <1>3, <2>5, <2>6
<1>4. ASSUME NEW g \in Every, Has(c, g), h[<<Take(c, g), m - 3>>]
      PROVE  \E i \in Kinds : \/ HasChow(c, i) /\ h[<<Chow(i), m - 3>>]
                              \/ c[i] >= 3 /\ h[<<Three(i), m - 3>>]
  <2>1. CASE \E t \in Playable : g = <<t, t, t>>
    <3>1. PICK t \in Playable : g = <<t, t, t>>  BY <2>1
    <3>2. PICK i : i = KindIndex(t)  OBVIOUS
    <3>3. i \in Kinds  BY <3>2, KindsOfTiles
    <3>4. c[i] >= 3 /\ Take(c, g) = Three(i)  BY <1>4, <3>1, <3>2, TripletTaken
    <3> QED  BY <1>4, <3>3, <3>4
  <2>2. CASE \E t \in Playable : {t, t + 1, t + 2} \subseteq Suited /\ g = <<t, t + 1, t + 2>>
    <3>1. PICK t \in Playable : {t, t + 1, t + 2} \subseteq Suited /\ g = <<t, t + 1, t + 2>>
        BY <2>2
    <3>2. PICK i : i = KindIndex(t)  OBVIOUS
    <3>3. i \in Kinds  BY <3>2, KindsOfTiles
    <3>4. HasChow(c, i) /\ Take(c, g) = Chow(i)  BY <1>4, <3>1, <3>2, ChowTaken
    <3> QED  BY <1>4, <3>3, <3>4
  <2> QED  BY <2>1, <2>2, TwoSorts
<1> HIDE DEF Chow, Three
<1> QED  BY <1>1, <1>2, <1>3, <1>4

\* How many tiles t there are in the first k groups of f.
InGroups(f, k, t) == Cardinality({ij \in (1..k) \X (1..3) : f[ij[1]][ij[2]] = t})

\* The tiles of groups, one by one, by number of the group and place in it.
Laid(f, k) == [ij \in (1..k) \X (1..3) |-> f[ij[1]][ij[2]]]
Grid(k) == (1..k) \X (1..3)

\* A list of groups has three tiles for each.
LEMMA GridSize ==
    ASSUME NEW k \in Nat
    PROVE  IsFiniteSet(Grid(k)) /\ Cardinality(Grid(k)) = 3 * k
<1>0. ASSUME NEW b \in Nat PROVE IsFiniteSet(1..b) /\ Cardinality(1..b) = b
  <2>1. 1 \in Int /\ b \in Int  OBVIOUS
  <2> QED  BY <2>1, FS_Interval
<1>1. IsFiniteSet(1..k) /\ Cardinality(1..k) = k  BY <1>0
<1>2. IsFiniteSet(1..3) /\ Cardinality(1..3) = 3
  <2>1. 3 \in Nat  OBVIOUS
  <2> QED  BY <1>0, <2>1
<1>3. /\ IsFiniteSet((1..k) \X (1..3))
      /\ Cardinality((1..k) \X (1..3)) = Cardinality(1..k) * Cardinality(1..3)
    BY <1>1, <1>2, FS_Product
<1> QED  BY <1>1, <1>2, <1>3 DEF Grid

\* Tiles in groups are counted as tiles in slots are.
LEMMA GroupsTally ==
    ASSUME NEW f, NEW k \in Nat, NEW t
    PROVE  InGroups(f, k, t) = Tally(Laid(f, k), Grid(k), t) /\ InGroups(f, k, t) \in Nat
<1>1. {ij \in (1..k) \X (1..3) : f[ij[1]][ij[2]] = t}
        = {ij \in Grid(k) : Laid(f, k)[ij] = t}
    BY DEF Laid, Grid
<1>2. InGroups(f, k, t) = Tally(Laid(f, k), Grid(k), t)  BY <1>1 DEF InGroups, Tally
<1> QED  BY <1>2, GridSize, TallyNat

\* No groups have no tiles.
LEMMA NoGroups ==
    ASSUME NEW f, NEW t
    PROVE  InGroups(f, 0, t) = 0
<1>1. 1..0 = {}  OBVIOUS
<1>2. {ij \in (1..0) \X (1..3) : f[ij[1]][ij[2]] = t} = {}  BY <1>1
<1> QED  BY <1>2, FS_EmptySet DEF InGroups

\* One group more.
LEMMA NextGroup ==
    ASSUME NEW f, NEW k \in Nat, NEW t
    PROVE  InGroups(f, k + 1, t) = InGroups(f, k, t) + Of(f[k + 1], t)
<1> DEFINE S == Grid(k + 1)
           e == Laid(f, k + 1)
           A == {x \in S : x # <<k + 1, 3>>}
           B == {x \in A : x # <<k + 1, 2>>}
           C == {x \in B : x # <<k + 1, 1>>}
<1>1. k + 1 \in Nat /\ k + 1 \in 1..(k + 1) /\ 1 \in 1..3 /\ 2 \in 1..3 /\ 3 \in 1..3
    OBVIOUS
<1>2. <<k + 1, 3>> \in S /\ <<k + 1, 2>> \in S /\ <<k + 1, 1>> \in S  BY <1>1 DEF Grid
<1>3. <<k + 1, 2>> \in A /\ <<k + 1, 1>> \in B  BY <1>2
<1>4. IsFiniteSet(S)  BY <1>1, GridSize
<1>5. /\ e[<<k + 1, 3>>] = f[k + 1][3] /\ e[<<k + 1, 2>>] = f[k + 1][2]
      /\ e[<<k + 1, 1>>] = f[k + 1][1]
    BY <1>2 DEF Laid, Grid
<1>6. C = Grid(k)
  <2>1. ASSUME NEW x \in C PROVE x \in Grid(k)
    <3>1. x \in S /\ x # <<k + 1, 1>> /\ x # <<k + 1, 2>> /\ x # <<k + 1, 3>>  BY <2>1
    <3>2. PICK a \in 1..(k + 1), b \in 1..3 : x = <<a, b>>  BY <3>1 DEF Grid
    <3>3. b \in {1, 2, 3}  BY <3>2
    <3>4. a # k + 1  BY <3>1, <3>2, <3>3
    <3>5. a \in 1..k  BY <3>2, <3>4
    <3> QED  BY <3>2, <3>5 DEF Grid
  <2>2. ASSUME NEW x \in Grid(k) PROVE x \in C
    <3>1. PICK a \in 1..k, b \in 1..3 : x = <<a, b>>  BY DEF Grid
    <3>2. a \in 1..(k + 1) /\ a # k + 1  BY <3>1
    <3>3. x \in S  BY <3>1, <3>2 DEF Grid
    <3>4. x # <<k + 1, 1>> /\ x # <<k + 1, 2>> /\ x # <<k + 1, 3>>  BY <3>1, <3>2
    <3> QED  BY <3>3, <3>4
  <2> HIDE DEF C
  <2> QED  BY <2>1, <2>2
<1> HIDE DEF S, e
<1>7. /\ \A x : x \in A <=> x \in S /\ x # <<k + 1, 3>>
      /\ \A x : x \in B <=> x \in A /\ x # <<k + 1, 2>>
      /\ \A x : x \in C <=> x \in B /\ x # <<k + 1, 1>>
    OBVIOUS
<1> HIDE DEF A, B, C
<1>8. Tally(e, S, t) = Tally(e, A, t) + One(f[k + 1][3], t) /\ IsFiniteSet(A)
    BY <1>2, <1>4, <1>5, <1>7, TallyWithout
<1>9. Tally(e, A, t) = Tally(e, B, t) + One(f[k + 1][2], t) /\ IsFiniteSet(B)
    BY <1>3, <1>5, <1>7, <1>8, TallyWithout
<1>10. Tally(e, B, t) = Tally(e, C, t) + One(f[k + 1][1], t) /\ Tally(e, C, t) \in Nat
    BY <1>3, <1>5, <1>7, <1>9, TallyWithout
<1>11. Tally(e, C, t) = InGroups(f, k, t)
  <2>1. ASSUME NEW x \in Grid(k) PROVE e[x] = Laid(f, k)[x]
    <3>1. x \in S  BY <1>6, <1>7
    <3> QED  BY <3>1 DEF Laid, Grid, S, e
  <2>2. \A x \in Grid(k) : e[x] = Laid(f, k)[x]  BY <2>1
  <2>3. Tally(e, Grid(k), t) = Tally(Laid(f, k), Grid(k), t)  BY <2>2, TallySame
  <2> QED  BY <1>6, <2>3, GroupsTally
<1>12. Tally(e, S, t) = InGroups(f, k + 1, t)
    BY <1>1, GroupsTally DEF S, e
<1>13. \A a, b : One(a, b) \in Int  BY DEF One
<1> QED  BY <1>8, <1>9, <1>10, <1>11, <1>12, <1>13 DEF Of

\* Only the first k groups matter.
LEMMA SameGroups ==
    ASSUME NEW f, NEW e, NEW k \in Nat, \A i \in 1..k : f[i] = e[i], NEW t
    PROVE  InGroups(f, k, t) = InGroups(e, k, t)
<1>1. {ij \in (1..k) \X (1..3) : f[ij[1]][ij[2]] = t}
        = {ij \in (1..k) \X (1..3) : e[ij[1]][ij[2]] = t}
  <2>1. ASSUME NEW ij \in (1..k) \X (1..3) PROVE f[ij[1]] = e[ij[1]]
    <3>1. ij[1] \in 1..k  OBVIOUS
    <3> QED  BY <3>1
  <2> QED  BY <2>1
<1> QED  BY <1>1 DEF InGroups

\* The counts c have the tiles of some k groups.
UsedUp(c, k) ==
    \E f \in [1..k -> Every] : \A t \in Playable : InGroups(f, k, t) <= c[KindIndex(t)]

\* Having a group's tiles, by tiles.
LEMMA HasByTile ==
    ASSUME NEW c \in [Kinds -> Nat], NEW g \in Every
    PROVE  /\ Has(c, g) <=> \A t \in Playable : Of(g, t) <= c[KindIndex(t)]
           /\ \A t \in Playable : Take(c, g)[KindIndex(t)] = c[KindIndex(t)] - Of(g, t)
<1>1. \A t \in Playable : KindIndex(t) \in Kinds /\ OfKind(g, KindIndex(t)) = Of(g, t)
    BY KindsOfTiles, OfKindOf
<1>2. \A x \in Kinds : \E t \in Playable : x = KindIndex(t)  BY KindsOfTiles
<1> QED  BY <1>1, <1>2 DEF Has, Take

\* k + 1 groups are one group and k others.
LEMMA UsedStep ==
    ASSUME NEW c \in [Kinds -> Nat], NEW k \in Nat
    PROVE  UsedUp(c, k + 1) <=> \E g \in Every : Has(c, g) /\ UsedUp(Take(c, g), k)
<1>0. \A t \in Playable : c[KindIndex(t)] \in Nat  BY KindsOfTiles
<1>a. k + 1 \in Nat /\ \A i \in 1..k : i \in 1..(k + 1) /\ i # k + 1  OBVIOUS
<1>b. k + 1 \in 1..(k + 1)  OBVIOUS
<1>1. ASSUME UsedUp(c, k + 1)
      PROVE  \E g \in Every : Has(c, g) /\ UsedUp(Take(c, g), k)
  <2>1. PICK f \in [1..(k + 1) -> Every] :
           \A t \in Playable : InGroups(f, k + 1, t) <= c[KindIndex(t)]
      BY <1>1 DEF UsedUp
  <2>2. PICK g \in Every : g = f[k + 1]  BY <1>b
  <2>3. PICK e \in [1..k -> Every] : \A i \in 1..k : f[i] = e[i]
    <3>1. [i \in 1..k |-> f[i]] \in [1..k -> Every]  BY <1>a
    <3>2. \A i \in 1..k : f[i] = [j \in 1..k |-> f[j]][i]  OBVIOUS
    <3> QED  BY <3>1, <3>2
  <2>4. ASSUME NEW t \in Playable
        PROVE  /\ Of(g, t) <= c[KindIndex(t)]
               /\ InGroups(e, k, t) <= c[KindIndex(t)] - Of(g, t)
    <3>1. InGroups(f, k + 1, t) = InGroups(f, k, t) + Of(g, t)  BY <2>2, NextGroup
    <3>2. InGroups(f, k, t) = InGroups(e, k, t)  BY <2>3, SameGroups
    <3>3. InGroups(e, k, t) \in Nat  BY GroupsTally
    <3>4. Of(g, t) \in Nat  BY OfKindOf
    <3>5. InGroups(f, k + 1, t) <= c[KindIndex(t)]  BY <2>1
    <3>6. c[KindIndex(t)] \in Nat  BY <1>0
    <3> QED  BY <3>1, <3>2, <3>3, <3>4, <3>5, <3>6
  <2>5. Has(c, g)  BY <2>4, HasByTile
  <2>6. \A t \in Playable : InGroups(e, k, t) <= Take(c, g)[KindIndex(t)]
    <3> SUFFICES ASSUME NEW t \in Playable
                 PROVE  InGroups(e, k, t) <= Take(c, g)[KindIndex(t)]
        OBVIOUS
    <3>1. Take(c, g)[KindIndex(t)] = c[KindIndex(t)] - Of(g, t)  BY HasByTile
    <3> QED  BY <2>4, <3>1
  <2>7. UsedUp(Take(c, g), k)  BY <2>6 DEF UsedUp
  <2> QED  BY <2>5, <2>7
<1>2. ASSUME NEW g \in Every, Has(c, g), UsedUp(Take(c, g), k)
      PROVE  UsedUp(c, k + 1)
  <2>1. PICK e \in [1..k -> Every] :
           \A t \in Playable : InGroups(e, k, t) <= Take(c, g)[KindIndex(t)]
      BY <1>2 DEF UsedUp
  <2>2. PICK f \in [1..(k + 1) -> Every] : f[k + 1] = g /\ \A i \in 1..k : f[i] = e[i]
    <3> DEFINE f == [i \in 1..(k + 1) |-> IF i = k + 1 THEN g ELSE e[i]]
    <3>1. \A i \in 1..(k + 1) : i # k + 1 => i \in 1..k  OBVIOUS
    <3>2. f \in [1..(k + 1) -> Every]  BY <3>1
    <3>3. f[k + 1] = g /\ \A i \in 1..k : f[i] = e[i]  BY <1>a, <1>b
    <3> HIDE DEF f
    <3> QED  BY <3>2, <3>3
  <2>3. ASSUME NEW t \in Playable
        PROVE  InGroups(f, k + 1, t) <= c[KindIndex(t)]
    <3>1. InGroups(f, k + 1, t) = InGroups(f, k, t) + Of(g, t)  BY <2>2, NextGroup
    <3>2. InGroups(f, k, t) = InGroups(e, k, t)  BY <2>2, SameGroups
    <3>3. InGroups(e, k, t) \in Nat  BY GroupsTally
    <3>4. Of(g, t) \in Nat  BY OfKindOf
    <3>5. Take(c, g)[KindIndex(t)] = c[KindIndex(t)] - Of(g, t)  BY HasByTile
    <3>6. InGroups(e, k, t) <= Take(c, g)[KindIndex(t)]  BY <2>1
    <3>7. c[KindIndex(t)] \in Nat  BY <1>0
    <3> QED  BY <3>1, <3>2, <3>3, <3>4, <3>5, <3>6, <3>7
  <2> QED  BY <2>3 DEF UsedUp
<1> QED  BY <1>1, <1>2

\* No groups can always be taken.
LEMMA UsedNone ==
    ASSUME NEW c \in [Kinds -> Nat]
    PROVE  UsedUp(c, 0)
<1>1. PICK f : f = [i \in 1..0 |-> <<>>]  OBVIOUS
<1>2. f \in [1..0 -> Every]
  <2>1. \A i \in 1..0 : <<>> \in Every  OBVIOUS
  <2> QED  BY <1>1, <2>1
<1>3. \A t \in Playable : InGroups(f, 0, t) <= c[KindIndex(t)]
  <2> SUFFICES ASSUME NEW t \in Playable PROVE InGroups(f, 0, t) <= c[KindIndex(t)]
      OBVIOUS
  <2>1. InGroups(f, 0, t) = 0  BY NoGroups
  <2>2. c[KindIndex(t)] \in Nat  BY KindsOfTiles
  <2> QED  BY <2>1, <2>2
<1> QED  BY <1>2, <1>3 DEF UsedUp

\* The number of tiles of a call that is not the last.
LEMMA CallSize ==
    ASSUME NEW m \in Nat, m % 3 = 0
    PROVE  /\ m \div 3 \in Nat /\ m = 0 => m \div 3 = 0
           /\ m # 0 => /\ m - 3 \in Nat /\ (m - 3) % 3 = 0
                       /\ (m - 3) \div 3 \in Nat /\ m \div 3 = (m - 3) \div 3 + 1
    OBVIOUS

\* The function that says of every call whether its counts have the groups
\* answers every call the way the calls it makes are answered.
LEMMA MeaningIsCall ==
    ASSUME NEW h, h = [call \in Calls |-> UsedUp(call[1], call[2] \div 3)]
    PROVE  h = [call \in Calls |-> OneCall(h, call)]
<1>1. ASSUME NEW c \in [Kinds -> Nat], NEW m \in Nat, m % 3 = 0
      PROVE  /\ <<c, m>> \in Calls /\ (h[<<c, m>>] <=> UsedUp(c, m \div 3))
             /\ h[<<c, m>>] = UsedUp(c, m \div 3)
  <2>1. <<c, m>> \in Calls  BY <1>1 DEF Calls
  <2>2. h[<<c, m>>] = UsedUp(c, m \div 3)  BY <2>1
  <2> QED  BY <2>1, <2>2
<1>2. ASSUME NEW c \in [Kinds -> Nat], NEW m \in Nat, m % 3 = 0
      PROVE  UsedUp(c, m \div 3) <=> OneCall(h, <<c, m>>)
  <2>1. CASE m = 0
    <3>1. m \div 3 = 0  BY <2>1
    <3>2. OneCall(h, <<c, m>>)  BY <2>1 DEF OneCall
    <3> QED  BY <3>1, <3>2, UsedNone
  <2>2. CASE m # 0
    <3>1. PICK j \in Nat : j = m - 3 /\ j % 3 = 0 /\ j \div 3 \in Nat /\ m \div 3 = j \div 3 + 1
        BY <1>2, <2>2, CallSize
    <3>2. UsedUp(c, m \div 3) <=> \E g \in Every : Has(c, g) /\ UsedUp(Take(c, g), j \div 3)
        BY <3>1, UsedStep
    <3>3. ASSUME NEW g \in Every, Has(c, g)
          PROVE  UsedUp(Take(c, g), j \div 3) <=> h[<<Take(c, g), j>>]
      <4>1. Take(c, g) \in [Kinds -> Nat]  BY <3>3, TakeType
      <4> QED  BY <1>1, <3>1, <4>1
    <3>4. OneCall(h, <<c, m>>) <=> \E g \in Every : Has(c, g) /\ h[<<Take(c, g), j>>]
        BY <2>2, <3>1, CallTakesGroup
    <3> QED  BY <3>2, <3>3, <3>4
  <2> QED  BY <2>1, <2>2
<1>3. ASSUME NEW call \in Calls PROVE UsedUp(call[1], call[2] \div 3) = OneCall(h, call)
  <2>1. PICK c \in [Kinds -> Nat], m \in Nat : call = <<c, m>> /\ m % 3 = 0  BY DEF Calls
  <2>2. UsedUp(c, m \div 3) <=> OneCall(h, call)  BY <1>2, <2>1
  <2>3. UsedUp(c, m \div 3) \in BOOLEAN /\ OneCall(h, call) \in BOOLEAN
      BY DEF UsedUp, OneCall
  <2>4. UsedUp(c, m \div 3) = OneCall(h, call)  BY <2>2, <2>3
  <2> QED  BY <2>1, <2>4
<1> QED  BY <1>3

\* hu_recursive_check() finds out whether the counts have the groups: it
\* agrees with that function on a call if it does on the calls this makes,
\* so there is no smallest call on which it does not.
LEMMA CheckMeans ==
    ASSUME NEW c0 \in [Kinds -> Nat], NEW m0 \in Nat, m0 % 3 = 0
    PROVE  hu_recursive_check[<<c0, m0>>] <=> UsedUp(c0, m0 \div 3)
<1>1. PICK g : g = [call \in Calls |-> UsedUp(call[1], call[2] \div 3)]  OBVIOUS
<1>2. g = [call \in Calls |-> OneCall(g, call)]  BY <1>1, MeaningIsCall
<1>3. PICK h : h = hu_recursive_check  OBVIOUS
<1>4. h = [call \in Calls |-> OneCall(h, call)]  BY <1>2, <1>3, CheckUnfolds
<1>5. ASSUME NEW c \in [Kinds -> Nat], NEW m \in Nat, m % 3 = 0
      PROVE  /\ g[<<c, m>>] <=> UsedUp(c, m \div 3)
             /\ g[<<c, m>>] <=> OneCall(g, <<c, m>>)
             /\ h[<<c, m>>] <=> OneCall(h, <<c, m>>)
  <2>1. <<c, m>> \in Calls  BY <1>5 DEF Calls
  <2>2. g[<<c, m>>] = UsedUp(c, m \div 3)  BY <1>1, <2>1
  <2>3. g[<<c, m>>] = OneCall(g, <<c, m>>)  BY <1>2, <2>1
  <2>4. h[<<c, m>>] = OneCall(h, <<c, m>>)  BY <1>4, <2>1
  <2> QED  BY <2>2, <2>3, <2>4
<1> DEFINE Differ(m) == \E c \in [Kinds -> Nat] : ~(h[<<c, m>>] <=> g[<<c, m>>])
           S == {m \in Nat : m % 3 = 0 /\ Differ(m)}
<1>6. S = {}
  <2>1. SUFFICES ASSUME S # {} PROVE FALSE
      OBVIOUS
  <2>2. S \in SUBSET Nat  OBVIOUS
  <2>3. PICK m : m = Min(S)  OBVIOUS
  <2>4. m \in S /\ \A y \in S : m <= y  BY <2>1, <2>2, <2>3, MinExists
  <2>5. m \in Nat /\ m % 3 = 0 /\ Differ(m)  BY <2>4
  <2>6. PICK c \in [Kinds -> Nat] : ~(h[<<c, m>>] <=> g[<<c, m>>])  BY <2>5
  <2>7. ~(OneCall(h, <<c, m>>) <=> OneCall(g, <<c, m>>))  BY <1>5, <2>5, <2>6
  <2>8. m # 0  BY <2>7 DEF OneCall
  <2>9. m - 3 \in Nat /\ (m - 3) % 3 = 0  BY <2>5, <2>8, CallSize
  <2>10. m - 3 \notin S
    <3> HIDE DEF S
    <3>1. m - 3 \in S => m <= m - 3  BY <2>4
    <3> QED  BY <2>5, <3>1
  <2>11. \A e \in [Kinds -> Nat] : h[<<e, m - 3>>] <=> g[<<e, m - 3>>]  BY <2>9, <2>10
  <2>12. \A u \in Every : Has(c, u) => Take(c, u) \in [Kinds -> Nat]  BY TakeType
  <2>13. (\E u \in Every : Has(c, u) /\ h[<<Take(c, u), m - 3>>])
           <=> (\E u \in Every : Has(c, u) /\ g[<<Take(c, u), m - 3>>])
      BY <2>11, <2>12
  <2> QED  BY <2>7, <2>8, <2>13, CallTakesGroup
<1>7. ~Differ(m0)  BY <1>6
<1> QED  BY <1>3, <1>5, <1>7

-----------------------------------------------------------------------------
(* Counting                                                                *)

\* A tile taken out.
LEMMA TallyOut ==
    ASSUME NEW a, NEW A, IsFiniteSet(A), NEW x \in A, NEW t
    PROVE  Tally(a, A, t) = Tally(a, A \ {x}, t) + One(a[x], t) /\ Tally(a, A \ {x}, t) \in Nat
<1>1. PICK C : C = A \ {x}  OBVIOUS
<1>2. \A z : z \in C <=> z \in A /\ z # x  BY <1>1
<1>3. /\ Tally(a, A, t) = Tally(a, C, t) + One(a[x], t)
      /\ Tally(a, C, t) \in Nat /\ IsFiniteSet(C)
    BY <1>2, TallyWithout, Zenon
<1> QED  BY <1>1, <1>3

\* If A holds every tile at least as often as B, and is no larger, then it
\* holds every tile as often: taking out the same tile on both sides leaves
\* two smaller ones of that sort.
LEMMA NothingLeft ==
    ASSUME NEW A0, IsFiniteSet(A0), NEW B0, IsFiniteSet(B0), NEW a, NEW b,
           Cardinality(A0) = Cardinality(B0),
           \A t : Tally(b, B0, t) <= Tally(a, A0, t)
    PROVE  \A t : Tally(b, B0, t) = Tally(a, A0, t)
<1> DEFINE Bad(A, B) == /\ Cardinality(A) = Cardinality(B)
                        /\ \A t : Tally(b, B, t) <= Tally(a, A, t)
                        /\ \E t : Tally(b, B, t) # Tally(a, A, t)
           S == {k \in Nat : \E A \in SUBSET A0, B \in SUBSET B0 :
                                Cardinality(B) = k /\ Bad(A, B)}
<1>0. \A A \in SUBSET A0 : IsFiniteSet(A) /\ Cardinality(A) \in Nat
    BY FS_Subset, FS_CardinalityType
<1>b. \A B \in SUBSET B0 : IsFiniteSet(B) /\ Cardinality(B) \in Nat
    BY FS_Subset, FS_CardinalityType
<1>1. ASSUME NEW k \in S PROVE \E j \in S : j < k
  <2>1. PICK A \in SUBSET A0, B \in SUBSET B0 : Cardinality(B) = k /\ Bad(A, B)
      OBVIOUS
  <2>2. IsFiniteSet(A) /\ IsFiniteSet(B) /\ k \in Nat  BY <1>0, <1>b, <2>1
  <2>3. B # {}
    <3>1. SUFFICES ASSUME B = {} PROVE FALSE
        OBVIOUS
    <3>2. A = {}  BY <2>1, <2>2, <3>1, FS_EmptySet
    <3>3. \A t : Tally(b, B, t) = 0 /\ Tally(a, A, t) = 0
        BY <2>2, <3>1, <3>2, TallyZero
    <3> QED  BY <2>1, <3>3
  <2>4. PICK y \in B : TRUE  BY <2>3
  <2>5. PICK v : v = b[y]  OBVIOUS
  <2>6. PICK x \in A : a[x] = v
    <3>1. SUFFICES ASSUME \A x \in A : a[x] # v PROVE FALSE
        OBVIOUS
    <3>2. Tally(a, A, v) = 0  BY <2>2, <3>1, TallyZero
    <3>3. Tally(b, B, v) # 0  BY <2>2, <2>4, <2>5, TallyZero
    <3>4. Tally(b, B, v) \in Nat  BY <2>2, TallyNat
    <3>5. Tally(b, B, v) <= Tally(a, A, v)  BY <2>1
    <3> QED  BY <3>2, <3>3, <3>4, <3>5
  <2>7. PICK C : C = A \ {x}  OBVIOUS
  <2>8. PICK D : D = B \ {y}  OBVIOUS
  <2>9. \A t : /\ Tally(a, A, t) = Tally(a, C, t) + One(v, t) /\ Tally(a, C, t) \in Nat
               /\ Tally(b, B, t) = Tally(b, D, t) + One(v, t) /\ Tally(b, D, t) \in Nat
    <3> SUFFICES ASSUME NEW t
                 PROVE  /\ Tally(a, A, t) = Tally(a, C, t) + One(v, t) /\ Tally(a, C, t) \in Nat
                        /\ Tally(b, B, t) = Tally(b, D, t) + One(v, t) /\ Tally(b, D, t) \in Nat
        OBVIOUS
    <3>3. Tally(a, A, t) = Tally(a, C, t) + One(a[x], t) /\ Tally(a, C, t) \in Nat
        BY <2>2, <2>7, TallyOut
    <3>4. Tally(b, B, t) = Tally(b, D, t) + One(b[y], t) /\ Tally(b, D, t) \in Nat
        BY <2>2, <2>8, TallyOut
    <3> QED  BY <2>5, <2>6, <3>3, <3>4
  <2>10. \A t : One(v, t) \in Nat  BY DEF One
  <2>11. /\ \A t : Tally(b, D, t) <= Tally(a, C, t)
         /\ \E t : Tally(b, D, t) # Tally(a, C, t)
    <3>1. ASSUME NEW t PROVE /\ Tally(b, D, t) <= Tally(a, C, t) <=> Tally(b, B, t) <= Tally(a, A, t)
                             /\ Tally(b, D, t) # Tally(a, C, t) <=> Tally(b, B, t) # Tally(a, A, t)
        BY <2>9, <2>10
    <3> QED  BY <2>1, <3>1
  <2>12. /\ Cardinality(C) = Cardinality(A) - 1 /\ Cardinality(D) = k - 1
    <3>1. Cardinality(C) = Cardinality(A) - 1  BY <2>2, <2>6, <2>7, FS_RemoveElement
    <3>2. Cardinality(D) = Cardinality(B) - 1  BY <2>2, <2>4, <2>8, FS_RemoveElement
    <3> QED  BY <2>1, <3>1, <3>2
  <2>13. C \in SUBSET A0 /\ D \in SUBSET B0  BY <2>7, <2>8
  <2>14. k - 1 \in Nat  BY <1>b, <2>12, <2>13
  <2>15. Bad(C, D)  BY <2>1, <2>11, <2>12
  <2>16. k - 1 \in S  BY <2>12, <2>13, <2>14, <2>15
  <2> QED  BY <2>2, <2>16
<1>2. S = {}
  <2>1. SUFFICES ASSUME S # {} PROVE FALSE
      OBVIOUS
  <2>2. S \in SUBSET Nat  OBVIOUS
  <2>3. PICK m : m = Min(S)  OBVIOUS
  <2>4. m \in S /\ \A y \in S : m <= y  BY <2>1, <2>2, <2>3, MinExists
  <2>5. PICK j \in S : j < m  BY <1>1, <2>4
  <2>6. m \in Nat /\ j \in Nat /\ m <= j  BY <2>2, <2>4, <2>5
  <2> QED  BY <2>5, <2>6
<1>3. ~Bad(A0, B0)
  <2>1. Cardinality(B0) \in Nat  BY <1>b
  <2> QED  BY <1>2, <2>1
<1> QED  BY <1>3

-----------------------------------------------------------------------------
(* Complete hands                                                          *)

\* A pair has two tiles.
Pair(p, t) == IF t = p THEN 2 ELSE 0

\* The first m slots of h hold a pair of p and the first k groups of f.
Holds(h, m, p, f, k) ==
    \A t \in Playable : InGroups(f, k, t) + Pair(p, t) <= Tally(h, 0..(m - 1), t)

\* A pair and groups of tiles from a hand of just their number use it up.
LEMMA PairAndGroupsFill ==
    ASSUME NEW h, NEW m \in Nat, NEW k \in Nat, m = 3 * k + 2,
           NEW p \in Playable, NEW f \in [1..k -> Every], Holds(h, m, p, f, k)
    PROVE  \A t \in Playable : InGroups(f, k, t) + Pair(p, t) = Tally(h, 0..(m - 1), t)
<1> DEFINE B == Grid(k) \cup {<<0, 1>>, <<0, 2>>}
           b == [x \in B |-> IF x[1] = 0 THEN p ELSE f[x[1]][x[2]]]
<1>1. IsFiniteSet(Grid(k)) /\ Cardinality(Grid(k)) = 3 * k  BY GridSize
<1>2. \A x \in Grid(k) : x[1] \in 1..k /\ x[2] \in 1..3 /\ x[1] # 0  BY DEF Grid
<1>3. <<0, 1>> \notin Grid(k) /\ <<0, 2>> \notin Grid(k) /\ <<0, 1>> # <<0, 2>>
    BY <1>2
<1>4. PICK C : C = Grid(k) \cup {<<0, 1>>}  OBVIOUS
<1>5. IsFiniteSet(C) /\ Cardinality(C) = 3 * k + 1
    BY <1>1, <1>3, <1>4, FS_AddElement
<1>6. B = C \cup {<<0, 2>>} /\ <<0, 2>> \notin C  BY <1>3, <1>4
<1>7. IsFiniteSet(B) /\ Cardinality(B) = m
  <2>1. IsFiniteSet(C \cup {<<0, 2>>}) /\ Cardinality(C \cup {<<0, 2>>}) = Cardinality(C) + 1
      BY <1>5, <1>6, FS_AddElement
  <2> HIDE DEF B
  <2> QED  BY <1>5, <1>6, <2>1
<1>8. /\ b[<<0, 1>>] = p /\ b[<<0, 2>>] = p
      /\ \A x \in Grid(k) : b[x] = Laid(f, k)[x]
    BY <1>2 DEF Laid, Grid
<1>9. \A x \in B : b[x] \in Playable
  <2>1. ASSUME NEW x \in Grid(k) PROVE b[x] \in Playable
    <3>1. f[x[1]] \in Every  BY <1>2
    <3>2. x[2] \in {1, 2, 3}  BY <1>2
    <3>3. f[x[1]][x[2]] \in Playable  BY <3>1, <3>2, GroupTiles
    <3>4. b[x] = f[x[1]][x[2]]  BY <1>8, <2>1 DEF Laid, Grid
    <3> QED  BY <3>3, <3>4
  <2> QED  BY <1>8, <2>1
<1>10. B \ {<<0, 2>>} = C /\ C \ {<<0, 1>>} = Grid(k)  BY <1>3, <1>4, <1>6
<1> HIDE DEF B, b
<1>11. ASSUME NEW t PROVE Tally(b, B, t) = InGroups(f, k, t) + Pair(p, t)
  <2>1. <<0, 2>> \in B /\ <<0, 1>> \in C  BY <1>4, <1>6
  <2>2. Tally(b, B, t) = Tally(b, C, t) + One(p, t)
      BY <1>7, <1>8, <1>10, <2>1, TallyOut
  <2>3. Tally(b, C, t) = Tally(b, Grid(k), t) + One(p, t)
      BY <1>5, <1>8, <1>10, <2>1, TallyOut
  <2>4. Tally(b, Grid(k), t) = InGroups(f, k, t) /\ InGroups(f, k, t) \in Nat
    <3>1. Tally(b, Grid(k), t) = Tally(Laid(f, k), Grid(k), t)  BY <1>8, TallySame
    <3> QED  BY <3>1, GroupsTally
  <2>5. CASE t = p
    <3>1. One(p, t) = 1 /\ Pair(p, t) = 2  BY <2>5 DEF One, Pair
    <3> QED  BY <2>2, <2>3, <2>4, <3>1
  <2>6. CASE t # p
    <3>1. One(p, t) = 0 /\ Pair(p, t) = 0  BY <2>6 DEF One, Pair
    <3> QED  BY <2>2, <2>3, <2>4, <3>1
  <2> QED  BY <2>5, <2>6
<1>12. IsFiniteSet(0..(m - 1)) /\ Cardinality(0..(m - 1)) = m  BY SlotRange
<1>13. ASSUME NEW t PROVE Tally(b, B, t) <= Tally(h, 0..(m - 1), t)
  <2>1. CASE t \in Playable  BY <1>11, <2>1 DEF Holds
  <2>2. CASE t \notin Playable
    <3>1. \A x \in B : b[x] # t  BY <1>9, <2>2
    <3>3. Tally(b, B, t) = 0  BY <1>7, <3>1, TallyZero, Zenon
    <3>2. Tally(h, 0..(m - 1), t) \in Nat  BY <1>12, TallyNat
    <3> QED  BY <3>2, <3>3
  <2> QED  BY <2>1, <2>2
<1>14. \A t : Tally(b, B, t) = Tally(h, 0..(m - 1), t)
  <2>1. \A t : Tally(b, B, t) <= Tally(h, 0..(m - 1), t)  BY <1>13
  <2> QED  BY <1>7, <1>12, <2>1, NothingLeft
<1> QED  BY <1>11, <1>14

\* The counters of a hand count its tiles.
LEMMA CountsTiles ==
    ASSUME NEW m \in Nat, NEW h \in [0..(m - 1) -> Playable]
    PROVE  /\ Counts(h, m) \in [Kinds -> Nat]
           /\ \A t \in Playable : /\ Counts(h, m)[KindIndex(t)] = Count(h, m, t)
                                  /\ Count(h, m, t) = Tally(h, 0..(m - 1), t)
                                  /\ Count(h, m, t) \in Nat
<1>1. IsFiniteSet(0..(m - 1))  BY SlotRange
<1>2. ASSUME NEW x \in Kinds
      PROVE Cardinality({j \in 0..(m - 1) : h[j] # Null /\ KindIndex(h[j]) = x}) \in Nat
  <2>1. {j \in 0..(m - 1) : h[j] # Null /\ KindIndex(h[j]) = x} \subseteq 0..(m - 1)
      OBVIOUS
  <2> QED  BY <1>1, <2>1, PartSize
<1>3. Counts(h, m) \in [Kinds -> Nat]  BY <1>2 DEF Counts
<1>4. ASSUME NEW t \in Playable
      PROVE  /\ Counts(h, m)[KindIndex(t)] = Count(h, m, t)
             /\ Count(h, m, t) = Tally(h, 0..(m - 1), t)
             /\ Count(h, m, t) \in Nat
  <2>1. KindIndex(t) \in Kinds  BY KindsOfTiles
  <2>2. \A j \in 0..(m - 1) : (h[j] # Null /\ KindIndex(h[j]) = KindIndex(t)) <=> h[j] = t
    <3>1. ASSUME NEW u \in Playable
          PROVE  (u # Null /\ KindIndex(u) = KindIndex(t)) <=> u = t
      <4>1. u # Null  BY DEF Playable, Suited, DAZI, Null
      <4> QED  BY <4>1, KindsOfTiles
    <3> QED  BY <3>1
  <2>3. {j \in 0..(m - 1) : h[j] # Null /\ KindIndex(h[j]) = KindIndex(t)}
          = {j \in 0..(m - 1) : h[j] = t}
      BY <2>2
  <2>4. Counts(h, m)[KindIndex(t)]
          = Cardinality({j \in 0..(m - 1) : h[j] # Null /\ KindIndex(h[j]) = KindIndex(t)})
      BY <2>1 DEF Counts
  <2>5. Count(h, m, t) = Tally(h, 0..(m - 1), t)  BY DEF Count, Tally
  <2>6. Counts(h, m)[KindIndex(t)] = Count(h, m, t)  BY <2>3, <2>4 DEF Count
  <2> QED  BY <1>1, <2>5, <2>6, TallyNat
<1> QED  BY <1>3, <1>4

\* What hu_check() and is_add_hu_possible() find out: there is a pair, and
\* the rest has the groups.
LEMMA WinsMeans ==
    ASSUME NEW c \in [Kinds -> Nat], NEW m \in Nat, m % 3 = 0
    PROVE  Wins(c, m) <=>
              \E p \in Playable, f \in [1..(m \div 3) -> Every] : \A t \in Playable :
                 InGroups(f, m \div 3, t) + Pair(p, t) <= c[KindIndex(t)]
<1>0. PICK k \in Nat : k = m \div 3  BY CallSize
<1>1. ASSUME NEW p \in Playable, c[KindIndex(p)] >= 2,
             NEW e, e = [c EXCEPT ![KindIndex(p)] = @ - 2]
      PROVE  /\ e \in [Kinds -> Nat]
             /\ \A t \in Playable : e[KindIndex(t)] = c[KindIndex(t)] - Pair(p, t)
  <2>1. KindIndex(p) \in Kinds  BY KindsOfTiles
  <2>2. c[KindIndex(p)] - 2 \in Nat  BY <1>1, <2>1
  <2>3. e \in [Kinds -> Nat]  BY <1>1, <2>1, <2>2
  <2>4. ASSUME NEW t \in Playable PROVE e[KindIndex(t)] = c[KindIndex(t)] - Pair(p, t)
    <3>1. KindIndex(t) \in Kinds /\ (KindIndex(t) = KindIndex(p) <=> t = p)  BY KindsOfTiles
    <3>2. c[KindIndex(t)] \in Nat  BY <3>1
    <3>3. CASE t = p
      <4>1. e[KindIndex(t)] = c[KindIndex(t)] - 2  BY <1>1, <2>1, <3>3
      <4> QED  BY <3>3, <4>1 DEF Pair
    <3>4. CASE t # p
      <4>1. e[KindIndex(t)] = c[KindIndex(t)]  BY <1>1, <3>1, <3>4
      <4> QED  BY <3>2, <3>4, <4>1 DEF Pair
    <3> QED  BY <3>3, <3>4
  <2> QED  BY <2>3, <2>4
<1>2. \A p, t : Pair(p, t) \in {0, 2}  BY DEF Pair
<1>3. ASSUME Wins(c, m)
      PROVE  \E p \in Playable, f \in [1..k -> Every] : \A t \in Playable :
                InGroups(f, k, t) + Pair(p, t) <= c[KindIndex(t)]
  <2>1. PICK i \in Kinds : c[i] >= 2 /\ hu_recursive_check[<<[c EXCEPT ![i] = @ - 2], m>>]
      BY <1>3 DEF Wins
  <2>2. PICK p : p = TileAt(i)  OBVIOUS
  <2>3. p \in Playable /\ i = KindIndex(p)  BY <2>2, KindsOfTiles
  <2>4. PICK e : e = [c EXCEPT ![i] = @ - 2]  OBVIOUS
  <2>5. /\ e \in [Kinds -> Nat]
        /\ \A t \in Playable : e[KindIndex(t)] = c[KindIndex(t)] - Pair(p, t)
      BY <1>1, <2>1, <2>3, <2>4
  <2>6. UsedUp(e, k)  BY <1>0, <2>1, <2>4, <2>5, CheckMeans
  <2>7. PICK f \in [1..k -> Every] : \A t \in Playable : InGroups(f, k, t) <= e[KindIndex(t)]
      BY <2>6 DEF UsedUp
  <2>8. ASSUME NEW t \in Playable PROVE InGroups(f, k, t) + Pair(p, t) <= c[KindIndex(t)]
    <3>1. InGroups(f, k, t) \in Nat  BY GroupsTally
    <3>2. c[KindIndex(t)] \in Nat  BY KindsOfTiles
    <3>3. InGroups(f, k, t) <= c[KindIndex(t)] - Pair(p, t)  BY <2>5, <2>7
    <3> QED  BY <1>2, <3>1, <3>2, <3>3
  <2> QED  BY <2>3, <2>8
<1>4. ASSUME NEW p \in Playable, NEW f \in [1..k -> Every],
             \A t \in Playable : InGroups(f, k, t) + Pair(p, t) <= c[KindIndex(t)]
      PROVE  Wins(c, m)
  <2>1. PICK i \in Kinds : i = KindIndex(p)  BY KindsOfTiles
  <2>2. c[i] >= 2
    <3>1. InGroups(f, k, p) \in Nat  BY GroupsTally
    <3>2. Pair(p, p) = 2  BY DEF Pair
    <3>3. InGroups(f, k, p) + 2 <= c[i]  BY <1>4, <2>1, <3>2
    <3>4. c[i] \in Nat  OBVIOUS
    <3> QED  BY <3>1, <3>3, <3>4
  <2>4. PICK e : e = [c EXCEPT ![i] = @ - 2]  OBVIOUS
  <2>5. /\ e \in [Kinds -> Nat]
        /\ \A t \in Playable : e[KindIndex(t)] = c[KindIndex(t)] - Pair(p, t)
      BY <1>1, <2>1, <2>2, <2>4
  <2>6. ASSUME NEW t \in Playable PROVE InGroups(f, k, t) <= e[KindIndex(t)]
    <3>1. InGroups(f, k, t) \in Nat  BY GroupsTally
    <3>2. c[KindIndex(t)] \in Nat  BY KindsOfTiles
    <3>3. InGroups(f, k, t) + Pair(p, t) <= c[KindIndex(t)]  BY <1>4
    <3>4. e[KindIndex(t)] = c[KindIndex(t)] - Pair(p, t)  BY <2>5
    <3> QED  BY <1>2, <3>1, <3>2, <3>3, <3>4
  <2>7. UsedUp(e, k)  BY <2>6 DEF UsedUp
  <2>8. hu_recursive_check[<<e, m>>]  BY <1>0, <2>5, <2>7, CheckMeans
  <2> QED  BY <2>2, <2>4, <2>8 DEF Wins
<1> QED  BY <1>0, <1>3, <1>4

\* The test of the counters of a hand says whether the hand is complete.
LEMMA WinsIsComplete ==
    ASSUME NEW m \in Nat, m % 3 = 2, NEW h \in [0..(m - 1) -> Playable]
    PROVE  Wins(Counts(h, m), m - 2) <=> IsComplete(h, m)
<1>1. PICK k \in Nat : m = 3 * k + 2 /\ k = (m - 2) \div 3
  <2>1. (m - 2) \div 3 \in Nat /\ m = 3 * ((m - 2) \div 3) + 2  OBVIOUS
  <2> QED  BY <2>1
<1>2. m - 2 \in Nat /\ (m - 2) % 3 = 0  BY <1>1
<1> DEFINE tiles == {h[i] : i \in 0..(m - 1)}
           fits == {g \in Groups(tiles) : {g[1], g[2], g[3]} \subseteq tiles}
<1>3. \A t \in Playable : /\ Counts(h, m)[KindIndex(t)] = Count(h, m, t)
                          /\ Count(h, m, t) = Tally(h, 0..(m - 1), t)
                          /\ Count(h, m, t) \in Nat
    BY CountsTiles
<1>4. Wins(Counts(h, m), m - 2) <=>
        \E p \in Playable, f \in [1..k -> Every] : \A t \in Playable :
           InGroups(f, k, t) + Pair(p, t) <= Count(h, m, t)
  <2>1. PICK c \in [Kinds -> Nat] : c = Counts(h, m)  BY CountsTiles
  <2>2. Wins(c, m - 2) <=>
          \E p \in Playable, f \in [1..k -> Every] : \A t \in Playable :
             InGroups(f, k, t) + Pair(p, t) <= c[KindIndex(t)]
      BY <1>1, <1>2, WinsMeans
  <2> QED  BY <1>3, <2>1, <2>2
<1>5. IsComplete(h, m) <=>
        \E p \in tiles, f \in [1..k -> fits] : \A t \in tiles :
           Count(h, m, t) = Pair(p, t) + InGroups(f, k, t)
  <2>1. IsComplete(h, m) <=>
          \E p \in tiles, f \in [1..((m - 2) \div 3) -> fits] : \A t \in tiles :
             Count(h, m, t) = Pair(p, t) + InGroups(f, (m - 2) \div 3, t)
      BY DEF IsComplete, Pair, InGroups
  <2> HIDE DEF tiles, fits
  <2> QED  BY <1>1, <2>1
<1>6. tiles \subseteq Playable  OBVIOUS
<1>7. IsFiniteSet(0..(m - 1))  BY SlotRange
<1>8. \A t \in Playable : t \in tiles <=> Count(h, m, t) # 0
  <2> SUFFICES ASSUME NEW t \in Playable PROVE t \in tiles <=> Count(h, m, t) # 0
      OBVIOUS
  <2>1. Tally(h, 0..(m - 1), t) = 0 <=> \A i \in 0..(m - 1) : h[i] # t  BY <1>7, TallyZero
  <2> QED  BY <1>3, <2>1
<1>9. fits \subseteq Every
  <2> SUFFICES ASSUME NEW g \in Groups(tiles) PROVE g \in Every
      OBVIOUS
  <2>1. \/ \E t \in tiles : g = <<t, t, t>>
        \/ \E t \in tiles : {t, t + 1, t + 2} \subseteq Suited /\ g = <<t, t + 1, t + 2>>
      BY DEF Groups
  <2> QED  BY <1>6, <2>1, TwoSorts
<1>10. \A g \in Every : {g[1], g[2], g[3]} \subseteq tiles => g \in fits
  <2> SUFFICES ASSUME NEW g \in Every, {g[1], g[2], g[3]} \subseteq tiles PROVE g \in Groups(tiles)
      OBVIOUS
  <2>1. CASE \E t \in Playable : g = <<t, t, t>>
    <3>1. PICK t \in Playable : g = <<t, t, t>>  BY <2>1
    <3>2. t \in tiles  BY <3>1
    <3> QED  BY <3>1, <3>2 DEF Groups
  <2>2. CASE \E t \in Playable : {t, t + 1, t + 2} \subseteq Suited /\ g = <<t, t + 1, t + 2>>
    <3>1. PICK t \in Playable : {t, t + 1, t + 2} \subseteq Suited /\ g = <<t, t + 1, t + 2>>
        BY <2>2
    <3>2. t \in tiles  BY <3>1
    <3> HIDE DEF tiles
    <3> QED  BY <3>1, <3>2 DEF Groups
  <2> QED  BY <2>1, <2>2, TwoSorts
<1> HIDE DEF tiles, fits
<1>11. \A f, t : InGroups(f, k, t) \in Nat  BY GroupsTally
<1>12. ASSUME NEW f \in [1..k -> Every], NEW i \in 1..k, NEW j \in 1..3
       PROVE  InGroups(f, k, f[i][j]) # 0
  <2>1. <<i, j>> \in Grid(k) /\ Laid(f, k)[<<i, j>>] = f[i][j]  BY DEF Grid, Laid
  <2>3. IsFiniteSet(Grid(k))  BY GridSize
  <2>4. \E x \in Grid(k) : Laid(f, k)[x] = f[i][j]  BY <2>1
  <2>5. Tally(Laid(f, k), Grid(k), f[i][j]) = 0 <=> \A x \in Grid(k) : Laid(f, k)[x] # f[i][j]
      BY <2>3, TallyZero
  <2>2. Tally(Laid(f, k), Grid(k), f[i][j]) # 0  BY <2>4, <2>5
  <2> QED  BY <2>2, GroupsTally
<1>13. ASSUME NEW p \in Playable, NEW f \in [1..k -> Every],
              \A t \in Playable : InGroups(f, k, t) + Pair(p, t) <= Count(h, m, t)
       PROVE  IsComplete(h, m)
  <2>1. Holds(h, m, p, f, k)  BY <1>3, <1>13 DEF Holds
  <2>2. \A t \in Playable : InGroups(f, k, t) + Pair(p, t) = Tally(h, 0..(m - 1), t)
    <3>1. m = 3 * k + 2  BY <1>1
    <3> QED  BY <2>1, <3>1, PairAndGroupsFill
  <2>3. \A a, t : Pair(a, t) \in Nat  BY DEF Pair
  <2>4. p \in tiles
    <3>1. Pair(p, p) = 2  BY DEF Pair
    <3>2. Count(h, m, p) # 0  BY <1>3, <1>11, <1>13, <3>1
    <3> QED  BY <1>8, <3>2
  <2>5. ASSUME NEW i \in 1..k PROVE f[i] \in fits
    <3>1. f[i] \in Every  OBVIOUS
    <3>2. ASSUME NEW j \in {1, 2, 3} PROVE f[i][j] \in tiles
      <4>1. j \in 1..3  BY <3>2
      <4>2. PICK t \in Playable : t = f[i][j]  BY <3>1, <3>2, GroupTiles
      <4>3. InGroups(f, k, t) # 0  BY <1>12, <4>1, <4>2
      <4>4. Count(h, m, t) # 0  BY <1>3, <1>11, <1>13, <2>3, <4>3
      <4> QED  BY <1>8, <4>2, <4>4
    <3>3. {f[i][1], f[i][2], f[i][3]} \subseteq tiles  BY <3>2
    <3> QED  BY <1>10, <3>1, <3>3
  <2>6. f \in [1..k -> fits]  BY <2>5
  <2>7. \A t \in tiles : Count(h, m, t) = Pair(p, t) + InGroups(f, k, t)
      BY <1>3, <1>6, <1>11, <2>2, <2>3
  <2> QED  BY <1>5, <2>4, <2>6, <2>7
<1>14. ASSUME NEW p \in tiles, NEW f \in [1..k -> fits],
              \A t \in tiles : Count(h, m, t) = Pair(p, t) + InGroups(f, k, t)
       PROVE  /\ p \in Playable /\ f \in [1..k -> Every]
              /\ \A t \in Playable : InGroups(f, k, t) + Pair(p, t) <= Count(h, m, t)
  <2>1. f \in [1..k -> Every]  BY <1>9
  <2>2. \A a, t : Pair(a, t) \in Nat  BY DEF Pair
  <2>3. ASSUME NEW t \in Playable, t \notin tiles
        PROVE  InGroups(f, k, t) = 0 /\ Pair(p, t) = 0
    <3>1. Pair(p, t) = 0  BY <2>3 DEF Pair
    <3>2. \A x \in Grid(k) : Laid(f, k)[x] # t
      <4> SUFFICES ASSUME NEW x \in Grid(k) PROVE f[x[1]][x[2]] # t
          BY DEF Laid, Grid
      <4>1. x[1] \in 1..k /\ x[2] \in 1..3  BY DEF Grid
      <4>2. f[x[1]] \in fits /\ x[2] \in {1, 2, 3}  BY <4>1
      <4>3. \A g \in fits : g[1] \in tiles /\ g[2] \in tiles /\ g[3] \in tiles  BY DEF fits
      <4> QED  BY <2>3, <4>2, <4>3
    <3>3. Tally(Laid(f, k), Grid(k), t) = 0  BY <3>2, GridSize, TallyZero
    <3> QED  BY <3>1, <3>3, GroupsTally
  <2>4. ASSUME NEW t \in Playable
        PROVE  InGroups(f, k, t) + Pair(p, t) <= Count(h, m, t)
    <3>1. CASE t \in tiles  BY <1>11, <1>14, <2>2, <3>1
    <3>2. CASE t \notin tiles  BY <1>3, <2>3, <3>2
    <3> QED  BY <3>1, <3>2
  <2> QED  BY <1>6, <2>1, <2>4
<1> QED  BY <1>4, <1>5, <1>13, <1>14

\* The hand with one tile more: its counters are those of the hand and one.
LEMMA CountsWith ==
    ASSUME NEW m \in Nat, NEW h \in [0..(m - 1) -> Playable], NEW t \in Playable,
           NEW e, e = [i \in 0..m |-> IF i < m THEN h[i] ELSE t]
    PROVE  /\ e \in [0..((m + 1) - 1) -> Playable]
           /\ Counts(e, m + 1) =
                [k \in Kinds |-> IF k = KindIndex(t) THEN Counts(h, m)[k] + 1 ELSE Counts(h, m)[k]]
<1>1. 0..((m + 1) - 1) = 0..m  OBVIOUS
<1>2. \A i \in 0..m : i < m => i \in 0..(m - 1)  OBVIOUS
<1>3. e \in [0..m -> Playable]  BY <1>2
<1>4. e[m] = t /\ m \in 0..m /\ m \notin 0..(m - 1)  OBVIOUS
<1>5. \A i \in 0..(m - 1) : i \in 0..m /\ e[i] = h[i]  OBVIOUS
<1>6. IsFiniteSet(0..(m - 1))  BY SlotRange
<1>7. ASSUME NEW k \in Kinds
      PROVE  Counts(e, m + 1)[k] = IF k = KindIndex(t) THEN Counts(h, m)[k] + 1 ELSE Counts(h, m)[k]
  <2> DEFINE A == {j \in 0..(m - 1) : h[j] # Null /\ KindIndex(h[j]) = k}
             B == {j \in 0..m : e[j] # Null /\ KindIndex(e[j]) = k}
  <2>1. Counts(h, m)[k] = Cardinality(A)  BY DEF Counts
  <2>2. Counts(e, m + 1)[k] = Cardinality(B)
    <3>1. Counts(e, m + 1)[k]
            = Cardinality({j \in 0..((m + 1) - 1) : e[j] # Null /\ KindIndex(e[j]) = k})
        BY DEF Counts
    <3> QED  BY <1>1, <3>1
  <2>3. IsFiniteSet(A) /\ m \notin A
    <3>1. A \subseteq 0..(m - 1)  OBVIOUS
    <3> QED  BY <1>4, <1>6, <3>1, PartSize
  <2>4. t # Null  BY DEF Playable, Suited, DAZI, Null
  <2>5. \A j \in 0..m : j = m \/ j \in 0..(m - 1)  OBVIOUS
  <2>6. CASE k = KindIndex(t)
    <3>1. B = A \cup {m}  BY <1>4, <1>5, <2>4, <2>5, <2>6
    <3>2. Cardinality(A \cup {m}) = Cardinality(A) + 1  BY <2>3, FS_AddElement
    <3> HIDE DEF A, B
    <3> QED  BY <2>1, <2>2, <2>6, <3>1, <3>2
  <2>7. CASE k # KindIndex(t)
    <3>1. B = A  BY <1>4, <1>5, <2>5, <2>7
    <3> HIDE DEF A, B
    <3> QED  BY <2>1, <2>2, <2>7, <3>1
  <2> QED  BY <2>6, <2>7
<1>8. Counts(e, m + 1) = [k \in Kinds |-> Counts(e, m + 1)[k]]  BY DEF Counts
<1> QED  BY <1>1, <1>3, <1>7, <1>8

-----------------------------------------------------------------------------
(* Every hand                                                              *)

\* Hands are made of the tiles dealt.
HandOK == n \in Nat /\ d \in [0..(n - 1) -> Dealt]

\* They grow tile by tile.
LEMMA HandsGrow == Spec => []HandOK
<1>1. Init => HandOK
  <2> SUFFICES ASSUME Init PROVE HandOK
      OBVIOUS
  <2>1. n = 0 /\ d = [i \in {} |-> Null] /\ 0..(n - 1) = {}  BY DEF Init
  <2>2. [i \in {} |-> Null] \in [{} -> Dealt]  OBVIOUS
  <2> QED  BY <2>1, <2>2 DEF HandOK
<1>2. HandOK /\ [Next]_vars => HandOK'
  <2> SUFFICES ASSUME HandOK, [Next]_vars PROVE HandOK'
      OBVIOUS
  <2>1. CASE UNCHANGED vars  BY <2>1 DEF HandOK, vars
  <2>2. ASSUME NEW t \in Dealt, AddTile(t) PROVE HandOK'
    <3>1. n' = n + 1 /\ d' = [i \in 0..n |-> IF i < n THEN d[i] ELSE t]
        BY <2>2 DEF AddTile
    <3>2. n \in Nat /\ n' \in Nat /\ 0..(n' - 1) = 0..n  BY <3>1 DEF HandOK
    <3>3. \A i \in 0..n : i < n => d[i] \in Dealt  BY <3>2 DEF HandOK
    <3>4. d' \in [0..n -> Dealt]  BY <3>1, <3>3
    <3> QED  BY <3>2, <3>4 DEF HandOK
  <2> QED  BY <2>1, <2>2 DEF Next
<1> QED  BY <1>1, <1>2, PTL DEF Spec

\* They are hands that can be played with.
LEMMA HandPlayable == HandOK => n \in Nat /\ d \in [0..(n - 1) -> Playable]
    BY DealtAssumption DEF HandOK

\* hu_check accepts exactly the complete hands, whatever their size and
\* tiles: its backtracking finds a pair and groups whenever there are some.
THEOREM HuCheckIsExact == Spec => []HuCheckExact
<1>1. HandOK => HuCheckExact
  <2> SUFFICES ASSUME HandOK, n % 3 = 2 PROVE hu_check(d, n - 1) <=> IsComplete(d, n)
      BY DEF HuCheckExact
  <2>1. n \in Nat /\ d \in [0..(n - 1) -> Playable]  BY HandPlayable
  <2>2. (n - 1) + 1 = n /\ (n - 1) - 1 = n - 2  BY <2>1
  <2>3. hu_check(d, n - 1) <=> Wins(Counts(d, n), n - 2)  BY <2>2 DEF hu_check
  <2> QED  BY <2>1, <2>3, WinsIsComplete
<1> QED  BY <1>1, HandsGrow, PTL

\* is_add_hu_possible accepts exactly the discards that complete a hand,
\* whatever the hand's size and tiles.
THEOREM AddHuIsExact == Spec => []AddHuExact
<1>1. HandOK => AddHuExact
  <2> SUFFICES ASSUME HandOK, n % 3 = 1, NEW t \in Dealt
               PROVE  is_add_hu_possible(d, n, t) <=> IsComplete(With(t), n + 1)
      BY DEF AddHuExact
  <2>1. n \in Nat /\ d \in [0..(n - 1) -> Playable]  BY HandPlayable
  <2>2. t \in Playable  BY DealtAssumption
  <2>3. PICK e : e = With(t)  OBVIOUS
  <2>4. /\ e \in [0..((n + 1) - 1) -> Playable]
        /\ Counts(e, n + 1) =
             [k \in Kinds |-> IF k = KindIndex(t) THEN Counts(d, n)[k] + 1 ELSE Counts(d, n)[k]]
    <3>1. e = [i \in 0..n |-> IF i < n THEN d[i] ELSE t]  BY <2>3 DEF With
    <3> QED  BY <2>1, <2>2, <3>1, CountsWith
  <2>5. (n + 1) - 2 = n - 1 /\ n + 1 \in Nat /\ (n + 1) % 3 = 2  BY <2>1
  <2>6. is_add_hu_possible(d, n, t) <=> Wins(Counts(e, n + 1), (n + 1) - 2)
      BY <2>4, <2>5 DEF is_add_hu_possible
  <2>7. Wins(Counts(e, n + 1), (n + 1) - 2) <=> IsComplete(e, n + 1)
      BY <2>4, <2>5, WinsIsComplete
  <2> QED  BY <2>3, <2>6, <2>7
<1> QED  BY <1>1, HandsGrow, PTL

-----------------------------------------------------------------------------
(* Eating                                                                  *)

\* A tile of the hand is counted.
LEMMA SlotCounted ==
    ASSUME NEW m \in Nat, NEW h \in [0..(m - 1) -> Playable], NEW j \in 0..(m - 1)
    PROVE  KindIndex(h[j]) \in Kinds /\ Counts(h, m)[KindIndex(h[j])] >= 1
<1>1. PICK t \in Playable : t = h[j]  OBVIOUS
<1>2. /\ Counts(h, m)[KindIndex(t)] = Tally(h, 0..(m - 1), t)
      /\ Tally(h, 0..(m - 1), t) \in Nat
    BY CountsTiles
<1>3. IsFiniteSet(0..(m - 1))  BY SlotRange
<1>4. Tally(h, 0..(m - 1), t) = 0 <=> \A i \in 0..(m - 1) : h[i] # t  BY <1>3, TallyZero
<1>5. Tally(h, 0..(m - 1), t) # 0  BY <1>1, <1>4
<1> QED  BY <1>1, <1>2, <1>5, KindsOfTiles

\* A tile that two tiles of the hand make a chow with is offered.
LEMMA ChoiceIsOffered ==
    ASSUME NEW m \in Nat, NEW h \in [0..(m - 1) -> Playable], NEW t \in Suited,
           NEW i \in 0..(m - 1), NEW j \in 0..(m - 1), eatable(h[i], h[j], t)
    PROVE  is_eat_possible(h, m, t)
<1>1. PICK a \in Playable, b \in Playable : a = h[i] /\ b = h[j]  OBVIOUS
<1>2. t \in Playable /\ t \notin DAZI  BY DEF Playable, Suited, DAZI
<1>3. PICK lo : lo = Min({a, b, t})  OBVIOUS
<1>4. {a, b, t} = {lo, lo + 1, lo + 2} /\ lo \div 10 = (lo + 2) \div 10
    BY <1>1, <1>3 DEF eatable
<1>5. lo \in Playable /\ lo + 1 \in Playable /\ lo + 2 \in Playable  BY <1>1, <1>2, <1>4
<1>6. lo \in 11..47  BY <1>5, PlayableNat
<1>7. {lo, lo + 1, lo + 2} \subseteq Suited
  <2>1. t \in {lo, lo + 1, lo + 2}  BY <1>4
  <2>2. lo < 40
    <3>1. t < 40  BY DEF Suited
    <3> QED  BY <1>6, <2>1, <3>1
  <2>3. lo + 2 < 40  BY <1>4, <1>6, <2>2
  <2> QED  BY <1>5, <1>6, <2>3 DEF Playable, DAZI
<1>8. PICK k : k = KindIndex(lo)  OBVIOUS
<1>9. /\ k \in Kinds /\ ChowAt(k) /\ KindIndex(lo + 1) = k + 1 /\ KindIndex(lo + 2) = k + 2
    BY <1>5, <1>7, <1>8, ChowTilesOf, KindsOfTiles
<1>10. /\ k \in 0..33 /\ k + 1 \in Kinds /\ k + 2 \in Kinds
       /\ k \div 9 = (k + 2) \div 9 /\ k \div 9 = (k + 1) \div 9
  <2>1. k \in 0..33 /\ k + 2 < 27 /\ k \div 9 = (k + 2) \div 9  BY <1>9 DEF ChowAt, Kinds
  <2>2. k \div 9 = (k + 1) \div 9  BY <2>1
  <2> QED  BY <2>1, <2>2 DEF Kinds
<1>11. /\ Counts(h, m)[KindIndex(a)] >= 1 /\ Counts(h, m)[KindIndex(b)] >= 1
    BY <1>1, SlotCounted
<1> DEFINE Held(x) == x \in Kinds /\ x \div 9 = KindIndex(t) \div 9 /\ Counts(h, m)[x] >= 1
<1>12. SUFFICES \/ Held(KindIndex(t) + 1) /\ Held(KindIndex(t) + 2)
                \/ Held(KindIndex(t) + 1) /\ Held(KindIndex(t) - 1)
                \/ Held(KindIndex(t) - 2) /\ Held(KindIndex(t) - 1)
    BY <1>2 DEF is_eat_possible
<1>16. lo \in {a, b, t} /\ lo + 1 \in {a, b, t} /\ lo + 2 \in {a, b, t}  BY <1>4
<1>17. lo # lo + 1 /\ lo # lo + 2 /\ lo + 1 # lo + 2  BY <1>6
<1>13. CASE t = lo
  <2>1. lo + 1 \in {a, b} /\ lo + 2 \in {a, b}  BY <1>16, <1>17, <1>13
  <2>2. Counts(h, m)[k + 1] >= 1 /\ Counts(h, m)[k + 2] >= 1  BY <1>9, <1>11, <2>1
  <2> QED  BY <1>8, <1>10, <1>13, <2>2
<1>14. CASE t = lo + 1
  <2>1. lo \in {a, b} /\ lo + 2 \in {a, b}  BY <1>16, <1>17, <1>14
  <2>2. Counts(h, m)[k] >= 1 /\ Counts(h, m)[k + 2] >= 1  BY <1>8, <1>9, <1>11, <2>1
  <2>3. KindIndex(t) = k + 1 /\ KindIndex(t) + 1 = k + 2 /\ KindIndex(t) - 1 = k
      BY <1>9, <1>10, <1>14
  <2> QED  BY <1>9, <1>10, <2>2, <2>3
<1>15. CASE t = lo + 2
  <2>1. lo \in {a, b} /\ lo + 1 \in {a, b}  BY <1>16, <1>17, <1>15
  <2>2. Counts(h, m)[k] >= 1 /\ Counts(h, m)[k + 1] >= 1  BY <1>8, <1>9, <1>11, <2>1
  <2>3. KindIndex(t) = k + 2 /\ KindIndex(t) - 1 = k + 1 /\ KindIndex(t) - 2 = k
      BY <1>9, <1>10, <1>15
  <2> QED  BY <1>9, <1>10, <2>2, <2>3
<1> QED  BY <1>4, <1>13, <1>14, <1>15

\* is_eat_possible offers a discard exactly if it is of a suit and two tiles
\* of the hand pass the check of the choice that follows, whatever the hand.
THEOREM EatOfferIsExact == Spec => []EatOfferExact
<1>1. HandOK => EatOfferExact
  <2> SUFFICES ASSUME HandOK, NEW t \in Dealt
               PROVE  is_eat_possible(d, n, t) <=>
                        /\ t \in Suited
                        /\ \E i, j \in 0..(n - 1) : eatable(d[i], d[j], t)
      BY DEF EatOfferExact
  <2>1. n \in Nat /\ d \in [0..(n - 1) -> Playable]  BY HandPlayable
  <2>2. t \in Playable  BY DealtAssumption
  <2>3. ASSUME is_eat_possible(d, n, t)
        PROVE  t \in Suited /\ \E i, j \in 0..(n - 1) : eatable(d[i], d[j], t)
    <3>1. t \in Suited  BY <2>2, <2>3 DEF is_eat_possible, Playable
    <3>2. Playable \subseteq Entry /\ t # Null
        BY <3>1 DEF Entry, Tile, Suited, Null
    <3>3. t \in Entry /\ \A j \in 0..(n - 1) : d[j] \in Entry  BY <2>1, <2>2, <3>2
    <3> QED  BY <2>1, <2>3, <3>1, <3>2, <3>3, EatOfferChoice
  <2>4. ASSUME t \in Suited, NEW i \in 0..(n - 1), NEW j \in 0..(n - 1), eatable(d[i], d[j], t)
        PROVE  is_eat_possible(d, n, t)
      BY <2>1, <2>4, ChoiceIsOffered
  <2> QED  BY <2>3, <2>4
<1> QED  BY <1>1, HandsGrow, PTL
=============================================================================
