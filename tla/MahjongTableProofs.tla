------------------------- MODULE MahjongTableProofs -------------------------
(***************************************************************************)
(* Invariants of the table for every hand size, wall and number of rounds. *)
(***************************************************************************)
EXTENDS MahjongTable, TilesProofs, SequenceTheorems

\* What type correctness rests on besides the types: nothing is left over
\* when a round is dealt; from the second question on, the tile on offer is
\* a real one; a player who eats has two tiles to eat with; only a player
\* who drew gets to quiet_gang, with a real tile in slot nc; a hand always
\* lacks one tile of being a pair and groups of three.
Shape ==
    /\ pc = "deal" => /\ nc = [p \in Players |-> HandSize]
                      /\ flower_index = [p \in Players |-> 0]
                      /\ door = [p \in Players |-> <<>>]
                      /\ sea = [p \in Players |-> <<>>]
    /\ (pc = "react" /\ ask >= 2) => discarded_mj # Null
    /\ pc = "eat" => discarded_mj # Null /\ nc[Asked] >= 2
    /\ pc = "quiet" => ~claimed
    /\ (pc \in {"hu", "quiet"} /\ ~claimed) => decks[playernow][nc[playernow]] # Null
    /\ \A p \in Players : nc[p] % 3 = 1
    /\ WinnerEndsRound
    /\ wall \in Walls

-----------------------------------------------------------------------------
(* Facts about single operators                                            *)

\* The player asked is one of the three others.
LEMMA AskedOther ==
    ASSUME playernow \in Players, ask \in 1..11
    PROVE  Asked \in Players /\ Asked # playernow
    BY DEF Asked, Players

\* Laying three or four tiles down makes the door that much longer.
LEMMA LayDown ==
    ASSUME NEW s \in Seq(Tile), NEW a \in Tile, NEW b \in Tile, NEW c \in Tile
    PROVE  /\ s \o <<a, b, c>> \in Seq(Tile)
           /\ Len(s \o <<a, b, c>>) = Len(s) + 3
           /\ s \o <<a, a, a, a>> \in Seq(Tile)
           /\ Len(s \o <<a, a, a, a>>) = Len(s) + 4
<1>1. <<a, b, c>> \in Seq(Tile) /\ Len(<<a, b, c>>) = 3  OBVIOUS
<1>2. <<a, a, a, a>> \in Seq(Tile) /\ Len(<<a, a, a, a>>) = 4  OBVIOUS
<1> QED  BY <1>1, <1>2, ConcatProperties

\* A hand with a pong, a gang or a chow in reach has at least four tiles.
LEMMA ClaimNeedsTiles ==
    ASSUME NEW d, NEW n \in Nat, n % 3 = 1, NEW t,
           is_gang_possible(d, n, t) \/ is_pong_possible(d, n, t) \/ n >= 2
    PROVE  n >= 4
<1>1. Count(d, n, t) \in Nat /\ Count(d, n, t) <= n  BY CountBound
<1> QED  BY <1>1 DEF is_gang_possible, is_pong_possible

\* A player who is offered an eat has two tiles at least.
LEMMA EatNeedsTwo ==
    ASSUME NEW d, NEW n \in Nat, NEW t, is_eat_possible(d, n, t), KindIndex(t) \in Int
    PROVE  n >= 2
<1> DEFINE k == KindIndex(t)
           Has(x) == x \in Kinds /\ x \div 9 = k \div 9 /\ Counts(d, n)[x] >= 1
<1>1. PICK x, y \in Int : x # y /\ Has(x) /\ Has(y)
  <2>1. CASE Has(k + 1) /\ Has(k + 2)  BY <2>1
  <2>2. CASE Has(k + 1) /\ Has(k - 1)  BY <2>2
  <2>3. CASE Has(k - 2) /\ Has(k - 1)  BY <2>3
  <2> QED  BY <2>1, <2>2, <2>3 DEF is_eat_possible
<1>2. PICK i \in 0..(n - 1) : KindIndex(d[i]) = x  BY <1>1, CountedSlot
<1>3. PICK j \in 0..(n - 1) : KindIndex(d[j]) = y  BY <1>1, CountedSlot
<1> QED  BY <1>1, <1>2, <1>3

-----------------------------------------------------------------------------
(* Type correctness                                                        *)

\* The facts about the constants that the proofs use: a deal leaves
\* something of every wall.
LEMMA ConstantFacts ==
    /\ HandSize \in Nat /\ HandSize >= 4 /\ HandSize % 4 = 0 /\ HandSize % 3 = 1
    /\ WallSize \in Nat
    /\ Rounds \in 1..4
    /\ \A w \in Walls : w \in [0..(WallSize - 1) -> Tile] /\ 4 * HandSize < WallSize
<1>1. HandSize \in Nat /\ HandSize >= 4 /\ HandSize % 4 = 0 /\ HandSize % 3 = 1
    BY HandSizeAssumption
<1>2. WallSize \in Nat  BY WallAssumption
<1>3. ASSUME NEW w \in Walls
      PROVE  w \in [0..(WallSize - 1) -> Tile] /\ 4 * HandSize < WallSize
  <2> DEFINE Fl == {i \in 0..(WallSize - 1) : w[i] \in FLOWER}
  <2>1. w \in [0..(WallSize - 1) -> Tile] /\ 4 * HandSize + Cardinality(Fl) < WallSize
      BY WallAssumption
  <2>2. Fl \in SUBSET (0..(WallSize - 1))  OBVIOUS
  <2>3. Cardinality(Fl) \in Nat
      BY <1>2, <2>2, SlotRange, FS_Subset, FS_CardinalityType
  <2> HIDE DEF Fl
  <2> QED  BY <1>1, <1>2, <2>1, <2>3
<1> QED  BY <1>1, <1>2, <1>3, RoundsAssumption

\* The first round starts in a state of the right shape.
LEMMA TypeInit == Init => TypeOK /\ Shape
<1> SUFFICES ASSUME Init PROVE TypeOK /\ Shape
    OBVIOUS
<1> USE ConstantFacts DEF Init
<1>1. wall \in [0..(WallSize - 1) -> Tile] /\ take_index \in 0..WallSize
    OBVIOUS
<1>2. decks \in [Players -> [Slots -> Entry]]
    BY DEF EmptyDeck, Entry
<1>3. /\ nc \in [Players -> 0..HandSize]
      /\ flowers \in [Players -> SUBSET FLOWER]
      /\ flower_index \in [Players -> Nat]
      /\ door \in [Players -> Seq(Tile)]
      /\ sea \in [Players -> Seq(Tile)]
    OBVIOUS
<1>4. /\ discarded_mj \in Entry
      /\ winner \in Players \cup {-1} /\ playernow \in Players
      /\ startplayer \in 0..(Rounds - 1) /\ playeradd \in 0..3
      /\ no_flower_count \in 0..FlowerPasses /\ ask \in 1..11
    BY DEF Entry, Players, FlowerPasses
<1>5. /\ pc \in PCs /\ claimed \in BOOLEAN /\ nested \in BOOLEAN
      /\ client \in {"get_decks", "loop", "draw", "hu", "quiet", "discard"}
    BY DEF PCs
<1>6. TypeOK
    BY <1>1, <1>2, <1>3, <1>4, <1>5 DEF TypeOK
<1>7. Shape
    BY DEF Shape, WinnerEndsRound, Players
<1> QED  BY <1>6, <1>7

\* The deal stays within the wall.
LEMMA DealtTile ==
    ASSUME TypeOK, Shape, NEW p \in Players, NEW i \in Slots, i < HandSize
    PROVE  DealtTo(p, i) \in Tile
<1>0. HandSize \in Nat /\ HandSize % 4 = 0  BY ConstantFacts
<1>1. wall \in [0..(WallSize - 1) -> Tile] /\ 4 * HandSize < WallSize /\ WallSize \in Nat
    BY ConstantFacts DEF TypeOK, Shape
<1>2. playernow \in 0..3 /\ p \in 0..3  BY DEF TypeOK, Players
<1>3. PICK add \in 0..3 : add = (p - playernow + 4) % 4  BY <1>2
<1>4. i \in 0..(HandSize - 1)  BY <1>0 DEF Slots
<1>5. (i \div 4) * 16 + add * 4 + (i % 4) \in 0..(4 * HandSize - 1)
    BY <1>0, <1>4
<1>6. DealtTo(p, i) = wall[(i \div 4) * 16 + add * 4 + (i % 4)]
    BY <1>3 DEF DealtTo
<1> QED  BY <1>0, <1>1, <1>5, <1>6

\* The deal takes its 4 * HandSize tiles from the front of the wall.
LEMMA TypeDeal ==
    ASSUME TypeOK, Shape, Deal PROVE TypeOK' /\ Shape'
<1> USE ConstantFacts
<1>1. wall \in [0..(WallSize - 1) -> Tile] /\ 4 * HandSize < WallSize
    BY DEF TypeOK, Shape
<1>2. ASSUME NEW p \in Players, NEW i \in Slots, i < HandSize
      PROVE  DealtTo(p, i) \in Tile
    BY <1>2, DealtTile
<1>3. decks' \in [Players -> [Slots -> Entry]]
    BY <1>2 DEF Deal, Entry
<1>4. take_index' \in 0..WallSize
    BY <1>1 DEF Deal
<1>5. TypeOK'
    BY <1>3, <1>4 DEF TypeOK, Deal, PCs, FlowerPasses
<1>6. Shape'
    BY DEF Shape, Deal, WinnerEndsRound, Ended
<1> QED  BY <1>5, <1>6

\* A flower is replaced by a tile of the wall.
LEMMA ReplacementTile ==
    ASSUME TypeOK, NEW p \in Players, NEW Fl, Fl = FlowerSlots(p), NEW i \in Fl,
           NEW found \in Nat, found = Cardinality(Fl), IsFiniteSet(Fl),
           take_index + found <= WallSize
    PROVE  Replacement(p, i) \in Tile
<1> DEFINE Before == {j \in Fl : j < i}
<1>0. WallSize \in Nat  BY ConstantFacts
<1>1. Before \in SUBSET Fl /\ Before # Fl
  <2>1. i \in Int  BY DEF FlowerSlots, Slots
  <2>2. i \notin Before  BY <2>1
  <2> QED  BY <2>2
<1>2. Cardinality(Before) \in Nat /\ Cardinality(Before) < found
  <2>1. /\ IsFiniteSet(Before) /\ Cardinality(Before) <= Cardinality(Fl)
        /\ Cardinality(Fl) = Cardinality(Before) => Fl = Before
      BY <1>1, FS_Subset
  <2>2. Cardinality(Before) \in Nat  BY <2>1, FS_CardinalityType
  <2> HIDE DEF Before
  <2> QED  BY <2>1, <2>2, <1>1
<1>3. Replacement(p, i) = wall[take_index + Cardinality(Before)]
    BY DEF Replacement
<1> HIDE DEF Before
<1>4. take_index + Cardinality(Before) \in 0..(WallSize - 1)
  <2>1. take_index \in 0..WallSize  BY DEF TypeOK
  <2> QED  BY <1>0, <1>2, <2>1
<1> QED  BY <1>3, <1>4 DEF TypeOK

\* A pass of has_flower takes as many tiles as it found flowers.
LEMMA TypeHasFlower ==
    ASSUME TypeOK, Shape, has_flower PROVE TypeOK' /\ Shape'
<1>0. WallSize \in Nat /\ HandSize \in Nat  BY ConstantFacts
<1>1. PICK p \in Players : p = (playernow + playeradd) % 4
    BY DEF TypeOK, Players
<1>2. PICK Fl : Fl = FlowerSlots(p)
    OBVIOUS
<1>3. /\ Fl \in SUBSET Slots /\ \A i \in Fl : decks[p][i] \in FLOWER
      /\ IsFiniteSet(Fl)
  <2>1. Fl \in SUBSET Slots /\ \A i \in Fl : decks[p][i] \in FLOWER
      BY <1>2 DEF FlowerSlots
  <2>2. IsFiniteSet(Slots)  BY <1>0, FS_Interval DEF Slots
  <2> QED  BY <2>1, <2>2, FS_Subset
<1>a. PICK found \in Nat : found = Cardinality(Fl)
    BY <1>3, FS_CardinalityType
<1>4. /\ pc = "regrab"
      /\ no_flower_count < FlowerPasses
      /\ take_index + found <= WallSize
      /\ flowers' = [flowers EXCEPT ![p] = @ \cup {decks[p][i] : i \in Fl}]
      /\ flower_index' = [flower_index EXCEPT ![p] = @ + found]
      /\ decks' = [decks EXCEPT ![p] =
                     [i \in Slots |-> IF i \in Fl THEN Replacement(p, i) ELSE decks[p][i]]]
      /\ take_index' = take_index + found
      /\ no_flower_count' = CountPass(found)
      /\ playeradd' = (playeradd + 1) % 4
      /\ UNCHANGED <<wall, nc, door, sea, discarded_mj, winner, playernow, startplayer,
                     pc, ask, claimed, nested, client>>
    BY <1>1, <1>2, <1>a DEF has_flower
<1>5. ASSUME NEW i \in Fl PROVE Replacement(p, i) \in Tile
    BY <1>2, <1>3, <1>4, <1>a, ReplacementTile
<1>6. decks' \in [Players -> [Slots -> Entry]]
  <2>1. [i \in Slots |-> IF i \in Fl THEN Replacement(p, i) ELSE decks[p][i]]
            \in [Slots -> Entry]
      BY <1>5 DEF TypeOK, Entry
  <2> QED  BY <1>4, <2>1 DEF TypeOK
<1>7. flowers' \in [Players -> SUBSET FLOWER]
  <2>1. {decks[p][i] : i \in Fl} \subseteq FLOWER  BY <1>3
  <2>2. flowers \in [Players -> SUBSET FLOWER]  BY DEF TypeOK
  <2>3. flowers' = [flowers EXCEPT ![p] = @ \cup {decks[p][i] : i \in Fl}]  BY <1>4
  <2> QED  BY <2>1, <2>2, <2>3
<1>8. flower_index' \in [Players -> Nat] /\ take_index' \in 0..WallSize
  <2>1. flower_index \in [Players -> Nat] /\ take_index \in 0..WallSize  BY DEF TypeOK
  <2>2. /\ flower_index' = [flower_index EXCEPT ![p] = @ + found]
        /\ take_index' = take_index + found /\ take_index + found <= WallSize
      BY <1>4
  <2> QED  BY <1>0, <2>1, <2>2
<1>9. no_flower_count' \in 0..FlowerPasses /\ playeradd' \in 0..3
  <2>1. no_flower_count \in 0..4 /\ playeradd \in 0..3  BY DEF TypeOK, FlowerPasses
  <2>2. /\ no_flower_count < 4 /\ playeradd' = (playeradd + 1) % 4
        /\ no_flower_count' = IF found > 0 THEN 0 ELSE no_flower_count + 1
      BY <1>4 DEF CountPass, FlowerPasses
  <2> QED  BY <2>1, <2>2 DEF FlowerPasses
<1>10. TypeOK'
    BY <1>4, <1>6, <1>7, <1>8, <1>9 DEF TypeOK
<1>11. Shape'
    BY <1>4 DEF Shape, WinnerEndsRound, Ended
<1> QED  BY <1>10, <1>11

\* The sort after the deal keeps the hands hands.
LEMMA TypeStartPlay ==
    ASSUME TypeOK, Shape, StartPlay PROVE TypeOK' /\ Shape'
<1> USE ConstantFacts
<1>1. ASSUME NEW p \in Players
      PROVE  decks_quick_sort(decks[p], HandSize - 1) \in [Slots -> Entry]
  <2>1. decks[p] \in [Slots -> Entry] /\ HandSize - 1 \in -1..HandSize
      BY DEF TypeOK
  <2> QED  BY <2>1, SortMembers
<1>2. decks' \in [Players -> [Slots -> Entry]]
    BY <1>1 DEF StartPlay
<1>3. TypeOK'
    BY <1>2 DEF TypeOK, StartPlay, PCs, dealing
<1>4. Shape'
    BY DEF Shape, StartPlay, WinnerEndsRound, Ended
<1> QED  BY <1>3, <1>4

\* draw() stays within the wall and puts the tile into slot nc.
LEMMA TypeDraw ==
    ASSUME TypeOK, Shape, draw PROVE TypeOK' /\ Shape'
<1> USE ConstantFacts
<1>1. PICK t \in Tile : t = wall[take_index]
    BY DEF TypeOK, draw
<1>2. /\ playernow \in Players /\ nc[playernow] \in Slots
      /\ decks[playernow] \in [Slots -> Entry]
    BY DEF TypeOK, Slots
<1>3. decks' = [decks EXCEPT ![playernow][nc[playernow]] = t]
    BY <1>1 DEF draw
<1>4. /\ decks' \in [Players -> [Slots -> Entry]]
      /\ decks'[playernow][nc[playernow]] = t
    BY <1>2, <1>3 DEF TypeOK, Entry
<1>5. t # Null  BY DEF Tile, Playable, Suited, DAZI, FLOWER, Null
<1>6. take_index' \in 0..WallSize  BY DEF TypeOK, draw
<1>7. flowers' \in [Players -> SUBSET FLOWER] /\ flower_index' \in [Players -> Nat]
  <2>0. flowers \in [Players -> SUBSET FLOWER] /\ flower_index \in [Players -> Nat]
      BY DEF TypeOK
  <2>1. CASE t \in FLOWER
    <3>1. /\ flowers' = [flowers EXCEPT ![playernow] = @ \cup {t}]
          /\ flower_index' = [flower_index EXCEPT ![playernow] = @ + 1]
        BY <1>1, <2>1 DEF draw
    <3> QED  BY <1>2, <2>0, <2>1, <3>1
  <2>2. CASE t \notin FLOWER  BY <1>1, <2>0, <2>2 DEF draw
  <2> QED  BY <2>1, <2>2
<1>8. /\ pc' \in {"draw", "hu"} /\ client' \in {"draw", "hu"}
      /\ UNCHANGED <<wall, nc, door, sea, discarded_mj, winner, playernow, startplayer,
                     playeradd, no_flower_count, ask, claimed, nested>>
    BY <1>1 DEF draw, dealing
<1>9. TypeOK'
    BY <1>4, <1>6, <1>7, <1>8 DEF TypeOK, PCs
<1>10. Shape'
    BY <1>4, <1>5, <1>8 DEF Shape, draw, WinnerEndsRound, Ended
<1> QED  BY <1>9, <1>10

\* The steps that only move the server on: a crash, an answer NO, an exit.
LEMMA TypeMovesOn ==
    ASSUME TypeOK, Shape,
           \/ DrawPastEnd \/ HuPass \/ QuietPass \/ CountNull \/ Pass
           \/ GameOver \/ Disconnect
    PROVE  TypeOK' /\ Shape'
<1>1. /\ UNCHANGED <<wall, take_index, hands, discarded_mj, winner, playernow, startplayer,
                     dealing, claimed, nested>>
      /\ \/ pc' \in Ended /\ UNCHANGED <<ask, client>>
         \/ /\ pc = "hu" /\ pc' = IF claimed THEN "discard" ELSE "quiet"
            /\ client' = pc' /\ ask' = ask
         \/ pc = "quiet" /\ pc' = "discard" /\ client' = "discard" /\ ask' = ask
         \/ /\ pc = "react" /\ pc' = "react" /\ ask <= 10 /\ ask' = ask + 1
            /\ discarded_mj # Null /\ UNCHANGED client
         \/ pc = "set" /\ pc' = "over" /\ UNCHANGED <<ask, client>>
    BY DEF DrawPastEnd, HuPass, ClientAfterHu, QuietPass, CountNull, Pass, GameOver, Disconnect,
           ScansNull, Ended
<1>2. /\ UNCHANGED <<wall, take_index, decks, nc, flowers, flower_index, door, sea,
                     discarded_mj, winner, playernow, startplayer, playeradd,
                     no_flower_count, claimed, nested>>
    BY <1>1 DEF hands, dealing
<1>3. ask' \in 1..11
  <2>1. ask \in 1..11  BY DEF TypeOK
  <2>2. ask' = ask \/ (ask <= 10 /\ ask' = ask + 1)  BY <1>1
  <2> QED  BY <2>1, <2>2
<1>4. pc' \in PCs /\ client' \in {"get_decks", "loop", "draw", "hu", "quiet", "discard"}
  <2>1. /\ client \in {"get_decks", "loop", "draw", "hu", "quiet", "discard"}
        /\ claimed \in BOOLEAN
      BY DEF TypeOK
  <2>2. pc' \in Ended \cup {"quiet", "discard", "react"}  BY <1>1 DEF Ended
  <2>3. client' \in {client, "quiet", "discard"}  BY <1>1
  <2> QED  BY <2>1, <2>2, <2>3 DEF PCs
<1>5. TypeOK'
    BY <1>2, <1>3, <1>4 DEF TypeOK
<1>6. WinnerEndsRound'
    BY <1>1, <1>2 DEF Shape, WinnerEndsRound, Ended
<1>7. Shape'
  <2>1. pc' # "deal" /\ pc' # "eat"
      BY <1>1 DEF Ended
  <2>2. (pc' = "react" /\ ask' >= 2) => discarded_mj' # Null
      BY <1>1, <1>2 DEF Ended
  <2>3. /\ pc' = "quiet" => ~claimed'
        /\ (pc' \in {"hu", "quiet"} /\ ~claimed')
              => decks'[playernow'][nc'[playernow']] # Null
      BY <1>1, <1>2 DEF Ended, Shape
  <2> QED  BY <1>2, <1>6, <2>1, <2>2, <2>3 DEF Shape
<1> QED  BY <1>5, <1>7

\* A round that is won ends, whatever othersreaction() returned.
LEMMA TypeWon ==
    ASSUME TypeOK, Shape, HuAccept \/ HuClaim
    PROVE  TypeOK' /\ Shape'
<1>1. winner' \in Players
    BY AskedOther DEF HuAccept, HuClaim, TypeOK
<1>2. \A ret : ~RoundGoesOn(ret, winner')
    BY <1>1 DEF RoundGoesOn, Players
<1>3. /\ pc' = "set" /\ client' = "loop" /\ claimed' = FALSE /\ nested' = FALSE
      /\ UNCHANGED <<wall, take_index, decks, nc, flowers, flower_index, door, sea,
                     discarded_mj, playernow, startplayer, playeradd, no_flower_count, ask>>
    BY <1>2 DEF HuAccept, HuClaim, Return, hands, dealing
<1>4. TypeOK'
    BY <1>1, <1>3 DEF TypeOK, PCs
<1>5. Shape'
    BY <1>3 DEF Shape, WinnerEndsRound
<1> QED  BY <1>4, <1>5

\* Nobody claims the tile: it goes to the sea, and the round goes on or ends.
LEMMA TypeUnclaimed ==
    ASSUME TypeOK, Shape, Unclaimed
    PROVE  TypeOK' /\ Shape'
<1>1. discarded_mj \in Tile /\ playernow \in Players
    BY DEF TypeOK, Shape, Unclaimed, Entry
<1>2. sea' \in [Players -> Seq(Tile)]
  <2>1. sea \in [Players -> Seq(Tile)]  BY DEF TypeOK
  <2>2. Append(sea[playernow], discarded_mj) \in Seq(Tile)
      BY <1>1, <2>1
  <2> QED  BY <2>1, <2>2 DEF Unclaimed
<1>3. /\ playernow' \in Players /\ pc' \in {"draw", "set"} /\ client' \in {"draw", "loop"}
    BY <1>1 DEF Unclaimed, Return, NextPlayer, Players
<1>4. /\ discarded_mj' = Null /\ claimed' = FALSE /\ nested' = FALSE
      /\ UNCHANGED <<wall, take_index, decks, nc, flowers, flower_index, door, winner,
                     startplayer, playeradd, no_flower_count, ask>>
    BY DEF Unclaimed, dealing
<1>5. TypeOK'
    BY <1>2, <1>3, <1>4 DEF TypeOK, PCs, Entry
<1>6. Shape'
    BY <1>3, <1>4 DEF Shape, WinnerEndsRound, Unclaimed, Ended
<1> QED  BY <1>5, <1>6

\* swap() exchanges two entries of a hand.
LEMMA SwapType ==
    ASSUME NEW d \in [Slots -> Entry], NEW i \in Slots, NEW j \in Slots
    PROVE  swap(d, i, j) \in [Slots -> Entry]
    BY DEF swap

\* The index a discard names is at most nc, so what is put on offer is an
\* entry of the hand.
LEMMA TypeDiscard ==
    ASSUME TypeOK, Shape, NEW i \in Slots, discard(i)
    PROVE  TypeOK' /\ Shape'
<1>0. HandSize \in Nat  BY ConstantFacts
<1>1. PICK p \in Players : p = playernow
    BY DEF TypeOK
<1>2. PICK n \in 0..HandSize : n = nc[p]
    BY DEF TypeOK
<1>3. PICK d \in [Slots -> Entry] : d = decks[p]
    BY DEF TypeOK
<1>4. PICK e \in [Slots -> Entry] : e = [swap(d, n, i) EXCEPT ![n] = Null]
  <2>1. n \in Slots  BY DEF Slots
  <2>2. PICK b \in [Slots -> Entry] : b = swap(d, n, i)  BY <2>1, SwapType
  <2>3. [b EXCEPT ![n] = Null] \in [Slots -> Entry]  BY <2>1 DEF Entry
  <2> QED  BY <2>2, <2>3
<1>5. PICK f \in [Slots -> Entry] : f = decks_quick_sort(e, n - 1)
  <2>1. n - 1 \in -1..HandSize  BY <1>0
  <2> QED  BY <2>1, SortMembers
<1>6. /\ discarded_mj' = d[i] /\ decks' = [decks EXCEPT ![p] = f]
      /\ pc' = "react" /\ ask' = 1 /\ client' = "loop"
      /\ UNCHANGED <<wall, take_index, nc, flowers, flower_index, door, sea, winner,
                     playernow, startplayer, playeradd, no_flower_count, claimed>>
      /\ pc = "discard"
    BY <1>1, <1>2, <1>3, <1>4, <1>5 DEF discard, Choosable, dealing
<1>7. decks' \in [Players -> [Slots -> Entry]] /\ discarded_mj' \in Entry
    BY <1>6 DEF TypeOK
<1>8. nested' \in BOOLEAN
    BY Zenon DEF discard, TypeOK
<1>9. TypeOK'
  <2>1. /\ (wall \in [0..(WallSize - 1) -> Tile])' /\ (take_index \in 0..WallSize)'
        /\ (nc \in [Players -> 0..HandSize])' /\ (flowers \in [Players -> SUBSET FLOWER])'
        /\ (flower_index \in [Players -> Nat])'
        /\ (door \in [Players -> Seq(Tile)])' /\ (sea \in [Players -> Seq(Tile)])'
      BY <1>6 DEF TypeOK
  <2>2. /\ (winner \in Players \cup {-1})' /\ (playernow \in Players)'
        /\ (startplayer \in 0..(Rounds - 1))' /\ (playeradd \in 0..3)'
        /\ (no_flower_count \in 0..FlowerPasses)'
      BY <1>6 DEF TypeOK
  <2>3. (claimed \in BOOLEAN)'  BY <1>6, Zenon DEF TypeOK
  <2>4. pc' \in PCs /\ ask' \in 1..11
        /\ client' \in {"get_decks", "loop", "draw", "hu", "quiet", "discard"}
      BY <1>6 DEF PCs
  <2> QED  BY <1>7, <1>8, <2>1, <2>2, <2>3, <2>4, Zenon DEF TypeOK
<1>10. Shape'
    BY <1>6 DEF Shape, WinnerEndsRound, Ended
<1> QED  BY <1>9, <1>10

\* A chow eaten is made of real tiles.
LEMMA EatenTiles ==
    ASSUME NEW a \in Entry, NEW b \in Entry, NEW t \in Entry, eatable(a, b, t)
    PROVE  /\ Min({a, b, t}) \in Tile
           /\ Min({a, b, t}) + 1 \in Tile
           /\ Min({a, b, t}) + 2 \in Tile
<1>1. {a, b, t} \in SUBSET Nat /\ {a, b, t} # {}
    BY EntryBound
<1>2. PICK lo \in {a, b, t} : lo = Min({a, b, t})
    BY <1>1, MinExists
<1>3. lo \in Nat /\ {a, b, t} = {lo, lo + 1, lo + 2}
    BY <1>1, <1>2 DEF eatable
<1>4. lo \in Entry /\ lo + 1 \in Entry /\ lo + 2 \in Entry
    BY <1>3
<1>5. lo # 0
    BY <1>4 DEF Entry, Tile, Playable, Suited, DAZI, FLOWER, Null
<1>6. lo \in Tile /\ lo + 1 \in Tile /\ lo + 2 \in Tile
    BY <1>3, <1>4, <1>5 DEF Entry, Null
<1> QED  BY <1>2, <1>6

\* A claim by one of the others: tiles are laid down and the turn is taken.
LEMMA TypeTakesTurn ==
    ASSUME TypeOK, Shape, NEW q \in Players, nc[q] >= 4, TakesTurn(q),
           winner = -1,
           NEW dk \in [Slots -> Entry], decks' = [decks EXCEPT ![q] = dk],
           NEW dr \in Seq(Tile), door' = [door EXCEPT ![q] = dr],
           pc' \in {"draw", "hu"}, client' = pc'
    PROVE  TypeOK' /\ Shape'
<1>0. HandSize \in Nat  BY ConstantFacts
<1>1. /\ nc' = [nc EXCEPT ![q] = @ - 3] /\ playernow' = q /\ discarded_mj' = Null
      /\ claimed' = TRUE
      /\ UNCHANGED <<wall, take_index, flowers, flower_index, sea, winner, startplayer,
                     playeradd, no_flower_count, ask, nested>>
    BY DEF TakesTurn, Shrink, dealing
<1>2. nc' \in [Players -> 0..HandSize] /\ \A p \in Players : nc'[p] % 3 = 1
  <2>1. nc \in [Players -> 0..HandSize] /\ \A p \in Players : nc[p] % 3 = 1
      BY DEF TypeOK, Shape
  <2> QED  BY <1>0, <1>1, <2>1
<1>3. decks' \in [Players -> [Slots -> Entry]] /\ door' \in [Players -> Seq(Tile)]
    BY DEF TypeOK
<1>4. TypeOK'
    BY <1>1, <1>2, <1>3 DEF TypeOK, PCs, Entry
<1>5. Shape'
    BY <1>1, <1>2 DEF Shape, WinnerEndsRound
<1> QED  BY <1>4, <1>5

\* A gang or a pong leaves at least one tile in the hand of the claimer.
LEMMA TypeClaim ==
    ASSUME TypeOK, Shape, GangClaim \/ PongClaim
    PROVE  TypeOK' /\ Shape'
<1>0. HandSize \in Nat  BY ConstantFacts
<1>1. PICK q \in Players : q = Asked
    BY AskedOther DEF TypeOK
<1>2. PICK t \in Tile : t = discarded_mj
    BY DEF TypeOK, Entry, GangClaim, PongClaim, ScansNull
<1>3. nc[q] \in 0..HandSize /\ nc[q] % 3 = 1 /\ nc[q] >= 4
  <2>1. nc[q] \in 0..HandSize /\ nc[q] % 3 = 1  BY DEF TypeOK, Shape
  <2>2. is_gang_possible(decks[q], nc[q], t) \/ is_pong_possible(decks[q], nc[q], t)
    <3>1. CASE GangClaim  BY <3>1, <1>1, <1>2 DEF GangClaim, Offer
    <3>2. CASE PongClaim  BY <3>2, <1>1, <1>2 DEF PongClaim, Offer
    <3> QED  BY <3>1, <3>2
  <2> QED  BY <2>1, <2>2, ClaimNeedsTiles
<1>4. winner = -1
    BY DEF Shape, WinnerEndsRound, GangClaim, PongClaim, Ended
<1>5. decks[q] \in [Slots -> Entry] /\ door[q] \in Seq(Tile)
    BY DEF TypeOK
<1>6. CASE GangClaim
  <2>1. PICK dk \in [Slots -> Entry] : dk = Remove(decks[q], nc[q], t, 3)
      BY <1>3, <1>5, RemoveMembers
  <2>2. PICK dr \in Seq(Tile) : dr = door[q] \o <<t, t, t, t>>
      BY <1>5, LayDown
  <2>3. /\ decks' = [decks EXCEPT ![q] = dk] /\ door' = [door EXCEPT ![q] = dr]
        /\ pc' = "draw" /\ client' = "draw" /\ TakesTurn(q)
      BY <1>1, <1>2, <1>6, <2>1, <2>2 DEF GangClaim
  <2> QED  BY <1>3, <1>4, <2>3, TypeTakesTurn
<1>7. CASE PongClaim
  <2>1. PICK dk \in [Slots -> Entry] : dk = Remove(decks[q], nc[q], t, 2)
      BY <1>3, <1>5, RemoveMembers
  <2>2. PICK dr \in Seq(Tile) : dr = door[q] \o <<t, t, t>>
      BY <1>5, LayDown
  <2>3. /\ decks' = [decks EXCEPT ![q] = dk] /\ door' = [door EXCEPT ![q] = dr]
        /\ pc' = "hu" /\ client' = "hu" /\ TakesTurn(q)
      BY <1>1, <1>2, <1>7, <2>1, <2>2 DEF PongClaim
  <2> QED  BY <1>3, <1>4, <2>3, TypeTakesTurn
<1> QED  BY <1>6, <1>7

\* quiet_gang() is reached only with a real tile drawn into slot nc.
LEMMA TypeQuietGang ==
    ASSUME TypeOK, Shape, QuietGang
    PROVE  TypeOK' /\ Shape'
<1>0. HandSize \in Nat  BY ConstantFacts
<1>1. PICK p \in Players : p = playernow
    BY DEF TypeOK
<1>2. nc[p] \in 0..HandSize /\ nc[p] % 3 = 1 /\ decks[p] \in [Slots -> Entry]
    BY DEF TypeOK, Shape
<1>3. PICK t \in Tile : t = decks[p][nc[p]]
  <2>1. nc[p] \in Slots  BY <1>2 DEF Slots
  <2>2. decks[p][nc[p]] # Null  BY <1>1 DEF QuietGang, Shape
  <2> QED  BY <1>2, <2>1, <2>2 DEF Entry
<1>4. nc[p] >= 4
    BY <1>1, <1>2, <1>3, ClaimNeedsTiles DEF QuietGang
<1>5. PICK dk \in [Slots -> Entry] : dk = Remove(decks[p], nc[p], t, 3)
    BY <1>2, <1>4, RemoveMembers
<1>6. PICK dr \in Seq(Tile) : dr = door[p] \o <<t, t, t, t>>
    BY LayDown DEF TypeOK
<1>7. /\ decks' = [decks EXCEPT ![p] = dk] /\ door' = [door EXCEPT ![p] = dr]
      /\ nc' = [nc EXCEPT ![p] = @ - 3] /\ discarded_mj' = Null
      /\ pc = "quiet" /\ pc' = "discard" /\ client' = "draw"
      /\ UNCHANGED <<wall, take_index, flowers, flower_index, sea, winner, playernow,
                     startplayer, playeradd, no_flower_count, ask, claimed, nested>>
    BY <1>1, <1>3, <1>5, <1>6 DEF QuietGang, ClientAfterQuietGang, Shrink, dealing
<1>8. nc' \in [Players -> 0..HandSize] /\ \A q \in Players : nc'[q] % 3 = 1
  <2>1. nc \in [Players -> 0..HandSize] /\ \A q \in Players : nc[q] % 3 = 1
      BY DEF TypeOK, Shape
  <2> QED  BY <1>0, <1>4, <1>7, <2>1
<1>9. decks' \in [Players -> [Slots -> Entry]] /\ door' \in [Players -> Seq(Tile)]
    BY <1>7 DEF TypeOK
<1>10. TypeOK'
    BY <1>7, <1>8, <1>9 DEF TypeOK, PCs, Entry
<1>11. Shape'
    BY <1>7, <1>8 DEF Shape, WinnerEndsRound, Ended
<1> QED  BY <1>10, <1>11

\* Asked to eat, a player has two tiles to do it with: the offer counts two
\* kinds of tiles in the hand.
LEMMA TypeEatYes ==
    ASSUME TypeOK, Shape, EatYes
    PROVE  TypeOK' /\ Shape'
<1>1. /\ discarded_mj # Null /\ pc' = "eat" /\ pc = "react" /\ ask = 10
      /\ UNCHANGED <<wall, take_index, decks, nc, flowers, flower_index, door, sea,
                     discarded_mj, winner, playernow, startplayer, playeradd,
                     no_flower_count, ask, claimed, nested, client>>
    BY DEF EatYes, ScansNull, hands, dealing
<1>2. nc[Asked] >= 2
  <2>1. Asked \in Players  BY AskedOther DEF TypeOK
  <2>2. nc[Asked] \in Nat  BY <2>1, ConstantFacts DEF TypeOK
  <2>3. is_eat_possible(decks[Asked], nc[Asked], discarded_mj)
      BY <1>1 DEF EatYes, Offer
  <2>4. KindIndex(discarded_mj) \in Int
    <3>1. discarded_mj \in 0..58  BY EntryBound DEF TypeOK
    <3> QED  BY <3>1 DEF KindIndex
  <2> QED  BY <2>2, <2>3, <2>4, EatNeedsTwo
<1>3. Asked' = Asked
    BY <1>1 DEF Asked
<1>4. TypeOK'
    BY <1>1 DEF TypeOK, PCs
<1>5. Shape'
    BY <1>1, <1>2, <1>3 DEF Shape, WinnerEndsRound, Ended
<1> QED  BY <1>4, <1>5

\* An eat leaves at least one tile in the hand of the claimer.
LEMMA TypeEat ==
    ASSUME TypeOK, Shape, NEW e1 \in Slots, NEW e2 \in Slots, Eat(e1, e2)
    PROVE  TypeOK' /\ Shape'
<1>0. HandSize \in Nat  BY ConstantFacts
<1>1. PICK q \in Players : q = Asked
    BY AskedOther DEF TypeOK
<1>2. PICK n \in 0..HandSize : n = nc[q]
    BY DEF TypeOK
<1>3. PICK d \in [Slots -> Entry] : d = decks[q]
    BY DEF TypeOK
<1>4. n >= 4
    BY <1>1, <1>2, ClaimNeedsTiles DEF Shape, Eat
<1>5. PICK dk \in [Slots -> Entry] :
          dk = decks_quick_sort(AfterEat(d, n, e1, e2), n - 3)
  <2>1. PICK a \in [Slots -> Entry] : a = [d EXCEPT ![e1] = Null, ![e2] = Null]
      BY DEF Entry
  <2>2. n - 1 \in Slots /\ n - 2 \in Slots /\ n - 3 \in -1..HandSize
      BY <1>0, <1>4 DEF Slots
  <2>3. PICK b \in [Slots -> Entry] : b = swap(a, e1, n - 1)
      BY <2>2, SwapType
  <2>4. PICK c \in [Slots -> Entry] : c = swap(b, e2, n - 2)
      BY <2>2, SwapType
  <2>5. AfterEat(d, n, e1, e2) = c
      BY <2>1, <2>3, <2>4 DEF AfterEat
  <2> QED  BY <2>2, <2>5, SortMembers
<1>6. PICK lo \in Tile : /\ lo = Min({d[e1], d[e2], discarded_mj})
                         /\ lo + 1 \in Tile /\ lo + 2 \in Tile
  <2>1. d[e1] \in Entry /\ d[e2] \in Entry /\ discarded_mj \in Entry
      BY DEF TypeOK
  <2>2. eatable(d[e1], d[e2], discarded_mj)  BY <1>1, <1>3 DEF Eat
  <2> QED  BY <2>1, <2>2, EatenTiles
<1>7. PICK dr \in Seq(Tile) : dr = door[q] \o <<lo, lo + 1, lo + 2>>
    BY <1>6, LayDown DEF TypeOK
<1>8. /\ decks' = [decks EXCEPT ![q] = dk] /\ door' = [door EXCEPT ![q] = dr]
      /\ pc = "eat" /\ pc' = "hu" /\ client' = "hu" /\ TakesTurn(q)
    BY <1>1, <1>2, <1>3, <1>5, <1>6, <1>7 DEF Eat
<1>9. winner = -1
    BY <1>8 DEF Shape, WinnerEndsRound, Ended
<1> QED  BY <1>2, <1>4, <1>8, <1>9, TypeTakesTurn

\* game_init() starts a further round in a state of the right shape.
LEMMA TypeNextRound ==
    ASSUME TypeOK, Shape, NextRound
    PROVE  TypeOK' /\ Shape'
<1>1. /\ wall' \in Walls /\ take_index' = 0
      /\ wall' \in [0..(WallSize - 1) -> Tile] /\ take_index' \in 0..WallSize
    BY ConstantFacts DEF NextRound
<1>2. decks' \in [Players -> [Slots -> Entry]]
    BY DEF EmptyDeck, Entry, NextRound
<1>3. /\ nc' = [p \in Players |-> HandSize] /\ nc' \in [Players -> 0..HandSize]
      /\ \A p \in Players : nc'[p] % 3 = 1
      /\ flowers' \in [Players -> SUBSET FLOWER]
      /\ flower_index' = [p \in Players |-> 0] /\ flower_index' \in [Players -> Nat]
      /\ door' = [p \in Players |-> <<>>] /\ door' \in [Players -> Seq(Tile)]
      /\ sea' = [p \in Players |-> <<>>] /\ sea' \in [Players -> Seq(Tile)]
    BY ConstantFacts DEF NextRound
<1>4. startplayer' \in 0..(Rounds - 1) /\ playernow' \in Players
  <2>1. Rounds \in 1..4 /\ startplayer \in 0..(Rounds - 1) /\ startplayer + 1 < Rounds
      BY ConstantFacts DEF NextRound, TypeOK
  <2>2. startplayer' = startplayer + 1 /\ playernow' = startplayer + 1  BY DEF NextRound
  <2> QED  BY <2>1, <2>2 DEF Players
<1>5. /\ discarded_mj' = Null /\ winner' = -1 /\ ask' = 1
      /\ pc' = "deal" /\ client' = "get_decks"
      /\ UNCHANGED <<playeradd, no_flower_count, claimed, nested>>
    BY DEF NextRound, dealing
<1>6. TypeOK'
  <2>1. discarded_mj' \in Entry /\ winner' \in Players \cup {-1} /\ ask' \in 1..11
      BY <1>5 DEF Entry
  <2>2. playeradd' \in 0..3 /\ no_flower_count' \in 0..FlowerPasses
      BY <1>5 DEF TypeOK
  <2>3. claimed' \in BOOLEAN /\ nested' \in BOOLEAN  BY <1>5, Zenon DEF TypeOK
  <2>4. pc' \in PCs
        /\ client' \in {"get_decks", "loop", "draw", "hu", "quiet", "discard"}
      BY <1>5 DEF PCs
  <2> QED  BY <1>1, <1>2, <1>3, <1>4, <2>1, <2>2, <2>3, <2>4, Zenon DEF TypeOK
<1>7. Shape'
    BY <1>1, <1>3, <1>5 DEF Shape, WinnerEndsRound
<1> QED  BY <1>6, <1>7

\* A step that changes nothing preserves the shape.
LEMMA TypeStutter ==
    ASSUME TypeOK, Shape, UNCHANGED vars
    PROVE  TypeOK' /\ Shape'
<1>1. UNCHANGED <<wall, take_index, decks, nc, flowers, flower_index, door, sea,
                  discarded_mj, winner, playernow, startplayer, playeradd,
                  no_flower_count, pc, ask, claimed, nested, client>>
    BY DEF vars, hands, dealing
<1>2. Asked' = Asked  BY <1>1 DEF Asked
<1> QED  BY <1>1, <1>2 DEF TypeOK, Shape, WinnerEndsRound

\* Every step of the table keeps the types and the shape of a game.
LEMMA TypeNext == TypeOK /\ Shape /\ [Next]_vars => TypeOK' /\ Shape'
<1> SUFFICES ASSUME TypeOK, Shape, [Next]_vars PROVE TypeOK' /\ Shape'
    OBVIOUS
<1>1. CASE Deal  BY <1>1, TypeDeal
<1>2. CASE has_flower  BY <1>2, TypeHasFlower
<1>3. CASE StartPlay  BY <1>3, TypeStartPlay
<1>4. CASE draw  BY <1>4, TypeDraw
<1>5. CASE \/ DrawPastEnd \/ HuPass \/ QuietPass \/ CountNull \/ Pass
           \/ GameOver \/ Disconnect
    BY <1>5, TypeMovesOn
<1>6. CASE HuAccept \/ HuClaim  BY <1>6, TypeWon
<1>7. CASE QuietGang  BY <1>7, TypeQuietGang
<1>8. CASE \E i \in Slots : discard(i)  BY <1>8, TypeDiscard
<1>9. CASE GangClaim \/ PongClaim  BY <1>9, TypeClaim
<1>10. CASE EatYes  BY <1>10, TypeEatYes
<1>11. CASE \E e1, e2 \in Slots : Eat(e1, e2)  BY <1>11, TypeEat
<1>12. CASE Unclaimed  BY <1>12, TypeUnclaimed
<1>13. CASE NextRound  BY <1>13, TypeNextRound
<1>14. CASE UNCHANGED vars  BY <1>14, TypeStutter
<1> QED
    BY <1>1, <1>2, <1>3, <1>4, <1>5, <1>6, <1>7, <1>8, <1>9, <1>10, <1>11, <1>12,
       <1>13, <1>14 DEF Next, Step

\* TypeOK, in every game: take_index stays within the wall, no claim takes
\* normal_capacity below zero, and no tile is laid on a door or in a sea
\* that is not a real one.
THEOREM TypeCorrect == Spec => []TypeOK
<1>1. Spec => [](TypeOK /\ Shape)
    BY TypeInit, TypeNext, PTL DEF Spec
<1> QED  BY <1>1, PTL

\* A winner ends the round, although othersreaction() drops the value that
\* its nested calls return.
THEOREM WinnerEnds == Spec => []WinnerEndsRound
<1>1. Spec => [](TypeOK /\ Shape)
    BY TypeInit, TypeNext, PTL DEF Spec
<1>2. Shape => WinnerEndsRound  BY DEF Shape
<1> QED  BY <1>1, <1>2, PTL

-----------------------------------------------------------------------------
(***************************************************************************)
(* What is in the hands.  An eat can leave a null tile in a hand: such a   *)
(* hand never gets as far as quiet_gang.  Flowers never get into play.     *)
(* Whoever agrees to eat has two tiles to do it with.  And hands stay      *)
(* sorted and tidy.                                                        *)
(***************************************************************************)

\* No null tile among the concealed ones.
Full(p) == \A i \in 0..(nc[p] - 1) : decks[p][i] # Null

\* The inductive invariant: hands are dealt full; a player whose turn comes
\* round without a claim has a full hand, because he was the first to be
\* asked about the discard before, and the server ends if it meets a null
\* tile in the hand of a player it asks.
Whole ==
    /\ pc = "regrab" => \A p \in Players : nc[p] = HandSize /\ Full(p)
    /\ (pc \in {"draw", "hu", "quiet"} /\ ~claimed) => Full(playernow)
    /\ (pc = "react" /\ ask >= 2) => Full(NextPlayer(playernow))

\* A tile is not the null one.
LEMMA TileNotNull == \A t \in Tile : t # Null
    BY DEF Tile, Playable, Suited, DAZI, FLOWER, Null

\* deal() leaves no null tile in a hand.
LEMMA WholeDeal ==
    ASSUME TypeOK, Shape, Deal PROVE Whole'
<1>0. HandSize \in Nat  BY ConstantFacts
<1>1. nc' = [p \in Players |-> HandSize] /\ pc' = "regrab"
    BY DEF Deal, Shape
<1>2. ASSUME NEW p \in Players, NEW i \in 0..(HandSize - 1)
      PROVE  decks'[p][i] # Null
  <2>1. i \in Slots /\ i < HandSize  BY <1>0 DEF Slots
  <2>2. decks'[p][i] = DealtTo(p, i)  BY <2>1 DEF Deal
  <2> QED  BY <2>1, <2>2, DealtTile, TileNotNull
<1>3. \A p \in Players : nc'[p] = HandSize  BY <1>1
<1> QED  BY <1>1, <1>2, <1>3 DEF Whole, Full

\* A pass of has_flower puts a tile into every slot it takes one from.
LEMMA WholeHasFlower ==
    ASSUME TypeOK, Whole, has_flower PROVE Whole'
<1>0. HandSize \in Nat  BY ConstantFacts
<1>1. PICK p \in Players : p = (playernow + playeradd) % 4
    BY DEF TypeOK, Players
<1>2. PICK Fl : Fl = FlowerSlots(p)
    OBVIOUS
<1>3. Fl \subseteq Slots /\ IsFiniteSet(Fl)
  <2>1. IsFiniteSet(Slots)  BY <1>0, FS_Interval DEF Slots
  <2> QED  BY <1>2, <2>1, FS_Subset DEF FlowerSlots
<1>4. PICK found \in Nat : found = Cardinality(Fl)
    BY <1>3, FS_CardinalityType
<1>5. /\ pc = "regrab" /\ take_index + found <= WallSize
      /\ decks' = [decks EXCEPT ![p] =
                     [i \in Slots |-> IF i \in Fl THEN Replacement(p, i) ELSE decks[p][i]]]
      /\ UNCHANGED <<nc, pc>>
    BY <1>1, <1>2, <1>4 DEF has_flower
<1>6. ASSUME NEW i \in Fl PROVE Replacement(p, i) # Null
    BY <1>2, <1>3, <1>4, <1>5, ReplacementTile, TileNotNull
<1>7. ASSUME NEW q \in Players, NEW i \in 0..(HandSize - 1)
      PROVE  decks'[q][i] # Null
  <2>1. decks[q][i] # Null  BY <1>5 DEF Whole, Full
  <2>2. i \in Slots  BY <1>0 DEF Slots
  <2>3. decks \in [Players -> [Slots -> Entry]]  BY DEF TypeOK
  <2>4. CASE q = p  BY <1>5, <1>6, <2>1, <2>2, <2>3, <2>4
  <2>5. CASE q # p  BY <1>5, <2>1, <2>3, <2>5
  <2> QED  BY <2>4, <2>5
<1>8. \A q \in Players : nc'[q] = HandSize  BY <1>5 DEF Whole
<1> QED  BY <1>5, <1>7, <1>8 DEF Whole, Full

\* Sorting a full hand leaves it full.
LEMMA WholeStartPlay ==
    ASSUME TypeOK, Whole, StartPlay PROVE Whole'
<1>0. HandSize \in Nat  BY ConstantFacts
<1>1. /\ pc = "regrab" /\ pc' = "draw" /\ UNCHANGED <<nc, playernow, claimed>>
      /\ decks' = [p \in Players |-> decks_quick_sort(decks[p], HandSize - 1)]
    BY DEF StartPlay
<1>2. PICK p \in Players : p = playernow  BY DEF TypeOK
<1>3. nc[p] = HandSize /\ Full(p)  BY <1>1 DEF Whole
<1>4. ASSUME NEW i \in 0..(HandSize - 1) PROVE decks'[p][i] # Null
  <2>1. decks[p] \in [Slots -> Entry] /\ HandSize - 1 \in -1..HandSize
      BY <1>0 DEF TypeOK
  <2>2. PICK j \in 0..(HandSize - 1) :
            decks_quick_sort(decks[p], HandSize - 1)[i] = decks[p][j]
      BY <2>1, SortMembers
  <2> QED  BY <1>1, <1>3, <2>2 DEF Full
<1> QED  BY <1>1, <1>2, <1>3, <1>4 DEF Whole, Full

\* The drawn tile goes above the concealed ones.
LEMMA WholeDraw ==
    ASSUME TypeOK, Whole, draw PROVE Whole'
<1>1. PICK p \in Players : p = playernow  BY DEF TypeOK
<1>2. PICK n \in 0..HandSize : n = nc[p]  BY DEF TypeOK
<1>3. PICK t : t = wall[take_index]  OBVIOUS
<1>4. /\ pc = "draw" /\ pc' \in {"draw", "hu"} /\ UNCHANGED <<nc, playernow, claimed>>
      /\ decks' = [decks EXCEPT ![p][n] = t]
    BY <1>1, <1>2, <1>3 DEF draw
<1>5. ASSUME ~claimed', NEW i \in 0..(n - 1) PROVE decks'[p][i] # Null
  <2>1. decks[p][i] # Null  BY <1>1, <1>2, <1>4, <1>5 DEF Whole, Full
  <2>2. i \in Slots /\ i # n
    <3>1. HandSize \in Nat  BY ConstantFacts
    <3> QED  BY <3>1 DEF Slots
  <2>3. decks \in [Players -> [Slots -> Entry]]  BY DEF TypeOK
  <2> QED  BY <1>4, <2>1, <2>2, <2>3
<1> QED  BY <1>1, <1>2, <1>4, <1>5 DEF Whole, Full

\* The first player asked is the next one, and his hand is scanned.
LEMMA WholePass ==
    ASSUME TypeOK, Whole, Pass PROVE Whole'
<1>1. /\ pc = "react" /\ pc' = "react" /\ ask' = ask + 1 /\ ~ScansNull
      /\ UNCHANGED <<decks, nc, playernow>>
    BY DEF Pass, hands
<1>2. ask \in 1..11 /\ playernow \in 0..3  BY DEF TypeOK, Players
<1>3. Full(NextPlayer(playernow))
  <2>1. CASE ask = 1
    <3>1. Asked = NextPlayer(playernow)
      <4>1. (ask - 1) % 3 = 0  BY <2>1
      <4> QED  BY <1>2, <4>1 DEF Asked, NextPlayer
    <3> QED  BY <1>1, <3>1 DEF ScansNull, Full
  <2>2. CASE ask >= 2  BY <1>1, <2>2 DEF Whole
  <2> QED  BY <1>2, <2>1, <2>2
<1>4. Full(NextPlayer(playernow))'
    BY <1>1, <1>3 DEF Full, NextPlayer
<1> QED  BY <1>1, <1>4 DEF Whole

\* The turn goes to the player who was asked first.
LEMMA WholeUnclaimed ==
    ASSUME TypeOK, Whole, Unclaimed PROVE Whole'
<1>1. /\ pc = "react" /\ ask = 11 /\ UNCHANGED <<decks, nc>>
      /\ \/ pc' = "draw" /\ playernow' = NextPlayer(playernow)
         \/ pc' = "set"
    BY DEF Unclaimed, Return
<1>2. Full(NextPlayer(playernow))  BY <1>1 DEF Whole
<1> QED  BY <1>1, <1>2 DEF Whole, Full

\* The other steps end the turn, or go on with the same hand, or begin a
\* claimed turn, which never gets to quiet_gang.
LEMMA WholeOther ==
    ASSUME TypeOK, Shape, Whole,
           \/ DrawPastEnd \/ HuAccept \/ HuPass \/ QuietGang \/ QuietPass
           \/ \E i \in Slots : discard(i)
           \/ CountNull \/ HuClaim \/ GangClaim \/ PongClaim \/ EatYes
           \/ \E e1, e2 \in Slots : Eat(e1, e2)
           \/ NextRound \/ GameOver \/ Disconnect
    PROVE  Whole'
<1>1. CASE \/ DrawPastEnd \/ QuietGang \/ QuietPass \/ CountNull \/ EatYes \/ NextRound
           \/ GameOver \/ Disconnect
  <2>1. pc' \in {"discard", "eat", "deal"} \cup Ended
      BY <1>1 DEF DrawPastEnd, QuietGang, QuietPass, CountNull, EatYes, NextRound,
                  GameOver, Disconnect, Ended
  <2> QED  BY <2>1 DEF Whole, Ended
<1>2. CASE \E i \in Slots : discard(i)
  <2>1. pc' = "react" /\ ask' = 1  BY <1>2 DEF discard
  <2> QED  BY <2>1 DEF Whole
<1>3. CASE HuAccept \/ HuClaim
  <2>1. winner' \in Players  BY <1>3, AskedOther DEF HuAccept, HuClaim, TypeOK
  <2>2. \A ret : ~RoundGoesOn(ret, winner')  BY <2>1 DEF RoundGoesOn, Players
  <2>3. pc' = "set"  BY <1>3, <2>2 DEF HuAccept, HuClaim, Return
  <2> QED  BY <2>3 DEF Whole
<1>4. CASE HuPass
  <2>1. /\ pc = "hu" /\ pc' \in {"quiet", "discard"}
        /\ UNCHANGED <<decks, nc, playernow, claimed>>
      BY <1>4 DEF HuPass, hands
  <2> QED  BY <2>1 DEF Whole, Full
<1>5. CASE GangClaim \/ PongClaim \/ \E e1, e2 \in Slots : Eat(e1, e2)
  <2>1. claimed' = TRUE /\ pc' \in {"draw", "hu"}
      BY <1>5 DEF GangClaim, PongClaim, Eat, TakesTurn
  <2> QED  BY <2>1 DEF Whole
<1> QED  BY <1>1, <1>2, <1>3, <1>4, <1>5

\* Every step of the table preserves the invariant.
LEMMA WholeNext == TypeOK /\ Shape /\ Whole /\ [Next]_vars => Whole'
<1> SUFFICES ASSUME TypeOK, Shape, Whole, [Next]_vars PROVE Whole'
    OBVIOUS
<1>1. CASE Deal  BY <1>1, WholeDeal
<1>2. CASE has_flower  BY <1>2, WholeHasFlower
<1>3. CASE StartPlay  BY <1>3, WholeStartPlay
<1>4. CASE draw  BY <1>4, WholeDraw
<1>5. CASE Pass  BY <1>5, WholePass
<1>6. CASE Unclaimed  BY <1>6, WholeUnclaimed
<1>7. CASE UNCHANGED vars
  <2>1. UNCHANGED <<decks, nc, playernow, pc, ask, claimed>>
      BY <1>7 DEF vars, hands
  <2> QED  BY <2>1 DEF Whole, Full, NextPlayer
<1> QED
    BY <1>1, <1>2, <1>3, <1>4, <1>5, <1>6, <1>7, WholeOther DEF Next, Step

\* In no game does quiet_gang() count a null tile (count[-10], outside the
\* array): a hand that an eat has damaged is met by the test of another
\* player's discard before its owner draws again.
THEOREM QuietGangSafe == Spec => []QuietGangCountsReal
<1>1. Init => Whole  BY DEF Init, Whole
<1>2. TypeOK /\ Shape /\ Whole /\ [Next]_vars => TypeOK' /\ Shape' /\ Whole'
    BY TypeNext, WholeNext
<1>3. TypeOK /\ Shape /\ Whole => QuietGangCountsReal
  <2> SUFFICES ASSUME TypeOK, Shape, Whole, pc = "quiet",
                      NEW i \in Live(playernow)
               PROVE  decks[playernow][i] # Null
      BY DEF QuietGangCountsReal, Holed
  <2>1. ~claimed  BY DEF Shape
  <2>2. Full(playernow) /\ decks[playernow][nc[playernow]] # Null
      BY <2>1 DEF Whole, Shape
  <2>3. nc[playernow] \in Int  BY ConstantFacts DEF TypeOK
  <2>4. i \in 0..(nc[playernow] - 1) \/ i = nc[playernow]
      BY <2>3 DEF Live, Holding, Hung
  <2> QED  BY <2>2, <2>4 DEF Full
<1>4. Spec => [](TypeOK /\ Shape /\ Whole)
    BY <1>1, <1>2, TypeInit, PTL DEF Spec
<1> QED  BY <1>3, <1>4, PTL
-----------------------------------------------------------------------------
(* Flowers                                                                 *)

NoFlower(d) == \A i \in Slots : d[i] \notin FLOWER

\* Sorting, swapping and removing bring no flower into a hand.
LEMMA SortNoFlower ==
    ASSUME NEW d \in [Slots -> Entry], NoFlower(d), NEW k \in -1..HandSize
    PROVE  NoFlower(decks_quick_sort(d, k))
<1>0. HandSize \in Nat  BY HandSizeAssumption
<1>1. PICK e : e = decks_quick_sort(d, k)  OBVIOUS
<1>2. /\ \A i \in 0..k : \E j \in 0..k : e[i] = d[j]
      /\ \A i \in Slots : i > k => e[i] = d[i]
    BY <1>1, SortMembers
<1>3. ASSUME NEW i \in Slots PROVE e[i] \notin FLOWER
  <2>1. CASE i <= k
    <3>1. i \in 0..k /\ 0..k \subseteq Slots  BY <1>0, <2>1 DEF Slots
    <3> QED  BY <1>2, <3>1 DEF NoFlower
  <2>2. CASE i > k  BY <1>2, <2>2 DEF NoFlower
  <2> QED  BY <1>0, <2>1, <2>2 DEF Slots
<1> QED  BY <1>1, <1>3 DEF NoFlower

\* The same for the removal of a claim.
LEMMA RemoveNoFlower ==
    ASSUME NEW d \in [Slots -> Entry], NoFlower(d), NEW n \in 0..HandSize, NEW t,
           NEW need \in 0..n
    PROVE  NoFlower(Remove(d, n, t, need))
<1>0. HandSize \in Nat  BY HandSizeAssumption
<1>1. PICK e : e = Remove(d, n, t, need)  OBVIOUS
<1>2. \A i \in 0..(n - need - 1) : \E j \in 0..(n - 1) : e[i] = d[j]
    BY <1>1, RemoveMembers
<1>3. \A i \in Slots : i >= n - need => e[i] = Null \/ e[i] = d[i]
    BY <1>0, <1>1 DEF Remove, Slots
<1>4. Null \notin FLOWER  BY DEF Null, FLOWER
<1>5. ASSUME NEW i \in Slots PROVE e[i] \notin FLOWER
  <2>1. CASE i < n - need
    <3>1. i \in 0..(n - need - 1) /\ 0..(n - 1) \subseteq Slots  BY <1>0, <2>1 DEF Slots
    <3> QED  BY <1>2, <3>1 DEF NoFlower
  <2>2. CASE i >= n - need  BY <1>3, <1>4, <2>2 DEF NoFlower
  <2> QED  BY <1>0, <2>1, <2>2 DEF Slots
<1> QED  BY <1>1, <1>5 DEF NoFlower

\* The inductive invariant: only playable tiles are ever laid down or put on
\* offer; the players passed over without a find since the last flower was
\* found have none, so that none is left after four passes; and later the
\* only flower in a hand is the one just drawn.
InPlay == pc \notin {"deal", "regrab"} \cup Ended

FlowersAside ==
    /\ discarded_mj \notin FLOWER
    /\ door \in [Players -> Seq(Playable)] /\ sea \in [Players -> Seq(Playable)]
    /\ pc = "regrab" => \A p \in Players :
          (playernow + playeradd + 3 - p) % 4 < no_flower_count => FlowerSlots(p) = {}
    /\ InPlay => \A p \in Players : \A i \in Slots :
          decks[p][i] \in FLOWER => pc = "draw" /\ p = playernow /\ i = nc[p]

\* A tile that is no flower is playable.
LEMMA PlayableTile == \A t \in Entry : t \notin FLOWER /\ t # Null => t \in Playable
    BY DEF Entry, Tile, Null

\* Four tiles of a kind, or three, added to a door of playable tiles.
LEMMA LayPlayable ==
    ASSUME NEW s \in Seq(Playable), NEW a \in Playable, NEW b \in Playable,
           NEW c \in Playable
    PROVE  s \o <<a, b, c>> \in Seq(Playable) /\ s \o <<a, a, a, a>> \in Seq(Playable)
<1>1. <<a, b, c>> \in Seq(Playable) /\ <<a, a, a, a>> \in Seq(Playable)  OBVIOUS
<1> QED  BY <1>1, ConcatProperties

\* Initially, and when nothing is dealt, there is no tile at all.
LEMMA AsideInit == Init => FlowersAside
    BY DEF Init, FlowersAside, InPlay, FLOWER, Null

\* A pass over a hand without a flower adds its player to those who have none.
LEMMA AsideHasFlower ==
    ASSUME TypeOK, FlowersAside, has_flower PROVE FlowersAside'
<1>0. HandSize \in Nat  BY ConstantFacts
<1>1. PICK p0 \in Players : p0 = (playernow + playeradd) % 4
    BY DEF TypeOK, Players
<1>2. PICK Fl : Fl = FlowerSlots(p0)
    OBVIOUS
<1>3. IsFiniteSet(Fl)
  <2>1. IsFiniteSet(Slots)  BY <1>0, FS_Interval DEF Slots
  <2> QED  BY <1>2, <2>1, FS_Subset DEF FlowerSlots
<1>4. PICK found \in Nat : found = Cardinality(Fl)
    BY <1>3, FS_CardinalityType
<1>5. /\ pc = "regrab"
      /\ decks' = [decks EXCEPT ![p0] =
                     [i \in Slots |-> IF i \in Fl THEN Replacement(p0, i) ELSE decks[p0][i]]]
      /\ no_flower_count' = IF found > 0 THEN 0 ELSE no_flower_count + 1
      /\ playeradd' = (playeradd + 1) % 4
      /\ UNCHANGED <<door, sea, discarded_mj, playernow, pc>>
    BY <1>1, <1>2, <1>4 DEF has_flower, CountPass
<1>6. ASSUME NEW p \in Players,
             (playernow' + playeradd' + 3 - p) % 4 < no_flower_count'
      PROVE  FlowerSlots(p)' = {}
  <2>1. found = 0 /\ no_flower_count' = no_flower_count + 1
    <3>1. PICK x \in Nat : x = (playernow' + playeradd' + 3 - p) % 4
        BY <1>5 DEF TypeOK, Players
    <3>2. x < no_flower_count'  BY <1>6, <3>1
    <3>3. ~(found > 0)  BY <1>5, <3>2
    <3> QED  BY <1>5, <3>3
  <2>2. Fl = {}  BY <1>3, <1>4, <2>1, FS_EmptySet
  <2>3. decks' = decks  BY <1>5, <2>2 DEF TypeOK
  <2>4. FlowerSlots(p)' = FlowerSlots(p)  BY <2>3 DEF FlowerSlots
  <2>5. CASE p = p0  BY <1>2, <2>2, <2>4, <2>5
  <2>6. CASE p # p0
    <3>1. playernow \in 0..3 /\ playeradd \in 0..3 /\ p \in 0..3 /\ no_flower_count \in Int
        BY DEF TypeOK, Players
    <3>2. (playernow + playeradd + 3 - p) % 4 < no_flower_count
      <4>1. (playernow + ((playeradd + 1) % 4) + 3 - p) % 4 < no_flower_count + 1
          BY <1>5, <1>6, <2>1
      <4>2. ((playernow + playeradd + 3 - p) % 4) + 1
              = (playernow + ((playeradd + 1) % 4) + 3 - p) % 4
          BY <1>1, <2>6, <3>1
      <4> QED  BY <3>1, <4>1, <4>2
    <3> QED  BY <1>5, <2>4, <3>2 DEF FlowersAside
  <2> QED  BY <2>5, <2>6
<1>7. ~InPlay'  BY <1>5 DEF InPlay
<1> QED  BY <1>5, <1>6, <1>7 DEF FlowersAside

\* After four passes no hand has a flower, and the sort brings none in.
LEMMA AsideStartPlay ==
    ASSUME TypeOK, FlowersAside, StartPlay PROVE FlowersAside'
<1>0. HandSize \in Nat  BY ConstantFacts
<1>1. /\ pc = "regrab" /\ no_flower_count = 4 /\ pc' = "draw"
      /\ decks' = [p \in Players |-> decks_quick_sort(decks[p], HandSize - 1)]
      /\ UNCHANGED <<door, sea, discarded_mj, playernow>>
    BY DEF StartPlay, FlowerPasses
<1>2. ASSUME NEW p \in Players PROVE NoFlower(decks'[p])
  <2>1. (playernow + playeradd + 3 - p) % 4 < 4  BY DEF TypeOK, Players
  <2>2. NoFlower(decks[p])  BY <1>1, <2>1 DEF FlowersAside, FlowerSlots, NoFlower
  <2>3. decks[p] \in [Slots -> Entry] /\ HandSize - 1 \in -1..HandSize
      BY <1>0 DEF TypeOK
  <2> QED  BY <1>1, <2>2, <2>3, SortNoFlower
<1> QED  BY <1>1, <1>2 DEF FlowersAside, NoFlower

\* A flower that is drawn stays in slot nc only until the next is drawn.
LEMMA AsideDraw ==
    ASSUME TypeOK, FlowersAside, draw PROVE FlowersAside'
<1>1. PICK p0 \in Players : p0 = playernow  BY DEF TypeOK
<1>2. PICK n \in 0..HandSize : n = nc[p0]  BY DEF TypeOK
<1>3. PICK t : t = wall[take_index]  OBVIOUS
<1>4. /\ pc = "draw" /\ decks' = [decks EXCEPT ![p0][n] = t]
      /\ pc' = IF t \in FLOWER THEN "draw" ELSE "hu"
      /\ UNCHANGED <<door, sea, discarded_mj, playernow, nc>>
    BY <1>1, <1>2, <1>3 DEF draw
<1>5. InPlay  BY <1>4 DEF InPlay, Ended
<1>6. ASSUME NEW p \in Players, NEW i \in Slots, decks'[p][i] \in FLOWER
      PROVE  pc' = "draw" /\ p = p0 /\ i = n
  <2>1. n \in Slots /\ decks \in [Players -> [Slots -> Entry]]  BY DEF Slots, TypeOK
  <2>2. CASE p = p0 /\ i = n  BY <1>4, <1>6, <2>1, <2>2
  <2>3. CASE ~(p = p0 /\ i = n)
    <3>1. decks'[p][i] = decks[p][i]  BY <1>4, <2>1, <2>3
    <3> QED  BY <1>1, <1>2, <1>5, <1>6, <2>3, <3>1 DEF FlowersAside
  <2> QED  BY <2>2, <2>3
<1> QED  BY <1>1, <1>2, <1>4, <1>6 DEF FlowersAside

\* Steps that leave the tiles where they are, once no draw is under way.
LEMMA AsideKeeps ==
    ASSUME TypeOK, FlowersAside,
           \/ HuAccept \/ HuPass \/ QuietPass \/ Pass \/ HuClaim \/ EatYes
    PROVE  FlowersAside'
<1>1. /\ pc \in {"hu", "quiet", "react"}
      /\ UNCHANGED <<decks, door, sea, discarded_mj>>
    BY DEF HuAccept, HuPass, QuietPass, Pass, HuClaim, EatYes, hands
<1>2. pc' \in {"set", "draw", "hu", "quiet", "discard", "react", "eat"}
    BY DEF HuAccept, HuPass, QuietPass, Pass, HuClaim, EatYes, Return
<1>3. InPlay  BY <1>1 DEF InPlay, Ended
<1>4. \A p \in Players : \A i \in Slots : decks'[p][i] \notin FLOWER
    BY <1>1, <1>3 DEF FlowersAside
<1> QED  BY <1>1, <1>2, <1>4 DEF FlowersAside

\* Steps that end the process, or begin to deal.
LEMMA AsideEnds ==
    ASSUME TypeOK, FlowersAside,
           DrawPastEnd \/ CountNull \/ GameOver \/ Disconnect \/ Deal \/ NextRound
    PROVE  FlowersAside'
<1>1. CASE DrawPastEnd \/ CountNull \/ GameOver \/ Disconnect
  <2>1. pc' \in Ended /\ UNCHANGED <<door, sea, discarded_mj>>
      BY <1>1 DEF DrawPastEnd, CountNull, GameOver, Disconnect, Ended, hands
  <2> QED  BY <2>1 DEF FlowersAside, InPlay, Ended
<1>2. CASE Deal
  <2>1. pc' = "regrab" /\ no_flower_count' = 0 /\ playeradd' = 0
        /\ UNCHANGED <<door, sea, discarded_mj, playernow>>
      BY <1>2 DEF Deal
  <2>2. \A p \in Players : (playernow' + playeradd' + 3 - p) % 4 >= 0
      BY <2>1 DEF TypeOK, Players
  <2>3. \A p \in Players : ~((playernow' + playeradd' + 3 - p) % 4 < no_flower_count')
      BY <2>1, <2>2 DEF TypeOK, Players
  <2> QED  BY <2>1, <2>3 DEF FlowersAside, InPlay
<1>3. CASE NextRound
  <2>1. /\ pc' = "deal" /\ discarded_mj' = Null
        /\ door' = [p \in Players |-> <<>>] /\ sea' = [p \in Players |-> <<>>]
      BY <1>3 DEF NextRound
  <2> QED  BY <2>1 DEF FlowersAside, InPlay, Null, FLOWER
<1> QED  BY <1>1, <1>2, <1>3

\* A hand that changes from one without a flower to another.
LEMMA AsideHand ==
    ASSUME TypeOK, FlowersAside, pc \in {"hu", "quiet", "discard", "react", "eat"},
           NEW q \in Players, NEW dk, NoFlower(dk), decks' = [decks EXCEPT ![q] = dk]
    PROVE  \A p \in Players : \A i \in Slots : decks'[p][i] \notin FLOWER
<1>1. InPlay /\ pc # "draw"  BY DEF InPlay, Ended
<1>2. \A p \in Players : NoFlower(decks[p])  BY <1>1 DEF FlowersAside, NoFlower
<1>3. decks \in [Players -> [Slots -> Entry]]  BY DEF TypeOK
<1> QED  BY <1>2, <1>3 DEF NoFlower

\* What is discarded is no flower, and neither is what is left.
LEMMA AsideDiscard ==
    ASSUME TypeOK, FlowersAside, NEW i \in Slots, discard(i) PROVE FlowersAside'
<1>0. HandSize \in Nat  BY ConstantFacts
<1>1. PICK p \in Players : p = playernow  BY DEF TypeOK
<1>2. PICK n \in 0..HandSize : n = nc[p]  BY DEF TypeOK
<1>3. PICK d \in [Slots -> Entry] : d = decks[p]  BY DEF TypeOK
<1>4. InPlay /\ pc = "discard" /\ NoFlower(d)
    BY <1>3 DEF InPlay, Ended, discard, FlowersAside, NoFlower
<1>5. n \in Slots /\ n - 1 \in -1..HandSize  BY <1>0 DEF Slots
<1>6. PICK b \in [Slots -> Entry] : b = swap(d, n, i)  BY <1>5, SwapType
<1>7. PICK e \in [Slots -> Entry] : e = [b EXCEPT ![n] = Null]  BY <1>5 DEF Entry
<1>8. NoFlower(e)
  <2>1. \A j \in Slots : b[j] \in {d[j], d[n], d[i]}  BY <1>5, <1>6 DEF swap
  <2>2. \A j \in Slots : e[j] \in {Null, b[j]}  BY <1>5, <1>7
  <2> QED  BY <1>4, <1>5, <2>1, <2>2 DEF NoFlower, Null, FLOWER
<1>9. PICK f : f = decks_quick_sort(e, n - 1)  OBVIOUS
<1>10. NoFlower(f)  BY <1>5, <1>8, <1>9, SortNoFlower
<1>11. /\ discarded_mj' = d[i] /\ decks' = [decks EXCEPT ![p] = f] /\ pc' = "react"
       /\ UNCHANGED <<door, sea>>
    BY <1>1, <1>2, <1>3, <1>6, <1>7, <1>9 DEF discard
<1>12. discarded_mj' \notin FLOWER  BY <1>4, <1>11 DEF NoFlower
<1>13. \A q \in Players : \A j \in Slots : decks'[q][j] \notin FLOWER
    BY <1>4, <1>10, <1>11, AsideHand
<1> QED  BY <1>11, <1>12, <1>13 DEF FlowersAside

\* Playable tiles are laid down and removed from a hand.
LEMMA AsideLays ==
    ASSUME TypeOK, FlowersAside, pc \in {"react", "quiet"},
           NEW q \in Players, NEW t \in Playable, NEW need \in 0..nc[q],
           decks' = [decks EXCEPT ![q] = Remove(decks[q], nc[q], t, need)],
           \/ door' = [door EXCEPT ![q] = door[q] \o <<t, t, t, t>>]
           \/ door' = [door EXCEPT ![q] = door[q] \o <<t, t, t>>],
           discarded_mj' = Null, pc' \in {"draw", "hu", "discard"}, sea' = sea
    PROVE  FlowersAside'
<1>1. PICK dk : dk = Remove(decks[q], nc[q], t, need)  OBVIOUS
<1>2. NoFlower(dk)
  <2>1. InPlay  BY DEF InPlay, Ended
  <2>2. NoFlower(decks[q])  BY <2>1 DEF FlowersAside, NoFlower
  <2>3. decks[q] \in [Slots -> Entry] /\ nc[q] \in 0..HandSize  BY DEF TypeOK
  <2> QED  BY <1>1, <2>2, <2>3, RemoveNoFlower
<1>3. \A p \in Players : \A i \in Slots : decks'[p][i] \notin FLOWER
    BY <1>1, <1>2, AsideHand
<1>4. door' \in [Players -> Seq(Playable)]
  <2>1. door \in [Players -> Seq(Playable)]  BY DEF FlowersAside
  <2>2. door[q] \in Seq(Playable)  BY <2>1
  <2>3. PICK s3, s4 \in Seq(Playable) :
            s3 = door[q] \o <<t, t, t>> /\ s4 = door[q] \o <<t, t, t, t>>
      BY <2>2, LayPlayable
  <2> QED  BY <2>1, <2>3
<1>5. discarded_mj' \notin FLOWER /\ pc' # "regrab"  BY DEF Null, FLOWER
<1>6. sea' \in [Players -> Seq(Playable)]  BY DEF FlowersAside
<1> QED  BY <1>3, <1>4, <1>5, <1>6 DEF FlowersAside

\* A gang or a pong lays playable tiles down and leaves no flower.
LEMMA AsideClaim ==
    ASSUME TypeOK, Shape, FlowersAside, GangClaim \/ PongClaim \/ QuietGang
    PROVE  FlowersAside'
<1>0. HandSize \in Nat  BY ConstantFacts
<1>1. CASE GangClaim \/ PongClaim
  <2>1. PICK q \in Players : q = Asked  BY AskedOther DEF TypeOK
  <2>2. PICK t \in Playable : t = discarded_mj
      BY <1>1, PlayableTile DEF TypeOK, GangClaim, PongClaim, ScansNull, FlowersAside
  <2>3. nc[q] \in 0..HandSize /\ nc[q] % 3 = 1  BY DEF TypeOK, Shape
  <2>4. CASE GangClaim
    <3>1. is_gang_possible(decks[q], nc[q], t)  BY <2>1, <2>2, <2>4 DEF GangClaim, Offer
    <3>2. nc[q] >= 4  BY <2>3, <3>1, ClaimNeedsTiles
    <3>3. /\ decks' = [decks EXCEPT ![q] = Remove(decks[q], nc[q], t, 3)]
          /\ door' = [door EXCEPT ![q] = door[q] \o <<t, t, t, t>>]
          /\ discarded_mj' = Null /\ pc' = "draw" /\ sea' = sea /\ pc = "react"
        BY <2>1, <2>2, <2>4 DEF GangClaim, TakesTurn
    <3>4. 3 \in 0..nc[q]  BY <2>3, <3>2
    <3> QED  BY <3>3, <3>4, AsideLays
  <2>5. CASE PongClaim
    <3>1. is_pong_possible(decks[q], nc[q], t)  BY <2>1, <2>2, <2>5 DEF PongClaim, Offer
    <3>2. nc[q] >= 4  BY <2>3, <3>1, ClaimNeedsTiles
    <3>3. /\ decks' = [decks EXCEPT ![q] = Remove(decks[q], nc[q], t, 2)]
          /\ door' = [door EXCEPT ![q] = door[q] \o <<t, t, t>>]
          /\ discarded_mj' = Null /\ pc' = "hu" /\ sea' = sea /\ pc = "react"
        BY <2>1, <2>2, <2>5 DEF PongClaim, TakesTurn
    <3>4. 2 \in 0..nc[q]  BY <2>3, <3>2
    <3> QED  BY <3>3, <3>4, AsideLays
  <2> QED  BY <1>1, <2>4, <2>5
<1>2. CASE QuietGang
  <2>1. PICK q \in Players : q = playernow  BY DEF TypeOK
  <2>2. nc[q] \in 0..HandSize /\ nc[q] % 3 = 1 /\ nc[q] \in Slots
        /\ decks[q] \in [Slots -> Entry]
      BY DEF TypeOK, Shape, Slots
  <2>3. PICK t \in Playable : t = decks[q][nc[q]]
    <3>1. decks[q][nc[q]] # Null  BY <1>2, <2>1 DEF QuietGang, Shape
    <3>2. pc = "quiet" /\ InPlay  BY <1>2 DEF QuietGang, InPlay, Ended
    <3>3. decks[q][nc[q]] \in Entry /\ decks[q][nc[q]] \notin FLOWER
        BY <2>2, <3>2 DEF FlowersAside
    <3> QED  BY <3>1, <3>3, PlayableTile
  <2>4. is_gang_possible(decks[q], nc[q], t)  BY <1>2, <2>1, <2>3 DEF QuietGang
  <2>5. nc[q] >= 4  BY <2>2, <2>4, ClaimNeedsTiles
  <2>6. /\ decks' = [decks EXCEPT ![q] = Remove(decks[q], nc[q], t, 3)]
        /\ door' = [door EXCEPT ![q] = door[q] \o <<t, t, t, t>>]
        /\ discarded_mj' = Null /\ pc' = "discard" /\ sea' = sea /\ pc = "quiet"
      BY <1>2, <2>1, <2>3 DEF QuietGang
  <2>7. 3 \in 0..nc[q]  BY <2>2, <2>5
  <2> QED  BY <2>6, <2>7, AsideLays
<1> QED  BY <1>1, <1>2

\* A chow is eaten with tiles of the hand.
LEMMA AsideEat ==
    ASSUME TypeOK, Shape, FlowersAside, NEW e1 \in Slots, NEW e2 \in Slots, Eat(e1, e2)
    PROVE  FlowersAside'
<1>0. HandSize \in Nat  BY ConstantFacts
<1>1. PICK q \in Players : q = Asked  BY AskedOther DEF TypeOK
<1>2. PICK n \in 0..HandSize : n = nc[q]  BY DEF TypeOK
<1>3. PICK d \in [Slots -> Entry] : d = decks[q]  BY DEF TypeOK
<1>4. InPlay /\ pc = "eat" /\ NoFlower(d)
    BY <1>3 DEF InPlay, Ended, Eat, FlowersAside, NoFlower
<1>5. n >= 4
    BY <1>1, <1>2, ClaimNeedsTiles DEF Shape, Eat
<1>6. n - 1 \in Slots /\ n - 2 \in Slots /\ n - 3 \in -1..HandSize
    BY <1>0, <1>5 DEF Slots
<1>7. PICK a \in [Slots -> Entry] : a = [d EXCEPT ![e1] = Null, ![e2] = Null]
    BY DEF Entry
<1>8. PICK b \in [Slots -> Entry] : b = swap(a, e1, n - 1)  BY <1>6, SwapType
<1>9. PICK c \in [Slots -> Entry] : c = swap(b, e2, n - 2)  BY <1>6, SwapType
<1>10. AfterEat(d, n, e1, e2) = c  BY <1>7, <1>8, <1>9 DEF AfterEat
<1>11. NoFlower(c)
  <2>1. \A j \in Slots : a[j] \in {Null, d[j]}  BY <1>7
  <2>2. NoFlower(a)  BY <1>4, <2>1 DEF NoFlower, Null, FLOWER
  <2>3. NoFlower(b)  BY <1>6, <1>8, <2>2 DEF swap, NoFlower
  <2> QED  BY <1>6, <1>9, <2>3 DEF swap, NoFlower
<1>12. PICK dk : dk = decks_quick_sort(c, n - 3)  OBVIOUS
<1>13. NoFlower(dk)  BY <1>6, <1>11, <1>12, SortNoFlower
<1>14. PICK lo : /\ lo = Min({d[e1], d[e2], discarded_mj})
                 /\ lo \in Playable /\ lo + 1 \in Playable /\ lo + 2 \in Playable
  <2>1. d[e1] \in Entry /\ d[e2] \in Entry /\ discarded_mj \in Entry  BY DEF TypeOK
  <2>2. eatable(d[e1], d[e2], discarded_mj)  BY <1>1, <1>3 DEF Eat
  <2>3. PICK lo \in Tile : /\ lo = Min({d[e1], d[e2], discarded_mj})
                           /\ lo + 1 \in Tile /\ lo + 2 \in Tile
      BY <2>1, <2>2, EatenTiles
  <2>4. {d[e1], d[e2], discarded_mj} = {lo, lo + 1, lo + 2}
      BY <2>2, <2>3 DEF eatable
  <2>5. d[e1] \notin FLOWER /\ d[e2] \notin FLOWER /\ discarded_mj \notin FLOWER
      BY <1>4 DEF NoFlower, FlowersAside
  <2> QED  BY <2>3, <2>4, <2>5 DEF Tile
<1>15. /\ decks' = [decks EXCEPT ![q] = dk]
       /\ door' = [door EXCEPT ![q] = door[q] \o <<lo, lo + 1, lo + 2>>]
       /\ discarded_mj' = Null /\ pc' = "hu" /\ sea' = sea
    BY <1>1, <1>2, <1>3, <1>10, <1>12, <1>14 DEF Eat, TakesTurn
<1>16. \A p \in Players : \A i \in Slots : decks'[p][i] \notin FLOWER
    BY <1>4, <1>13, <1>15, AsideHand
<1>17. door' \in [Players -> Seq(Playable)]
  <2>1. door \in [Players -> Seq(Playable)]  BY DEF FlowersAside
  <2>2. door[q] \o <<lo, lo + 1, lo + 2>> \in Seq(Playable)
      BY <1>14, <2>1, LayPlayable
  <2> QED  BY <1>15, <2>1, <2>2
<1> QED  BY <1>15, <1>16, <1>17 DEF FlowersAside, Null, FLOWER

\* What nobody wants was a playable tile.
LEMMA AsideUnclaimed ==
    ASSUME TypeOK, Shape, FlowersAside, Unclaimed PROVE FlowersAside'
<1>1. /\ pc = "react" /\ ask = 11 /\ discarded_mj' = Null /\ UNCHANGED <<decks, door>>
      /\ sea' = [sea EXCEPT ![playernow] = Append(sea[playernow], discarded_mj)]
      /\ pc' \in {"draw", "set"}
    BY DEF Unclaimed, Return
<1>2. discarded_mj \in Playable
    BY <1>1, PlayableTile DEF Shape, TypeOK, FlowersAside
<1>3. sea' \in [Players -> Seq(Playable)]
  <2>1. sea \in [Players -> Seq(Playable)] /\ playernow \in Players
      BY DEF FlowersAside, TypeOK
  <2>2. Append(sea[playernow], discarded_mj) \in Seq(Playable)  BY <1>2, <2>1
  <2> QED  BY <1>1, <2>1, <2>2
<1>4. InPlay  BY <1>1 DEF InPlay, Ended
<1>5. \A p \in Players : \A i \in Slots : decks'[p][i] \notin FLOWER
    BY <1>1, <1>4 DEF FlowersAside
<1> QED  BY <1>1, <1>3, <1>5 DEF FlowersAside, Null, FLOWER

\* Every step of the table preserves the invariant.
LEMMA AsideNext == TypeOK /\ Shape /\ FlowersAside /\ [Next]_vars => FlowersAside'
<1> SUFFICES ASSUME TypeOK, Shape, FlowersAside, [Next]_vars PROVE FlowersAside'
    OBVIOUS
<1>1. CASE has_flower  BY <1>1, AsideHasFlower
<1>2. CASE StartPlay  BY <1>2, AsideStartPlay
<1>3. CASE draw  BY <1>3, AsideDraw
<1>4. CASE \/ HuAccept \/ HuPass \/ QuietPass \/ Pass \/ HuClaim \/ EatYes
    BY <1>4, AsideKeeps
<1>5. CASE DrawPastEnd \/ CountNull \/ GameOver \/ Disconnect \/ Deal \/ NextRound
    BY <1>5, AsideEnds
<1>6. CASE \E i \in Slots : discard(i)  BY <1>6, AsideDiscard
<1>7. CASE GangClaim \/ PongClaim \/ QuietGang  BY <1>7, AsideClaim
<1>8. CASE \E e1, e2 \in Slots : Eat(e1, e2)  BY <1>8, AsideEat
<1>9. CASE Unclaimed  BY <1>9, AsideUnclaimed
<1>10. CASE UNCHANGED vars
  <2>1. UNCHANGED <<decks, nc, door, sea, discarded_mj, playernow, playeradd,
                    no_flower_count, pc>>
      BY <1>10 DEF vars, hands, dealing
  <2> QED  BY <2>1 DEF FlowersAside, InPlay, FlowerSlots
<1> QED
    BY <1>1, <1>2, <1>3, <1>4, <1>5, <1>6, <1>7, <1>8, <1>9, <1>10 DEF Next, Step

\* Whatever is dealt, drawn and claimed, once play has begun no flower is
\* among the tiles that is_hu and the claim tests index count[34] with, nor
\* on a door, in a sea or on offer.
THEOREM FlowersStayAside == Spec => []NoFlowerInPlay
<1>1. TypeOK /\ Shape /\ FlowersAside /\ [Next]_vars
        => TypeOK' /\ Shape' /\ FlowersAside'
    BY TypeNext, AsideNext
<1>2. TypeOK /\ Shape /\ FlowersAside => NoFlowerInPlay
  <2>0. FlowersAside => discarded_mj \notin FLOWER  BY DEF FlowersAside
  <2> SUFFICES ASSUME TypeOK, Shape, FlowersAside, InPlay, NEW p \in Players
               PROVE  /\ \A i \in Live(p) : decks[p][i] \notin FLOWER
                      /\ \A i \in DOMAIN door[p] : door[p][i] \notin FLOWER
                      /\ \A i \in DOMAIN sea[p] : sea[p][i] \notin FLOWER
      BY <2>0, Zenon DEF NoFlowerInPlay, InPlay
  <2>1. \A t \in Playable : t \notin FLOWER
      BY DEF Playable, Suited, DAZI, FLOWER
  <2>2. door[p] \in Seq(Playable) /\ sea[p] \in Seq(Playable)  BY DEF FlowersAside
  <2>3. \A i \in DOMAIN door[p] : door[p][i] \in Playable  BY <2>2
  <2>4. \A i \in DOMAIN sea[p] : sea[p][i] \in Playable  BY <2>2
  <2>5. ASSUME NEW i \in Live(p) PROVE decks[p][i] \notin FLOWER
    <3>1. nc[p] \in 0..HandSize /\ HandSize \in Nat  BY ConstantFacts DEF TypeOK
    <3>2. i \in Slots  BY <3>1 DEF Live, Slots
    <3>3. pc = "draw" => ~Holding  BY DEF Holding
    <3>4. pc = "draw" => i # nc[p]  BY <3>1, <3>3 DEF Live
    <3> QED  BY <3>2, <3>4 DEF FlowersAside
  <2> QED  BY <2>1, <2>3, <2>4, <2>5
<1>3. Spec => [](TypeOK /\ Shape /\ FlowersAside)
    BY <1>1, TypeInit, AsideInit, PTL DEF Spec
<1> QED  BY <1>2, <1>3, PTL
-----------------------------------------------------------------------------
(* Eating                                                                  *)

\* The question for two slots is put only to a player who can answer it.
LEMMA ChoiceNext == TypeOK /\ EatHasChoice /\ [Next]_vars => EatHasChoice'
<1> SUFFICES ASSUME TypeOK, EatHasChoice, [Next]_vars, pc' = "eat"
             PROVE  EatHasChoice'
    BY DEF EatHasChoice
<1>1. UNCHANGED vars \/ EatYes
  <2>1. CASE \/ Deal \/ has_flower \/ StartPlay \/ draw \/ DrawPastEnd \/ QuietGang
             \/ QuietPass \/ CountNull \/ NextRound \/ GameOver \/ Disconnect
      BY <2>1 DEF Deal, has_flower, StartPlay, draw, DrawPastEnd, QuietGang, QuietPass,
                  CountNull, NextRound, GameOver, Disconnect
  <2>2. CASE HuAccept \/ HuPass \/ HuClaim \/ Unclaimed
      BY <2>2 DEF HuAccept, HuPass, HuClaim, Unclaimed, Return
  <2>3. CASE Pass \/ GangClaim \/ PongClaim
      BY <2>3 DEF Pass, GangClaim, PongClaim
  <2>4. CASE (\E i \in Slots : discard(i)) \/ (\E e1, e2 \in Slots : Eat(e1, e2))
      BY <2>4 DEF discard, Eat
  <2> QED  BY <2>1, <2>2, <2>3, <2>4 DEF Next, Step
<1>2. UNCHANGED <<decks, nc, discarded_mj, ask, playernow>>
    BY <1>1 DEF vars, hands, EatYes
<1>3. Asked' = Asked  BY <1>2 DEF Asked
<1>4. \E e1, e2 \in 0..(nc[Asked] - 1) :
          eatable(decks[Asked][e1], decks[Asked][e2], discarded_mj)
  <2>1. CASE UNCHANGED vars
    <3>1. pc = "eat"  BY <2>1 DEF vars
    <3> QED  BY <3>1 DEF EatHasChoice
  <2>2. CASE EatYes
    <3>1. PICK q \in Players : q = Asked  BY AskedOther DEF TypeOK
    <3>2. /\ discarded_mj # Null /\ is_eat_possible(decks[q], nc[q], discarded_mj)
        BY <2>2, <3>1 DEF EatYes, ScansNull, Offer
    <3>3. /\ decks[q] \in [Slots -> Entry] /\ nc[q] \in 0..HandSize
          /\ discarded_mj \in Entry
        BY DEF TypeOK
    <3>4. nc[q] \in Nat /\ \A j \in 0..(nc[q] - 1) : decks[q][j] \in Entry
      <4>1. HandSize \in Nat  BY HandSizeAssumption
      <4> QED  BY <3>3, <4>1 DEF Slots
    <3> QED  BY <3>1, <3>2, <3>3, <3>4, EatOfferChoice
  <2> QED  BY <1>1, <2>1, <2>2
<1> QED  BY <1>2, <1>3, <1>4 DEF EatHasChoice

\* A player who has agreed to eat can always name two slots that the check
\* of the server accepts, so that the loop asking for them can be left.
THEOREM EatCanBeAnswered == Spec => []EatHasChoice
<1>1. Init => EatHasChoice  BY DEF Init, EatHasChoice
<1>2. Spec => []TypeOK  BY TypeCorrect
<1> QED  BY <1>1, <1>2, ChoiceNext, PTL DEF Spec
-----------------------------------------------------------------------------
(* Order in the hands                                                      *)

OrderedTo(d, n) == \A i \in 0..(n - 2) : d[i] <= d[i + 1]
NullFree(d, n) == \A i \in 0..(n - 1) : d[i] # Null
EmptyFrom(d, n) == \A i \in n..HandSize : d[i] = Null

\* The inductive invariant: the hands are in order; above a hand without a
\* null tile there is none, and above the tile that the player at turn has
\* in slot nc neither; and the player who eats has a hand without a null
\* tile, since it was scanned when the eat was offered.
Tidy ==
    /\ pc = "regrab" => \A p \in Players : EmptyFrom(decks[p], HandSize)
    /\ InPlay => \A p \in Players :
          /\ OrderedTo(decks[p], nc[p])
          /\ (p # playernow /\ NullFree(decks[p], nc[p])) => EmptyFrom(decks[p], nc[p])
    /\ pc = "draw" => EmptyFrom(decks[playernow], nc[playernow] + 1)
    /\ (pc \in {"hu", "quiet", "discard"} /\ ~Hung
          /\ NullFree(decks[playernow], nc[playernow] + 1))
          => EmptyFrom(decks[playernow], nc[playernow] + 1)
    /\ (pc \in {"react", "eat"} /\ discarded_mj # Null
          /\ NullFree(decks[playernow], nc[playernow]))
          => EmptyFrom(decks[playernow], nc[playernow])
    /\ pc = "eat" => NullFree(decks[Asked], nc[Asked])

\* A discard leaves the hand in order, and with a null tile if there was one
\* that was not the one discarded.
LEMMA DiscardedHand ==
    ASSUME NEW d \in [Slots -> Entry], NEW n \in 0..HandSize, NEW i \in 0..n, NEW f,
           f = decks_quick_sort([swap(d, n, i) EXCEPT ![n] = Null], n - 1)
    PROVE  /\ OrderedTo(f, n)
           /\ (d[i] # Null /\ NullFree(f, n)) => NullFree(d, n + 1)
           /\ EmptyFrom(d, n + 1) => EmptyFrom(f, n)
<1> USE HandSizeAssumption
<1>1. n \in Slots /\ i \in Slots /\ n - 1 \in -1..HandSize  BY DEF Slots
<1>2. PICK b \in [Slots -> Entry] : b = swap(d, n, i)  BY <1>1, SwapType
<1>3. PICK e \in [Slots -> Entry] : e = [b EXCEPT ![n] = Null]  BY <1>1 DEF Entry
<1>4. f = decks_quick_sort(e, n - 1)  BY <1>2, <1>3
<1>5. e[n] = Null /\ (i # n => e[i] = d[n])
      /\ \A j \in Slots : j # n /\ j # i => e[j] = d[j]
    BY <1>1, <1>2, <1>3 DEF swap
<1>6. OrderedTo(f, n)
  <2>1. SUFFICES ASSUME NEW j \in 0..(n - 2) PROVE f[j] <= f[j + 1]
      BY DEF OrderedTo
  <2>2. j \in 0..(n - 1) /\ j + 1 \in 0..(n - 1) /\ j <= j + 1  OBVIOUS
  <2> QED  BY <1>1, <1>4, <2>2, SortOrdered
<1>7. ASSUME d[i] # Null, NullFree(f, n) PROVE NullFree(d, n + 1)
  <2>1. SUFFICES ASSUME NEW j \in 0..n, d[j] = Null PROVE FALSE
      BY DEF NullFree
  <2>2. \A m \in 0..(n - 1) : e[m] # Null
    <3>1. SUFFICES ASSUME NEW m \in 0..(n - 1), e[m] = Null PROVE FALSE  OBVIOUS
    <3>a. \E l \in 0..(n - 1) : decks_quick_sort(e, n - 1)[l] = e[m]
        BY <1>1, SortCovers
    <3>2. \E l \in 0..(n - 1) : f[l] = Null  BY <1>4, <3>1, <3>a
    <3> QED  BY <1>7, <3>2 DEF NullFree
  <2>3. j # i  BY <1>7, <2>1
  <2>4. CASE j = n
    <3>1. i \in 0..(n - 1)  BY <2>3, <2>4
    <3> QED  BY <1>5, <2>1, <2>2, <2>3, <2>4, <3>1
  <2>5. CASE j # n
    <3>1. j \in 0..(n - 1) /\ j \in Slots  BY <2>5 DEF Slots
    <3> QED  BY <1>5, <2>1, <2>2, <2>3, <2>5, <3>1
  <2> QED  BY <2>4, <2>5
<1>8. ASSUME EmptyFrom(d, n + 1) PROVE EmptyFrom(f, n)
  <2>1. SUFFICES ASSUME NEW j \in n..HandSize PROVE f[j] = Null
      BY DEF EmptyFrom
  <2>2. j \in Slots /\ j > n - 1  BY DEF Slots
  <2>a. decks_quick_sort(e, n - 1)[j] = e[j]  BY <1>1, <2>2, SortMembers
  <2>3. f[j] = e[j]  BY <1>4, <2>a
  <2>4. CASE j = n  BY <1>5, <2>3, <2>4
  <2>5. CASE j # n
    <3>1. j \in (n + 1)..HandSize /\ j # i  BY <2>5
    <3> QED  BY <1>5, <1>8, <2>2, <2>3, <2>5, <3>1 DEF EmptyFrom
  <2> QED  BY <2>4, <2>5
<1> QED  BY <1>6, <1>7, <1>8

\* A gang or a pong leaves the hand in order, without a null tile if it had
\* none, and with empty slots above.
LEMMA RemovedHand ==
    ASSUME NEW d \in [Slots -> Entry], NEW n \in 0..HandSize, NEW t, NEW need \in 0..n,
           Count(d, n, t) >= need, NEW f, f = Remove(d, n, t, need)
    PROVE  /\ OrderedTo(f, n - need)
           /\ NullFree(d, n) => NullFree(f, n - need)
           /\ EmptyFrom(d, n) => EmptyFrom(f, n - need)
<1> USE HandSizeAssumption
<1>1. OrderedTo(f, n - need)
  <2>1. SUFFICES ASSUME NEW j \in 0..(n - need - 2) PROVE f[j] <= f[j + 1]
      BY DEF OrderedTo
  <2>2. j \in 0..(n - need - 1) /\ j + 1 \in 0..(n - need - 1) /\ j <= j + 1  OBVIOUS
  <2> QED  BY <2>2, RemoveOrdered
<1>2. ASSUME NullFree(d, n) PROVE NullFree(f, n - need)
  <2>1. \A i \in 0..(n - need - 1) : \E j \in 0..(n - 1) : f[i] = d[j]  BY RemoveMembers
  <2> QED  BY <1>2, <2>1 DEF NullFree
<1>3. ASSUME EmptyFrom(d, n) PROVE EmptyFrom(f, n - need)
  <2>1. SUFFICES ASSUME NEW j \in (n - need)..HandSize PROVE f[j] = Null
      BY DEF EmptyFrom
  <2>2. CASE j < n
    <3>1. j \in (n - need)..(n - 1)  BY <2>2
    <3> QED  BY <3>1, RemoveAbove
  <2>3. CASE ~(j < n)
    <3>1. j \in n..HandSize  BY <2>3
    <3> QED  BY <1>3, <3>1, RemoveAbove DEF EmptyFrom
  <2> QED  BY <2>2, <2>3
<1> QED  BY <1>1, <1>2, <1>3

\* What an eat does to a hand without a null tile.  Its two tiles are
\* exchanged for the last two, one after the other; if the second was the
\* last of the hand, the first exchange has already moved it.
LEMMA EatenHand ==
    ASSUME NEW d \in [Slots -> Entry], NEW n \in 4..HandSize,
           NullFree(d, n), EmptyFrom(d, n),
           NEW e1 \in Slots, NEW e2 \in Slots, e1 # e2, d[e1] # Null, d[e2] # Null,
           NEW f, f = decks_quick_sort(AfterEat(d, n, e1, e2), n - 3)
    PROVE  /\ OrderedTo(f, n - 2)
           /\ NullFree(f, n - 2) => EmptyFrom(f, n - 2)
<1> USE HandSizeAssumption
<1>1. n - 1 \in Slots /\ n - 2 \in Slots /\ n - 3 \in -1..HandSize  BY DEF Slots
<1>2. e1 \in 0..(n - 1) /\ e2 \in 0..(n - 1)  BY DEF EmptyFrom, Slots
<1>3. PICK a \in [Slots -> Entry] : a = [d EXCEPT ![e1] = Null, ![e2] = Null]
    BY DEF Entry
<1>4. PICK b \in [Slots -> Entry] : b = swap(a, e1, n - 1)  BY <1>1, SwapType
<1>5. PICK c \in [Slots -> Entry] : c = swap(b, e2, n - 2)  BY <1>1, SwapType
<1>6. f = decks_quick_sort(c, n - 3)  BY <1>3, <1>4, <1>5 DEF AfterEat
<1>7. OrderedTo(f, n - 2)
  <2>1. SUFFICES ASSUME NEW j \in 0..(n - 4) PROVE f[j] <= f[j + 1]
      BY DEF OrderedTo
  <2>2. j \in 0..(n - 3) /\ j + 1 \in 0..(n - 3) /\ j <= j + 1  OBVIOUS
  <2> QED  BY <1>1, <1>6, <2>2, SortOrdered
<1>8. ASSUME NullFree(f, n - 2) PROVE EmptyFrom(f, n - 2)
  <2>1. \A m \in 0..(n - 3) : c[m] # Null
    <3>1. SUFFICES ASSUME NEW m \in 0..(n - 3), c[m] = Null PROVE FALSE  OBVIOUS
    <3>a. \E l \in 0..(n - 3) : decks_quick_sort(c, n - 3)[l] = c[m]
        BY <1>1, SortCovers
    <3>2. \E l \in 0..(n - 3) : f[l] = Null  BY <1>6, <3>1, <3>a
    <3> QED  BY <1>8, <3>2 DEF NullFree
  <2>2. /\ a[e1] = Null /\ a[e2] = Null
        /\ b[n - 1] = Null /\ b[e1] = a[n - 1]
        /\ \A j \in Slots : j # e1 /\ j # n - 1 => b[j] = a[j]
        /\ c[n - 2] = b[e2] /\ c[e2] = b[n - 2]
        /\ \A j \in Slots : j # e2 /\ j # n - 2 => c[j] = b[j]
      BY <1>1, <1>3, <1>4, <1>5 DEF swap
  <2>3. c[n - 2] = Null  BY <1>1, <2>2
  <2>4. c[n - 1] = Null
    <3>1. CASE e2 # n - 1  BY <1>1, <2>2, <3>1
    <3>2. CASE e2 = n - 1
      <4>1. c[n - 1] = b[n - 2]  BY <2>2, <3>2
      <4>2. b[e1] = Null  BY <2>2, <3>2
      <4>3. CASE e1 = n - 2  BY <4>1, <4>2, <4>3
      <4>4. CASE e1 # n - 2
        <5>1. e1 \in 0..(n - 3)  BY <1>2, <3>2, <4>4
        <5>2. c[e1] = b[e1]  BY <2>2, <4>4
        <5> QED  BY <2>1, <4>2, <5>1, <5>2
      <4> QED  BY <4>3, <4>4
    <3> QED  BY <3>1, <3>2
  <2>5. ASSUME NEW j \in (n - 2)..HandSize PROVE f[j] = Null
    <3>1. j \in Slots /\ j > n - 3  BY DEF Slots
    <3>a. decks_quick_sort(c, n - 3)[j] = c[j]  BY <1>1, <3>1, SortMembers
    <3>2. f[j] = c[j]  BY <1>6, <3>a
    <3>3. CASE j \in {n - 2, n - 1}  BY <2>3, <2>4, <3>2, <3>3
    <3>4. CASE j \notin {n - 2, n - 1}
      <4>1. j \in n..HandSize /\ j # e1 /\ j # e2  BY <1>2, <3>4
      <4>2. c[j] = d[j]  BY <1>3, <2>2, <3>1, <3>4, <4>1
      <4> QED  BY <3>2, <4>1, <4>2 DEF EmptyFrom
    <3> QED  BY <3>3, <3>4
  <2> QED  BY <2>5 DEF EmptyFrom
<1> QED  BY <1>7, <1>8

\* deal() fills all slots but the last, and replacing flowers leaves it empty.
LEMMA TidyDealt ==
    ASSUME TypeOK, Tidy, Deal \/ has_flower PROVE Tidy'
<1>0. HandSize \in Nat /\ HandSize \in Slots /\ HandSize..HandSize = {HandSize}
    BY ConstantFacts DEF Slots
<1>1. pc' = "regrab"  BY DEF Deal, has_flower
<1>2. ASSUME NEW p \in Players PROVE decks'[p][HandSize] = Null
  <2>1. CASE Deal  BY <1>0, <2>1 DEF Deal
  <2>2. CASE has_flower
    <3>1. PICK p0 : p0 = (playernow + playeradd) % 4  OBVIOUS
    <3>2. pc = "regrab" /\ decks' = [decks EXCEPT ![p0] =
                 [i \in Slots |-> IF i \in FlowerSlots(p0) THEN Replacement(p0, i)
                                  ELSE decks[p0][i]]]
        BY <2>2, <3>1 DEF has_flower
    <3>3. decks[p][HandSize] = Null  BY <1>0, <3>2 DEF Tidy, EmptyFrom
    <3>4. decks \in [Players -> [Slots -> Entry]]  BY DEF TypeOK
    <3>5. CASE p = p0
      <4>1. HandSize \notin FlowerSlots(p)  BY <3>3 DEF FlowerSlots, Null, FLOWER
      <4> QED  BY <1>0, <3>2, <3>3, <3>4, <3>5, <4>1
    <3>6. CASE p # p0  BY <3>2, <3>3, <3>4, <3>6
    <3> QED  BY <3>5, <3>6
  <2> QED  BY <2>1, <2>2
<1>3. \A p \in Players : EmptyFrom(decks'[p], HandSize)
    BY <1>0, <1>2 DEF EmptyFrom
<1> QED  BY <1>1, <1>3 DEF Tidy, InPlay

\* The hands are sorted before play begins.
LEMMA TidyStartPlay ==
    ASSUME TypeOK, Whole, Tidy, StartPlay PROVE Tidy'
<1>0. HandSize \in Nat  BY ConstantFacts
<1>1. /\ pc = "regrab" /\ pc' = "draw" /\ UNCHANGED <<nc, playernow>>
      /\ decks' = [p \in Players |-> decks_quick_sort(decks[p], HandSize - 1)]
    BY DEF StartPlay
<1>2. \A p \in Players : nc'[p] = HandSize  BY <1>1 DEF Whole
<1>3. ASSUME NEW p \in Players
      PROVE  OrderedTo(decks'[p], HandSize) /\ EmptyFrom(decks'[p], HandSize)
  <2>1. PICK d \in [Slots -> Entry] : d = decks[p]  BY DEF TypeOK
  <2>2. HandSize - 1 \in -1..HandSize  BY <1>0
  <2>3. decks'[p] = decks_quick_sort(d, HandSize - 1)  BY <1>1, <2>1
  <2>4. ASSUME NEW i \in 0..(HandSize - 2) PROVE decks'[p][i] <= decks'[p][i + 1]
    <3>1. i \in 0..(HandSize - 1) /\ i + 1 \in 0..(HandSize - 1) /\ i <= i + 1  BY <1>0
    <3> QED  BY <2>2, <2>3, <3>1, SortOrdered
  <2>5. ASSUME NEW i \in HandSize..HandSize PROVE decks'[p][i] = Null
    <3>1. i \in Slots /\ i > HandSize - 1  BY <1>0 DEF Slots
    <3>2. decks_quick_sort(d, HandSize - 1)[i] = d[i]  BY <2>2, <3>1, SortMembers
    <3> QED  BY <1>1, <2>1, <2>3, <3>2 DEF Tidy, EmptyFrom
  <2> QED  BY <2>4, <2>5 DEF OrderedTo, EmptyFrom
<1>4. EmptyFrom(decks'[playernow'], nc'[playernow'] + 1)
  <2>1. playernow' \in Players  BY <1>1 DEF TypeOK
  <2> QED  BY <1>0, <1>2, <2>1 DEF EmptyFrom
<1> QED  BY <1>1, <1>2, <1>3, <1>4 DEF Tidy, InPlay

\* A drawn tile goes to slot nc.
LEMMA TidyDraw ==
    ASSUME TypeOK, Tidy, draw PROVE Tidy'
<1>0. HandSize \in Nat  BY ConstantFacts
<1>1. PICK p0 \in Players : p0 = playernow  BY DEF TypeOK
<1>2. PICK n \in 0..HandSize : n = nc[p0]  BY DEF TypeOK
<1>3. PICK t : t = wall[take_index]  OBVIOUS
<1>4. /\ pc = "draw" /\ pc' \in {"draw", "hu"} /\ UNCHANGED <<nc, playernow>>
      /\ decks' = [decks EXCEPT ![p0][n] = t]
    BY <1>1, <1>2, <1>3 DEF draw
<1>5. InPlay /\ n \in Slots /\ decks \in [Players -> [Slots -> Entry]]
    BY <1>4 DEF InPlay, Ended, Slots, TypeOK
<1>6. \A p \in Players : p # p0 => decks'[p] = decks[p]  BY <1>4, <1>5
<1>7. \A i \in Slots : i # n => decks'[p0][i] = decks[p0][i]  BY <1>4, <1>5
<1>8. OrderedTo(decks'[p0], n)
  <2>1. SUFFICES ASSUME NEW i \in 0..(n - 2) PROVE decks'[p0][i] <= decks'[p0][i + 1]
      BY DEF OrderedTo
  <2>2. i \in Slots /\ i + 1 \in Slots /\ i # n /\ i + 1 # n  BY <1>0 DEF Slots
  <2>3. decks[p0][i] <= decks[p0][i + 1]  BY <1>2, <1>5 DEF Tidy, OrderedTo
  <2> QED  BY <1>7, <2>2, <2>3
<1>9. EmptyFrom(decks'[p0], n + 1)
  <2>1. EmptyFrom(decks[p0], n + 1)  BY <1>1, <1>2, <1>4 DEF Tidy
  <2>2. \A i \in (n + 1)..HandSize : i \in Slots /\ i # n  BY DEF Slots
  <2> QED  BY <1>7, <2>1, <2>2 DEF EmptyFrom
<1>10. ASSUME NEW p \in Players
       PROVE  /\ OrderedTo(decks'[p], nc'[p])
              /\ (p # playernow' /\ NullFree(decks'[p], nc'[p])) => EmptyFrom(decks'[p], nc'[p])
  <2>1. CASE p = p0  BY <1>1, <1>2, <1>4, <1>8, <2>1
  <2>2. CASE p # p0  BY <1>1, <1>4, <1>5, <1>6, <2>2 DEF Tidy
  <2> QED  BY <2>1, <2>2
<1> QED  BY <1>1, <1>2, <1>4, <1>9, <1>10 DEF Tidy

\* The tile of slot nc takes the place of the one discarded.
LEMMA TidyDiscard ==
    ASSUME TypeOK, Tidy, NEW i \in Slots, discard(i) PROVE Tidy'
<1>1. PICK p0 \in Players : p0 = playernow  BY DEF TypeOK
<1>2. PICK n \in 0..HandSize : n = nc[p0]  BY DEF TypeOK
<1>3. PICK d \in [Slots -> Entry] : d = decks[p0]  BY DEF TypeOK
<1>4. PICK f : f = decks_quick_sort([swap(d, n, i) EXCEPT ![n] = Null], n - 1)  OBVIOUS
<1>5. /\ pc = "discard" /\ ~Hung /\ i \in 0..n /\ pc' = "react" /\ discarded_mj' = d[i]
      /\ decks' = [decks EXCEPT ![p0] = f] /\ UNCHANGED <<nc, playernow>>
    BY <1>1, <1>2, <1>3, <1>4 DEF discard, Choosable, Hung
<1>6. /\ OrderedTo(f, n)
      /\ (d[i] # Null /\ NullFree(f, n)) => NullFree(d, n + 1)
      /\ EmptyFrom(d, n + 1) => EmptyFrom(f, n)
    BY <1>4, <1>5, DiscardedHand
<1>7. InPlay  BY <1>5 DEF InPlay, Ended
<1>8. NullFree(d, n + 1) => EmptyFrom(d, n + 1)
    BY <1>1, <1>2, <1>3, <1>5 DEF Tidy
<1>9. decks'[p0] = f /\ \A p \in Players : p # p0 => decks'[p] = decks[p]
    BY <1>5 DEF TypeOK
<1>10. ASSUME NEW p \in Players
       PROVE  /\ OrderedTo(decks'[p], nc'[p])
              /\ (p # playernow' /\ NullFree(decks'[p], nc'[p])) => EmptyFrom(decks'[p], nc'[p])
  <2>1. CASE p = p0  BY <1>1, <1>2, <1>5, <1>6, <1>9, <2>1
  <2>2. CASE p # p0  BY <1>1, <1>5, <1>7, <1>9, <2>2 DEF Tidy
  <2> QED  BY <2>1, <2>2
<1> QED  BY <1>1, <1>2, <1>5, <1>6, <1>8, <1>9, <1>10 DEF Tidy

\* A claim: the hand of the claimer has shrunk, and the other one's turn is
\* over.
LEMMA TidyTakesTurn ==
    ASSUME TypeOK, Tidy, NEW q \in Players, q # playernow,
           pc \in {"react", "eat"}, discarded_mj # Null, pc' \in {"draw", "hu"}, client' = pc',
           \A p \in Players : p # q => decks'[p] = decks[p],
           TakesTurn(q),
           OrderedTo(decks'[q], nc[q] - 3),
           pc' = "draw" => EmptyFrom(decks'[q], nc[q] - 2),
           NullFree(decks'[q], nc[q] - 2) => EmptyFrom(decks'[q], nc[q] - 2)
    PROVE  Tidy'
<1>1. nc' = [nc EXCEPT ![q] = @ - 3] /\ playernow' = q  BY DEF TakesTurn, Shrink
<1>2. nc \in [Players -> 0..HandSize] /\ HandSize \in Nat  BY ConstantFacts DEF TypeOK
<1>3. nc'[q] = nc[q] - 3 /\ nc'[q] + 1 = nc[q] - 2  BY <1>1, <1>2
<1>4. \A p \in Players : p # q => decks'[p] = decks[p] /\ nc'[p] = nc[p]
    BY <1>1, <1>2
<1>5. InPlay  BY DEF InPlay, Ended
<1>6. ASSUME NEW p \in Players
      PROVE  /\ OrderedTo(decks'[p], nc'[p])
             /\ (p # playernow' /\ NullFree(decks'[p], nc'[p])) => EmptyFrom(decks'[p], nc'[p])
  <2>1. CASE p = q  BY <1>1, <1>3, <2>1
  <2>2. CASE p # q  BY <1>4, <1>5, <2>2 DEF Tidy
  <2> QED  BY <2>1, <2>2
<1> QED  BY <1>1, <1>3, <1>4, <1>6 DEF Tidy

\* The hand of a player who claims has no null tile and nothing above it.
LEMMA ClaimersHand ==
    ASSUME TypeOK, Tidy, pc = "react", ~ScansNull
    PROVE  /\ Asked \in Players /\ Asked # playernow
           /\ NullFree(decks[Asked], nc[Asked]) /\ EmptyFrom(decks[Asked], nc[Asked])
           /\ decks[Asked] \in [Slots -> Entry] /\ nc[Asked] \in 0..HandSize
<1>1. Asked \in Players /\ Asked # playernow  BY AskedOther DEF TypeOK
<1>2. NullFree(decks[Asked], nc[Asked])  BY DEF ScansNull, NullFree
<1>3. InPlay  BY DEF InPlay, Ended
<1> QED  BY <1>1, <1>2, <1>3 DEF Tidy, TypeOK

\* othersreaction: gang and pong.
LEMMA TidyClaim ==
    ASSUME TypeOK, Shape, Tidy, GangClaim \/ PongClaim PROVE Tidy'
<1>0. HandSize \in Nat  BY ConstantFacts
<1>1. pc = "react" /\ ~ScansNull /\ discarded_mj # Null
    BY DEF GangClaim, PongClaim, ScansNull
<1>2. PICK q \in Players : q = Asked /\ q # playernow  BY <1>1, ClaimersHand
<1>3. PICK d \in [Slots -> Entry] : d = decks[q]  BY DEF TypeOK
<1>4. PICK n \in 0..HandSize : n = nc[q]  BY DEF TypeOK
<1>5. PICK t : t = discarded_mj  OBVIOUS
<1>6. NullFree(d, n) /\ EmptyFrom(d, n)  BY <1>1, <1>2, <1>3, <1>4, ClaimersHand
<1>7. n % 3 = 1  BY <1>4 DEF Shape
<1>8. CASE GangClaim
  <2>1. Count(d, n, t) >= 3
      BY <1>2, <1>3, <1>4, <1>5, <1>8 DEF GangClaim, Offer, is_gang_possible
  <2>2. n >= 4  BY <1>7, <2>1, ClaimNeedsTiles DEF is_gang_possible
  <2>3. PICK dk : dk = Remove(d, n, t, 3)  OBVIOUS
  <2>4. 3 \in 0..n  BY <2>2
  <2>5. OrderedTo(dk, n - 3) /\ EmptyFrom(dk, n - 3)
      BY <1>6, <2>1, <2>3, <2>4, RemovedHand
  <2>6. EmptyFrom(dk, n - 2)
    <3>1. (n - 2)..HandSize \subseteq (n - 3)..HandSize  BY <1>0
    <3> QED  BY <2>5, <3>1 DEF EmptyFrom
  <2>7. /\ decks' = [decks EXCEPT ![q] = dk] /\ pc' = "draw" /\ client' = pc'
        /\ TakesTurn(q)
      BY <1>2, <1>3, <1>4, <1>5, <1>8, <2>3 DEF GangClaim
  <2>8. decks'[q] = dk /\ \A p \in Players : p # q => decks'[p] = decks[p]
      BY <2>7 DEF TypeOK
  <2>9. OrderedTo(decks'[q], nc[q] - 3) /\ EmptyFrom(decks'[q], nc[q] - 2)
      BY <1>4, <2>5, <2>6, <2>8
  <2>10. pc \in {"react", "eat"} /\ pc' \in {"draw", "hu"}  BY <1>1, <2>7
  <2> QED  BY <1>1, <1>2, <2>7, <2>8, <2>9, <2>10, TidyTakesTurn
<1>9. CASE PongClaim
  <2>1. Count(d, n, t) >= 2
      BY <1>2, <1>3, <1>4, <1>5, <1>9 DEF PongClaim, Offer, is_pong_possible
  <2>2. n >= 4  BY <1>7, <2>1, ClaimNeedsTiles DEF is_pong_possible
  <2>3. PICK dk : dk = Remove(d, n, t, 2)  OBVIOUS
  <2>4. 2 \in 0..n  BY <2>2
  <2>5. OrderedTo(dk, n - 2) /\ EmptyFrom(dk, n - 2)
      BY <1>6, <2>1, <2>3, <2>4, RemovedHand
  <2>6. OrderedTo(dk, n - 3)
    <3>1. 0..(n - 3 - 2) \subseteq 0..(n - 2 - 2)  BY <1>0
    <3> QED  BY <2>5, <3>1 DEF OrderedTo
  <2>7. /\ decks' = [decks EXCEPT ![q] = dk] /\ pc' = "hu" /\ client' = pc'
        /\ TakesTurn(q)
      BY <1>2, <1>3, <1>4, <1>5, <1>9, <2>3 DEF PongClaim
  <2>8. decks'[q] = dk /\ \A p \in Players : p # q => decks'[p] = decks[p]
      BY <2>7 DEF TypeOK
  <2>9. OrderedTo(decks'[q], nc[q] - 3) /\ EmptyFrom(decks'[q], nc[q] - 2)
      BY <1>4, <2>5, <2>6, <2>8
  <2>10. pc \in {"react", "eat"} /\ pc' \in {"draw", "hu"}  BY <1>1, <2>7
  <2> QED  BY <1>1, <1>2, <2>7, <2>8, <2>9, <2>10, TidyTakesTurn
<1> QED  BY <1>8, <1>9

\* Two different tiles make a chow with a third.
LEMMA ChowTiles ==
    ASSUME NEW a \in Entry, NEW b \in Entry, NEW t \in Tile, eatable(a, b, t)
    PROVE  a \in Tile /\ b \in Tile /\ a # b
<1>1. t \in Entry  BY DEF Entry
<1>2. PICK lo : lo = Min({a, b, t})  OBVIOUS
<1>3. lo \in Tile /\ lo + 1 \in Tile /\ lo + 2 \in Tile  BY <1>1, <1>2, EatenTiles
<1>4. {a, b, t} = {lo, lo + 1, lo + 2}  BY <1>2 DEF eatable
<1>5. lo \in Nat  BY <1>3, EntryBound DEF Entry
<1>6. a \in Tile /\ b \in Tile  BY <1>3, <1>4
<1> QED  BY <1>4, <1>5, <1>6

\* othersreaction: eat.
LEMMA TidyEat ==
    ASSUME TypeOK, Shape, Tidy, NEW e1 \in Slots, NEW e2 \in Slots, Eat(e1, e2)
    PROVE  Tidy'
<1>0. HandSize \in Nat  BY ConstantFacts
<1>1. pc = "eat" /\ discarded_mj # Null /\ nc[Asked] >= 2  BY DEF Eat, Shape
<1>2. PICK q \in Players : q = Asked /\ q # playernow  BY AskedOther DEF TypeOK
<1>3. PICK d \in [Slots -> Entry] : d = decks[q]  BY DEF TypeOK
<1>4. PICK n \in 0..HandSize : n = nc[q]  BY DEF TypeOK
<1>5. InPlay  BY <1>1 DEF InPlay, Ended
<1>6. NullFree(d, n)  BY <1>1, <1>2, <1>3, <1>4 DEF Tidy
<1>7. EmptyFrom(d, n)  BY <1>2, <1>3, <1>4, <1>5, <1>6 DEF Tidy
<1>8. n \in 4..HandSize
  <2>1. n % 3 = 1 /\ n >= 2  BY <1>1, <1>2, <1>4 DEF Shape
  <2> QED  BY <1>0, <2>1
<1>9. e1 # e2 /\ d[e1] # Null /\ d[e2] # Null
  <2>1. d[e1] \in Entry /\ d[e2] \in Entry /\ discarded_mj \in Tile
      BY <1>1 DEF TypeOK, Entry
  <2>2. eatable(d[e1], d[e2], discarded_mj)  BY <1>2, <1>3 DEF Eat
  <2>3. d[e1] \in Tile /\ d[e2] \in Tile /\ d[e1] # d[e2]  BY <2>1, <2>2, ChowTiles
  <2> QED  BY <2>3, TileNotNull
<1>10. PICK f : f = decks_quick_sort(AfterEat(d, n, e1, e2), n - 3)  OBVIOUS
<1>11. OrderedTo(f, n - 2) /\ (NullFree(f, n - 2) => EmptyFrom(f, n - 2))
    BY <1>6, <1>7, <1>8, <1>9, <1>10, EatenHand
<1>12. OrderedTo(f, n - 3)
  <2>1. 0..(n - 3 - 2) \subseteq 0..(n - 2 - 2)  BY <1>0
  <2> QED  BY <1>11, <2>1 DEF OrderedTo
<1>13. /\ decks' = [decks EXCEPT ![q] = f] /\ pc' = "hu" /\ client' = pc' /\ TakesTurn(q)
    BY <1>2, <1>3, <1>4, <1>10 DEF Eat
<1>14. decks'[q] = f /\ \A p \in Players : p # q => decks'[p] = decks[p]
    BY <1>13 DEF TypeOK
<1>15. /\ OrderedTo(decks'[q], nc[q] - 3)
       /\ NullFree(decks'[q], nc[q] - 2) => EmptyFrom(decks'[q], nc[q] - 2)
    BY <1>4, <1>11, <1>12, <1>14
<1>16. pc \in {"react", "eat"} /\ pc' \in {"draw", "hu"} /\ pc' # "draw"  BY <1>1, <1>13
<1> QED  BY <1>1, <1>2, <1>13, <1>14, <1>15, <1>16, TidyTakesTurn

\* quiet_gang: the hand is left in order; nobody discards from it any more.
LEMMA TidyQuietGang ==
    ASSUME TypeOK, Shape, Tidy, QuietGang PROVE Tidy'
<1>0. HandSize \in Nat  BY ConstantFacts
<1>1. PICK q \in Players : q = playernow  BY DEF TypeOK
<1>2. PICK d \in [Slots -> Entry] : d = decks[q]  BY DEF TypeOK
<1>3. PICK n \in 0..HandSize : n = nc[q]  BY DEF TypeOK
<1>4. PICK t : t = d[n]  OBVIOUS
<1>5. PICK dk : dk = Remove(d, n, t, 3)  OBVIOUS
<1>6. /\ pc = "quiet" /\ pc' = "discard" /\ client' = "draw" /\ Count(d, n, t) >= 3
      /\ decks' = [decks EXCEPT ![q] = dk] /\ nc' = [nc EXCEPT ![q] = n - 3]
      /\ UNCHANGED playernow
    BY <1>1, <1>2, <1>3, <1>4, <1>5
    DEF QuietGang, is_gang_possible, ClientAfterQuietGang, Shrink
<1>7. 3 \in 0..n
  <2>1. n % 3 = 1  BY <1>3 DEF Shape
  <2> QED  BY <1>6, <2>1, ClaimNeedsTiles DEF is_gang_possible
<1>8. OrderedTo(dk, n - 3)  BY <1>5, <1>6, <1>7, RemovedHand
<1>9. /\ decks'[q] = dk /\ nc'[q] = n - 3
      /\ \A p \in Players : p # q => decks'[p] = decks[p] /\ nc'[p] = nc[p]
    BY <1>6 DEF TypeOK
<1>10. InPlay  BY <1>6 DEF InPlay, Ended
<1>11. ASSUME NEW p \in Players
       PROVE  /\ OrderedTo(decks'[p], nc'[p])
              /\ (p # playernow' /\ NullFree(decks'[p], nc'[p])) => EmptyFrom(decks'[p], nc'[p])
  <2>1. CASE p = q  BY <1>1, <1>6, <1>8, <1>9, <2>1
  <2>2. CASE p # q  BY <1>1, <1>6, <1>9, <1>10, <2>2 DEF Tidy
  <2> QED  BY <2>1, <2>2
<1>12. Hung'  BY <1>6 DEF Hung
<1> QED  BY <1>6, <1>11, <1>12 DEF Tidy

\* The discard goes to the sea, and the next player's hand is a full one.
LEMMA TidyUnclaimed ==
    ASSUME TypeOK, Shape, Whole, Tidy, Unclaimed PROVE Tidy'
<1>0. HandSize \in Nat  BY ConstantFacts
<1>1. /\ pc = "react" /\ ask = 11 /\ UNCHANGED <<decks, nc>>
      /\ \/ pc' = "draw" /\ playernow' = NextPlayer(playernow)
         \/ pc' = "set" /\ playernow' = playernow
    BY DEF Unclaimed, Return
<1>2. InPlay /\ discarded_mj # Null  BY <1>1 DEF InPlay, Ended, Shape
<1>3. \A p \in Players : /\ OrderedTo(decks[p], nc[p])
                         /\ NullFree(decks[p], nc[p]) => EmptyFrom(decks[p], nc[p])
    BY <1>1, <1>2 DEF Tidy
<1>4. PICK q \in Players : q = NextPlayer(playernow)
    BY DEF TypeOK, NextPlayer, Players
<1>5. EmptyFrom(decks[q], nc[q])
  <2>1. NullFree(decks[q], nc[q])  BY <1>1, <1>4 DEF Whole, Full, NullFree
  <2> QED  BY <1>3, <2>1
<1>6. EmptyFrom(decks[q], nc[q] + 1)
  <2>1. nc[q] \in Int  BY <1>0 DEF TypeOK
  <2>2. (nc[q] + 1)..HandSize \subseteq nc[q]..HandSize  BY <1>0, <2>1
  <2> QED  BY <1>5, <2>2 DEF EmptyFrom
<1> QED  BY <1>1, <1>3, <1>4, <1>6 DEF Tidy

\* The other steps leave the hands alone.
LEMMA TidyKeeps ==
    ASSUME TypeOK, Shape, Tidy,
           \/ HuAccept \/ HuPass \/ QuietPass \/ Pass \/ HuClaim \/ EatYes
           \/ UNCHANGED vars
    PROVE  Tidy'
<1>1. CASE HuAccept \/ HuClaim
  <2>1. winner' \in Players  BY <1>1, AskedOther DEF HuAccept, HuClaim, TypeOK
  <2>2. \A ret : ~RoundGoesOn(ret, winner')  BY <2>1 DEF RoundGoesOn, Players
  <2>3. pc' = "set" /\ UNCHANGED <<decks, nc, playernow>> /\ pc \in {"hu", "react"}
      BY <1>1, <2>2 DEF HuAccept, HuClaim, Return, hands
  <2> QED  BY <2>3 DEF Tidy, InPlay, Ended
<1>2. CASE HuPass \/ QuietPass
  <2>1. /\ pc \in {"hu", "quiet"} /\ client # "draw" /\ pc' \in {"quiet", "discard"}
        /\ UNCHANGED <<decks, nc, playernow>>
      BY <1>2 DEF HuPass, QuietPass, hands
  <2> QED  BY <2>1 DEF Tidy, InPlay, Ended, Hung
<1>3. CASE Pass
  <2>1. /\ pc = "react" /\ pc' = "react" /\ UNCHANGED <<decks, nc, playernow, discarded_mj>>
      BY <1>3 DEF Pass, hands
  <2> QED  BY <2>1 DEF Tidy, InPlay, Ended
<1>4. CASE EatYes
  <2>1. /\ pc = "react" /\ pc' = "eat" /\ ~ScansNull
        /\ UNCHANGED <<decks, nc, playernow, discarded_mj, ask>>
      BY <1>4 DEF EatYes, hands
  <2>2. NullFree(decks[Asked], nc[Asked])  BY <2>1 DEF ScansNull, NullFree
  <2>3. Asked' = Asked  BY <2>1 DEF Asked
  <2> QED  BY <2>1, <2>2, <2>3 DEF Tidy, InPlay, Ended
<1>5. CASE UNCHANGED vars
  <2>1. UNCHANGED <<decks, nc, playernow, discarded_mj, ask, pc, client>>
      BY <1>5 DEF vars, hands
  <2> QED  BY <2>1 DEF Tidy, InPlay, Hung, Asked
<1> QED  BY <1>1, <1>2, <1>3, <1>4, <1>5

\* Every step of the table preserves the invariant.
LEMMA TidyNext == TypeOK /\ Shape /\ Whole /\ Tidy /\ [Next]_vars => Tidy'
<1> SUFFICES ASSUME TypeOK, Shape, Whole, Tidy, [Next]_vars PROVE Tidy'
    OBVIOUS
<1>1. CASE Deal \/ has_flower  BY <1>1, TidyDealt
<1>2. CASE StartPlay  BY <1>2, TidyStartPlay
<1>3. CASE draw  BY <1>3, TidyDraw
<1>4. CASE \E i \in Slots : discard(i)  BY <1>4, TidyDiscard
<1>5. CASE GangClaim \/ PongClaim  BY <1>5, TidyClaim
<1>6. CASE \E e1, e2 \in Slots : Eat(e1, e2)  BY <1>6, TidyEat
<1>7. CASE QuietGang  BY <1>7, TidyQuietGang
<1>8. CASE Unclaimed  BY <1>8, TidyUnclaimed
<1>9. CASE \/ HuAccept \/ HuPass \/ QuietPass \/ Pass \/ HuClaim \/ EatYes
           \/ UNCHANGED vars
    BY <1>9, TidyKeeps
<1>10. CASE DrawPastEnd \/ CountNull \/ GameOver \/ Disconnect \/ NextRound
  <2>1. pc' \in Ended \cup {"deal"}
      BY <1>10 DEF DrawPastEnd, CountNull, GameOver, Disconnect, NextRound, Ended
  <2> QED  BY <2>1 DEF Tidy, InPlay, Ended
<1> QED
    BY <1>1, <1>2, <1>3, <1>4, <1>5, <1>6, <1>7, <1>8, <1>9, <1>10 DEF Next, Step

\* In every game the hands are sorted whenever a player is asked something,
\* and nothing is left above the live tiles of a hand that no eat has
\* damaged.
THEOREM HandsStayTidy == Spec => []HandsTidy
<1>1. Init => Whole /\ Tidy  BY DEF Init, Whole, Tidy, InPlay
<1>2. TypeOK /\ Shape /\ Whole /\ Tidy /\ [Next]_vars
        => TypeOK' /\ Shape' /\ Whole' /\ Tidy'
    BY TypeNext, WholeNext, TidyNext
<1>3. TypeOK /\ Tidy => HandsTidy
  <2> SUFFICES ASSUME TypeOK, Tidy, InPlay, NEW p \in Players
               PROVE  /\ \A i \in 0..(nc[p] - 2) : decks[p][i] <= decks[p][i + 1]
                      /\ (p # playernow /\ ~Holed(p)) =>
                            \A i \in nc[p]..HandSize : decks[p][i] = Null
      BY Zenon DEF HandsTidy, InPlay
  <2>1. (p # playernow /\ ~Holed(p)) => NullFree(decks[p], nc[p])
      BY DEF Holed, Live, NullFree
  <2> QED  BY <2>1 DEF Tidy, OrderedTo, EmptyFrom
<1>4. Spec => [](TypeOK /\ Shape /\ Whole /\ Tidy)
    BY <1>1, <1>2, TypeInit, PTL DEF Spec
<1> QED  BY <1>3, <1>4, PTL
=============================================================================
