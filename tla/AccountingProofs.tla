-------------------------- MODULE AccountingProofs --------------------------
(***************************************************************************)
(* The server's bookkeeping, for every hand size, wall and number of       *)
(* rounds: the doors match the hands, the indices add up to the tiles      *)
(* taken from the wall, no tile is created or lost, and each flower is put *)
(* aside once, with a tile of the wall in its place.                       *)
(***************************************************************************)
EXTENDS MahjongTableProofs

Lens(x) == [p \in Players |-> Len(x[p])]
Held == IF Holding THEN 1 ELSE 0
Open == IF OnOffer THEN 1 ELSE 0

-----------------------------------------------------------------------------
(* Sums over the four players                                              *)

\* The sum of four integers is an integer.
LEMMA TotalInt ==
    ASSUME NEW f \in [Players -> Int]
    PROVE  Total(f) \in Int
    BY DEF Total, Players

\* Changing one player's number changes the sum by the difference.
LEMMA TotalExcept ==
    ASSUME NEW f \in [Players -> Int], NEW p \in Players, NEW v \in Int
    PROVE  Total([f EXCEPT ![p] = v]) = Total(f) - f[p] + v
<1>1. CASE p = 0  BY <1>1 DEF Total, Players
<1>2. CASE p = 1  BY <1>2 DEF Total, Players
<1>3. CASE p = 2  BY <1>3 DEF Total, Players
<1>4. CASE p = 3  BY <1>4 DEF Total, Players
<1> QED  BY <1>1, <1>2, <1>3, <1>4 DEF Players

\* The lengths of the four doors, or seas, and their sum are integers.
LEMMA LensType ==
    ASSUME NEW x \in [Players -> Seq(Tile)]
    PROVE  Lens(x) \in [Players -> Int] /\ Total(Lens(x)) \in Int
<1>1. \A p \in Players : Len(x[p]) \in Int  OBVIOUS
<1>2. Lens(x) \in [Players -> Int]  BY <1>1 DEF Lens
<1> QED  BY <1>2, TotalInt

\* A longer door or sea of one player adds its growth to the sum.
LEMMA LensExcept ==
    ASSUME NEW x \in [Players -> Seq(Tile)], NEW p \in Players, NEW s \in Seq(Tile)
    PROVE  Total(Lens([x EXCEPT ![p] = s])) = Total(Lens(x)) - Len(x[p]) + Len(s)
<1>1. PICK f \in [Players -> Int] : f = Lens(x)
    BY LensType
<1>2. Len(s) \in Int /\ f[p] = Len(x[p])
    BY <1>1 DEF Lens
<1>3. Lens([x EXCEPT ![p] = s]) = [f EXCEPT ![p] = Len(s)]
    BY <1>1 DEF Lens
<1>4. Total([f EXCEPT ![p] = Len(s)]) = Total(f) - f[p] + Len(s)
    BY <1>2, TotalExcept
<1> QED  BY <1>1, <1>2, <1>3, <1>4

\* The numbers the balance is made of are integers.
LEMMA SumsInt ==
    ASSUME TypeOK
    PROVE  /\ Total(nc) \in Int /\ Total(flower_index) \in Int
           /\ Total(Lens(door)) \in Int /\ Total(Lens(sea)) \in Int
           /\ take_index \in Int
<1>1. nc \in [Players -> Int] /\ flower_index \in [Players -> Int]
    BY ConstantFacts DEF TypeOK
<1>2. door \in [Players -> Seq(Tile)] /\ sea \in [Players -> Seq(Tile)]
    BY DEF TypeOK
<1>3. take_index \in Int  BY ConstantFacts DEF TypeOK
<1> QED  BY <1>1, <1>2, <1>3, TotalInt, LensType

-----------------------------------------------------------------------------
(* What a claim does to one player's numbers                               *)

\* A claim lays three or four tiles down for the three the hand shrinks by,
\* and leaves a hand of at least one.
Laid(p, k) ==
    /\ nc' = [nc EXCEPT ![p] = @ - 3]
    /\ \E s \in Seq(Tile) : Len(s) = Len(door[p]) + k /\ door' = [door EXCEPT ![p] = s]

\* othersreaction, gang: three tiles leave the hand, four are laid down.
LEMMA GangLays ==
    ASSUME TypeOK, Shape, GangClaim
    PROVE  Laid(Asked, 4) /\ Asked \in Players
<1>1. Asked \in Players  BY AskedOther DEF TypeOK
<1>2. PICK t \in Tile : t = discarded_mj
    BY DEF TypeOK, Entry, GangClaim, ScansNull
<1>3. PICK s \in Seq(Tile) : /\ s = door[Asked] \o <<t, t, t, t>>
                             /\ Len(s) = Len(door[Asked]) + 4
    BY <1>1, LayDown DEF TypeOK
<1>4. door' = [door EXCEPT ![Asked] = s] /\ nc' = [nc EXCEPT ![Asked] = @ - 3]
    BY <1>2, <1>3 DEF GangClaim, TakesTurn, Shrink
<1> QED  BY <1>1, <1>3, <1>4 DEF Laid

\* othersreaction, pong: the hand shrinks by three, three are laid down.
LEMMA PongLays ==
    ASSUME TypeOK, Shape, PongClaim
    PROVE  Laid(Asked, 3) /\ Asked \in Players
<1>1. Asked \in Players  BY AskedOther DEF TypeOK
<1>2. PICK t \in Tile : t = discarded_mj
    BY DEF TypeOK, Entry, PongClaim, ScansNull
<1>3. PICK s \in Seq(Tile) : /\ s = door[Asked] \o <<t, t, t>>
                             /\ Len(s) = Len(door[Asked]) + 3
    BY <1>1, LayDown DEF TypeOK
<1>4. door' = [door EXCEPT ![Asked] = s] /\ nc' = [nc EXCEPT ![Asked] = @ - 3]
    BY <1>2, <1>3 DEF PongClaim, TakesTurn, Shrink
<1> QED  BY <1>1, <1>3, <1>4 DEF Laid

\* othersreaction, eat: the hand shrinks by three, three are laid down.
LEMMA EatLays ==
    ASSUME TypeOK, Shape, NEW e1 \in Slots, NEW e2 \in Slots, Eat(e1, e2)
    PROVE  Laid(Asked, 3) /\ Asked \in Players
<1>1. Asked \in Players  BY AskedOther DEF TypeOK
<1>2. PICK d \in [Slots -> Entry] : d = decks[Asked]
    BY <1>1 DEF TypeOK
<1>3. PICK lo \in Tile : /\ lo = Min({d[e1], d[e2], discarded_mj})
                         /\ lo + 1 \in Tile /\ lo + 2 \in Tile
  <2>1. d[e1] \in Entry /\ d[e2] \in Entry /\ discarded_mj \in Entry
      BY DEF TypeOK
  <2>2. eatable(d[e1], d[e2], discarded_mj)  BY <1>2 DEF Eat
  <2> QED  BY <2>1, <2>2, EatenTiles
<1>4. PICK s \in Seq(Tile) : /\ s = door[Asked] \o <<lo, lo + 1, lo + 2>>
                             /\ Len(s) = Len(door[Asked]) + 3
  <2>1. door[Asked] \in Seq(Tile)  BY <1>1 DEF TypeOK
  <2>2. PICK b \in Tile, c \in Tile : b = lo + 1 /\ c = lo + 2  BY <1>3
  <2>3. /\ door[Asked] \o <<lo, b, c>> \in Seq(Tile)
        /\ Len(door[Asked] \o <<lo, b, c>>) = Len(door[Asked]) + 3
      BY <2>1, LayDown
  <2> QED  BY <2>2, <2>3
<1>5. door' = [door EXCEPT ![Asked] = s]
    BY <1>2, <1>3, <1>4 DEF Eat
<1>6. nc' = [nc EXCEPT ![Asked] = @ - 3]
    BY DEF Eat, TakesTurn, Shrink
<1> QED  BY <1>1, <1>4, <1>5, <1>6 DEF Laid

\* quiet_gang: the hand shrinks by three, four tiles are laid down.
LEMMA QuietGangLays ==
    ASSUME TypeOK, Shape, QuietGang
    PROVE  Laid(playernow, 4) /\ playernow \in Players
<1>1. /\ playernow \in Players /\ nc[playernow] \in Slots
      /\ decks[playernow] \in [Slots -> Entry]
    BY DEF TypeOK, Slots
<1>2. PICK t \in Tile : t = decks[playernow][nc[playernow]]
  <2>1. decks[playernow][nc[playernow]] # Null  BY DEF QuietGang, Shape
  <2> QED  BY <1>1, <2>1 DEF Entry
<1>3. PICK s \in Seq(Tile) : /\ s = door[playernow] \o <<t, t, t, t>>
                             /\ Len(s) = Len(door[playernow]) + 4
    BY <1>1, LayDown DEF TypeOK
<1>4. door' = [door EXCEPT ![playernow] = s] /\ nc' = [nc EXCEPT ![playernow] = @ - 3]
    BY <1>2, <1>3 DEF QuietGang, Shrink
<1> QED  BY <1>1, <1>3, <1>4 DEF Laid

\* The hand sizes are integers and the doors sequences of tiles.
LEMMA NcDoorType ==
    ASSUME TypeOK
    PROVE  /\ nc \in [Players -> Int] /\ door \in [Players -> Seq(Tile)]
           /\ HandSize \in Int
<1>1. nc \in [Players -> 0..HandSize] /\ door \in [Players -> Seq(Tile)]
    BY DEF TypeOK
<1>2. HandSize \in Int  BY ConstantFacts
<1>3. 0..HandSize \subseteq Int  OBVIOUS
<1> QED  BY <1>1, <1>2, <1>3

\* A discard put into the sea makes it one longer.
LEMMA IntoSea ==
    ASSUME NEW s \in Seq(Tile), NEW t \in Tile
    PROVE  Append(s, t) \in Seq(Tile) /\ Len(Append(s, t)) = Len(s) + 1
    OBVIOUS

\* What laying tiles down does to the sums.
LEMMA LaidSums ==
    ASSUME TypeOK, NEW p \in Players, NEW k \in Int, Laid(p, k)
    PROVE  /\ Total(nc') = Total(nc) - 3
           /\ Total(Lens(door')) = Total(Lens(door)) + k
<1>1. nc \in [Players -> Int] /\ door \in [Players -> Seq(Tile)]
    BY NcDoorType
<1>2. PICK s \in Seq(Tile) : /\ Len(s) = Len(door[p]) + k
                             /\ door' = [door EXCEPT ![p] = s]
    BY DEF Laid
<1>3. nc[p] \in Int /\ nc' = [nc EXCEPT ![p] = nc[p] - 3]
    BY <1>1 DEF Laid
<1>4. Total(nc) \in Int /\ Total(Lens(door)) \in Int /\ Len(door[p]) \in Int
    BY <1>1, TotalInt, LensType
<1>5. Total(nc') = Total(nc) - nc[p] + (nc[p] - 3)
  <2>1. nc[p] - 3 \in Int  BY <1>3
  <2> QED  BY <1>1, <1>3, <2>1, TotalExcept
<1>6. Total(Lens(door')) = Total(Lens(door)) - Len(door[p]) + Len(s)
    BY <1>1, <1>2, LensExcept
<1> QED  BY <1>2, <1>3, <1>4, <1>5, <1>6

-----------------------------------------------------------------------------
(* The doors                                                               *)

\* Three tiles less in the hand, and three or four more on the door.
LEMMA StepBound ==
    ASSUME NEW h \in Int, NEW n \in Int, NEW l \in Int, NEW k \in 3..4,
           h - n <= l, 3 * l <= 4 * (h - n)
    PROVE  h - (n - 3) <= l + k /\ 3 * (l + k) <= 4 * (h - (n - 3))
    OBVIOUS

\* Laying three or four tiles down keeps door and hand in step.
LEMMA DoorLaid ==
    ASSUME TypeOK, Shape', DoorMatchesHand,
           NEW p \in Players, NEW k \in 3..4, Laid(p, k)
    PROVE  DoorMatchesHand'
<1>1. /\ nc \in [Players -> Int] /\ door \in [Players -> Seq(Tile)] /\ HandSize \in Int
    BY NcDoorType
<1>2. PICK s \in Seq(Tile) : /\ Len(s) = Len(door[p]) + k
                             /\ door' = [door EXCEPT ![p] = s]
    BY DEF Laid
<1>3. nc' = [nc EXCEPT ![p] = @ - 3]  BY DEF Laid
<1>4. SUFFICES ASSUME NEW q \in Players
               PROVE  /\ nc'[q] % 3 = 1
                      /\ HandSize - nc'[q] <= Len(door'[q])
                      /\ 3 * Len(door'[q]) <= 4 * (HandSize - nc'[q])
    BY Zenon DEF DoorMatchesHand
<1>5. nc'[q] % 3 = 1  BY DEF Shape
<1>6. /\ HandSize - nc[q] <= Len(door[q]) /\ 3 * Len(door[q]) <= 4 * (HandSize - nc[q])
      /\ nc[q] \in Int /\ Len(door[q]) \in Int
    BY <1>1 DEF DoorMatchesHand
<1>7. CASE q = p
  <2>1. nc'[q] = nc[q] - 3 /\ Len(door'[q]) = Len(door[q]) + k
      BY <1>1, <1>2, <1>3, <1>7
  <2>2. /\ HandSize - (nc[q] - 3) <= Len(door[q]) + k
        /\ 3 * (Len(door[q]) + k) <= 4 * (HandSize - (nc[q] - 3))
      BY <1>1, <1>6, StepBound
  <2> QED  BY <1>5, <2>1, <2>2
<1>8. CASE q # p
  <2>1. nc'[q] = nc[q] /\ door'[q] = door[q]
      BY <1>1, <1>2, <1>3, <1>8
  <2> QED  BY <1>5, <1>6, <2>1
<1> QED  BY <1>7, <1>8

\* The actions that lay nothing down leave hands' sizes and doors alone,
\* except that a new round empties them.
LEMMA DoorNext ==
    TypeOK /\ Shape /\ TypeOK' /\ Shape' /\ DoorMatchesHand /\ [Next]_vars
        => DoorMatchesHand'
<1> SUFFICES ASSUME TypeOK, Shape, TypeOK', Shape', DoorMatchesHand, [Next]_vars
             PROVE  DoorMatchesHand'
    OBVIOUS
<1>1. CASE QuietGang  BY <1>1, QuietGangLays, DoorLaid
<1>2. CASE GangClaim  BY <1>2, GangLays, DoorLaid
<1>3. CASE PongClaim  BY <1>3, PongLays, DoorLaid
<1>4. CASE \E e1, e2 \in Slots : Eat(e1, e2)  BY <1>4, EatLays, DoorLaid
<1>5. CASE NextRound
  <2>1. \A p \in Players : nc'[p] = HandSize /\ door'[p] = <<>>  BY <1>5 DEF NextRound
  <2>2. HandSize \in Nat /\ HandSize % 3 = 1  BY ConstantFacts
  <2> QED  BY <2>1, <2>2 DEF DoorMatchesHand
<1>6. CASE UNCHANGED <<nc, door>>  BY <1>6 DEF DoorMatchesHand
<1>7. CASE Deal \/ has_flower \/ StartPlay \/ draw \/ DrawPastEnd \/ HuAccept \/ HuPass
    BY <1>6, <1>7 DEF Deal, has_flower, StartPlay, draw, DrawPastEnd, HuAccept, HuPass, hands
<1>8. CASE QuietPass \/ CountNull \/ Pass \/ HuClaim \/ EatYes \/ Unclaimed \/ GameOver
    BY <1>6, <1>8 DEF QuietPass, CountNull, Pass, HuClaim, EatYes, Unclaimed, GameOver, hands
<1>9. CASE Disconnect \/ UNCHANGED vars  BY <1>6, <1>9 DEF Disconnect, hands, vars
<1>10. CASE \E i \in Slots : discard(i)  BY <1>6, <1>10 DEF discard
<1> QED
    BY <1>1, <1>2, <1>3, <1>4, <1>5, <1>7, <1>8, <1>9, <1>10 DEF Next, Step

\* Every claim of every game shortens the hand by three and lays three or
\* four tiles on the door, so a door never outgrows the array behind it:
\* with 16 tiles, door[20] holds what five claims lay down.
THEOREM DoorsMatch == Spec => []DoorMatchesHand
<1>1. Init => DoorMatchesHand
  <2>1. HandSize \in Nat /\ HandSize % 3 = 1  BY ConstantFacts
  <2> QED  BY <2>1 DEF Init, DoorMatchesHand
<1>2. TypeOK /\ Shape /\ DoorMatchesHand /\ [Next]_vars
         => TypeOK' /\ Shape' /\ DoorMatchesHand'
    BY TypeNext, DoorNext
<1>3. Spec => [](TypeOK /\ Shape /\ DoorMatchesHand)
    BY <1>1, <1>2, TypeInit, PTL DEF Spec
<1> QED  BY <1>3, PTL

-----------------------------------------------------------------------------
(* The balance                                                             *)

Balanced ==
    take_index = Total(nc) + Total(flower_index) + Total(Lens(door)) + Total(Lens(sea))
                 + Held + Open

\* Accounting is the balance, required only while a round is on.
LEMMA AccountingIsBalanced ==
    /\ Accounting <=> (pc \notin Ended \cup {"deal"} => Balanced)
    /\ Accounting' <=> (pc' \notin Ended \cup {"deal"} => Balanced')
    BY DEF Accounting, Balanced, Lens, Held, Open

\* The deal takes exactly four hands from the wall.
LEMMA BalancedDeal ==
    ASSUME TypeOK, Shape, Deal PROVE Balanced'
<1>1. HandSize \in Nat  BY ConstantFacts
<1>2. /\ nc' = [p \in Players |-> HandSize] /\ flower_index' = [p \in Players |-> 0]
      /\ door' = [p \in Players |-> <<>>] /\ sea' = [p \in Players |-> <<>>]
      /\ take_index' = 4 * HandSize /\ pc' = "regrab"
    BY DEF Deal, Shape
<1>3. Total(nc') = 4 * HandSize /\ Total(flower_index') = 0
    BY <1>1, <1>2 DEF Total, Players
<1>4. Total(Lens(door')) = 0 /\ Total(Lens(sea')) = 0
    BY <1>2 DEF Total, Lens, Players
<1>5. Held' = 0 /\ Open' = 0
    BY <1>2 DEF Held, Open, Holding, OnOffer
<1> QED  BY <1>1, <1>2, <1>3, <1>4, <1>5 DEF Balanced

\* Tiles taken in exchange for flowers are counted as flowers.
LEMMA BalancedFlowers ==
    ASSUME TypeOK, Balanced, NEW p \in Players, NEW k \in Int,
           take_index' = take_index + k,
           flower_index' = [flower_index EXCEPT ![p] = @ + k],
           UNCHANGED <<nc, door, sea>>,
           Held' = Held, Open' = Open
    PROVE  Balanced'
<1>1. /\ Total(nc) \in Int /\ Total(flower_index) \in Int
      /\ Total(Lens(door)) \in Int /\ Total(Lens(sea)) \in Int /\ take_index \in Int
    BY SumsInt
<1>2. Held \in Int /\ Open \in Int  BY DEF Held, Open
<1>3. Total(flower_index') = Total(flower_index) + k
  <2>1. flower_index \in [Players -> Int] /\ flower_index[p] \in Int
      BY DEF TypeOK
  <2>2. PICK v \in Int : v = flower_index[p] + k  BY <2>1
  <2>3. flower_index' = [flower_index EXCEPT ![p] = v]  BY <2>2
  <2>4. Total([flower_index EXCEPT ![p] = v]) = Total(flower_index) - flower_index[p] + v
      BY <2>1, TotalExcept
  <2> QED  BY <1>1, <2>1, <2>2, <2>3, <2>4
<1>4. nc' = nc /\ Lens(door') = Lens(door) /\ Lens(sea') = Lens(sea)
    OBVIOUS
<1> QED  BY <1>1, <1>2, <1>3, <1>4 DEF Balanced

\* A pass of has_flower takes as many tiles as it puts flowers aside.
LEMMA BalancedRegrab ==
    ASSUME TypeOK, Balanced, has_flower PROVE Balanced'
<1>1. PICK p \in Players : p = (playernow + playeradd) % 4
    BY DEF TypeOK, Players
<1>2. PICK Fl : Fl = FlowerSlots(p)
    OBVIOUS
<1>3. Cardinality(Fl) \in Int
  <2>1. Fl \subseteq Slots  BY <1>2 DEF FlowerSlots
  <2>2. IsFiniteSet(Slots)
    <3>1. HandSize \in Nat  BY ConstantFacts
    <3> QED  BY <3>1, FS_Interval DEF Slots
  <2>3. Cardinality(Fl) \in Nat  BY <2>1, <2>2, FS_Subset, FS_CardinalityType
  <2> QED  BY <2>3
<1>4. PICK k \in Int : k = Cardinality(Fl)
    BY <1>3
<1>5. /\ take_index' = take_index + k
      /\ flower_index' = [flower_index EXCEPT ![p] = @ + k]
      /\ UNCHANGED <<nc, door, sea>>
      /\ pc = "regrab" /\ UNCHANGED pc
    BY <1>1, <1>2, <1>4 DEF has_flower
<1>6. Held' = Held /\ Open' = Open
    BY <1>5 DEF Held, Open, Holding, OnOffer
<1> QED  BY <1>5, <1>6, BalancedFlowers

\* A drawn tile is a flower put aside, or is held.
LEMMA BalancedDraw ==
    ASSUME TypeOK, Balanced, draw PROVE Balanced'
<1>1. /\ take_index' = take_index + 1 /\ pc = "draw"
      /\ UNCHANGED <<nc, door, sea>>
    BY DEF draw
<1>2. CASE wall[take_index] \in FLOWER
  <2>1. /\ flower_index' = [flower_index EXCEPT ![playernow] = @ + 1]
        /\ UNCHANGED pc /\ playernow \in Players
      BY <1>2 DEF draw, TypeOK
  <2>2. Held' = Held /\ Open' = Open
      BY <1>1, <2>1 DEF Held, Open, Holding, OnOffer
  <2>3. PICK k \in Int : k = 1  OBVIOUS
  <2>4. /\ take_index' = take_index + k
        /\ flower_index' = [flower_index EXCEPT ![playernow] = @ + k]
      BY <1>1, <2>1, <2>3
  <2> QED  BY <1>1, <2>1, <2>2, <2>4, BalancedFlowers
<1>3. CASE wall[take_index] \notin FLOWER
  <2>1. pc' = "hu" /\ UNCHANGED flower_index
      BY <1>3 DEF draw
  <2>2. Held = 0 /\ Held' = 1 /\ Open = 0 /\ Open' = 0
      BY <1>1, <2>1 DEF Held, Open, Holding, OnOffer, Hung
  <2>3. /\ Total(nc) \in Int /\ Total(flower_index) \in Int
        /\ Total(Lens(door)) \in Int /\ Total(Lens(sea)) \in Int /\ take_index \in Int
      BY SumsInt
  <2>4. nc' = nc /\ Lens(door') = Lens(door) /\ Lens(sea') = Lens(sea)
      BY <1>1
  <2> QED  BY <1>1, <2>1, <2>2, <2>3, <2>4 DEF Balanced
<1> QED  BY <1>2, <1>3

\* An offered tile that is claimed by pong or eat, and one that is ganged,
\* change places with the tiles of the claimer's hand.
LEMMA BalancedLaid ==
    ASSUME TypeOK, Balanced, NEW p \in Players, NEW k \in Int, Laid(p, k),
           UNCHANGED <<take_index, flower_index, sea>>,
           Held' + Open' + k = Held + Open + 3
    PROVE  Balanced'
<1>1. /\ Total(nc) \in Int /\ Total(flower_index) \in Int
      /\ Total(Lens(door)) \in Int /\ Total(Lens(sea)) \in Int /\ take_index \in Int
    BY SumsInt
<1>2. Held \in Int /\ Open \in Int /\ Held' \in Int /\ Open' \in Int
    BY DEF Held, Open
<1>3. Total(nc') = Total(nc) - 3 /\ Total(Lens(door')) = Total(Lens(door)) + k
    BY LaidSums
<1>4. flower_index' = flower_index /\ Lens(sea') = Lens(sea) /\ take_index' = take_index
    OBVIOUS
<1>5. take_index = Total(nc) + Total(flower_index) + Total(Lens(door)) + Total(Lens(sea))
                   + Held + Open
    BY DEF Balanced
<1>6. PICK h \in Int, o \in Int : h = Held' /\ o = Open'
    BY <1>2
<1>7. h + o + k = Held + Open + 3
    BY <1>6
<1>8. take_index' = Total(nc') + Total(flower_index') + Total(Lens(door'))
                    + Total(Lens(sea')) + h + o
    BY <1>1, <1>2, <1>3, <1>4, <1>5, <1>7
<1> QED  BY <1>6, <1>8 DEF Balanced

\* A claim moves the tile on offer, or the one drawn, to the door.
LEMMA BalancedClaims ==
    ASSUME TypeOK, Shape, Balanced,
           \/ QuietGang \/ GangClaim \/ PongClaim
           \/ \E e1, e2 \in Slots : Eat(e1, e2)
    PROVE  Balanced'
<1>1. UNCHANGED <<take_index, flower_index, sea>>
    BY DEF QuietGang, GangClaim, PongClaim, Eat, TakesTurn
<1>2. CASE QuietGang
  <2>1. pc = "quiet" /\ pc' = "discard" /\ client' = "draw"
      BY <1>2 DEF QuietGang, ClientAfterQuietGang
  <2>2. Held = 1 /\ Open = 0 /\ Held' = 0 /\ Open' = 0
      BY <2>1 DEF Held, Open, Holding, OnOffer, Hung
  <2> QED  BY <1>1, <1>2, <2>2, QuietGangLays, BalancedLaid
<1>3. CASE GangClaim
  <2>1. pc = "react" /\ pc' = "draw"
      BY <1>3 DEF GangClaim
  <2>2. Held = 0 /\ Open = 1 /\ Held' = 0 /\ Open' = 0
      BY <2>1 DEF Held, Open, Holding, OnOffer
  <2> QED  BY <1>1, <1>3, <2>2, GangLays, BalancedLaid
<1>4. CASE PongClaim
  <2>1. pc = "react" /\ pc' = "hu"
      BY <1>4 DEF PongClaim
  <2>2. Held = 0 /\ Open = 1 /\ Held' = 1 /\ Open' = 0
      BY <2>1 DEF Held, Open, Holding, OnOffer, Hung
  <2> QED  BY <1>1, <1>4, <2>2, PongLays, BalancedLaid
<1>5. CASE \E e1, e2 \in Slots : Eat(e1, e2)
  <2>1. pc = "eat" /\ pc' = "hu"
      BY <1>5 DEF Eat
  <2>2. Held = 0 /\ Open = 1 /\ Held' = 1 /\ Open' = 0
      BY <2>1 DEF Held, Open, Holding, OnOffer, Hung
  <2> QED  BY <1>1, <1>5, <2>2, EatLays, BalancedLaid
<1> QED  BY <1>2, <1>3, <1>4, <1>5

\* A tile nobody wants goes from the table to the sea.  There is no winner
\* then, so at the end of the round nothing is held and nothing lies open.
LEMMA BalancedUnclaimed ==
    ASSUME TypeOK, Shape, Balanced, Unclaimed PROVE Balanced'
<1>1. /\ Total(nc) \in Int /\ Total(flower_index) \in Int
      /\ Total(Lens(door)) \in Int /\ Total(Lens(sea)) \in Int /\ take_index \in Int
    BY SumsInt
<1>2. /\ pc = "react" /\ pc' \in {"draw", "set"} /\ winner' = winner
      /\ UNCHANGED <<take_index, nc, flower_index, door>>
    BY DEF Unclaimed, Return
<1>3. winner = -1
    BY <1>2 DEF Shape, WinnerEndsRound, Ended
<1>4. playernow' \in Players
  <2>1. playernow \in Players  BY DEF TypeOK
  <2> QED  BY <2>1 DEF Unclaimed, Return, NextPlayer, Players
<1>5. Held = 0 /\ Open = 1 /\ Held' = 0 /\ Open' = 0
  <2>1. winner' # playernow'  BY <1>2, <1>3, <1>4 DEF Players
  <2> QED  BY <1>2, <1>3, <2>1 DEF Held, Open, Holding, OnOffer
<1>6. Total(Lens(sea')) = Total(Lens(sea)) + 1
  <2>1. playernow \in Players /\ sea \in [Players -> Seq(Tile)]  BY DEF TypeOK
  <2>2. discarded_mj \in Tile  BY DEF TypeOK, Shape, Unclaimed, Entry
  <2>3. PICK s \in Seq(Tile) : /\ s = Append(sea[playernow], discarded_mj)
                               /\ Len(s) = Len(sea[playernow]) + 1
    <3>1. sea[playernow] \in Seq(Tile)  BY <2>1
    <3>2. /\ Append(sea[playernow], discarded_mj) \in Seq(Tile)
          /\ Len(Append(sea[playernow], discarded_mj)) = Len(sea[playernow]) + 1
        BY <2>2, <3>1, IntoSea
    <3> QED  BY <3>2
  <2>4. sea' = [sea EXCEPT ![playernow] = s]  BY <2>3 DEF Unclaimed
  <2>5. Total(Lens(sea')) = Total(Lens(sea)) - Len(sea[playernow]) + Len(s)
      BY <2>1, <2>4, LensExcept
  <2>6. Len(sea[playernow]) \in Int  BY <2>1
  <2> QED  BY <1>1, <2>3, <2>5, <2>6
<1>7. nc' = nc /\ flower_index' = flower_index /\ Lens(door') = Lens(door)
    BY <1>2
<1> QED  BY <1>1, <1>2, <1>5, <1>6, <1>7 DEF Balanced

\* The other steps move at most the held tile to the table.
LEMMA BalancedMovesOn ==
    ASSUME TypeOK, Balanced, UNCHANGED <<take_index, nc, flower_index, door, sea>>,
           Held' + Open' = Held + Open
    PROVE  Balanced'
<1>1. /\ Total(nc) \in Int /\ Total(flower_index) \in Int
      /\ Total(Lens(door)) \in Int /\ Total(Lens(sea)) \in Int /\ take_index \in Int
    BY SumsInt
<1>2. Held \in Int /\ Open \in Int /\ Held' \in Int /\ Open' \in Int
    BY DEF Held, Open
<1>3. nc' = nc /\ flower_index' = flower_index /\ Lens(door') = Lens(door)
      /\ Lens(sea') = Lens(sea) /\ take_index' = take_index
    OBVIOUS
<1>4. take_index = Total(nc) + Total(flower_index) + Total(Lens(door)) + Total(Lens(sea))
                   + Held + Open
    BY DEF Balanced
<1>5. PICK h \in Int, o \in Int : h = Held' /\ o = Open'
    BY <1>2
<1>6. h + o = Held + Open
    BY <1>5
<1>7. take_index' = Total(nc') + Total(flower_index') + Total(Lens(door'))
                    + Total(Lens(sea')) + h + o
    BY <1>1, <1>2, <1>3, <1>4, <1>6
<1> QED  BY <1>5, <1>7 DEF Balanced

\* A winner ends the round holding the tile, or with it open on the table.
LEMMA BalancedWon ==
    ASSUME TypeOK, Balanced, HuAccept \/ HuClaim PROVE Balanced'
<1>1. playernow \in Players /\ Asked \in Players /\ Asked # playernow
    BY AskedOther DEF TypeOK
<1>2. winner' \in Players  BY <1>1 DEF HuAccept, HuClaim
<1>3. \A ret : ~RoundGoesOn(ret, winner')  BY <1>2 DEF RoundGoesOn, Players
<1>4. pc' = "set" /\ playernow' = playernow
      /\ UNCHANGED <<take_index, nc, flower_index, door, sea>>
    BY <1>3 DEF HuAccept, HuClaim, Return, hands
<1>5. Held' + Open' = Held + Open
  <2>1. CASE HuAccept
    <3>1. pc = "hu" /\ winner' = playernow  BY <2>1 DEF HuAccept
    <3> QED  BY <1>4, <3>1 DEF Held, Open, Holding, OnOffer, Hung
  <2>2. CASE HuClaim
    <3>1. pc = "react" /\ winner' \notin {-1, playernow}
        BY <1>1, <2>2 DEF HuClaim, Players
    <3> QED  BY <1>4, <3>1 DEF Held, Open, Holding, OnOffer
  <2> QED  BY <2>1, <2>2
<1> QED  BY <1>4, <1>5, BalancedMovesOn

\* An answer or a discard moves the tile held to the offer, or nothing.
LEMMA BalancedTurn ==
    ASSUME TypeOK, Balanced,
           \/ StartPlay \/ HuPass \/ QuietPass \/ Pass \/ EatYes
           \/ \E i \in Slots : discard(i)
    PROVE  Balanced'
<1>1. UNCHANGED <<take_index, nc, flower_index, door, sea>>
    BY DEF StartPlay, HuPass, QuietPass, Pass, EatYes, discard, hands
<1>2. Held' + Open' = Held + Open
  <2>1. CASE StartPlay
    <3>1. pc = "regrab" /\ pc' = "draw"  BY <2>1 DEF StartPlay
    <3> QED  BY <3>1 DEF Held, Open, Holding, OnOffer
  <2>2. CASE HuPass
    <3>1. pc = "hu" /\ pc' \in {"quiet", "discard"} /\ client' = pc'
        BY <2>2 DEF HuPass, ClientAfterHu
    <3> QED  BY <3>1 DEF Held, Open, Holding, OnOffer, Hung
  <2>3. CASE QuietPass
    <3>1. pc = "quiet" /\ pc' = "discard" /\ client' = "discard"
        BY <2>3 DEF QuietPass
    <3> QED  BY <3>1 DEF Held, Open, Holding, OnOffer, Hung
  <2>4. CASE Pass \/ EatYes
    <3>1. pc = "react" /\ pc' \in {"react", "eat"}  BY <2>4 DEF Pass, EatYes
    <3> QED  BY <3>1 DEF Held, Open, Holding, OnOffer
  <2>5. CASE \E i \in Slots : discard(i)
    <3>1. pc = "discard" /\ client = "discard" /\ pc' = "react"
        BY <2>5 DEF discard
    <3> QED  BY <3>1 DEF Held, Open, Holding, OnOffer, Hung
  <2> QED  BY <2>1, <2>2, <2>3, <2>4, <2>5
<1> QED  BY <1>1, <1>2, BalancedMovesOn

\* Every step of the table keeps the indices in balance.
LEMMA AccountingNext ==
    TypeOK /\ Shape /\ Accounting /\ [Next]_vars => Accounting'
<1> SUFFICES ASSUME TypeOK, Shape, Accounting, [Next]_vars PROVE Accounting'
    OBVIOUS
<1>0. /\ pc \notin Ended \cup {"deal"} => Balanced
      /\ (pc' \notin Ended \cup {"deal"} => Balanced') => Accounting'
    BY AccountingIsBalanced
<1>1. CASE Deal  BY <1>0, <1>1, BalancedDeal
<1>2. CASE has_flower
  <2>1. Balanced  BY <1>0, <1>2 DEF has_flower, Ended
  <2> QED  BY <1>0, <1>2, <2>1, BalancedRegrab
<1>3. CASE draw
  <2>1. Balanced  BY <1>0, <1>3 DEF draw, Ended
  <2> QED  BY <1>0, <1>3, <2>1, BalancedDraw
<1>4. CASE HuAccept \/ HuClaim
  <2>1. Balanced  BY <1>0, <1>4 DEF HuAccept, HuClaim, Ended
  <2> QED  BY <1>0, <1>4, <2>1, BalancedWon
<1>5. CASE \/ StartPlay \/ HuPass \/ QuietPass \/ Pass \/ EatYes
           \/ \E i \in Slots : discard(i)
  <2>1. pc \in {"regrab", "hu", "quiet", "react", "discard"}
      BY <1>5 DEF StartPlay, HuPass, QuietPass, Pass, EatYes, discard
  <2>2. Balanced  BY <1>0, <2>1 DEF Ended
  <2> QED  BY <1>0, <1>5, <2>2, BalancedTurn
<1>6. CASE \/ QuietGang \/ GangClaim \/ PongClaim
           \/ \E e1, e2 \in Slots : Eat(e1, e2)
  <2>1. pc \in {"quiet", "react", "eat"}
      BY <1>6 DEF QuietGang, GangClaim, PongClaim, Eat
  <2>2. Balanced  BY <1>0, <2>1 DEF Ended
  <2> QED  BY <1>0, <1>6, <2>2, BalancedClaims
<1>7. CASE Unclaimed
  <2>1. Balanced  BY <1>0, <1>7 DEF Unclaimed, Ended
  <2> QED  BY <1>0, <1>7, <2>1, BalancedUnclaimed
<1>8. CASE DrawPastEnd \/ CountNull \/ GameOver \/ Disconnect \/ NextRound
  <2>1. pc' \in Ended \cup {"deal"}
      BY <1>8 DEF DrawPastEnd, CountNull, GameOver, Disconnect, NextRound, Ended
  <2> QED  BY <1>0, <2>1
<1>9. CASE UNCHANGED vars
  <2>1. UNCHANGED <<take_index, nc, flower_index, door, sea, pc, client, winner, playernow>>
      BY <1>9 DEF vars, hands
  <2>2. Held' + Open' = Held + Open
      BY <2>1 DEF Held, Open, Holding, OnOffer, Hung
  <2>3. Balanced => Balanced'  BY <2>1, <2>2, BalancedMovesOn
  <2> QED  BY <1>0, <2>1, <2>3
<1> QED
    BY <1>1, <1>2, <1>3, <1>4, <1>5, <1>6, <1>7, <1>8, <1>9 DEF Next, Step

\* In every game the indices the server keeps (hand sizes, flower_index,
\* the lengths of doors and seas, the tile held or on offer) add up to
\* take_index: no claim, win or discard loses or invents a place.
THEOREM IndicesAddUp == Spec => []Accounting
<1>1. Init => Accounting
    BY DEF Init, Accounting
<1>2. TypeOK /\ Shape /\ Accounting /\ [Next]_vars => TypeOK' /\ Shape' /\ Accounting'
    BY TypeNext, AccountingNext
<1>3. Spec => [](TypeOK /\ Shape /\ Accounting)
    BY <1>1, <1>2, TypeInit, PTL DEF Spec
<1> QED  BY <1>3, PTL

-----------------------------------------------------------------------------
(* Conservation of the tiles                                               *)

\* The terms of TileConservation, for the tiles of kind v.
InHand(p, v) == Tally(decks[p], Owned(p), v)
OnDoor(p, v) == Tally(door[p], DOMAIN door[p], v)
InSea(p, v) == Tally(sea[p], DOMAIN sea[p], v)
Aside(p, v) == IF v \in flowers[p] THEN 1 ELSE 0
Stake(p, v) == InHand(p, v) + OnDoor(p, v) + InSea(p, v) + Aside(p, v)
Stakes(v) == Stake(0, v) + Stake(1, v) + Stake(2, v) + Stake(3, v)
Left(v) == Tally(wall, take_index..(WallSize - 1), v)
Shown(v) == IF OnOffer /\ discarded_mj = v THEN 1 ELSE 0

Conserved(v) == Tally(wall, 0..(WallSize - 1), v) = Left(v) + Stakes(v) + Shown(v)

\* TileConservation, in these terms.
LEMMA ConservationIsKept ==
    /\ TileConservation <=> (pc \notin Ended => \A v \in Tile : Conserved(v))
    /\ TileConservation' <=> (pc' \notin Ended => \A v \in Tile : Conserved(v)')
<1>1. ASSUME NEW f \in [Players -> Int] PROVE Total(f) = f[0] + f[1] + f[2] + f[3]
    BY DEF Total
<1>2. 0 \in Players /\ 1 \in Players /\ 2 \in Players /\ 3 \in Players  BY DEF Players
<1> QED
    BY <1>2 DEF TileConservation, Conserved, Left, Stakes, Stake, InHand, OnDoor, InSea, Aside,
       Shown, Tally, InSeq, Total

\* All slots are the player's, but for slot nc while a tile is drawn.
LEMMA OwnedCases ==
    /\ \A p \in Players : (p # playernow \/ (pc # "draw" /\ ~Hung)) => Owned(p) = Slots
    /\ \A p \in Players : (p # playernow' \/ (pc' # "draw" /\ ~Hung')) => Owned(p)' = Slots
    /\ pc = "draw" => Owned(playernow) = Slots \ {nc[playernow]}
    /\ pc' = "draw" => Owned(playernow)' = Slots \ {nc'[playernow']}
    BY DEF Owned, Hung

\* Tallies of a door or a sea are natural numbers.
LEMMA SeqTallyNat ==
    ASSUME NEW s \in Seq(Tile), NEW v
    PROVE  Tally(s, DOMAIN s, v) \in Nat
<1>1. DOMAIN s = 1..Len(s) /\ Len(s) \in Int  OBVIOUS
<1>2. IsFiniteSet(DOMAIN s)  BY <1>1, FS_Interval
<1> QED  BY <1>2, TallyNat

\* The terms are natural numbers.
LEMMA PartsNat ==
    ASSUME NEW v
    PROVE  /\ TypeOK => \A p \in Players : /\ InHand(p, v) \in Nat /\ OnDoor(p, v) \in Nat
                                           /\ InSea(p, v) \in Nat /\ Aside(p, v) \in Nat
           /\ TypeOK' => \A p \in Players : /\ InHand(p, v)' \in Nat /\ OnDoor(p, v)' \in Nat
                                            /\ InSea(p, v)' \in Nat /\ Aside(p, v)' \in Nat
           /\ TypeOK => Left(v) \in Nat /\ Shown(v) \in Nat
           /\ TypeOK' => Left(v)' \in Nat /\ Shown(v)' \in Nat
<1>0. HandSize \in Nat /\ WallSize \in Nat  BY ConstantFacts
<1>1. ASSUME TypeOK, NEW p \in Players
      PROVE  /\ InHand(p, v) \in Nat /\ OnDoor(p, v) \in Nat
             /\ InSea(p, v) \in Nat /\ Aside(p, v) \in Nat
  <2>1. Owned(p) \subseteq Slots  BY <1>0, <1>1 DEF Owned, Live, Slots, TypeOK, Hung, Holding
  <2>2. door[p] \in Seq(Tile) /\ sea[p] \in Seq(Tile)  BY <1>1 DEF TypeOK
  <2>3. IsFiniteSet(Owned(p))  BY <2>1, SlotsFinite
  <2>4. InHand(p, v) \in Nat  BY <2>3, TallyNat DEF InHand
  <2> QED  BY <2>2, <2>4, SeqTallyNat DEF OnDoor, InSea, Aside
<1>2. ASSUME TypeOK', NEW p \in Players
      PROVE  /\ InHand(p, v)' \in Nat /\ OnDoor(p, v)' \in Nat
             /\ InSea(p, v)' \in Nat /\ Aside(p, v)' \in Nat
  <2>1. Owned(p)' \subseteq Slots  BY <1>0, <1>2 DEF Owned, Live, Slots, TypeOK, Hung, Holding
  <2>2. door'[p] \in Seq(Tile) /\ sea'[p] \in Seq(Tile)  BY <1>2 DEF TypeOK
  <2>3. IsFiniteSet(Owned(p)')  BY <2>1, SlotsFinite
  <2>4. InHand(p, v)' \in Nat  BY <2>3, TallyNat DEF InHand
  <2> QED  BY <2>2, <2>4, SeqTallyNat DEF OnDoor, InSea, Aside
<1>3. \A k \in Nat : Tally(wall, k..(WallSize - 1), v) \in Nat
                      /\ Tally(wall', k..(WallSize - 1), v) \in Nat
  <2>1. PICK c \in Int : c = WallSize - 1  BY <1>0
  <2>2. \A k \in Nat : k \in Int  OBVIOUS
  <2>3. \A k \in Nat : IsFiniteSet(k..c)  BY <2>2, FS_Interval
  <2> QED  BY <2>1, <2>3, TallyNat
<1>4. TypeOK => Left(v) \in Nat
  <2>1. TypeOK => take_index \in Nat  BY <1>0 DEF TypeOK
  <2> QED  BY <1>3, <2>1 DEF Left
<1>5. TypeOK' => Left(v)' \in Nat
  <2>1. TypeOK' => take_index' \in Nat  BY <1>0 DEF TypeOK
  <2> QED  BY <1>3, <2>1 DEF Left
<1> QED  BY <1>1, <1>2, <1>4, <1>5 DEF Shown

\* A step that concerns only player q, and the wall and the tile on offer.
Apart(q, v) ==
    /\ wall' = wall
    /\ \A p \in Players : p # q => /\ InHand(p, v)' = InHand(p, v)
                                   /\ door'[p] = door[p] /\ sea'[p] = sea[p]
                                   /\ flowers'[p] = flowers[p]

\* Such a step conserves the tiles if what q gets comes from there.
LEMMA OneStake ==
    ASSUME TypeOK, TypeOK', NEW v, Conserved(v), NEW q \in Players, Apart(q, v),
           Left(v)' + InHand(q, v)' + OnDoor(q, v)' + InSea(q, v)' + Aside(q, v)' + Shown(v)'
             = Left(v) + InHand(q, v) + OnDoor(q, v) + InSea(q, v) + Aside(q, v) + Shown(v)
    PROVE  Conserved(v)'
<1>1. \A p \in Players : p # q => Stake(p, v)' = Stake(p, v)
    BY DEF Apart, Stake, InHand, OnDoor, InSea, Aside
<1>2. \A p \in Players : Stake(p, v) \in Nat /\ Stake(p, v)' \in Nat  BY PartsNat DEF Stake
<1>3. Left(v) \in Nat /\ Shown(v) \in Nat /\ Left(v)' \in Nat /\ Shown(v)' \in Nat
    BY PartsNat
<1>4. Left(v)' + Stake(q, v)' + Shown(v)' = Left(v) + Stake(q, v) + Shown(v)
  <2>1. /\ InHand(q, v) \in Nat /\ OnDoor(q, v) \in Nat /\ InSea(q, v) \in Nat
        /\ Aside(q, v) \in Nat /\ InHand(q, v)' \in Nat /\ OnDoor(q, v)' \in Nat
        /\ InSea(q, v)' \in Nat /\ Aside(q, v)' \in Nat
      BY PartsNat
  <2> QED  BY <1>3, <2>1 DEF Stake
<1>5. Stakes(v)' + Stake(q, v) = Stakes(v) + Stake(q, v)'
  <2>1. 0 \in Players /\ 1 \in Players /\ 2 \in Players /\ 3 \in Players /\ q \in {0, 1, 2, 3}
      BY DEF Players
  <2>2. CASE q = 0  BY <1>1, <1>2, <2>1, <2>2 DEF Stakes
  <2>3. CASE q = 1  BY <1>1, <1>2, <2>1, <2>3 DEF Stakes
  <2>4. CASE q = 2  BY <1>1, <1>2, <2>1, <2>4 DEF Stakes
  <2>5. CASE q = 3  BY <1>1, <1>2, <2>1, <2>5 DEF Stakes
  <2> QED  BY <2>1, <2>2, <2>3, <2>4, <2>5
<1>6. Stakes(v) \in Nat /\ Stakes(v)' \in Nat
    BY <1>2 DEF Stakes, Players
<1>7. wall' = wall  BY DEF Apart
<1>8. Left(v)' + Stakes(v)' + Shown(v)' = Left(v) + Stakes(v) + Shown(v)
    BY <1>2, <1>3, <1>4, <1>5, <1>6
<1> QED  BY <1>7, <1>8 DEF Conserved

\* There is one of each flower, so it is in one place only.
LEMMA OneFlower ==
    ASSUME TypeOK, Shape, NEW v \in FLOWER, Conserved(v)
    PROVE  /\ Left(v) + Stakes(v) + Shown(v) <= 1
           /\ \A p \in Players : Left(v) + Stake(p, v) + Shown(v) <= 1
<1>1. Tally(wall, 0..(WallSize - 1), v) <= 1
    BY WallAssumption DEF Shape, Tally, Tile
<1>2. \A p \in Players : Stake(p, v) \in Nat
  <2>1. \A p \in Players : /\ InHand(p, v) \in Nat /\ OnDoor(p, v) \in Nat
                            /\ InSea(p, v) \in Nat /\ Aside(p, v) \in Nat
      BY PartsNat
  <2> QED  BY <2>1 DEF Stake
<1>3. Left(v) \in Nat /\ Shown(v) \in Nat  BY PartsNat
<1>4. Left(v) + Stakes(v) + Shown(v) <= 1  BY <1>1 DEF Conserved
<1>5. 0 \in Players /\ 1 \in Players /\ 2 \in Players /\ 3 \in Players  BY DEF Players
<1>6. ASSUME NEW p \in Players PROVE Stake(p, v) <= Stakes(v) /\ Stakes(v) \in Nat
  <2>1. p \in {0, 1, 2, 3}  BY DEF Players
  <2> QED  BY <1>2, <1>5, <2>1 DEF Stakes
<1> QED  BY <1>2, <1>3, <1>4, <1>6

\* r begins with the m entries of s.
Begins(r, s, m) == \A i \in 1..m : r[i] = s[i]

\* What is laid down behind the m tiles of a door is added to them.
LEMMA LaidBehind ==
    ASSUME NEW s, NEW m \in Nat, NEW r, Begins(r, s, m), NEW v
    PROVE  /\ Tally(s, 1..m, v) \in Nat
           /\ Tally(r, 1..(m + 1), v) = Tally(s, 1..m, v) + One(r[m + 1], v)
           /\ Tally(r, 1..(m + 3), v)
                = Tally(s, 1..m, v) + One(r[m + 1], v) + One(r[m + 2], v) + One(r[m + 3], v)
           /\ Tally(r, 1..(m + 4), v)
                = Tally(s, 1..m, v) + One(r[m + 1], v) + One(r[m + 2], v) + One(r[m + 3], v)
                    + One(r[m + 4], v)
<1>1. PICK m1 \in Nat, m2 \in Nat, m3 \in Nat, m4 \in Nat :
          m1 = m + 1 /\ m2 = m1 + 1 /\ m3 = m2 + 1 /\ m4 = m3 + 1
    OBVIOUS
<1>2. \A x \in Nat : Tally(r, 1..(x + 1), v) = Tally(r, 1..x, v) + One(r[x + 1], v)
    BY TallyLonger
<1>3. /\ Tally(r, 1..m1, v) = Tally(r, 1..m, v) + One(r[m1], v)
      /\ Tally(r, 1..m2, v) = Tally(r, 1..m1, v) + One(r[m2], v)
      /\ Tally(r, 1..m3, v) = Tally(r, 1..m2, v) + One(r[m3], v)
      /\ Tally(r, 1..m4, v) = Tally(r, 1..m3, v) + One(r[m4], v)
    BY <1>1, <1>2
<1>4. Tally(r, 1..m, v) = Tally(s, 1..m, v)  BY TallySame DEF Begins
<1>5. Tally(s, 1..m, v) \in Nat  BY TallyLonger
<1>6. m1 = m + 1 /\ m2 = m + 2 /\ m3 = m + 3 /\ m4 = m + 4  BY <1>1
<1> QED  BY <1>3, <1>4, <1>5, <1>6

\* The next k tiles of the wall are no longer left.
LEMMA WallTaken ==
    ASSUME TypeOK, NEW k \in Nat, take_index + k <= WallSize, wall' = wall,
           take_index' = take_index + k, NEW v
    PROVE  /\ Left(v) = Left(v)' + Tally(wall, take_index..(take_index + k - 1), v)
           /\ Tally(wall, take_index..(take_index + k - 1), v) \in Nat
<1>0. WallSize \in Nat /\ take_index \in Nat  BY ConstantFacts DEF TypeOK
<1>1. PICK a \in Int, b \in Int, c \in Int, e \in Int :
          a = take_index /\ b = take_index + k - 1 /\ c = take_index + k /\ e = WallSize - 1
    BY <1>0
<1>2. PICK A, B, C : A = a..b /\ B = c..e /\ C = a..e  OBVIOUS
<1>3. IsFiniteSet(A) /\ IsFiniteSet(B)  BY <1>2, FS_Interval
<1>4. \A x : x \in C <=> x \in B \/ x \in A  BY <1>0, <1>1, <1>2
<1>5. \A x : ~(x \in B /\ x \in A)  BY <1>0, <1>1, <1>2
<1>6. PICK w : w = wall  OBVIOUS
<1>7. Tally(w, C, v) = Tally(w, B, v) + Tally(w, A, v)
    BY <1>3, <1>4, <1>5, TallyParts
<1>8. Tally(w, A, v) \in Nat  BY <1>3, TallyNat
<1> QED  BY <1>1, <1>2, <1>6, <1>7, <1>8 DEF Left

\* A tile drawn leaves the wall for slot nc; a flower goes to the flowers,
\* where it was not, since there is one of each.
LEMMA ConservedDraw ==
    ASSUME TypeOK, TypeOK', Shape, NEW v \in Tile, Conserved(v), draw PROVE Conserved(v)'
<1>0. HandSize \in Nat /\ WallSize \in Nat /\ take_index \in Nat  BY ConstantFacts DEF TypeOK
<1>1. PICK q \in Players : q = playernow  BY DEF TypeOK
<1>2. PICK n \in Slots : n = nc[q]  BY <1>0 DEF TypeOK, Slots
<1>3. PICK d \in [Slots -> Entry] : d = decks[q]  BY DEF TypeOK
<1>4. PICK t : t = wall[take_index]  OBVIOUS
<1>5. /\ pc = "draw" /\ take_index < WallSize /\ take_index' = take_index + 1 /\ wall' = wall
      /\ decks' = [decks EXCEPT ![q][n] = t] /\ UNCHANGED <<nc, door, sea, playernow>>
      /\ \/ t \in FLOWER /\ flowers' = [flowers EXCEPT ![q] = @ \cup {t}] /\ pc' = "draw"
         \/ t \notin FLOWER /\ flowers' = flowers /\ pc' = "hu"
    BY <1>1, <1>2, <1>4 DEF draw
<1>6. Left(v) = Left(v)' + One(t, v)
  <2>1. take_index..(take_index + 1 - 1) = {take_index}  BY <1>0
  <2>2. Left(v) = Left(v)' + Tally(wall, take_index..(take_index + 1 - 1), v)
      BY <1>0, <1>5, WallTaken
  <2> QED  BY <1>4, <2>1, <2>2, TallyOne
<1>7. Owned(q) = Slots \ {n} /\ \A p \in Players : p # q => Owned(p)' = Owned(p)
    BY <1>1, <1>2, <1>5, OwnedCases
<1>8. decks'[q] = [d EXCEPT ![n] = t] /\ \A p \in Players : p # q => decks'[p] = decks[p]
    BY <1>3, <1>5 DEF TypeOK
<1>9. \A p \in Players : p # q => flowers'[p] = flowers[p]
    BY <1>5 DEF TypeOK
<1>10. Apart(q, v)  BY <1>5, <1>7, <1>8, <1>9 DEF Apart, InHand
<1>11. /\ OnDoor(q, v)' = OnDoor(q, v) /\ InSea(q, v)' = InSea(q, v)
       /\ Shown(v)' = 0 /\ Shown(v) = 0
    BY <1>5 DEF OnDoor, InSea, Shown, OnOffer
<1>12. One(t, v) \in Nat  BY DEF One
<1>13. /\ InHand(q, v) \in Nat /\ OnDoor(q, v) \in Nat /\ InSea(q, v) \in Nat
       /\ Aside(q, v) \in Nat /\ InHand(q, v)' \in Nat /\ Aside(q, v)' \in Nat
       /\ Left(v) \in Nat /\ Left(v)' \in Nat
    BY PartsNat
<1>14. PICK A : A = Slots \ {n}  OBVIOUS
<1>15. IsFiniteSet(Slots) /\ IsFiniteSet(A)  BY <1>14, SlotsFinite
<1>16. Tally(decks'[q], A, v) = InHand(q, v)
  <2>1. \A i \in A : decks'[q][i] = d[i]  BY <1>8, <1>14
  <2>2. Tally(decks'[q], A, v) = Tally(d, A, v)  BY <2>1, TallySame
  <2> QED  BY <1>3, <1>7, <1>14, <2>2 DEF InHand
<1>17. InHand(q, v)' + Aside(q, v)' = InHand(q, v) + Aside(q, v) + One(t, v)
  <2>1. CASE t \in FLOWER
    <3>1. Owned(q)' = A
      <4>1. pc' = "draw" /\ nc'[playernow'] = n /\ playernow' = q  BY <1>1, <1>2, <1>5, <2>1
      <4> QED  BY <1>14, <4>1, OwnedCases
    <3>2. InHand(q, v)' = InHand(q, v)  BY <1>16, <3>1 DEF InHand
    <3>3. flowers'[q] = flowers[q] \cup {t}  BY <1>5, <2>1 DEF TypeOK
    <3>4. CASE v = t
      <4>1. One(t, v) = 1 /\ Left(v) >= 1  BY <1>6, <1>13, <3>4 DEF One
      <4>2. Left(v) + Stake(q, v) + Shown(v) <= 1  BY <2>1, <3>4, OneFlower
      <4>3. Aside(q, v) = 0  BY <1>11, <1>13, <4>1, <4>2 DEF Stake
      <4>4. Aside(q, v)' = 1  BY <3>3, <3>4 DEF Aside
      <4> QED  BY <1>13, <3>2, <4>1, <4>3, <4>4
    <3>5. CASE v # t
      <4>1. Aside(q, v)' = Aside(q, v)  BY <3>3, <3>5 DEF Aside
      <4>2. One(t, v) = 0  BY <3>5 DEF One
      <4> QED  BY <1>13, <3>2, <4>1, <4>2
    <3> QED  BY <3>4, <3>5
  <2>2. CASE t \notin FLOWER
    <3>1. Owned(q)' = Slots
      <4>1. pc' # "draw" /\ ~Hung'  BY <1>5, <2>2 DEF Hung
      <4> QED  BY <4>1, OwnedCases
    <3>2. \A x : x \in A <=> x \in Slots /\ x # n  BY <1>14
    <3>3. Tally(decks'[q], Slots, v) = Tally(decks'[q], A, v) + One(decks'[q][n], v)
        BY <1>15, <3>2, TallyWithout
    <3>4. decks'[q][n] = t  BY <1>8
    <3>5. InHand(q, v)' = InHand(q, v) + One(t, v)  BY <1>16, <3>1, <3>3, <3>4 DEF InHand
    <3>6. Aside(q, v)' = Aside(q, v)  BY <1>5, <2>2 DEF Aside
    <3> QED  BY <1>12, <1>13, <3>5, <3>6
  <2> QED  BY <2>1, <2>2
<1>18. Left(v)' + InHand(q, v)' + OnDoor(q, v)' + InSea(q, v)' + Aside(q, v)' + Shown(v)'
         = Left(v) + InHand(q, v) + OnDoor(q, v) + InSea(q, v) + Aside(q, v) + Shown(v)
    BY <1>6, <1>11, <1>12, <1>13, <1>17
<1> QED  BY <1>10, <1>18, OneStake

\* The null tile is not counted.
LEMMA NullNotCounted == \A v \in Tile : One(Null, v) = 0
    BY TileNotNull DEF One

\* A discard leaves the hand for the offer.
LEMMA ConservedDiscard ==
    ASSUME TypeOK, TypeOK', NEW v \in Tile, Conserved(v), NEW i \in Slots, discard(i)
    PROVE  Conserved(v)'
<1>0. HandSize \in Nat  BY ConstantFacts
<1>1. PICK q \in Players : q = playernow  BY DEF TypeOK
<1>2. PICK n \in 0..HandSize : n = nc[q]  BY DEF TypeOK
<1>3. PICK d \in [Slots -> Entry] : d = decks[q]  BY DEF TypeOK
<1>4. PICK g : g = swap(d, n, i)  OBVIOUS
<1>5. PICK h : h = [g EXCEPT ![n] = Null]  OBVIOUS
<1>6. PICK f : f = decks_quick_sort(h, n - 1)  OBVIOUS
<1>7. /\ pc = "discard" /\ ~Hung /\ pc' = "react" /\ discarded_mj' = d[i]
      /\ decks' = [decks EXCEPT ![q] = f]
      /\ UNCHANGED <<wall, take_index, nc, door, sea, flowers, playernow>>
    BY <1>1, <1>2, <1>3, <1>4, <1>5, <1>6 DEF discard, Hung
<1>8. n \in Slots /\ IsFiniteSet(Slots) /\ Slots \subseteq Slots  BY SlotsFinite DEF Slots
<1>9. g \in [Slots -> Entry] /\ Tally(g, Slots, v) = Tally(d, Slots, v) /\ g[n] = d[i]
  <2>1. g \in [Slots -> Entry]  BY <1>4, <1>8, SwapType
  <2>2. Tally(g, Slots, v) = Tally(d, Slots, v)  BY <1>4, <1>8, SwapTally
  <2> QED  BY <1>4, <1>8, <2>1, <2>2 DEF swap
<1>10. h \in [Slots -> Entry] /\ h[n] = Null /\ \A j \in Slots \ {n} : h[j] = g[j]
    BY <1>5, <1>8, <1>9 DEF Entry
<1>11. Tally(h, Slots, v) = Tally(g, Slots, v) - One(g[n], v) + One(h[n], v)
  <2>1. ButFor(h, g, Slots, n)  BY <1>10 DEF ButFor
  <2>2. IsFiniteSet(Slots) /\ n \in Slots  BY <1>8
  <2> QED  BY ONLY <2>1, <2>2, TallyPut
<1>12. Tally(f, Slots, v) = Tally(h, Slots, v)
  <2>1. n - 1 \in -1..HandSize /\ 0..(n - 1) \subseteq Slots /\ v \in Entry
      BY <1>0 DEF Slots, Entry
  <2> QED  BY <1>6, <1>8, <1>10, <2>1, SortTally
<1>13. decks'[q] = f /\ \A p \in Players : p # q => decks'[p] = decks[p]
    BY <1>7 DEF TypeOK
<1>14. \A p \in Players : Owned(p) = Slots /\ Owned(p)' = Slots
  <2>1. pc' # "draw" /\ ~Hung' /\ pc # "draw"  BY <1>7 DEF Hung
  <2> QED  BY <1>7, <2>1, OwnedCases
<1>15. Apart(q, v)  BY <1>7, <1>13, <1>14 DEF Apart, InHand
<1>16. Tally(d, Slots, v) \in Nat  BY <1>8, TallyNat
<1>17. InHand(q, v) = Tally(d, Slots, v) /\ InHand(q, v)' = Tally(f, Slots, v)
    BY <1>3, <1>13, <1>14 DEF InHand
<1>18. Shown(v) = 0 /\ Shown(v)' = One(d[i], v)
    BY <1>7 DEF Shown, OnOffer, One
<1>19. InHand(q, v)' = InHand(q, v) - One(d[i], v) /\ One(d[i], v) \in Nat
    BY <1>9, <1>10, <1>11, <1>12, <1>16, <1>17, NullNotCounted DEF One
<1>20. /\ Left(v)' = Left(v) /\ OnDoor(q, v)' = OnDoor(q, v) /\ InSea(q, v)' = InSea(q, v)
       /\ Aside(q, v)' = Aside(q, v)
    BY <1>7 DEF Left, OnDoor, InSea, Aside
<1>21. /\ InHand(q, v) \in Nat /\ OnDoor(q, v) \in Nat /\ InSea(q, v) \in Nat
       /\ Aside(q, v) \in Nat /\ Left(v) \in Nat
    BY PartsNat
<1>22. Left(v)' + InHand(q, v)' + OnDoor(q, v)' + InSea(q, v)' + Aside(q, v)' + Shown(v)'
         = Left(v) + InHand(q, v) + OnDoor(q, v) + InSea(q, v) + Aside(q, v) + Shown(v)
    BY <1>18, <1>19, <1>20, <1>21
<1> QED  BY <1>15, <1>22, OneStake

\* A claim: the tile on offer and the claimer's own go to his door.
LEMMA ConservedTurn ==
    ASSUME TypeOK, TypeOK', NEW v \in Tile, Conserved(v),
           NEW q \in Players, q # playernow, TakesTurn(q),
           pc \in {"react", "eat"}, pc' \in {"draw", "hu"},
           \A p \in Players : p # q => decks'[p] = decks[p] /\ door'[p] = door[p],
           pc' = "draw" => decks'[q][nc'[q]] = Null,
           Tally(decks'[q], Slots, v) + OnDoor(q, v)'
             = Tally(decks[q], Slots, v) + OnDoor(q, v) + One(discarded_mj, v)
    PROVE  Conserved(v)'
<1>0. HandSize \in Nat  BY ConstantFacts
<1>1. /\ playernow' = q
      /\ UNCHANGED <<wall, take_index, flowers, sea>>
    BY DEF TakesTurn
<1>2. ~Hung /\ ~Hung' /\ pc # "draw"  BY DEF Hung
<1>3. \A p \in Players : Owned(p) = Slots  BY <1>2, OwnedCases
<1>4. \A p \in Players : p # q => Owned(p)' = Slots  BY <1>1, OwnedCases
<1>5. Apart(q, v)  BY <1>1, <1>3, <1>4 DEF Apart, InHand
<1>6. IsFiniteSet(Slots)  BY SlotsFinite
<1>7. InHand(q, v)' = Tally(decks'[q], Slots, v)
  <2>1. CASE pc' = "draw"
    <3>1. PICK m : m = nc'[q]  OBVIOUS
    <3>2. m \in Slots  BY <1>0, <3>1 DEF TypeOK, Slots
    <3>3. PICK A : A = Slots \ {m}  OBVIOUS
    <3>4. Owned(q)' = A  BY <1>1, <2>1, <3>1, <3>3, OwnedCases
    <3>5. \A x : x \in A <=> x \in Slots /\ x # m  BY <3>3
    <3>6. Tally(decks'[q], Slots, v) = Tally(decks'[q], A, v) + One(decks'[q][m], v)
          /\ Tally(decks'[q], A, v) \in Nat
        BY <1>6, <3>2, <3>5, TallyWithout
    <3>7. One(decks'[q][m], v) = 0  BY <2>1, <3>1, NullNotCounted
    <3> QED  BY <3>4, <3>6, <3>7 DEF InHand
  <2>2. CASE pc' # "draw"
    <3>1. Owned(q)' = Slots  BY <1>2, <2>2, OwnedCases
    <3> QED  BY <3>1 DEF InHand
  <2> QED  BY <2>1, <2>2
<1>8. InHand(q, v) = Tally(decks[q], Slots, v)  BY <1>3 DEF InHand
<1>9. Shown(v) = One(discarded_mj, v) /\ Shown(v)' = 0
  <2>1. OnOffer /\ ~OnOffer'  BY DEF OnOffer
  <2> QED  BY <2>1 DEF Shown, One
<1>10. /\ Left(v)' = Left(v) /\ InSea(q, v)' = InSea(q, v) /\ Aside(q, v)' = Aside(q, v)
    BY <1>1 DEF Left, InSea, Aside
<1>11. /\ InHand(q, v) \in Nat /\ OnDoor(q, v) \in Nat /\ InSea(q, v) \in Nat
       /\ Aside(q, v) \in Nat /\ Left(v) \in Nat /\ Shown(v) \in Nat
       /\ InHand(q, v)' \in Nat /\ OnDoor(q, v)' \in Nat
    BY PartsNat
<1>12. Left(v)' + InHand(q, v)' + OnDoor(q, v)' + InSea(q, v)' + Aside(q, v)' + Shown(v)'
         = Left(v) + InHand(q, v) + OnDoor(q, v) + InSea(q, v) + Aside(q, v) + Shown(v)
    BY <1>7, <1>8, <1>9, <1>10, <1>11
<1> QED  BY <1>5, <1>12, OneStake

\* othersreaction: gang and pong.
LEMMA ConservedClaim ==
    ASSUME TypeOK, TypeOK', Shape, Tidy, NEW v \in Tile, Conserved(v),
           GangClaim \/ PongClaim
    PROVE  Conserved(v)'
<1>0. HandSize \in Nat  BY ConstantFacts
<1>1. pc = "react" /\ ~ScansNull  BY DEF GangClaim, PongClaim
<1>2. PICK q \in Players : q = Asked /\ q # playernow  BY <1>1, ClaimersHand
<1>3. PICK d \in [Slots -> Entry] : d = decks[q]  BY DEF TypeOK
<1>4. PICK n \in 0..HandSize : n = nc[q]  BY DEF TypeOK
<1>5. PICK t \in Tile : t = discarded_mj  BY <1>1 DEF TypeOK, Entry, ScansNull
<1>6. PICK s \in Seq(Tile) : s = door[q]  BY DEF TypeOK
<1>7. n % 3 = 1  BY <1>4 DEF Shape
<1>8. PICK k \in Nat : k = Tally(s, DOMAIN s, v)  BY SeqTallyNat
<1>9. PICK o \in {0, 1} : o = One(t, v) /\ (t = v => o = 1) /\ (t # v => o = 0)  BY DEF One
<1>10. PICK x \in Nat : x = Tally(d, Slots, v)  BY SlotsFinite, TallyNat
<1>11. 0..(n - 1) \subseteq Slots /\ Slots \subseteq Slots  BY <1>0 DEF Slots
<1>12. OnDoor(q, v) = k  BY <1>6, <1>8 DEF OnDoor
<1>13. CASE GangClaim
  <2>1. Count(d, n, t) >= 3
      BY <1>2, <1>3, <1>4, <1>5, <1>13 DEF GangClaim, Offer, is_gang_possible
  <2>2. n >= 4  BY <1>7, <2>1, ClaimNeedsTiles DEF is_gang_possible
  <2>3. PICK dk : dk = Remove(d, n, t, 3)  OBVIOUS
  <2>4. 3 \in 0..n /\ n - 3 \in (n - 3)..(n - 1)  BY <2>2
  <2>5. Tally(dk, Slots, v) = Tally(d, Slots, v) - (IF v = t THEN 3 ELSE 0)
      BY <1>11, <2>1, <2>3, <2>4, RemoveTally
  <2>6. dk[n - 3] = Null  BY <2>3, <2>4, RemoveAbove
  <2>7. /\ decks' = [decks EXCEPT ![q] = dk] /\ door' = [door EXCEPT ![q] = s \o <<t, t, t, t>>]
        /\ pc' = "draw" /\ TakesTurn(q)
      BY <1>2, <1>3, <1>4, <1>5, <1>6, <1>13, <2>3 DEF GangClaim
  <2>8. /\ decks'[q] = dk /\ door'[q] = s \o <<t, t, t, t>>
        /\ \A p \in Players : p # q => decks'[p] = decks[p] /\ door'[p] = door[p]
      BY <2>7 DEF TypeOK
  <2>9. nc'[q] = n - 3  BY <1>4, <2>7 DEF TakesTurn, Shrink, TypeOK
  <2>10. OnDoor(q, v)' = k + o + o + o + o
    <3>1. PICK r : r = s \o <<t, t, t, t>>  OBVIOUS
    <3>2. PICK m \in Nat : m = Len(s) /\ DOMAIN s = 1..m  OBVIOUS
    <3>3. /\ DOMAIN r = 1..(m + 4) /\ Begins(r, s, m)
          /\ r[m + 1] = t /\ r[m + 2] = t /\ r[m + 3] = t /\ r[m + 4] = t
        BY <3>1, <3>2 DEF Begins
    <3>4. Tally(r, 1..(m + 4), v)
            = Tally(s, 1..m, v) + One(r[m + 1], v) + One(r[m + 2], v) + One(r[m + 3], v)
                + One(r[m + 4], v)
        BY <3>3, LaidBehind
    <3>5. Tally(r, DOMAIN r, v) = k + o + o + o + o  BY <1>8, <1>9, <3>2, <3>3, <3>4
    <3> QED  BY <2>8, <3>1, <3>5 DEF OnDoor
  <2>11. Tally(dk, Slots, v) + (k + o + o + o + o) = x + k + o
    <3>1. CASE v = t  BY <1>9, <1>10, <2>5, <3>1
    <3>2. CASE v # t  BY <1>9, <1>10, <2>5, <3>2
    <3> QED  BY <3>1, <3>2
  <2>12. Tally(decks'[q], Slots, v) + OnDoor(q, v)'
           = Tally(decks[q], Slots, v) + OnDoor(q, v) + One(discarded_mj, v)
      BY <1>3, <1>5, <1>9, <1>10, <1>12, <2>8, <2>10, <2>11
  <2>13. decks'[q][nc'[q]] = Null  BY <2>6, <2>8, <2>9
  <2>14. pc \in {"react", "eat"} /\ pc' \in {"draw", "hu"}  BY <1>1, <2>7
  <2> QED  BY <1>2, <2>7, <2>8, <2>12, <2>13, <2>14, ConservedTurn
<1>14. CASE PongClaim
  <2>1. Count(d, n, t) >= 2
      BY <1>2, <1>3, <1>4, <1>5, <1>14 DEF PongClaim, Offer, is_pong_possible
  <2>2. n >= 4  BY <1>7, <2>1, ClaimNeedsTiles DEF is_pong_possible
  <2>3. PICK dk : dk = Remove(d, n, t, 2)  OBVIOUS
  <2>4. 2 \in 0..n  BY <2>2
  <2>5. Tally(dk, Slots, v) = Tally(d, Slots, v) - (IF v = t THEN 2 ELSE 0)
      BY <1>11, <2>1, <2>3, <2>4, RemoveTally
  <2>7. /\ decks' = [decks EXCEPT ![q] = dk] /\ door' = [door EXCEPT ![q] = s \o <<t, t, t>>]
        /\ pc' = "hu" /\ TakesTurn(q)
      BY <1>2, <1>3, <1>4, <1>5, <1>6, <1>14, <2>3 DEF PongClaim
  <2>8. /\ decks'[q] = dk /\ door'[q] = s \o <<t, t, t>>
        /\ \A p \in Players : p # q => decks'[p] = decks[p] /\ door'[p] = door[p]
      BY <2>7 DEF TypeOK
  <2>10. OnDoor(q, v)' = k + o + o + o
    <3>1. PICK r : r = s \o <<t, t, t>>  OBVIOUS
    <3>2. PICK m \in Nat : m = Len(s) /\ DOMAIN s = 1..m  OBVIOUS
    <3>3. /\ DOMAIN r = 1..(m + 3) /\ Begins(r, s, m)
          /\ r[m + 1] = t /\ r[m + 2] = t /\ r[m + 3] = t
        BY <3>1, <3>2 DEF Begins
    <3>4. Tally(r, 1..(m + 3), v)
            = Tally(s, 1..m, v) + One(r[m + 1], v) + One(r[m + 2], v) + One(r[m + 3], v)
        BY <3>3, LaidBehind
    <3>5. Tally(r, DOMAIN r, v) = k + o + o + o  BY <1>8, <1>9, <3>2, <3>3, <3>4
    <3> QED  BY <2>8, <3>1, <3>5 DEF OnDoor
  <2>11. Tally(dk, Slots, v) + (k + o + o + o) = x + k + o
    <3>1. CASE v = t  BY <1>9, <1>10, <2>5, <3>1
    <3>2. CASE v # t  BY <1>9, <1>10, <2>5, <3>2
    <3> QED  BY <3>1, <3>2
  <2>12. Tally(decks'[q], Slots, v) + OnDoor(q, v)'
           = Tally(decks[q], Slots, v) + OnDoor(q, v) + One(discarded_mj, v)
      BY <1>3, <1>5, <1>9, <1>10, <1>12, <2>8, <2>10, <2>11
  <2>13. pc' # "draw" /\ pc \in {"react", "eat"} /\ pc' \in {"draw", "hu"}  BY <1>1, <2>7
  <2> QED  BY <1>2, <2>7, <2>8, <2>12, <2>13, ConservedTurn
<1> QED  BY <1>13, <1>14

\* The three tiles of a chow are its lowest and the two that follow.
LEMMA ChowCount ==
    ASSUME NEW lo \in Nat, NEW a \in lo..(lo + 2), NEW b \in lo..(lo + 2),
           NEW t \in lo..(lo + 2), a # b, a # t, b # t, NEW v \in Nat
    PROVE  One(lo, v) + One(lo + 1, v) + One(lo + 2, v) = One(a, v) + One(b, v) + One(t, v)
<1>1. \A x \in Nat : x \in {a, b, t} <=> x \in {lo, lo + 1, lo + 2}  OBVIOUS
<1>2. a \in Nat /\ b \in Nat /\ t \in Nat  OBVIOUS
<1>3. CASE v \in {a, b, t}
  <2>1. One(a, v) + One(b, v) + One(t, v) = 1  BY <1>2, <1>3 DEF One
  <2>2. One(lo, v) + One(lo + 1, v) + One(lo + 2, v) = 1  BY <1>1, <1>3 DEF One
  <2> QED  BY <2>1, <2>2
<1>4. CASE v \notin {a, b, t}
  <2>1. One(a, v) + One(b, v) + One(t, v) = 0  BY <1>4 DEF One
  <2>2. One(lo, v) + One(lo + 1, v) + One(lo + 2, v) = 0  BY <1>1, <1>4 DEF One
  <2> QED  BY <2>1, <2>2
<1> QED  BY <1>3, <1>4

\* Eating takes the tiles of two slots from the hand.
LEMMA EatenTally ==
    ASSUME NEW d \in [Slots -> Entry], NEW n \in 4..HandSize,
           NEW e1 \in Slots, NEW e2 \in Slots, e1 # e2,
           NEW f, f = decks_quick_sort(AfterEat(d, n, e1, e2), n - 3), NEW v \in Tile
    PROVE  Tally(f, Slots, v) = Tally(d, Slots, v) - One(d[e1], v) - One(d[e2], v)
<1>0. HandSize \in Nat  BY HandSizeAssumption
<1>1. PICK g1 : g1 = [d EXCEPT ![e1] = Null]  OBVIOUS
<1>2. PICK g : g = [d EXCEPT ![e1] = Null, ![e2] = Null]  OBVIOUS
<1>3. PICK h1 : h1 = swap(g, e1, n - 1)  OBVIOUS
<1>4. PICK h : h = swap(h1, e2, n - 2)  OBVIOUS
<1>5. n - 1 \in Slots /\ n - 2 \in Slots /\ IsFiniteSet(Slots) /\ Slots \subseteq Slots
    BY <1>0, SlotsFinite DEF Slots
<1>6. /\ g1 \in [Slots -> Entry] /\ g \in [Slots -> Entry]
      /\ g1[e1] = Null /\ g1[e2] = d[e2] /\ g[e2] = Null
      /\ ButFor(g1, d, Slots, e1) /\ ButFor(g, g1, Slots, e2)
    BY <1>1, <1>2 DEF Entry, ButFor
<1>7. Tally(g1, Slots, v) = Tally(d, Slots, v) - One(d[e1], v) + One(g1[e1], v)
    BY <1>5, <1>6, TallyPut
<1>8. Tally(g, Slots, v) = Tally(g1, Slots, v) - One(g1[e2], v) + One(g[e2], v)
    BY <1>5, <1>6, TallyPut
<1>9. h1 \in [Slots -> Entry] /\ Tally(h1, Slots, v) = Tally(g, Slots, v)
    BY <1>3, <1>5, <1>6, SwapType, SwapTally
<1>10. h \in [Slots -> Entry] /\ Tally(h, Slots, v) = Tally(h1, Slots, v)
    BY <1>4, <1>5, <1>9, SwapType, SwapTally
<1>11. f = decks_quick_sort(h, n - 3)  BY <1>2, <1>3, <1>4 DEF AfterEat
<1>12. Tally(f, Slots, v) = Tally(h, Slots, v)
  <2>1. n - 3 \in -1..HandSize /\ 0..(n - 3) \subseteq Slots /\ v \in Entry
      BY <1>0 DEF Slots, Entry
  <2> QED  BY <1>5, <1>10, <1>11, <2>1, SortTally
<1>13. One(g1[e1], v) = 0 /\ One(g[e2], v) = 0  BY <1>6, NullNotCounted
<1>14. /\ Tally(d, Slots, v) \in Nat /\ One(d[e1], v) \in Nat /\ One(d[e2], v) \in Nat
    BY <1>5, TallyNat DEF One
<1>15. Tally(g1, Slots, v) = Tally(d, Slots, v) - One(d[e1], v)  BY <1>7, <1>13, <1>14
<1>16. Tally(g, Slots, v) = Tally(d, Slots, v) - One(d[e1], v) - One(d[e2], v)
    BY <1>6, <1>8, <1>13, <1>14, <1>15
<1> QED  BY <1>9, <1>10, <1>12, <1>16

\* othersreaction: eat.
LEMMA ConservedEat ==
    ASSUME TypeOK, TypeOK', Shape, NEW v \in Tile, Conserved(v),
           NEW e1 \in Slots, NEW e2 \in Slots, Eat(e1, e2)
    PROVE  Conserved(v)'
<1>0. HandSize \in Nat  BY ConstantFacts
<1>1. pc = "eat" /\ discarded_mj # Null /\ nc[Asked] >= 2  BY DEF Eat, Shape
<1>2. PICK q \in Players : q = Asked /\ q # playernow  BY AskedOther DEF TypeOK
<1>3. PICK d \in [Slots -> Entry] : d = decks[q]  BY DEF TypeOK
<1>4. PICK n \in 0..HandSize : n = nc[q]  BY DEF TypeOK
<1>5. PICK t \in Tile : t = discarded_mj  BY <1>1 DEF TypeOK, Entry
<1>6. PICK s \in Seq(Tile) : s = door[q]  BY DEF TypeOK
<1>7. n \in 4..HandSize
  <2>1. n % 3 = 1 /\ n >= 2  BY <1>1, <1>2, <1>4 DEF Shape
  <2> QED  BY <1>0, <2>1
<1>8. PICK a \in Entry, b \in Entry : a = d[e1] /\ b = d[e2]  OBVIOUS
<1>9. PICK lo \in Tile : lo = Min({a, b, t}) /\ {a, b, t} = {lo, lo + 1, lo + 2} /\ a # b
                         /\ eatable(a, b, t)
  <2>1. eatable(a, b, t)  BY <1>2, <1>3, <1>5, <1>8 DEF Eat
  <2>2. a # b  BY <2>1, ChowTiles
  <2>3. Min({a, b, t}) \in Tile  BY <2>1, EatenTiles DEF Entry
  <2> QED  BY <2>1, <2>2, <2>3 DEF eatable
<1>10. PICK f : f = decks_quick_sort(AfterEat(d, n, e1, e2), n - 3)  OBVIOUS
<1>11. Tally(f, Slots, v) = Tally(d, Slots, v) - One(a, v) - One(b, v)
  <2>1. e1 # e2  BY <1>8, <1>9
  <2> QED  BY <1>7, <1>8, <1>10, <2>1, EatenTally
<1>12. PICK r : r = s \o <<lo, lo + 1, lo + 2>>  OBVIOUS
<1>13. /\ decks' = [decks EXCEPT ![q] = f] /\ door' = [door EXCEPT ![q] = r]
       /\ pc' = "hu" /\ TakesTurn(q)
    BY <1>2, <1>3, <1>4, <1>5, <1>6, <1>8, <1>9, <1>10, <1>12 DEF Eat
<1>14. /\ decks'[q] = f /\ door'[q] = r
       /\ \A p \in Players : p # q => decks'[p] = decks[p] /\ door'[p] = door[p]
    BY <1>13 DEF TypeOK
<1>15. PICK k \in Nat : k = Tally(s, DOMAIN s, v)  BY SeqTallyNat
<1>16. Tally(r, DOMAIN r, v) = k + One(lo, v) + One(lo + 1, v) + One(lo + 2, v)
  <2>1. PICK m \in Nat : m = Len(s) /\ DOMAIN s = 1..m  OBVIOUS
  <2>2. /\ DOMAIN r = 1..(m + 3) /\ Begins(r, s, m)
        /\ r[m + 1] = lo /\ r[m + 2] = lo + 1 /\ r[m + 3] = lo + 2
      BY <1>12, <2>1 DEF Begins
  <2>3. Tally(r, 1..(m + 3), v)
          = Tally(s, 1..m, v) + One(r[m + 1], v) + One(r[m + 2], v) + One(r[m + 3], v)
      BY <2>2, LaidBehind
  <2> QED  BY <1>15, <2>1, <2>2, <2>3
<1>17. One(lo, v) + One(lo + 1, v) + One(lo + 2, v) = One(a, v) + One(b, v) + One(t, v)
  <2>1. t \in Entry /\ lo \in Entry /\ v \in Entry  BY DEF Entry
  <2>2. lo \in Nat /\ v \in Nat
    <3>1. \A y \in Entry : y \in Nat  BY EntryBound
    <3> QED  BY <2>1, <3>1
  <2>3. a \in {lo, lo + 1, lo + 2} /\ b \in {lo, lo + 1, lo + 2} /\ t \in {lo, lo + 1, lo + 2}
      BY <1>9
  <2>4. lo \in {a, b, t} /\ lo + 1 \in {a, b, t} /\ lo + 2 \in {a, b, t}  BY <1>9
  <2>5. a # b /\ a # t /\ b # t  BY <2>2, <2>4
  <2>6. a \in lo..(lo + 2) /\ b \in lo..(lo + 2) /\ t \in lo..(lo + 2)  BY <2>2, <2>3
  <2> QED  BY <2>2, <2>5, <2>6, ChowCount
<1>18. /\ One(lo, v) \in Nat /\ One(lo + 1, v) \in Nat /\ One(lo + 2, v) \in Nat
       /\ One(a, v) \in Nat /\ One(b, v) \in Nat /\ One(t, v) \in Nat
    BY DEF One
<1>19. PICK x \in Nat : x = Tally(d, Slots, v)  BY SlotsFinite, TallyNat
<1>20. Tally(f, Slots, v) + Tally(r, DOMAIN r, v) = x + k + One(t, v)
  <2>1. PICK o1 \in Nat, o2 \in Nat, o3 \in Nat :
            o1 = One(a, v) /\ o2 = One(b, v) /\ o3 = One(t, v)
      BY <1>18
  <2>2. PICK l1 \in Nat, l2 \in Nat, l3 \in Nat :
            l1 = One(lo, v) /\ l2 = One(lo + 1, v) /\ l3 = One(lo + 2, v)
      BY <1>18
  <2>3. l1 + l2 + l3 = o1 + o2 + o3  BY <1>17, <2>1, <2>2
  <2>4. Tally(f, Slots, v) = x - o1 - o2  BY <1>11, <1>19, <2>1
  <2>5. Tally(r, DOMAIN r, v) = k + l1 + l2 + l3  BY <1>16, <2>2
  <2>6. (x - o1 - o2) + (k + l1 + l2 + l3) = x + k + o3  BY <2>3
  <2> QED  BY <2>1, <2>4, <2>5, <2>6
<1>21. OnDoor(q, v)' = Tally(r, DOMAIN r, v) /\ OnDoor(q, v) = k
    BY <1>6, <1>14, <1>15 DEF OnDoor
<1>22. Tally(decks'[q], Slots, v) + OnDoor(q, v)'
         = Tally(decks[q], Slots, v) + OnDoor(q, v) + One(discarded_mj, v)
    BY <1>3, <1>5, <1>14, <1>19, <1>20, <1>21
<1>23. pc' # "draw" /\ pc \in {"react", "eat"} /\ pc' \in {"draw", "hu"}  BY <1>1, <1>13
<1> QED  BY <1>2, <1>13, <1>14, <1>22, <1>23, ConservedTurn

\* quiet_gang: four tiles go to the door; the copy of one that is left in
\* the array is not the player's any more.
LEMMA ConservedQuietGang ==
    ASSUME TypeOK, TypeOK', Shape, Whole, Tidy, NEW v \in Tile, Conserved(v), QuietGang
    PROVE  Conserved(v)'
<1>0. HandSize \in Nat  BY ConstantFacts
<1>1. PICK q \in Players : q = playernow  BY DEF TypeOK
<1>2. PICK d \in [Slots -> Entry] : d = decks[q]  BY DEF TypeOK
<1>3. PICK n \in 0..HandSize : n = nc[q]  BY DEF TypeOK
<1>4. PICK s \in Seq(Tile) : s = door[q]  BY DEF TypeOK
<1>5. pc = "quiet" /\ ~claimed /\ ~Hung  BY DEF QuietGang, Shape, Hung
<1>6. PICK t \in Tile : t = d[n]
  <2>1. n \in Slots  BY DEF Slots
  <2>2. d[n] # Null  BY <1>1, <1>2, <1>3, <1>5 DEF Shape
  <2> QED  BY <2>1, <2>2 DEF Entry
<1>7. PICK dk : dk = Remove(d, n, t, 3)  OBVIOUS
<1>8. PICK r : r = s \o <<t, t, t, t>>  OBVIOUS
<1>9. /\ Count(d, n, t) >= 3 /\ pc' = "discard" /\ client' = "draw"
      /\ decks' = [decks EXCEPT ![q] = dk] /\ door' = [door EXCEPT ![q] = r]
      /\ nc' = [nc EXCEPT ![q] = n - 3]
      /\ UNCHANGED <<wall, take_index, sea, flowers, playernow>>
    BY <1>1, <1>2, <1>3, <1>4, <1>6, <1>7, <1>8
    DEF QuietGang, is_gang_possible, ClientAfterQuietGang, Shrink
<1>10. n >= 4
  <2>1. n % 3 = 1  BY <1>3 DEF Shape
  <2> QED  BY <1>9, <2>1, ClaimNeedsTiles DEF is_gang_possible
<1>11. /\ decks'[q] = dk /\ door'[q] = r /\ nc'[q] = n - 3
       /\ \A p \in Players : p # q => decks'[p] = decks[p] /\ door'[p] = door[p]
    BY <1>9 DEF TypeOK
<1>12. PICK L, K : L = 0..(n - 1) /\ K = 0..(n - 4)  OBVIOUS
<1>13. Owned(q) = Slots /\ Owned(q)' = K
  <2>1. pc # "draw"  BY <1>5
  <2>2. Owned(q) = Slots  BY <1>5, <2>1, OwnedCases
  <2>3. Hung' /\ ~Holding'  BY <1>9 DEF Hung, Holding
  <2>4. Owned(q)' = Live(q)'  BY <1>1, <1>9, <2>3 DEF Owned
  <2>5. Live(q)' = 0..(nc'[q] - 1)  BY <2>3 DEF Live
  <2>6. (n - 3) - 1 = n - 4  OBVIOUS
  <2> QED  BY <1>11, <1>12, <2>2, <2>4, <2>5, <2>6
<1>14. \A p \in Players : p # q => Owned(p)' = Owned(p)  BY <1>1, <1>9, OwnedCases
<1>15. Apart(q, v)  BY <1>9, <1>11, <1>14 DEF Apart, InHand
<1>16. EmptyFrom(d, n + 1)
  <2>1. Full(q)  BY <1>1, <1>5 DEF Whole
  <2>2. NullFree(d, n + 1)
    <3>1. \A i \in 0..((n + 1) - 1) : i \in 0..(n - 1) \/ i = n  OBVIOUS
    <3>2. t # Null  BY TileNotNull
    <3> QED  BY <1>2, <1>3, <1>6, <2>1, <3>1, <3>2 DEF Full, NullFree
  <2> QED  BY <1>1, <1>2, <1>3, <1>5, <2>2 DEF Tidy
<1>17. IsFiniteSet(Slots) /\ IsFiniteSet(L) /\ L \subseteq Slots /\ IsFiniteSet(K)
  <2>1. L \subseteq Slots /\ K \subseteq Slots  BY <1>0, <1>10, <1>12 DEF Slots
  <2> QED  BY <2>1, SlotsFinite
<1>18. Tally(d, Slots, v) = Tally(d, L, v) + One(t, v)
  <2>1. PICK M : M = n..HandSize  OBVIOUS
  <2>2. PICK U : U = (n + 1)..HandSize  OBVIOUS
  <2>3. M \subseteq Slots /\ U \subseteq Slots  BY <1>0, <2>1, <2>2 DEF Slots
  <2>4. IsFiniteSet(M) /\ IsFiniteSet(U)  BY <2>3, SlotsFinite
  <2>5. \A x : x \in Slots <=> x \in L \/ x \in M  BY <1>0, <1>12, <2>1 DEF Slots
  <2>6. \A x : ~(x \in L /\ x \in M)  BY <1>12, <2>1
  <2>7. Tally(d, Slots, v) = Tally(d, L, v) + Tally(d, M, v)
      BY <1>17, <2>4, <2>5, <2>6, TallyParts
  <2>8. n \in M /\ \A x : x \in U <=> x \in M /\ x # n  BY <1>0, <2>1, <2>2
  <2>9. Tally(d, M, v) = Tally(d, U, v) + One(d[n], v)  BY <2>4, <2>8, TallyWithout
  <2>10. \A i \in U : d[i] # v  BY <1>16, <2>2, TileNotNull DEF EmptyFrom
  <2>11. Tally(d, U, v) = 0  BY <2>4, <2>10, TallyZero
  <2>12. One(t, v) \in Nat /\ Tally(d, L, v) \in Nat  BY <1>17, TallyNat DEF One
  <2>13. Tally(d, M, v) = One(t, v)  BY <1>6, <2>9, <2>11, <2>12
  <2> QED  BY <2>7, <2>13
<1>19. Tally(dk, L, v) = Tally(d, L, v) - (IF v = t THEN 3 ELSE 0)
  <2>1. 3 \in 0..n /\ 0..(n - 1) \subseteq L  BY <1>10, <1>12
  <2> QED  BY <1>7, <1>9, <1>17, <2>1, RemoveTally
<1>20. Tally(dk, K, v) = Tally(dk, L, v)
  <2>1. PICK M : M = (n - 3)..(n - 1)  OBVIOUS
  <2>2. IsFiniteSet(M)
    <3>1. M \subseteq Slots  BY <1>0, <1>10, <2>1 DEF Slots
    <3> QED  BY <3>1, SlotsFinite
  <2>3. \A x : x \in L <=> x \in K \/ x \in M  BY <1>10, <1>12, <2>1
  <2>4. \A x : ~(x \in K /\ x \in M)  BY <1>10, <1>12, <2>1
  <2>5. Tally(dk, L, v) = Tally(dk, K, v) + Tally(dk, M, v)
      BY <1>17, <2>2, <2>3, <2>4, TallyParts
  <2>6. \A i \in M : dk[i] # v
    <3>1. 3 \in 0..n  BY <1>10
    <3>2. \A i \in M : dk[i] = Null  BY <1>7, <2>1, <3>1, RemoveAbove
    <3> QED  BY <3>2, TileNotNull
  <2>7. Tally(dk, M, v) = 0  BY <2>2, <2>6, TallyZero
  <2>8. Tally(dk, K, v) \in Nat  BY <1>17, TallyNat
  <2> QED  BY <2>5, <2>7, <2>8
<1>21. PICK o \in {0, 1} : o = One(t, v) /\ (t = v => o = 1) /\ (t # v => o = 0)  BY DEF One
<1>22. PICK k \in Nat : k = Tally(s, DOMAIN s, v)  BY SeqTallyNat
<1>23. Tally(r, DOMAIN r, v) = k + o + o + o + o
  <2>1. PICK m \in Nat : m = Len(s) /\ DOMAIN s = 1..m  OBVIOUS
  <2>2. /\ DOMAIN r = 1..(m + 4) /\ Begins(r, s, m)
        /\ r[m + 1] = t /\ r[m + 2] = t /\ r[m + 3] = t /\ r[m + 4] = t
      BY <1>8, <2>1 DEF Begins
  <2>3. Tally(r, 1..(m + 4), v)
          = Tally(s, 1..m, v) + One(r[m + 1], v) + One(r[m + 2], v) + One(r[m + 3], v)
              + One(r[m + 4], v)
      BY <2>2, LaidBehind
  <2> QED  BY <1>21, <1>22, <2>1, <2>2, <2>3
<1>24. PICK x \in Nat : x = Tally(d, L, v)  BY <1>17, TallyNat
<1>25. InHand(q, v) = x + o /\ InHand(q, v)' + o + o + o = x
  <2>1. InHand(q, v) = Tally(d, Slots, v) /\ InHand(q, v)' = Tally(dk, K, v)
      BY <1>2, <1>11, <1>13 DEF InHand
  <2>2. InHand(q, v) = x + o  BY <1>18, <1>21, <1>24, <2>1
  <2>3. InHand(q, v)' = x - (IF v = t THEN 3 ELSE 0)  BY <1>19, <1>20, <1>24, <2>1
  <2>4. CASE v = t  BY <1>21, <1>24, <2>2, <2>3, <2>4
  <2>5. CASE v # t  BY <1>21, <1>24, <2>2, <2>3, <2>5
  <2> QED  BY <2>4, <2>5
<1>26. OnDoor(q, v) = k /\ OnDoor(q, v)' = k + o + o + o + o
    BY <1>4, <1>11, <1>22, <1>23 DEF OnDoor
<1>27. /\ Left(v)' = Left(v) /\ InSea(q, v)' = InSea(q, v) /\ Aside(q, v)' = Aside(q, v)
       /\ Shown(v) = 0 /\ Shown(v)' = 0
    BY <1>5, <1>9 DEF Left, InSea, Aside, Shown, OnOffer
<1>28. /\ InHand(q, v) \in Nat /\ InSea(q, v) \in Nat /\ Aside(q, v) \in Nat /\ Left(v) \in Nat
       /\ InHand(q, v)' \in Nat
    BY PartsNat
<1>29. Left(v)' + InHand(q, v)' + OnDoor(q, v)' + InSea(q, v)' + Aside(q, v)' + Shown(v)'
         = Left(v) + InHand(q, v) + OnDoor(q, v) + InSea(q, v) + Aside(q, v) + Shown(v)
  <2>1. PICK h \in Nat, hp \in Nat, l \in Nat, y \in Nat, z \in Nat :
            /\ h = InHand(q, v) /\ hp = InHand(q, v)' /\ l = Left(v)
            /\ y = InSea(q, v) /\ z = Aside(q, v)
      BY <1>28
  <2>2. h = x + o /\ hp + o + o + o = x  BY <1>25, <2>1
  <2>3. l + hp + (k + o + o + o + o) + y + z + 0 = l + h + k + y + z + 0
    <3>1. o \in Nat  BY <1>21
    <3>2. h = hp + o + o + o + o  BY <2>2, <3>1
    <3> QED  BY <3>1, <3>2
  <2> QED  BY <1>26, <1>27, <2>1, <2>3
<1> QED  BY <1>15, <1>29, OneStake

\* Leaving slot m out of the count, when it is empty, changes nothing.
LEMMA EmptySlotOut ==
    ASSUME NEW d, NEW m \in Slots, d[m] = Null, NEW A, A = Slots \ {m}, NEW v \in Tile
    PROVE  Tally(d, A, v) = Tally(d, Slots, v)
<1>1. IsFiniteSet(Slots)  BY SlotsFinite
<1>2. \A x : x \in A <=> x \in Slots /\ x # m  OBVIOUS
<1>3. Tally(d, Slots, v) = Tally(d, A, v) + One(d[m], v) /\ Tally(d, A, v) \in Nat
    BY <1>1, <1>2, TallyWithout
<1> QED  BY <1>3, NullNotCounted

\* A discard nobody wants goes to the sea; the player after has slot nc
\* empty for the next tile.
LEMMA ConservedUnclaimed ==
    ASSUME TypeOK, TypeOK', Shape, Whole, Tidy, NEW v \in Tile, Conserved(v), Unclaimed
    PROVE  Conserved(v)'
<1>0. HandSize \in Nat  BY ConstantFacts
<1>1. PICK q \in Players : q = playernow  BY DEF TypeOK
<1>2. PICK s \in Seq(Tile) : s = sea[q]  BY DEF TypeOK
<1>3. PICK t : t = discarded_mj  OBVIOUS
<1>4. /\ pc = "react" /\ ask = 11 /\ sea' = [sea EXCEPT ![q] = Append(s, t)]
      /\ UNCHANGED <<wall, take_index, decks, nc, flowers, door, winner>>
      /\ \/ pc' = "draw" /\ playernow' = NextPlayer(playernow)
         \/ pc' = "set" /\ playernow' = playernow
    BY <1>1, <1>2, <1>3 DEF Unclaimed, Return
<1>5. t \in Tile /\ winner = -1
    BY <1>3, <1>4 DEF Shape, TypeOK, Entry, WinnerEndsRound, Ended
<1>6. PICK n \in Players : n = NextPlayer(playernow) /\ n # q
  <2>1. q \in 0..3  BY DEF Players
  <2>2. (q + 1) % 4 \in 0..3 /\ (q + 1) % 4 # q  BY <2>1
  <2> QED  BY <1>1, <2>2 DEF NextPlayer, Players
<1>7. decks[n][nc[n]] = Null /\ nc[n] \in Slots
  <2>1. NullFree(decks[n], nc[n])  BY <1>4, <1>6 DEF Whole, Full, NullFree
  <2>2. EmptyFrom(decks[n], nc[n])  BY <1>1, <1>4, <1>6, <2>1 DEF Tidy, InPlay, Ended
  <2>3. nc[n] \in 0..HandSize  BY DEF TypeOK
  <2>4. nc[n] \in nc[n]..HandSize  BY <1>0, <2>3
  <2> QED  BY <1>0, <2>2, <2>3, <2>4 DEF EmptyFrom, Slots
<1>8. \A p \in Players : Owned(p) = Slots
  <2>1. pc # "draw" /\ ~Hung  BY <1>4 DEF Hung
  <2> QED  BY <2>1, OwnedCases
<1>9. ASSUME NEW p \in Players PROVE InHand(p, v)' = InHand(p, v)
  <2>1. CASE pc' = "draw" /\ p = n
    <3>1. PICK A : A = Slots \ {nc[n]}  OBVIOUS
    <3>2. playernow' = n /\ nc'[playernow'] = nc[n]  BY <1>4, <1>6, <2>1
    <3>3. Owned(n)' = A  BY <2>1, <3>1, <3>2, OwnedCases
    <3>4. Tally(decks[n], A, v) = Tally(decks[n], Slots, v)  BY <1>7, <3>1, EmptySlotOut
    <3> QED  BY <1>4, <1>8, <2>1, <3>3, <3>4 DEF InHand
  <2>2. CASE ~(pc' = "draw" /\ p = n)
    <3>1. p # playernow' \/ (pc' # "draw" /\ ~Hung')  BY <1>4, <1>6, <2>2 DEF Hung
    <3>2. Owned(p)' = Slots  BY <3>1, OwnedCases
    <3> QED  BY <1>4, <1>8, <3>2 DEF InHand
  <2> QED  BY <2>1, <2>2
<1>10. sea'[q] = Append(s, t) /\ \A p \in Players : p # q => sea'[p] = sea[p]
    BY <1>4 DEF TypeOK
<1>11. Apart(q, v)  BY <1>4, <1>9, <1>10 DEF Apart
<1>12. InSea(q, v)' = InSea(q, v) + One(t, v)
  <2>1. PICK r : r = Append(s, t)  OBVIOUS
  <2>2. PICK m \in Nat : m = Len(s) /\ DOMAIN s = 1..m  OBVIOUS
  <2>3. DOMAIN r = 1..(m + 1) /\ Begins(r, s, m) /\ r[m + 1] = t
      BY <1>5, <2>1, <2>2 DEF Begins
  <2>4. Tally(r, 1..(m + 1), v) = Tally(s, 1..m, v) + One(r[m + 1], v)
      BY <2>3, LaidBehind
  <2> QED  BY <1>2, <1>10, <2>1, <2>2, <2>3, <2>4 DEF InSea
<1>13. Shown(v) = One(t, v) /\ Shown(v)' = 0
  <2>1. OnOffer /\ ~OnOffer'  BY <1>4, <1>5 DEF OnOffer
  <2> QED  BY <1>3, <2>1 DEF Shown, One
<1>14. /\ Left(v)' = Left(v) /\ OnDoor(q, v)' = OnDoor(q, v) /\ Aside(q, v)' = Aside(q, v)
    BY <1>4 DEF Left, OnDoor, Aside
<1>15. /\ InHand(q, v) \in Nat /\ OnDoor(q, v) \in Nat /\ InSea(q, v) \in Nat
       /\ Aside(q, v) \in Nat /\ Left(v) \in Nat /\ Shown(v) \in Nat
    BY PartsNat
<1>16. Left(v)' + InHand(q, v)' + OnDoor(q, v)' + InSea(q, v)' + Aside(q, v)' + Shown(v)'
         = Left(v) + InHand(q, v) + OnDoor(q, v) + InSea(q, v) + Aside(q, v) + Shown(v)
    BY <1>9, <1>12, <1>13, <1>14, <1>15
<1> QED  BY <1>11, <1>16, OneStake

\* Wins, passes and agreeing to eat move no tile.
LEMMA ConservedStill ==
    ASSUME TypeOK, TypeOK', Shape, NEW v \in Tile, Conserved(v),
           \/ HuAccept \/ HuPass \/ QuietPass \/ Pass \/ HuClaim \/ EatYes
    PROVE  Conserved(v)'
<1>1. UNCHANGED <<wall, take_index, hands, discarded_mj>>
    BY DEF HuAccept, HuPass, QuietPass, Pass, HuClaim, EatYes
<1>2. UNCHANGED <<decks, nc, flowers, door, sea>>  BY <1>1 DEF hands
<1>3. /\ pc # "draw" /\ ~Hung /\ pc' # "draw" /\ ~Hung' /\ (OnOffer <=> OnOffer')
  <2>1. CASE HuAccept \/ HuClaim
    <3>1. winner' \in Players  BY <2>1, AskedOther DEF HuAccept, HuClaim, TypeOK
    <3>2. \A ret : ~RoundGoesOn(ret, winner')  BY <3>1 DEF RoundGoesOn, Players
    <3>3. CASE HuAccept
      <4>1. pc = "hu" /\ pc' = "set" /\ winner' = playernow /\ UNCHANGED playernow
          BY <3>2, <3>3 DEF HuAccept, Return
      <4> QED  BY <4>1 DEF Hung, OnOffer
    <3>4. CASE HuClaim
      <4>1. pc = "react" /\ pc' = "set" /\ winner' = Asked /\ UNCHANGED playernow
          BY <3>2, <3>4 DEF HuClaim, Return
      <4>2. Asked # playernow /\ Asked # -1  BY <3>1, <4>1, AskedOther DEF TypeOK, Players
      <4> QED  BY <4>1, <4>2 DEF Hung, OnOffer
    <3> QED  BY <2>1, <3>3, <3>4
  <2>2. CASE HuPass
    <3>1. /\ pc = "hu" /\ pc' \in {"quiet", "discard"}
          /\ (pc' = "discard" => client' = "discard")
        BY <2>2 DEF HuPass, ClientAfterHu
    <3> QED  BY <3>1 DEF Hung, OnOffer
  <2>3. CASE QuietPass  BY <2>3 DEF QuietPass, Hung, OnOffer
  <2>4. CASE Pass \/ EatYes  BY <2>4 DEF Pass, EatYes, Hung, OnOffer
  <2> QED  BY <2>1, <2>2, <2>3, <2>4
<1>4. \A p \in Players : Owned(p) = Slots /\ Owned(p)' = Slots  BY <1>3, OwnedCases
<1>5. PICK q \in Players : q = playernow  BY DEF TypeOK
<1>6. \A p \in Players : InHand(p, v)' = InHand(p, v)  BY <1>2, <1>4 DEF InHand
<1>7. Apart(q, v)  BY <1>1, <1>2, <1>6 DEF Apart
<1>8. /\ Left(v)' = Left(v) /\ OnDoor(q, v)' = OnDoor(q, v) /\ Aside(q, v)' = Aside(q, v)
      /\ InSea(q, v)' = InSea(q, v) /\ Shown(v)' = Shown(v)
    BY <1>1, <1>2, <1>3 DEF Left, OnDoor, Aside, InSea, Shown
<1> QED  BY <1>6, <1>7, <1>8, OneStake

\* The hands are sorted before play begins.
LEMMA ConservedStartPlay ==
    ASSUME TypeOK, TypeOK', Whole, Tidy, NEW v \in Tile, Conserved(v), StartPlay
    PROVE  Conserved(v)'
<1>0. HandSize \in Nat  BY ConstantFacts
<1>1. /\ pc = "regrab" /\ pc' = "draw"
      /\ decks' = [p \in Players |-> decks_quick_sort(decks[p], HandSize - 1)]
      /\ UNCHANGED <<wall, take_index, nc, flowers, door, sea, playernow>>
    BY DEF StartPlay
<1>2. PICK q \in Players : q = playernow  BY DEF TypeOK
<1>3. \A p \in Players : nc[p] = HandSize  BY <1>1 DEF Whole
<1>4. \A p \in Players : Owned(p) = Slots
  <2>1. pc # "draw" /\ ~Hung  BY <1>1 DEF Hung
  <2> QED  BY <2>1, OwnedCases
<1>5. ASSUME NEW p \in Players PROVE InHand(p, v)' = InHand(p, v)
  <2>1. PICK d \in [Slots -> Entry] : d = decks[p]  BY DEF TypeOK
  <2>2. HandSize - 1 \in -1..HandSize /\ 0..(HandSize - 1) \subseteq Slots /\ v \in Entry
      BY <1>0 DEF Slots, Entry
  <2>3. PICK f : f = decks_quick_sort(d, HandSize - 1)  OBVIOUS
  <2>4. Slots \subseteq Slots  OBVIOUS
  <2>5. Tally(f, Slots, v) = Tally(d, Slots, v)  BY <2>2, <2>3, <2>4, SortTally
  <2>6. decks'[p] = f  BY <1>1, <2>1, <2>3
  <2>7. CASE p = q
    <3>1. HandSize \in Slots /\ HandSize > HandSize - 1  BY <1>0 DEF Slots
    <3>2. f[HandSize] = d[HandSize]  BY <2>2, <2>3, <3>1, SortMembers
    <3>3. d[HandSize] = Null  BY <1>0, <1>1, <2>1 DEF Tidy, EmptyFrom
    <3>4. PICK A : A = Slots \ {HandSize}  OBVIOUS
    <3>5. Owned(p)' = A
      <4>1. playernow' = p /\ nc'[playernow'] = HandSize  BY <1>1, <1>2, <1>3, <2>7
      <4> QED  BY <1>1, <3>4, <4>1, OwnedCases
    <3>6. Tally(f, A, v) = Tally(f, Slots, v)  BY <3>1, <3>2, <3>3, <3>4, EmptySlotOut
    <3> QED  BY <1>4, <2>1, <2>5, <2>6, <3>5, <3>6 DEF InHand
  <2>8. CASE p # q
    <3>1. Owned(p)' = Slots  BY <1>1, <1>2, <2>8, OwnedCases
    <3> QED  BY <1>4, <2>1, <2>5, <2>6, <3>1 DEF InHand
  <2> QED  BY <2>7, <2>8
<1>6. Apart(q, v)  BY <1>1, <1>5 DEF Apart
<1>7. /\ Left(v)' = Left(v) /\ OnDoor(q, v)' = OnDoor(q, v) /\ Aside(q, v)' = Aside(q, v)
      /\ InSea(q, v)' = InSea(q, v) /\ Shown(v)' = 0 /\ Shown(v) = 0
    BY <1>1 DEF Left, OnDoor, Aside, InSea, Shown, OnOffer
<1> QED  BY <1>5, <1>6, <1>7, OneStake

\* A pass of has_flower: the flowers of the hand are put aside, and as many
\* tiles come from the wall.
LEMMA ConservedHasFlower ==
    ASSUME TypeOK, TypeOK', Shape, NEW v \in Tile, Conserved(v), has_flower
    PROVE  Conserved(v)'
<1>0. HandSize \in Nat /\ WallSize \in Nat /\ take_index \in Nat  BY ConstantFacts DEF TypeOK
<1>1. PICK q \in Players : q = (playernow + playeradd) % 4
    BY DEF TypeOK, Players
<1>2. PICK d \in [Slots -> Entry] : d = decks[q]  BY DEF TypeOK
<1>3. PICK Fl : Fl = FlowerSlots(q)  OBVIOUS
<1>4. Fl \subseteq Slots /\ IsFiniteSet(Fl) /\ (\A i \in Slots : i \in Fl <=> d[i] \in FLOWER)
  <2>1. Fl \subseteq Slots /\ \A i \in Slots : i \in Fl <=> d[i] \in FLOWER
      BY <1>2, <1>3 DEF FlowerSlots
  <2> QED  BY <2>1, SlotsFinite
<1>5. PICK m \in Nat : m = Cardinality(Fl)  BY <1>4, FS_CardinalityType
<1>6. PICK e : e = [i \in Slots |-> IF i \in Fl THEN Replacement(q, i) ELSE d[i]]  OBVIOUS
<1>7. PICK G : G = {d[i] : i \in Fl}  OBVIOUS
<1>8. /\ pc = "regrab" /\ pc' = pc /\ take_index + m <= WallSize
      /\ flowers' = [flowers EXCEPT ![q] = @ \cup G]
      /\ decks' = [decks EXCEPT ![q] = e] /\ take_index' = take_index + m
      /\ UNCHANGED <<wall, nc, door, sea, playernow>>
    BY <1>1, <1>2, <1>3, <1>5, <1>6, <1>7 DEF has_flower
<1>9. /\ decks'[q] = e /\ flowers'[q] = flowers[q] \cup G
      /\ \A p \in Players : p # q => decks'[p] = decks[p] /\ flowers'[p] = flowers[p]
    BY <1>8 DEF TypeOK
<1>10. \A p \in Players : Owned(p) = Slots /\ Owned(p)' = Slots
  <2>1. pc # "draw" /\ ~Hung /\ pc' # "draw" /\ ~Hung'  BY <1>8 DEF Hung
  <2> QED  BY <2>1, OwnedCases
<1>11. Apart(q, v)  BY <1>8, <1>9, <1>10 DEF Apart, InHand
<1>12. PICK R : R = Slots \ Fl  OBVIOUS
<1>13. IsFiniteSet(R) /\ (\A x : x \in Slots <=> x \in R \/ x \in Fl)
       /\ (\A x : ~(x \in R /\ x \in Fl))
  <2>1. R \subseteq Slots  BY <1>12
  <2> QED  BY <1>4, <1>12, <2>1, SlotsFinite
<1>14. PICK u \in Nat, f \in Nat : u = Tally(d, R, v) /\ f = Tally(d, Fl, v)
    BY <1>4, <1>13, TallyNat
<1>15. InHand(q, v) = u + f
  <2>1. Tally(d, Slots, v) = Tally(d, R, v) + Tally(d, Fl, v)  BY <1>4, <1>13, TallyParts
  <2> QED  BY <1>2, <1>10, <1>14, <2>1 DEF InHand
<1>16. PICK T : T = take_index..(take_index + m - 1)  OBVIOUS
<1>17. PICK w \in Nat : w = Tally(wall, T, v) /\ Left(v) = Left(v)' + w
    BY <1>8, <1>16, WallTaken
<1>18. Tally(e, Fl, v) = w
  <2>1. PICK b \in Nat : b = take_index  BY <1>0
  <2>2. PICK sw : sw = wall  OBVIOUS
  <2>3. Ranked(e, sw, Fl, b)
    <3>1. \A i \in Fl : i \in Nat  BY <1>0, <1>4 DEF Slots
    <3> QED  BY <1>3, <1>4, <1>6, <2>1, <2>2, <3>1 DEF Replacement, Ranked
  <2>4. Tally(e, Fl, v) = Tally(sw, b..(b + Cardinality(Fl) - 1), v)
      BY <1>4, <2>3, RankTally
  <2> QED  BY <1>5, <1>16, <1>17, <2>1, <2>2, <2>4
<1>19. InHand(q, v)' = u + w
  <2>1. \A i \in R : e[i] = d[i]  BY <1>6, <1>12
  <2>2. Tally(e, R, v) = u  BY <1>14, <2>1, TallySame
  <2>3. Tally(e, Slots, v) = Tally(e, R, v) + Tally(e, Fl, v)  BY <1>4, <1>13, TallyParts
  <2> QED  BY <1>9, <1>10, <1>18, <2>2, <2>3 DEF InHand
<1>20. /\ InHand(q, v) \in Nat /\ OnDoor(q, v) \in Nat /\ InSea(q, v) \in Nat
       /\ Aside(q, v) \in Nat /\ Left(v) \in Nat /\ Left(v)' \in Nat /\ Shown(v) \in Nat
    BY PartsNat
<1>21. Aside(q, v)' = Aside(q, v) + f
  <2>1. CASE f = 0
    <3>1. \A i \in Fl : d[i] # v  BY <1>4, <1>14, <2>1, TallyZero
    <3>2. v \notin G  BY <1>7, <3>1
    <3>3. Aside(q, v)' = Aside(q, v)  BY <1>9, <3>2 DEF Aside
    <3> QED  BY <1>20, <2>1, <3>3
  <2>2. CASE f # 0
    <3>1. PICK i \in Fl : d[i] = v  BY <1>4, <1>14, <2>2, TallyZero
    <3>2. v \in FLOWER /\ v \in G  BY <1>4, <1>7, <3>1
    <3>3. Left(v) + Stake(q, v) + Shown(v) <= 1  BY <3>2, OneFlower
    <3>4. InHand(q, v) + Aside(q, v) <= 1  BY <1>20, <3>3 DEF Stake
    <3>5. f = 1 /\ Aside(q, v) = 0  BY <1>14, <1>15, <1>20, <2>2, <3>4
    <3>6. Aside(q, v)' = 1  BY <1>9, <3>2 DEF Aside
    <3> QED  BY <3>5, <3>6
  <2> QED  BY <2>1, <2>2
<1>22. /\ OnDoor(q, v)' = OnDoor(q, v) /\ InSea(q, v)' = InSea(q, v)
       /\ Shown(v)' = 0 /\ Shown(v) = 0
    BY <1>8 DEF OnDoor, InSea, Shown, OnOffer
<1>23. Left(v)' + InHand(q, v)' + OnDoor(q, v)' + InSea(q, v)' + Aside(q, v)' + Shown(v)'
         = Left(v) + InHand(q, v) + OnDoor(q, v) + InSea(q, v) + Aside(q, v) + Shown(v)
  <2>1. PICK l \in Nat, o \in Nat, y \in Nat, z \in Nat :
            l = Left(v)' /\ o = OnDoor(q, v) /\ y = InSea(q, v) /\ z = Aside(q, v)
      BY <1>20
  <2>2. l + (u + w) + o + y + (z + f) + 0 = (l + w) + (u + f) + o + y + z + 0  OBVIOUS
  <2> QED  BY <1>15, <1>17, <1>19, <1>21, <1>22, <2>1, <2>2
<1> QED  BY <1>11, <1>23, OneStake

-----------------------------------------------------------------------------

\* Nothing is in the hands or aside before the deal.
Bare ==
    pc = "deal" =>
        /\ take_index = 0
        /\ decks = [p \in Players |-> EmptyDeck]
        /\ flowers = [p \in Players |-> {}]

\* An empty door or sea holds no tile.
LEMMA NothingLaid == \A v : Tally(<<>>, DOMAIN <<>>, v) = 0
<1>1. DOMAIN <<>> = {}  OBVIOUS
<1>2. IsFiniteSet({})  BY FS_EmptySet
<1>3. \A v : Tally(<<>>, {}, v) = 0  BY <1>2, TallyZero
<1> QED  BY <1>1, <1>3

\* deal(): every tile of the four hands comes from its own place in the
\* first 4 * HandSize of the wall.
LEMMA ConservedDeal ==
    ASSUME TypeOK, TypeOK', Shape, Bare, NEW v \in Tile, Deal PROVE Conserved(v)'
<1>0. /\ HandSize \in Nat /\ HandSize % 4 = 0 /\ WallSize \in Nat /\ 4 * HandSize < WallSize
    BY ConstantFacts DEF Shape
<1>1. /\ pc = "deal" /\ pc' = "regrab" /\ wall' = wall /\ take_index' = 4 * HandSize
      /\ decks' = [p \in Players |->
                     [i \in Slots |-> IF i < HandSize THEN DealtTo(p, i) ELSE Null]]
      /\ UNCHANGED <<flowers, door, sea, discarded_mj>>
    BY DEF Deal
<1>2. \A p \in Players : /\ OnDoor(p, v)' = 0 /\ InSea(p, v)' = 0 /\ Aside(p, v)' = 0
  <2>1. \A p \in Players : door'[p] = <<>> /\ sea'[p] = <<>> /\ flowers'[p] = {}
      BY <1>1 DEF Shape, Bare
  <2> QED  BY <2>1, NothingLaid DEF OnDoor, InSea, Aside
<1>3. Shown(v)' = 0  BY <1>1 DEF Shown, OnOffer
<1>4. \A p \in Players : Owned(p)' = Slots
  <2>1. pc' # "draw" /\ ~Hung'  BY <1>1 DEF Hung
  <2> QED  BY <2>1, OwnedCases
<1>5. PICK w : w = wall  OBVIOUS
<1>6. ASSUME NEW p \in Players, NEW add \in 0..3, add = (p - playernow + 4) % 4
      PROVE  InHand(p, v)' = Tally(w, Places(HandSize, add), v)
  <2>1. PICK e : e = decks'[p]  OBVIOUS
  <2>2. HandSize \in Slots /\ e[HandSize] = Null  BY <1>0, <1>1, <2>1 DEF Slots
  <2>3. PICK A : A = Slots \ {HandSize}  OBVIOUS
  <2>4. A = 0..(HandSize - 1)  BY <1>0, <2>3 DEF Slots
  <2>5. Tally(e, A, v) = Tally(e, Slots, v)  BY <2>2, <2>3, EmptySlotOut
  <2>6. DealtFrom(e, w, HandSize, add)
      BY <1>0, <1>1, <1>5, <1>6, <2>1 DEF DealtFrom, DealtTo, Slots
  <2>7. Tally(e, 0..(HandSize - 1), v) = Tally(w, Places(HandSize, add), v)
      BY <1>0, <2>6, DealtPlaces
  <2> QED  BY <1>4, <2>1, <2>4, <2>5, <2>7 DEF InHand
<1> DEFINE P(a) == Tally(w, Places(HandSize, a), v)
<1>7. /\ Tally(w, 0..(4 * HandSize - 1), v) = P(0) + P(1) + P(2) + P(3)
      /\ P(0) \in Nat /\ P(1) \in Nat /\ P(2) \in Nat /\ P(3) \in Nat
    BY <1>0, PlacesPart
<1> HIDE DEF P
<1>8. Stakes(v)' = P(0) + P(1) + P(2) + P(3)
  <2>1. 0 \in Players /\ 1 \in Players /\ 2 \in Players /\ 3 \in Players  BY DEF Players
  <2>2. \A p \in Players : InHand(p, v)' \in Nat  BY PartsNat
  <2>3. \A p \in Players : Stake(p, v)' = InHand(p, v)'  BY <1>2, <2>2 DEF Stake
  <2>4. \A p \in Players : Stake(p, v)' = P((p - playernow + 4) % 4)
    <3> SUFFICES ASSUME NEW p \in Players PROVE Stake(p, v)' = P((p - playernow + 4) % 4)
        OBVIOUS
    <3>1. PICK add \in 0..3 : add = (p - playernow + 4) % 4  BY DEF TypeOK, Players
    <3> QED  BY <1>6, <2>3, <3>1 DEF P
  <2>5. playernow \in {0, 1, 2, 3}  BY DEF TypeOK, Players
  <2>6. CASE playernow = 0
    <3>1. /\ Stake(0, v)' = P(0) /\ Stake(1, v)' = P(1) /\ Stake(2, v)' = P(2)
          /\ Stake(3, v)' = P(3)
        BY <2>1, <2>4, <2>6
    <3> QED  BY <1>7, <3>1 DEF Stakes
  <2>7. CASE playernow = 1
    <3>1. /\ Stake(0, v)' = P(3) /\ Stake(1, v)' = P(0) /\ Stake(2, v)' = P(1)
          /\ Stake(3, v)' = P(2)
        BY <2>1, <2>4, <2>7
    <3> QED  BY <1>7, <3>1 DEF Stakes
  <2>8. CASE playernow = 2
    <3>1. /\ Stake(0, v)' = P(2) /\ Stake(1, v)' = P(3) /\ Stake(2, v)' = P(0)
          /\ Stake(3, v)' = P(1)
        BY <2>1, <2>4, <2>8
    <3> QED  BY <1>7, <3>1 DEF Stakes
  <2>9. CASE playernow = 3
    <3>1. /\ Stake(0, v)' = P(1) /\ Stake(1, v)' = P(2) /\ Stake(2, v)' = P(3)
          /\ Stake(3, v)' = P(0)
        BY <2>1, <2>4, <2>9
    <3> QED  BY <1>7, <3>1 DEF Stakes
  <2> QED  BY <2>5, <2>6, <2>7, <2>8, <2>9
<1>9. Tally(w, 0..(WallSize - 1), v) = Left(v)' + Tally(w, 0..(4 * HandSize - 1), v)
  <2>1. take_index = 0  BY <1>1 DEF Bare
  <2>2. PICK k \in Nat : k = 4 * HandSize  BY <1>0
  <2>3. take_index + k <= WallSize /\ take_index' = take_index + k
      BY <1>0, <1>1, <2>1, <2>2
  <2>4. Left(v) = Left(v)' + Tally(wall, take_index..(take_index + k - 1), v)
      BY <1>1, <2>3, WallTaken
  <2>5. take_index + k - 1 = 4 * HandSize - 1  BY <2>1, <2>2
  <2>6. Left(v) = Left(v)' + Tally(w, 0..(4 * HandSize - 1), v)  BY <1>5, <2>1, <2>4, <2>5
  <2>7. Left(v) = Tally(w, 0..(WallSize - 1), v)  BY <1>5, <2>1 DEF Left
  <2> QED  BY <2>6, <2>7
<1>10. Left(v)' \in Nat /\ Stakes(v)' \in Nat  BY <1>7, <1>8, PartsNat
<1>11. Tally(w, 0..(WallSize - 1), v) = Left(v)' + Stakes(v)' + Shown(v)'
    BY <1>3, <1>7, <1>8, <1>9, <1>10
<1> QED  BY <1>1, <1>5, <1>11 DEF Conserved

\* Before the deal all tiles are in the wall.
LEMMA ConservedBare ==
    ASSUME TypeOK, Shape, Bare, pc = "deal", NEW v \in Tile PROVE Conserved(v)
<1>1. /\ take_index = 0
      /\ \A p \in Players : /\ decks[p] = EmptyDeck /\ door[p] = <<>> /\ sea[p] = <<>>
                            /\ flowers[p] = {}
    BY DEF Bare, Shape
<1>2. \A p \in Players : Owned(p) = Slots
  <2>1. pc # "draw" /\ ~Hung  BY DEF Hung
  <2> QED  BY <2>1, OwnedCases
<1>3. Tally(EmptyDeck, Slots, v) = 0
  <2>1. \A i \in Slots : EmptyDeck[i] # v  BY TileNotNull DEF EmptyDeck
  <2> QED  BY <2>1, SlotsFinite, TallyZero
<1>4. \A p \in Players : Stake(p, v) = 0
    BY <1>1, <1>2, <1>3, NothingLaid DEF Stake, InHand, OnDoor, InSea, Aside
<1>5. Stakes(v) = 0 /\ Shown(v) = 0  BY <1>4 DEF Stakes, Shown, OnOffer, Players
<1>6. Left(v) = Tally(wall, 0..(WallSize - 1), v)  BY <1>1 DEF Left
<1>7. Left(v) \in Nat  BY PartsNat
<1> QED  BY <1>5, <1>6, <1>7 DEF Conserved

\* The tables where tiles have been dealt, and conservation there.
Started == pc \notin Ended \cup {"deal"}
Kept == Started => \A v \in Tile : Conserved(v)

\* Between the deal and the end of the round every step keeps the tiles.
LEMMA KeptNext ==
    TypeOK /\ Shape /\ Whole /\ Tidy /\ Bare /\ Kept /\ [Next]_vars => Kept'
<1> SUFFICES ASSUME TypeOK, Shape, Whole, Tidy, Bare, Kept, [Next]_vars,
                    NEW v \in Tile, Started'
             PROVE  Conserved(v)'
    BY DEF Kept
<1>0. TypeOK'  BY TypeNext
<1>1. CASE Deal  BY <1>0, <1>1, ConservedDeal
<1>2. CASE has_flower
  <2>1. Conserved(v)  BY <1>2 DEF has_flower, Kept, Started, Ended
  <2> QED  BY <1>0, <1>2, <2>1, ConservedHasFlower
<1>3. CASE StartPlay
  <2>1. Conserved(v)  BY <1>3 DEF StartPlay, Kept, Started, Ended
  <2> QED  BY <1>0, <1>3, <2>1, ConservedStartPlay
<1>4. CASE draw
  <2>1. Conserved(v)  BY <1>4 DEF draw, Kept, Started, Ended
  <2> QED  BY <1>0, <1>4, <2>1, ConservedDraw
<1>5. CASE \/ HuAccept \/ HuPass \/ QuietPass \/ Pass \/ HuClaim \/ EatYes
  <2>1. pc \in {"hu", "quiet", "react"}
      BY <1>5 DEF HuAccept, HuPass, QuietPass, Pass, HuClaim, EatYes
  <2>2. Conserved(v)  BY <2>1 DEF Kept, Started, Ended
  <2> QED  BY <1>0, <1>5, <2>2, ConservedStill
<1>6. CASE QuietGang
  <2>1. Conserved(v)  BY <1>6 DEF QuietGang, Kept, Started, Ended
  <2> QED  BY <1>0, <1>6, <2>1, ConservedQuietGang
<1>7. ASSUME NEW i \in Slots, discard(i) PROVE Conserved(v)'
  <2>1. Conserved(v)  BY <1>7 DEF discard, Kept, Started, Ended
  <2> QED  BY <1>0, <1>7, <2>1, ConservedDiscard
<1>8. CASE GangClaim \/ PongClaim
  <2>1. pc = "react"  BY <1>8 DEF GangClaim, PongClaim
  <2>2. Conserved(v)  BY <2>1 DEF Kept, Started, Ended
  <2> QED  BY <1>0, <1>8, <2>2, ConservedClaim
<1>9. ASSUME NEW e1 \in Slots, NEW e2 \in Slots, Eat(e1, e2) PROVE Conserved(v)'
  <2>1. Conserved(v)  BY <1>9 DEF Eat, Kept, Started, Ended
  <2> QED  BY <1>0, <1>9, <2>1, ConservedEat
<1>10. CASE Unclaimed
  <2>1. Conserved(v)  BY <1>10 DEF Unclaimed, Kept, Started, Ended
  <2> QED  BY <1>0, <1>10, <2>1, ConservedUnclaimed
<1>11. CASE DrawPastEnd \/ CountNull \/ GameOver \/ Disconnect \/ NextRound
  <2>1. pc' \in Ended \cup {"deal"}
      BY <1>11 DEF DrawPastEnd, CountNull, GameOver, Disconnect, NextRound, Ended
  <2> QED  BY <2>1 DEF Started
<1>12. CASE UNCHANGED vars
  <2>1. UNCHANGED <<wall, take_index, decks, nc, flowers, door, sea, discarded_mj, pc,
                    client, winner, playernow>>
      BY <1>12 DEF vars, hands
  <2>2. Conserved(v)  BY <2>1 DEF Kept, Started
  <2>3. \A p \in Players : Owned(p)' = Owned(p)
      BY <2>1 DEF Owned, Hung, Live, Holding
  <2>4. \A p \in Players : Stake(p, v)' = Stake(p, v)
      BY <2>1, <2>3 DEF Stake, InHand, OnDoor, InSea, Aside
  <2>5. Stakes(v)' = Stakes(v)  BY <2>4 DEF Stakes, Players
  <2> QED  BY <2>1, <2>2, <2>5 DEF Conserved, Left, Shown, OnOffer
<1> QED
    BY <1>1, <1>2, <1>3, <1>4, <1>5, <1>6, <1>7, <1>8, <1>9, <1>10, <1>11, <1>12
    DEF Next, Step

\* Every round begins with nothing in the hands and aside.
LEMMA BareNext == Bare /\ [Next]_vars => Bare'
<1> SUFFICES ASSUME Bare, [Next]_vars, pc' = "deal" PROVE Bare'
    BY DEF Bare
<1>1. CASE NextRound  BY <1>1 DEF NextRound, Bare
<1>2. CASE UNCHANGED vars  BY <1>2 DEF vars, hands, Bare
<1>3. CASE Step /\ ~NextRound
  <2>1. pc' # "deal"
      BY <1>3 DEF Step, Deal, has_flower, StartPlay, draw, DrawPastEnd, HuAccept, HuPass,
         QuietGang, QuietPass, discard, CountNull, Pass, HuClaim, GangClaim, PongClaim,
         EatYes, Eat, Unclaimed, GameOver, Return
  <2> QED  BY <2>1
<1>4. CASE Disconnect  BY <1>4 DEF Disconnect
<1> QED  BY <1>1, <1>2, <1>3, <1>4 DEF Next

\* The invariant the conservation of the tiles rests on.
Ledger == TypeOK /\ Shape /\ Whole /\ Tidy /\ Bare /\ Kept

\* The invariant holds throughout every game.
LEMMA LedgerInvariant == Spec => []Ledger
<1>1. Init => Whole /\ Tidy /\ Bare /\ Kept
    BY DEF Init, Whole, Tidy, InPlay, Bare, Kept, Started
<1>2. Init => Ledger  BY <1>1, TypeInit DEF Ledger
<1>3. Ledger /\ [Next]_vars => Ledger'
    BY TypeNext, WholeNext, TidyNext, BareNext, KeptNext DEF Ledger
<1> QED  BY <1>2, <1>3, PTL DEF Spec

\* In every game, of every kind of tile, the wall, the hands, the doors, the
\* seas, the flowers aside and the open discard together have as many as
\* were shuffled: no claim, sort, eat or discard of the server creates or
\* destroys a tile.
THEOREM TilesConserved == Spec => []TileConservation
<1>1. Ledger => TileConservation
  <2> SUFFICES ASSUME Ledger, pc \notin Ended, NEW v \in Tile PROVE Conserved(v)
      BY ConservationIsKept
  <2>1. CASE pc = "deal"  BY <2>1, ConservedBare DEF Ledger
  <2>2. CASE pc # "deal"  BY <2>2 DEF Ledger, Kept, Started
  <2> QED  BY <2>1, <2>2
<1> QED  BY <1>1, LedgerInvariant, PTL

-----------------------------------------------------------------------------
(* Flowers                                                                 *)

\* A slot that holds v is tallied, and two slots are tallied twice.
LEMMA TallyFinds ==
    ASSUME NEW d, NEW S, IsFiniteSet(S), NEW v, NEW i \in S, d[i] = v
    PROVE  /\ Tally(d, S, v) \in Nat /\ Tally(d, S, v) >= 1
           /\ \A j \in S : (j # i /\ d[j] = v) => Tally(d, S, v) >= 2
<1>1. PICK A : A = S \ {i}  OBVIOUS
<1>2. \A x : x \in A <=> x \in S /\ x # i  BY <1>1
<1>3. /\ Tally(d, S, v) = Tally(d, A, v) + One(d[i], v)
      /\ Tally(d, A, v) \in Nat /\ IsFiniteSet(A)
    BY <1>2, TallyWithout
<1>4. One(d[i], v) = 1  BY DEF One
<1>5. ASSUME NEW j \in S, j # i, d[j] = v PROVE Tally(d, A, v) # 0
  <2>1. j \in A  BY <1>2, <1>5
  <2> QED  BY <1>3, <1>5, <2>1, TallyZero
<1>6. PICK a \in Nat : a = Tally(d, A, v)  BY <1>3
<1>7. Tally(d, S, v) = a + 1  BY <1>3, <1>4, <1>6
<1> QED  BY <1>5, <1>6, <1>7

\* The flowers put aside are finitely many.
LEMMA FlowersFinite == IsFiniteSet(FLOWER) /\ \A S \in SUBSET FLOWER : IsFiniteSet(S)
<1>1. IsFiniteSet(51..58)
  <2>1. PICK a \in Int, b \in Int : a = 51 /\ b = 58  OBVIOUS
  <2>2. IsFiniteSet(a..b)  BY FS_Interval
  <2> QED  BY <2>1, <2>2
<1>2. FLOWER \subseteq 51..58  BY DEF FLOWER
<1>3. \A S \in SUBSET FLOWER : S \subseteq 51..58  BY <1>2
<1> QED  BY <1>1, <1>2, <1>3, PartSize

\* During the deal a flower is in one slot of one hand or aside with one
\* player, and it was in the wall.
LEMMA FlowersApart ==
    ASSUME TypeOK, Shape, pc = "regrab", NEW v \in FLOWER, Conserved(v),
           NEW q \in Players
    PROVE  /\ \A i, j \in FlowerSlots(q) : (decks[q][i] = v /\ decks[q][j] = v) => i = j
           /\ \A i \in FlowerSlots(q) : decks[q][i] = v => \A p \in Players : v \notin flowers[p]
           /\ \A p \in Players : (v \in flowers[p] /\ v \in flowers[q]) => p = q
           /\ (v \in flowers[q] \/ \E i \in FlowerSlots(q) : decks[q][i] = v)
                 => \E k \in 0..(WallSize - 1) : wall[k] = v
<1>0. WallSize \in Nat  BY ConstantFacts
<1>1. Owned(q) = Slots
  <2>1. pc # "draw" /\ ~Hung  BY DEF Hung
  <2> QED  BY <2>1, OwnedCases
<1>2. PICK d : d = decks[q]  OBVIOUS
<1>3. InHand(q, v) = Tally(d, Slots, v)  BY <1>1, <1>2 DEF InHand
<1>4. IsFiniteSet(Slots) /\ FlowerSlots(q) \subseteq Slots  BY SlotsFinite DEF FlowerSlots
<1>5. \A p \in Players : /\ InHand(p, v) \in Nat /\ OnDoor(p, v) \in Nat
                         /\ InSea(p, v) \in Nat /\ Aside(p, v) \in Nat
    BY PartsNat
<1>6. Left(v) \in Nat /\ Shown(v) \in Nat  BY PartsNat
<1>7. /\ Left(v) + Stakes(v) + Shown(v) <= 1
    BY OneFlower
<1>8. \A p \in Players : /\ Stake(p, v) \in Nat
                         /\ InHand(p, v) + Aside(p, v) <= Stake(p, v)
    BY <1>5 DEF Stake
<1>9. /\ \A p \in Players : Stake(p, v) <= Stakes(v)
      /\ \A p \in Players : p # q => Stake(p, v) + Stake(q, v) <= Stakes(v)
      /\ Stakes(v) \in Nat
  <2>1. 0 \in Players /\ 1 \in Players /\ 2 \in Players /\ 3 \in Players  BY DEF Players
  <2>2. PICK a \in Nat, b \in Nat, c \in Nat, e \in Nat :
            a = Stake(0, v) /\ b = Stake(1, v) /\ c = Stake(2, v) /\ e = Stake(3, v)
      BY <1>8, <2>1
  <2>3. Stakes(v) = a + b + c + e  BY <2>2 DEF Stakes
  <2>4. ASSUME NEW p \in Players
        PROVE  Stake(p, v) <= Stakes(v) /\ (p # q => Stake(p, v) + Stake(q, v) <= Stakes(v))
    <3>1. p \in {0, 1, 2, 3} /\ q \in {0, 1, 2, 3}  BY DEF Players
    <3> QED  BY <2>2, <2>3, <3>1
  <2> QED  BY <2>2, <2>3, <2>4
<1>10. Stakes(v) <= 1  BY <1>6, <1>7, <1>9
<1>11. \A p \in Players : v \in flowers[p] => Aside(p, v) = 1  BY DEF Aside
<1>12. ASSUME NEW i \in FlowerSlots(q), decks[q][i] = v PROVE InHand(q, v) >= 1
  <2>1. i \in Slots /\ d[i] = v  BY <1>2, <1>4, <1>12
  <2> QED  BY <1>3, <1>4, <2>1, TallyFinds
<1>13. ASSUME NEW i \in FlowerSlots(q), NEW j \in FlowerSlots(q),
              decks[q][i] = v, decks[q][j] = v
       PROVE  i = j
  <2>1. i \in Slots /\ j \in Slots /\ d[i] = v /\ d[j] = v  BY <1>2, <1>4, <1>13
  <2>2. i # j => Tally(d, Slots, v) >= 2  BY <1>4, <2>1, TallyFinds
  <2>3. InHand(q, v) <= 1  BY <1>5, <1>8, <1>9, <1>10
  <2> QED  BY <1>3, <1>5, <2>2, <2>3
<1>14. ASSUME NEW i \in FlowerSlots(q), decks[q][i] = v, NEW p \in Players
       PROVE  v \notin flowers[p]
  <2>1. InHand(q, v) >= 1  BY <1>12, <1>14
  <2>2. Stake(q, v) >= 1  BY <1>5, <1>8, <2>1
  <2>3. CASE p = q  BY <1>5, <1>8, <1>9, <1>10, <1>11, <2>1, <2>3
  <2>4. CASE p # q  BY <1>5, <1>8, <1>9, <1>10, <1>11, <2>2, <2>4
  <2> QED  BY <2>3, <2>4
<1>15. ASSUME NEW p \in Players, v \in flowers[p], v \in flowers[q] PROVE p = q
    BY <1>5, <1>8, <1>9, <1>10, <1>11, <1>15
<1>16. ASSUME v \in flowers[q] \/ \E i \in FlowerSlots(q) : decks[q][i] = v
       PROVE  \E k \in 0..(WallSize - 1) : wall[k] = v
  <2>1. Stake(q, v) >= 1  BY <1>5, <1>8, <1>11, <1>12, <1>16
  <2>2. Left(v) + Stakes(v) + Shown(v) >= 1  BY <1>6, <1>8, <1>9, <2>1
  <2>3. Tally(wall, 0..(WallSize - 1), v) # 0  BY <1>6, <1>9, <2>2 DEF Conserved
  <2>4. PICK R, s : R = 0..(WallSize - 1) /\ s = wall  OBVIOUS
  <2>5. IsFiniteSet(R)  BY <1>0, <2>4, SlotRange
  <2>6. \E k \in R : s[k] = v  BY <2>3, <2>4, <2>5, TallyZero
  <2> QED  BY <2>4, <2>6
<1> QED  BY <1>13, <1>14, <1>15, <1>16

\* A pass of has_flower finds as many kinds of flowers as slots.
LEMMA FoundKinds ==
    ASSUME NEW F, IsFiniteSet(F), NEW d, \A i, j \in F : d[i] = d[j] => i = j,
           NEW G, G = {d[i] : i \in F}
    PROVE  IsFiniteSet(G) /\ Cardinality(G) = Cardinality(F)
<1> DEFINE g == [i \in F |-> d[i]]
<1>1. g \in [F -> G]  OBVIOUS
<1>2. \A i, j \in F : g[i] = g[j] => i = j  OBVIOUS
<1>3. \A k \in G : \E i \in F : g[i] = k  OBVIOUS
<1> HIDE DEF g
<1>4. g \in Bijection(F, G)
    BY <1>1, <1>2, <1>3 DEF Bijection, Injection, Surjection, IsInjective
<1>5. ExistsBijection(F, G)  BY <1>4 DEF ExistsBijection
<1> QED  BY <1>5, FS_Bijection

\* The flowers a pass of has_flower finds are new ones.
LEMMA NewFlowers ==
    ASSUME TypeOK, Shape, pc = "regrab", Kept, NEW q \in Players,
           NEW G, G = {decks[q][i] : i \in FlowerSlots(q)}
    PROVE  /\ G \subseteq FLOWER /\ IsFiniteSet(G)
           /\ Cardinality(G) = Cardinality(FlowerSlots(q))
           /\ \A p \in Players : \A x : ~(x \in G /\ x \in flowers[p])
<1>1. PICK Fl, d : Fl = FlowerSlots(q) /\ d = decks[q]  OBVIOUS
<1>2. Fl \subseteq Slots /\ G = {d[i] : i \in Fl} /\ \A i \in Fl : d[i] \in FLOWER
    BY <1>1 DEF FlowerSlots
<1>3. IsFiniteSet(Fl)  BY <1>2, SlotsFinite
<1>4. \A v \in FLOWER : Conserved(v)  BY DEF Kept, Started, Ended, Tile
<1>5. \A i, j \in Fl : d[i] = d[j] => i = j
  <2> SUFFICES ASSUME NEW i \in Fl, NEW j \in Fl, d[i] = d[j] PROVE i = j
      OBVIOUS
  <2>1. PICK v \in FLOWER : v = d[i] /\ v = d[j]  BY <1>2
  <2>2. Conserved(v)  BY <1>4
  <2> QED  BY <1>1, <2>1, <2>2, FlowersApart
<1>6. IsFiniteSet(G) /\ Cardinality(G) = Cardinality(Fl)  BY <1>2, <1>3, <1>5, FoundKinds
<1>7. \A p \in Players : \A x : ~(x \in G /\ x \in flowers[p])
  <2> SUFFICES ASSUME NEW p \in Players, NEW x \in G PROVE x \notin flowers[p]
      OBVIOUS
  <2>1. PICK i \in Fl : x = d[i]  BY <1>2
  <2>2. x \in FLOWER  BY <1>2, <2>1
  <2>3. Conserved(x)  BY <1>4, <2>2
  <2> QED  BY <1>1, <2>1, <2>2, <2>3, FlowersApart
<1> QED  BY <1>1, <1>2, <1>6, <1>7

\* draw() takes a flower from the wall, where the ones put aside are not.
LEMMA DrawnFlower ==
    ASSUME TypeOK, Shape, Kept, draw, wall[take_index] \in FLOWER
    PROVE  wall[take_index] \notin flowers[playernow]
<1>0. WallSize \in Nat /\ take_index \in Nat /\ take_index < WallSize
    BY ConstantFacts DEF TypeOK, draw
<1>a. PICK v \in FLOWER, q \in Players : v = wall[take_index] /\ q = playernow
    BY DEF TypeOK
<1>b. PICK s, R : s = wall /\ R = take_index..(WallSize - 1)  OBVIOUS
<1>1. /\ v = wall[take_index] /\ q = playernow /\ s = wall /\ R = take_index..(WallSize - 1)
    BY <1>a, <1>b
<1>2. Conserved(v)  BY DEF draw, Kept, Started, Ended, Tile
<1>3. Left(v) + Stake(q, v) + Shown(v) <= 1  BY <1>2, OneFlower
<1>4. take_index \in R /\ s[take_index] = v  BY <1>0, <1>1
<1>5. IsFiniteSet(R)
  <2>1. PICK a \in Int, b \in Int : a = take_index /\ b = WallSize - 1  BY <1>0
  <2>2. IsFiniteSet(a..b)  BY FS_Interval
  <2> QED  BY <1>1, <2>1, <2>2
<1>6. Left(v) >= 1  BY <1>1, <1>4, <1>5, TallyFinds DEF Left
<1>7. /\ InHand(q, v) \in Nat /\ OnDoor(q, v) \in Nat /\ InSea(q, v) \in Nat
      /\ Aside(q, v) \in Nat /\ Left(v) \in Nat /\ Shown(v) \in Nat
    BY PartsNat
<1>8. Aside(q, v) = 0
  <2>1. Left(v) + (InHand(q, v) + OnDoor(q, v) + InSea(q, v) + Aside(q, v)) + Shown(v) <= 1
      BY <1>3 DEF Stake
  <2>2. \A a, b, c, e, f, g \in Nat : a + (b + c + e + f) + g <= 1 /\ a >= 1 => f = 0
      OBVIOUS
  <2> QED  BY <1>6, <1>7, <2>1, <2>2
<1>9. v \notin flowers[q]  BY <1>8 DEF Aside
<1> QED  BY <1>1, <1>9

\* Every step that puts flowers aside counts each of them once.
LEMMA FlowersNext == Ledger /\ FlowersOnce /\ [Next]_vars => FlowersOnce'
<1> SUFFICES ASSUME Ledger, FlowersOnce, [Next]_vars, NEW p \in Players
             PROVE  flower_index'[p] = Cardinality(flowers'[p])
    BY DEF FlowersOnce
<1>0. TypeOK /\ Shape /\ Kept  BY DEF Ledger
<1>1. /\ flower_index[p] = Cardinality(flowers[p]) /\ flower_index[p] \in Nat
      /\ flowers[p] \in SUBSET FLOWER
    BY <1>0 DEF FlowersOnce, TypeOK
<1>2. CASE has_flower
  <2>1. PICK q \in Players : q = (playernow + playeradd) % 4
      BY <1>0 DEF TypeOK, Players
  <2>2. PICK G : G = {decks[q][i] : i \in FlowerSlots(q)}  OBVIOUS
  <2>3. PICK m : m = Cardinality(FlowerSlots(q))  OBVIOUS
  <2>4. /\ pc = "regrab" /\ flowers' = [flowers EXCEPT ![q] = @ \cup G]
        /\ flower_index' = [flower_index EXCEPT ![q] = @ + m]
      BY <1>2, <2>1, <2>2, <2>3 DEF has_flower
  <2>5. /\ IsFiniteSet(G) /\ Cardinality(G) = m /\ \A x : ~(x \in G /\ x \in flowers[q])
      BY <1>0, <2>2, <2>3, <2>4, NewFlowers
  <2>6. CASE p = q
    <3>1. PICK A, C : A = flowers[q] /\ C = A \cup G  OBVIOUS
    <3>2. IsFiniteSet(A) /\ A \cap G = {}  BY <1>1, <2>5, <2>6, <3>1, FlowersFinite
    <3>3. Cardinality(C) = Cardinality(A) + Cardinality(G)  BY <2>5, <3>1, <3>2, TwoParts
    <3>4. flowers'[q] = C /\ flower_index'[q] = flower_index[q] + m
        BY <1>0, <2>4, <3>1 DEF TypeOK
    <3> QED  BY <1>1, <2>5, <2>6, <3>1, <3>3, <3>4
  <2>7. CASE p # q  BY <1>0, <1>1, <2>4, <2>7 DEF TypeOK
  <2> QED  BY <2>6, <2>7
<1>3. CASE draw
  <2>a. PICK q \in Players : q = playernow  BY <1>0 DEF TypeOK
  <2>b. PICK t : t = wall[take_index]  OBVIOUS
  <2>1. q = playernow /\ t = wall[take_index]  BY <2>a, <2>b
  <2>2. \/ flowers' = flowers /\ flower_index' = flower_index
        \/ /\ t \in FLOWER /\ flowers' = [flowers EXCEPT ![q] = @ \cup {t}]
           /\ flower_index' = [flower_index EXCEPT ![q] = @ + 1]
      BY <1>3, <2>1 DEF draw
  <2>3. CASE flowers' = flowers /\ flower_index' = flower_index  BY <1>1, <2>3
  <2>4. CASE /\ t \in FLOWER /\ flowers' = [flowers EXCEPT ![q] = @ \cup {t}]
             /\ flower_index' = [flower_index EXCEPT ![q] = @ + 1]
    <3>1. t \notin flowers[q]  BY <1>0, <1>3, <2>1, <2>4, DrawnFlower
    <3>2. CASE p = q
      <4>1. PICK A : A = flowers[q]  OBVIOUS
      <4>2. IsFiniteSet(A)  BY <1>1, <3>2, <4>1, FlowersFinite
      <4>3. Cardinality(A \cup {t}) = Cardinality(A) + 1
          BY <3>1, <4>1, <4>2, FS_AddElement
      <4>4. flowers'[q] = A \cup {t} /\ flower_index'[q] = flower_index[q] + 1
          BY <1>0, <2>4, <4>1 DEF TypeOK
      <4> QED  BY <1>1, <3>2, <4>1, <4>3, <4>4
    <3>3. CASE p # q  BY <1>0, <1>1, <2>4, <3>3 DEF TypeOK
    <3> QED  BY <3>2, <3>3
  <2> QED  BY <2>2, <2>3, <2>4
<1>4. CASE NextRound
  <2>1. flower_index'[p] = 0 /\ flowers'[p] = {}  BY <1>4 DEF NextRound
  <2> QED  BY <2>1, FS_EmptySet
<1>5. CASE ~(has_flower \/ draw \/ NextRound)
  <2>1. flowers' = flowers /\ flower_index' = flower_index
      BY <1>5 DEF Next, Step, Deal, StartPlay, DrawPastEnd, HuAccept, HuPass, QuietGang,
         QuietPass, discard, CountNull, Pass, HuClaim, GangClaim, PongClaim, TakesTurn,
         EatYes, Eat, Unclaimed, GameOver, Disconnect, vars, hands
  <2> QED  BY <1>1, <2>1
<1> QED  BY <1>2, <1>3, <1>4, <1>5

\* In every game a flower is put aside once and counted once: flower_index
\* is the number of flowers of the player, and so at most the eight entries
\* of the array.
THEOREM FlowersCountedOnce == Spec => []FlowersOnce
<1>1. Init => FlowersOnce  BY FS_EmptySet DEF Init, FlowersOnce
<1>2. Ledger /\ FlowersOnce /\ [Next]_vars => FlowersOnce'  BY FlowersNext
<1> QED  BY <1>1, <1>2, LedgerInvariant, PTL DEF Spec

\* During the deal the wall has given the hands and the flowers' tiles.
Taken == pc = "regrab" => take_index = 4 * HandSize + Total(flower_index)

\* A pass of has_flower takes a tile for each flower it finds.
LEMMA TakenNext == TypeOK /\ Shape /\ Taken /\ [Next]_vars => Taken'
<1> SUFFICES ASSUME TypeOK, Shape, Taken, [Next]_vars, pc' = "regrab"
             PROVE  take_index' = 4 * HandSize + Total(flower_index)'
    BY DEF Taken
<1>0. HandSize \in Nat /\ take_index \in Nat  BY ConstantFacts DEF TypeOK
<1>1. CASE Deal
  <2>1. take_index' = 4 * HandSize /\ flower_index' = [p \in Players |-> 0]
      BY <1>1 DEF Deal, Shape
  <2>2. Total(flower_index)' = 0  BY <2>1 DEF Total, Players
  <2> QED  BY <1>0, <2>1, <2>2
<1>2. CASE has_flower
  <2>1. PICK q \in Players : q = (playernow + playeradd) % 4
      BY DEF TypeOK, Players
  <2>2. FlowerSlots(q) \subseteq Slots  BY DEF FlowerSlots
  <2>3. PICK m \in Nat : m = Cardinality(FlowerSlots(q))
      BY <2>2, SlotsFinite, FS_CardinalityType
  <2>4. /\ pc = "regrab" /\ take_index' = take_index + m
        /\ flower_index' = [flower_index EXCEPT ![q] = @ + m]
      BY <1>2, <2>1, <2>3 DEF has_flower
  <2>5. PICK f \in [Players -> Int] : f = flower_index  BY DEF TypeOK
  <2>6. PICK v \in Int : v = f[q] + m  OBVIOUS
  <2>7. Total([f EXCEPT ![q] = v]) = Total(f) - f[q] + v  BY TotalExcept
  <2>8. Total(f) \in Int  BY TotalInt
  <2>9. Total(flower_index') = Total(f) + m  BY <2>4, <2>5, <2>6, <2>7, <2>8
  <2>10. take_index = 4 * HandSize + Total(f)  BY <2>4, <2>5 DEF Taken
  <2>11. Total(flower_index)' = Total(flower_index')  BY DEF Total
  <2> QED  BY <1>0, <2>4, <2>8, <2>9, <2>10, <2>11
<1>3. CASE UNCHANGED vars
  <2>1. UNCHANGED <<pc, take_index, flower_index>>  BY <1>3 DEF vars, hands
  <2> QED  BY <2>1 DEF Taken, Total
<1>4. CASE Next /\ ~Deal /\ ~has_flower
  <2>1. pc' # "regrab"
      BY <1>4 DEF Next, Step, StartPlay, draw, DrawPastEnd, HuAccept, HuPass, QuietGang,
         QuietPass, discard, CountNull, Pass, HuClaim, GangClaim, PongClaim, EatYes, Eat,
         Unclaimed, NextRound, GameOver, Disconnect, Return
  <2> QED  BY <2>1
<1> QED  BY <1>1, <1>2, <1>3, <1>4

\* Two sets are disjoint.
Disjoint(A, B) == \A x : ~(x \in A /\ x \in B)

\* Five disjoint parts of a finite set have at most its members.
LEMMA FiveParts ==
    ASSUME NEW K, IsFiniteSet(K), NEW a \in SUBSET K, NEW b \in SUBSET K,
           NEW c \in SUBSET K, NEW d \in SUBSET K, NEW e \in SUBSET K,
           Disjoint(a, b), Disjoint(a, c), Disjoint(a, d), Disjoint(a, e), Disjoint(b, c),
           Disjoint(b, d), Disjoint(b, e), Disjoint(c, d), Disjoint(c, e), Disjoint(d, e)
    PROVE  Cardinality(a) + Cardinality(b) + Cardinality(c) + Cardinality(d) + Cardinality(e)
             <= Cardinality(K)
<1>1. IsFiniteSet(a) /\ IsFiniteSet(b) /\ IsFiniteSet(c) /\ IsFiniteSet(d) /\ IsFiniteSet(e)
    BY PartSize
<1>2. PICK ab : ab = a \cup b  OBVIOUS
<1>3. PICK abc : abc = ab \cup c  OBVIOUS
<1>4. PICK abcd : abcd = abc \cup d  OBVIOUS
<1>5. PICK all : all = abcd \cup e  OBVIOUS
<1>6. /\ IsFiniteSet(ab) /\ Cardinality(ab) = Cardinality(a) + Cardinality(b)
      /\ Cardinality(a) \in Nat /\ Cardinality(b) \in Nat
  <2>1. a \cap b = {}  BY DEF Disjoint
  <2> QED  BY <1>1, <1>2, <2>1, TwoParts
<1>7. /\ IsFiniteSet(abc) /\ Cardinality(abc) = Cardinality(ab) + Cardinality(c)
      /\ Cardinality(c) \in Nat
  <2>1. ab \cap c = {}  BY <1>2 DEF Disjoint
  <2> QED  BY <1>1, <1>3, <1>6, <2>1, TwoParts
<1>8. /\ IsFiniteSet(abcd) /\ Cardinality(abcd) = Cardinality(abc) + Cardinality(d)
      /\ Cardinality(d) \in Nat
  <2>1. abc \cap d = {}  BY <1>2, <1>3 DEF Disjoint
  <2> QED  BY <1>1, <1>4, <1>7, <2>1, TwoParts
<1>9. /\ Cardinality(all) = Cardinality(abcd) + Cardinality(e) /\ Cardinality(e) \in Nat
  <2>1. abcd \cap e = {}  BY <1>2, <1>3, <1>4 DEF Disjoint
  <2> QED  BY <1>1, <1>5, <1>8, <2>1, TwoParts
<1>10. Cardinality(all) <= Cardinality(K)
  <2>1. all \subseteq K  BY <1>2, <1>3, <1>4, <1>5
  <2> QED  BY <2>1, PartSize
<1>11. Cardinality(K) \in Nat  BY FS_CardinalityType
<1> QED  BY <1>6, <1>7, <1>8, <1>9, <1>10, <1>11

\* The places of flowers among the first m tiles of s, and their kinds.
FlowerPlaces(s, m) == {k \in 0..(m - 1) : s[k] \in FLOWER}
KindsAt(s, W) == {s[k] : k \in W}

\* The kinds of flowers in the wall are no more than their places in it.
LEMMA FlowerKinds ==
    ASSUME NEW s, NEW m \in Nat, NEW W, W = FlowerPlaces(s, m), NEW K, K = KindsAt(s, W)
    PROVE  /\ IsFiniteSet(K) /\ Cardinality(K) \in Nat /\ Cardinality(W) \in Nat
           /\ Cardinality(K) <= Cardinality(W)
<1>1. IsFiniteSet(0..(m - 1)) /\ W \subseteq 0..(m - 1)  BY SlotRange DEF FlowerPlaces
<1>2. IsFiniteSet(W) /\ Cardinality(W) \in Nat  BY <1>1, PartSize
<1> DEFINE g == [k \in W |-> s[k]]
<1>3. g \in [W -> K] /\ \A x \in K : \E k \in W : g[k] = x  BY DEF KindsAt
<1> HIDE DEF g
<1>4. g \in Surjection(W, K)  BY <1>3 DEF Surjection
<1>5. IsFiniteSet(K) /\ Cardinality(K) <= Cardinality(W)  BY <1>2, <1>4, FS_Surjection
<1> QED  BY <1>2, <1>5, FS_CardinalityType

\* What has been put aside and what a pass would find were in the wall.
LEMMA RegrabBound ==
    ASSUME Ledger, FlowersOnce, Taken, pc = "regrab", NEW q \in Players
    PROVE  take_index + Cardinality(FlowerSlots(q)) < WallSize
<1>0. /\ TypeOK /\ Shape /\ Kept /\ WallSize \in Nat /\ HandSize \in Nat
    BY ConstantFacts DEF Ledger
<1>1. PICK s, m : s = wall /\ m = WallSize  OBVIOUS
<1>2. PICK W : W = FlowerPlaces(s, m)  OBVIOUS
<1>3. PICK K : K = KindsAt(s, W)  OBVIOUS
<1>4. /\ IsFiniteSet(K) /\ Cardinality(K) \in Nat /\ Cardinality(W) \in Nat
      /\ Cardinality(K) <= Cardinality(W)
    BY <1>0, <1>1, <1>2, <1>3, FlowerKinds
<1>5. 4 * HandSize + Cardinality(W) < WallSize
    BY <1>0, <1>1, <1>2, WallAssumption DEF Shape, FlowerPlaces
<1>6. PICK G : G = {decks[q][i] : i \in FlowerSlots(q)}  OBVIOUS
<1>7. /\ G \subseteq FLOWER /\ IsFiniteSet(G)
      /\ Cardinality(G) = Cardinality(FlowerSlots(q))
      /\ \A p \in Players : \A x : ~(x \in G /\ x \in flowers[p])
    BY <1>0, <1>6, NewFlowers
<1>8. \A v \in FLOWER : Conserved(v)  BY <1>0 DEF Kept, Started, Ended, Tile
<1>9. ASSUME NEW v \in FLOWER, \E k \in 0..(WallSize - 1) : wall[k] = v PROVE v \in K
    BY <1>1, <1>2, <1>3, <1>9 DEF FlowerPlaces, KindsAt
<1>10. \A p \in Players : flowers[p] \in SUBSET K
  <2> SUFFICES ASSUME NEW p \in Players, NEW v \in flowers[p] PROVE v \in K
      OBVIOUS
  <2>1. v \in FLOWER  BY <1>0 DEF TypeOK
  <2> QED  BY <1>0, <1>8, <1>9, <2>1, FlowersApart
<1>11. G \in SUBSET K
  <2> SUFFICES ASSUME NEW v \in G PROVE v \in K
      OBVIOUS
  <2>1. v \in FLOWER /\ \E i \in FlowerSlots(q) : decks[q][i] = v  BY <1>6, <1>7
  <2> QED  BY <1>0, <1>8, <1>9, <2>1, FlowersApart
<1>12. \A p \in Players : \A r \in Players : p # r => Disjoint(flowers[p], flowers[r])
  <2> SUFFICES ASSUME NEW p \in Players, NEW r \in Players, p # r,
                      NEW v \in flowers[p], v \in flowers[r]
               PROVE  FALSE
      BY DEF Disjoint
  <2>1. v \in FLOWER  BY <1>0 DEF TypeOK
  <2> QED  BY <1>0, <1>8, <2>1, FlowersApart
<1>13. \A p \in Players : Disjoint(flowers[p], G)  BY <1>7 DEF Disjoint
<1>14. 0 \in Players /\ 1 \in Players /\ 2 \in Players /\ 3 \in Players  BY DEF Players
<1>15. PICK a, b, c, d : a = flowers[0] /\ b = flowers[1] /\ c = flowers[2] /\ d = flowers[3]
    OBVIOUS
<1>16. /\ a \in SUBSET K /\ b \in SUBSET K /\ c \in SUBSET K /\ d \in SUBSET K
       /\ Disjoint(a, b) /\ Disjoint(a, c) /\ Disjoint(a, d) /\ Disjoint(b, c)
       /\ Disjoint(b, d) /\ Disjoint(c, d)
       /\ Disjoint(a, G) /\ Disjoint(b, G) /\ Disjoint(c, G) /\ Disjoint(d, G)
    BY <1>10, <1>12, <1>13, <1>14, <1>15
<1>17. Cardinality(a) + Cardinality(b) + Cardinality(c) + Cardinality(d) + Cardinality(G)
         <= Cardinality(K)
    BY <1>4, <1>11, <1>16, FiveParts
<1>18. /\ flower_index[0] = Cardinality(a) /\ flower_index[1] = Cardinality(b)
       /\ flower_index[2] = Cardinality(c) /\ flower_index[3] = Cardinality(d)
    BY <1>14, <1>15 DEF FlowersOnce
<1>19. Total(flower_index) + Cardinality(G) <= Cardinality(K)  BY <1>17, <1>18 DEF Total
<1>20. PICK t \in Int : t = Total(flower_index)
  <2>1. flower_index \in [Players -> Int]  BY <1>0 DEF TypeOK
  <2> QED  BY <2>1, TotalInt
<1>21. PICK n \in Nat : n = Cardinality(G)  BY <1>7, FS_CardinalityType
<1>22. take_index = 4 * HandSize + t  BY <1>20 DEF Taken
<1>23. t + n <= Cardinality(K)  BY <1>19, <1>20, <1>21
<1> QED  BY <1>0, <1>4, <1>5, <1>7, <1>21, <1>22, <1>23

\* In every deal the replacement of flowers stays within the wall: whichever
\* hand is looked through next, has_flower finds a tile for each flower.
THEOREM RegrabStaysInWall == Spec => []RegrabInWall
<1>1. Init => Taken  BY DEF Init, Taken
<1>2. Ledger => TypeOK /\ Shape  BY DEF Ledger
<1>3. Spec => []Taken  BY <1>1, <1>2, TakenNext, LedgerInvariant, PTL DEF Spec
<1>4. Ledger /\ FlowersOnce /\ Taken => RegrabInWall
  <2> SUFFICES ASSUME Ledger, FlowersOnce, Taken, pc = "regrab", NEW q \in Players
               PROVE  take_index + Cardinality(FlowerSlots(q)) <= WallSize
      BY DEF RegrabInWall
  <2>1. PICK n \in Nat : n = Cardinality(FlowerSlots(q))
    <3>1. FlowerSlots(q) \subseteq Slots  BY DEF FlowerSlots
    <3> QED  BY <3>1, SlotsFinite, FS_CardinalityType
  <2>2. take_index \in Nat /\ WallSize \in Nat  BY ConstantFacts DEF Ledger, TypeOK
  <2> QED  BY <2>1, <2>2, RegrabBound
<1> QED  BY <1>3, <1>4, LedgerInvariant, FlowersCountedOnce, PTL
=============================================================================
