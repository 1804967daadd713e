---------------------------- MODULE MirrorProofs ----------------------------
(***************************************************************************)
(* The clients' copies of the table, for every hand size, wall and number  *)
(* of rounds: they never differ from the server's.                         *)
(***************************************************************************)
EXTENDS ClientMirror, MahjongTableProofs

-----------------------------------------------------------------------------
(* What goes over the line                                                 *)

\* The discard line says which tile it is: what a client makes of the three
\* characters it looks at is the tile the server wrote them for.
LEMMA HeardAnnounced ==
    ASSUME NEW t \in Playable
    PROVE  Heard(Announced(t)) = t
<1>1. CASE t \in DAZI
  <2>1. t % 10 \in 1..7 /\ t = 40 + (t % 10) /\ DOMAIN DaziWords = 1..7
      BY <1>1 DEF DAZI, DaziWords
  <2>2. PICK k \in 1..7 : k = t % 10  BY <2>1
  <2>3. \A n \in 1..7 : DaziWords[n] = DaziWords[k] => n = k
      BY DEF DaziWords
  <2>4. DaziWords[k] # "digit"  BY DEF DaziWords
  <2>5. PICK m : m = Announced(t)  OBVIOUS
  <2>6. m.at29 = DaziWords[k]  BY <1>1, <2>2, <2>5 DEF Announced
  <2>7. (CHOOSE n \in DOMAIN DaziWords : DaziWords[n] = m.at29) = k
      BY <2>1, <2>3, <2>6
  <2>8. Heard(m) = 40 + k  BY <2>4, <2>6, <2>7 DEF Heard
  <2> QED  BY <2>1, <2>2, <2>5, <2>8
<1>2. CASE t \in Suited
  <2>1. t \notin DAZI  BY <1>2 DEF Suited, DAZI
  <2>2. PICK g \in 1..3 : g = t \div 10 /\ t = 10 * g + (t % 10)
      BY <1>2 DEF Suited
  <2>3. PICK m : m = Announced(t)  OBVIOUS
  <2>4. /\ m.at29 = "digit" /\ m.digit = t % 10
        /\ m.at31 = SuitWords[g][1] /\ m.at32 = SuitWords[g][2]
      BY <2>1, <2>2, <2>3 DEF Announced
  <2>5. HeardSuit(m) = 10 * g
    <3>1. CASE g = 1  BY <2>4, <3>1 DEF SuitWords, HeardSuit
    <3>2. CASE g = 2  BY <2>4, <3>2 DEF SuitWords, HeardSuit
    <3>3. CASE g = 3  BY <2>4, <3>3 DEF SuitWords, HeardSuit
    <3> QED  BY <3>1, <3>2, <3>3
  <2>6. Heard(m) = HeardSuit(m) + m.digit  BY <2>4 DEF Heard
  <2> QED  BY <2>2, <2>3, <2>4, <2>5, <2>6
<1> QED  BY <1>1, <1>2 DEF Playable

\* The three entries of f are lo and the two after it, in some order.
InRow(f, lo) == {f[0], f[1], f[2]} = {lo, lo + 1, lo + 2}

\* The three tiles of a chow, sorted by the client, are what the server
\* lays down: the least of them and the two after it.
LEMMA SortedChow ==
    ASSUME NEW f \in [0..2 -> Nat], NEW lo \in Nat, InRow(f, lo)
    PROVE  /\ decks_quick_sort(f, 2)[0] = lo
           /\ decks_quick_sort(f, 2)[1] = lo + 1
           /\ decks_quick_sort(f, 2)[2] = lo + 2
<1>1. PICK a, b, c \in 0..2 : f[a] = lo /\ f[b] = lo + 1 /\ f[c] = lo + 2
    BY DEF InRow
<1>2. a # b /\ a # c /\ b # c /\ 0..2 = {a, b, c}
    BY <1>1
<1> DEFINE Below(v) == {m \in 0..2 : f[m] <= v}
<1>3. Below(lo) = {a} /\ Below(lo + 1) = {a, b} /\ Below(lo + 2) = {a, b, c}
    BY <1>1, <1>2
<1>4. /\ Cardinality(Below(lo)) = 1 /\ Cardinality(Below(lo + 1)) = 2
      /\ Cardinality(Below(lo + 2)) = 3
  <2>1. IsFiniteSet({a}) /\ Cardinality({a}) = 1  BY FS_Singleton
  <2>2. IsFiniteSet({a} \cup {b}) /\ Cardinality({a} \cup {b}) = 2
    <3>1. b \notin {a}  BY <1>2
    <3>2. PICK A : A = {a}  OBVIOUS
    <3>3. IsFiniteSet(A \cup {b}) /\ Cardinality(A \cup {b}) = Cardinality(A) + 1
        BY <2>1, <3>1, <3>2, FS_AddElement
    <3> QED  BY <2>1, <3>2, <3>3
  <2>3. Cardinality(({a} \cup {b}) \cup {c}) = 3
    <3>1. PICK B : B = {a} \cup {b}  OBVIOUS
    <3>2. c \notin B  BY <1>2, <3>1
    <3>3. Cardinality(B \cup {c}) = Cardinality(B) + 1
        BY <2>2, <3>1, <3>2, FS_AddElement
    <3> QED  BY <2>2, <3>1, <3>3
  <2>4. {a, b} = {a} \cup {b} /\ {a, b, c} = ({a} \cup {b}) \cup {c}  OBVIOUS
  <2> QED  BY <1>3, <2>1, <2>2, <2>3, <2>4
<1>5. {f[j] : j \in 0..2} = {lo, lo + 1, lo + 2}
    BY <1>1, <1>2
<1> HIDE DEF Below
<1>6. ASSUME NEW i \in 0..2 PROVE Nth(f, 0..2, i) = lo + i
  <2> DEFINE S == {v \in {f[j] : j \in 0..2} : Cardinality(Below(v)) > i}
  <2>1. S = {lo + k : k \in i..2}
    <3>1. \A k \in 0..2 : Cardinality(Below(lo + k)) = k + 1  BY <1>4
    <3>2. \A k \in 0..2 : lo + k \in S <=> k >= i  BY <1>5, <3>1
    <3>3. \A v \in S : \E k \in 0..2 : v = lo + k  BY <1>5
    <3> QED  BY <3>2, <3>3
  <2>2. S \in SUBSET Nat /\ lo + i \in S  BY <2>1
  <2>3. Min(S) \in S /\ \A y \in S : Min(S) <= y  BY <2>2, MinExists
  <2>4. PICK k \in i..2 : Min(S) = lo + k  BY <2>1, <2>3
  <2>5. lo + k <= lo + i  BY <2>2, <2>3, <2>4
  <2>6. Nth(f, 0..2, i) = Min(S)  BY DEF Nth, Below
  <2> QED  BY <2>4, <2>5, <2>6
<1>7. \A i \in 0..2 : decks_quick_sort(f, 2)[i] = Nth(f, 0..2, i)
    BY DEF decks_quick_sort
<1> QED  BY <1>6, <1>7
-----------------------------------------------------------------------------
(* The invariant                                                           *)

\* Before the hands are sent a client has what client_game_init() left it
\* with, and so has the server but for the tiles dealt and the flowers among
\* them; slot HandSize of a hand is still empty.
Untouched ==
    /\ pc = "deal" => flowers = [p \in Players |-> {}]
    /\ pc \in {"deal", "regrab"} =>
          /\ nc = [p \in Players |-> HandSize]
          /\ door = [p \in Players |-> <<>>] /\ sea = [p \in Players |-> <<>>]
          /\ cdecks = [p \in Players |-> EmptyDeck]
          /\ cnc = [p \in Players |-> HandSize]
          /\ cflowers = [p \in Players |-> {}]
          /\ cflower_index = [p \in Players |-> 0]
          /\ cdoor = [p \in Players |-> <<>>] /\ csea = [p \in Players |-> <<>>]
    /\ pc = "regrab" => \A p \in Players : decks[p][HandSize] = Null

\* The copies agree, and so does what each client takes the discard to be.
Same ==
    /\ cdecks = decks /\ cnc = nc
    /\ cflowers = flowers /\ cflower_index = flower_index
    /\ cdoor = door /\ csea = sea
Told == \A q \in Players : cdiscarded[q] = discarded_mj

MInv ==
    /\ Untouched
    /\ InPlay => Same
    /\ (pc \in {"react", "eat"} /\ discarded_mj # Null) => Told

\* Everything the induction carries along.
Kept == TypeOK /\ Shape /\ FlowersAside /\ MInv

\* Every step of the composition is one of the table's.
LEMMA MNextIsNext == [MNext]_mvars => [Next]_vars
<1> SUFFICES ASSUME [MNext]_mvars PROVE [Next]_vars
    OBVIOUS
<1>1. CASE client_game_init \/ get_decks \/ client_draw \/ client_unclaimed
    BY <1>1 DEF client_game_init, get_decks, client_draw, client_unclaimed, Next, Step
<1>2. CASE \E i \in Slots : client_discard(i)
    BY <1>2 DEF client_discard, Next, Step
<1>3. CASE client_quiet_gang \/ client_gang \/ client_pong
    BY <1>3 DEF client_quiet_gang, client_gang, client_pong, Next, Step
<1>4. CASE \E e1, e2 \in Slots : client_eat(e1, e2)
    BY <1>4 DEF client_eat, Next, Step
<1>5. CASE Elsewhere  BY <1>5 DEF Elsewhere, Next, Step
<1>6. CASE UNCHANGED mvars  BY <1>6 DEF mvars
<1> QED  BY <1>1, <1>2, <1>3, <1>4, <1>5, <1>6 DEF MNext

\* client_game_init() and game_init() leave the same behind.
LEMMA MirrorInit == MInit => MInv
    BY DEF MInit, Init, MInv, Untouched, Cleared, InPlay

\* The same for a further round.
LEMMA MirrorNextRound ==
    ASSUME client_game_init PROVE MInv'
<1>1. /\ pc' = "deal" /\ flowers' = [p \in Players |-> {}]
      /\ nc' = [p \in Players |-> HandSize]
      /\ door' = [p \in Players |-> <<>>] /\ sea' = [p \in Players |-> <<>>]
    BY DEF client_game_init, NextRound
<1>2. /\ cdecks' = [p \in Players |-> EmptyDeck]
      /\ cnc' = [p \in Players |-> HandSize]
      /\ cflowers' = [p \in Players |-> {}]
      /\ cflower_index' = [p \in Players |-> 0]
      /\ cdoor' = [p \in Players |-> <<>>] /\ csea' = [p \in Players |-> <<>>]
    BY DEF client_game_init, Cleared
<1> QED  BY <1>1, <1>2 DEF MInv, Untouched, InPlay

\* The hands are sent tile by tile, all but the empty last slot.
LEMMA MirrorGetDecks ==
    ASSUME Kept, get_decks PROVE MInv'
<1>0. HandSize \in Nat  BY ConstantFacts
<1>1. /\ pc = "regrab" /\ pc' = "draw"
      /\ decks' = [p \in Players |-> decks_quick_sort(decks[p], HandSize - 1)]
      /\ UNCHANGED <<nc, flowers, flower_index, door, sea, discarded_mj>>
    BY DEF get_decks, StartPlay
<1>2. /\ cdecks' = [p \in Players |->
                      [i \in Slots |-> IF i < HandSize THEN decks'[p][i] ELSE cdecks[p][i]]]
      /\ cflowers' = [p \in Players |-> cflowers[p] \cup flowers[p]]
      /\ cflower_index' = [p \in Players |-> cflower_index[p] + flower_index[p]]
      /\ UNCHANGED <<cnc, cdoor, csea, cdiscarded>>
    BY DEF get_decks
<1>3. Untouched  BY DEF Kept, MInv
<1>4. decks' \in [Players -> [Slots -> Entry]]
    BY TypeStartPlay DEF Kept, get_decks, TypeOK
<1>5. \A p \in Players : decks'[p][HandSize] = Null
  <2>1. SUFFICES ASSUME NEW p \in Players PROVE decks'[p][HandSize] = Null
      OBVIOUS
  <2>2. decks[p] \in [Slots -> Entry] /\ HandSize - 1 \in -1..HandSize
      BY <1>0 DEF Kept, TypeOK
  <2>3. HandSize \in Slots /\ HandSize > HandSize - 1  BY <1>0 DEF Slots
  <2>4. decks_quick_sort(decks[p], HandSize - 1)[HandSize] = decks[p][HandSize]
      BY <2>2, <2>3, SortMembers
  <2> QED  BY <1>1, <1>3, <2>4 DEF Untouched
<1>6. cdecks' = decks'
  <2>1. ASSUME NEW p \in Players, NEW i \in Slots
        PROVE  (IF i < HandSize THEN decks'[p][i] ELSE cdecks[p][i]) = decks'[p][i]
    <3>1. CASE i < HandSize  BY <3>1
    <3>2. CASE ~(i < HandSize)
      <4>1. i = HandSize  BY <1>0, <3>2 DEF Slots
      <4>2. cdecks[p][i] = Null  BY <1>1, <1>3 DEF Untouched, EmptyDeck
      <4> QED  BY <1>5, <3>2, <4>1, <4>2
    <3> QED  BY <3>1, <3>2
  <2> QED  BY <1>2, <1>4, <2>1
<1>7. cflowers' = flowers'
  <2>1. flowers \in [Players -> SUBSET FLOWER]  BY DEF Kept, TypeOK
  <2>2. \A p \in Players : cflowers[p] = {}  BY <1>1, <1>3 DEF Untouched
  <2>3. \A p \in Players : cflowers[p] \cup flowers[p] = flowers[p]  BY <2>2
  <2> QED  BY <1>1, <1>2, <2>1, <2>3
<1>8. cflower_index' = flower_index'
  <2>1. flower_index \in [Players -> Nat]  BY DEF Kept, TypeOK
  <2>2. \A p \in Players : cflower_index[p] = 0  BY <1>1, <1>3 DEF Untouched
  <2>3. \A p \in Players : cflower_index[p] + flower_index[p] = flower_index[p]
      BY <2>1, <2>2
  <2> QED  BY <1>1, <1>2, <2>1, <2>3
<1>9. Same'
    BY <1>1, <1>2, <1>3, <1>6, <1>7, <1>8 DEF Same, Untouched
<1> QED  BY <1>1, <1>9 DEF MInv, Untouched

\* A drawn tile, or flower, goes to the same places.
LEMMA MirrorDraw ==
    ASSUME Kept, client_draw PROVE MInv'
<1>1. PICK p : p = playernow  OBVIOUS
<1>2. PICK t : t = wall[take_index]  OBVIOUS
<1>3. /\ pc = "draw" /\ pc' \in {"draw", "hu"}
      /\ decks' = [decks EXCEPT ![p][nc[p]] = t]
      /\ UNCHANGED <<nc, door, sea>>
    BY <1>1, <1>2 DEF client_draw, draw
<1>4. /\ flowers' = [flowers EXCEPT ![p] = IF t \in FLOWER THEN @ \cup {t} ELSE @]
      /\ flower_index' = [flower_index EXCEPT ![p] = IF t \in FLOWER THEN @ + 1 ELSE @]
    BY <1>1, <1>2 DEF client_draw, draw, Kept, TypeOK
<1>5. /\ cdecks' = [cdecks EXCEPT ![p][cnc[p]] = t]
      /\ cflowers' = [cflowers EXCEPT ![p] = IF t \in FLOWER THEN @ \cup {t} ELSE @]
      /\ cflower_index' = [cflower_index EXCEPT ![p] = IF t \in FLOWER THEN @ + 1 ELSE @]
      /\ UNCHANGED <<cnc, cdoor, csea, cdiscarded>>
    BY <1>1, <1>2 DEF client_draw
<1>6. Same  BY <1>3 DEF Kept, MInv, InPlay, Ended
<1>7. Same'  BY <1>3, <1>4, <1>5, <1>6 DEF Same
<1> QED  BY <1>3, <1>7 DEF MInv, Untouched

\* The tile of a discard is the one at the index typed, in both copies, and
\* every other client hears which it was.
LEMMA MirrorDiscard ==
    ASSUME Kept, NEW i \in Slots, client_discard(i) PROVE MInv'
<1>1. PICK p \in Players : p = playernow  BY DEF Kept, TypeOK
<1>2. pc = "discard" /\ InPlay  BY DEF client_discard, discard, InPlay, Ended
<1>3. Same  BY <1>2 DEF Kept, MInv
<1>4. /\ pc' = "react" /\ discarded_mj' = decks[p][i]
      /\ decks' = [decks EXCEPT ![p] = AfterDiscard(decks[p], nc[p], i)]
      /\ UNCHANGED <<nc, flowers, flower_index, door, sea>>
    BY <1>1 DEF client_discard, discard, AfterDiscard
<1>5. /\ cdecks' = [cdecks EXCEPT ![p] = AfterDiscard(cdecks[p], cnc[p], i)]
      /\ cdiscarded' = [q \in Players |->
                          IF q = p THEN cdecks[p][i]
                          ELSE IF discarded_mj' \in Playable
                               THEN Heard(Announced(discarded_mj')) ELSE cdiscarded[q]]
      /\ UNCHANGED <<cnc, cflowers, cflower_index, cdoor, csea>>
    BY <1>1 DEF client_discard
<1>6. Same'  BY <1>3, <1>4, <1>5 DEF Same
<1>7. discarded_mj' # Null => Told'
  <2>1. SUFFICES ASSUME discarded_mj' # Null PROVE Told'
      OBVIOUS
  <2>2. discarded_mj' \in Playable
    <3>1. decks[p][i] \in Entry  BY DEF Kept, TypeOK
    <3>2. decks[p][i] \notin FLOWER  BY <1>2 DEF Kept, FlowersAside
    <3> QED  BY <1>4, <2>1, <3>1, <3>2, PlayableTile
  <2>3. Heard(Announced(discarded_mj')) = discarded_mj'  BY <2>2, HeardAnnounced
  <2>4. cdecks[p][i] = discarded_mj'  BY <1>3, <1>4 DEF Same
  <2> QED  BY <1>5, <2>2, <2>3, <2>4 DEF Told
<1> QED  BY <1>4, <1>6, <1>7 DEF MInv, Untouched

\* A gang or a pong is laid down and removed by the same rules on both sides.
LEMMA MirrorLays ==
    ASSUME Same, NEW q \in Players, NEW t, NEW need, NEW laid, NEW x,
           LaysDown(q, t, laid, need), x = [i \in 1..laid |-> t],
           door' = [door EXCEPT ![q] = @ \o x],
           decks' = [decks EXCEPT ![q] = Remove(@, nc[q], t, need)],
           nc' = [nc EXCEPT ![q] = @ - 3],
           UNCHANGED <<flowers, flower_index, sea>>
    PROVE  Same'
BY DEF Same, LaysDown

\* The claims of a gang and of a pong.
LEMMA MirrorClaim ==
    ASSUME Kept, client_gang \/ client_pong \/ client_quiet_gang PROVE MInv'
<1>1. CASE client_gang \/ client_pong
  <2>1. GangClaim \/ PongClaim
      BY <1>1 DEF client_gang, client_pong
  <2>2. pc = "react" /\ discarded_mj # Null /\ pc' \in {"draw", "hu"}
      BY <2>1 DEF GangClaim, PongClaim, ScansNull
  <2>3. Same /\ Told  BY <2>2 DEF Kept, MInv, InPlay, Ended
  <2>4. PICK q \in Players : q = Asked  BY AskedOther DEF Kept, TypeOK
  <2>5. PICK t : t = discarded_mj  OBVIOUS
  <2>6. cdiscarded[q] = t  BY <2>3, <2>5 DEF Told
  <2>7. nc' = [nc EXCEPT ![q] = @ - 3] /\ UNCHANGED <<flowers, flower_index, sea>>
      BY <2>1, <2>4 DEF GangClaim, PongClaim, TakesTurn, Shrink
  <2>8. Same'
    <3>1. CASE client_gang
      <4>1. LaysDown(q, cdiscarded[q], 4, 3)  BY <2>4, <3>1 DEF client_gang
      <4>2. /\ door' = [door EXCEPT ![q] = @ \o <<t, t, t, t>>]
            /\ decks' = [decks EXCEPT ![q] = Remove(@, nc[q], t, 3)]
          BY <2>4, <2>5, <3>1 DEF client_gang, GangClaim
      <4>3. PICK x : x = [i \in 1..4 |-> t]  OBVIOUS
      <4>4. x = <<t, t, t, t>>  BY <4>3
      <4>5. LaysDown(q, t, 4, 3)  BY <2>6, <4>1
      <4>6. door' = [door EXCEPT ![q] = @ \o x]  BY <4>2, <4>4
      <4> QED  BY <2>3, <2>7, <4>2, <4>3, <4>5, <4>6, MirrorLays
    <3>2. CASE client_pong
      <4>1. LaysDown(q, cdiscarded[q], 3, 2)  BY <2>4, <3>2 DEF client_pong
      <4>2. /\ door' = [door EXCEPT ![q] = @ \o <<t, t, t>>]
            /\ decks' = [decks EXCEPT ![q] = Remove(@, nc[q], t, 2)]
          BY <2>4, <2>5, <3>2 DEF client_pong, PongClaim
      <4>3. PICK x : x = [i \in 1..3 |-> t]  OBVIOUS
      <4>4. x = <<t, t, t>>  BY <4>3
      <4>5. LaysDown(q, t, 3, 2)  BY <2>6, <4>1
      <4>6. door' = [door EXCEPT ![q] = @ \o x]  BY <4>2, <4>4
      <4> QED  BY <2>3, <2>7, <4>2, <4>3, <4>5, <4>6, MirrorLays
    <3> QED  BY <1>1, <3>1, <3>2
  <2> QED  BY <2>2, <2>8 DEF MInv, Untouched
<1>2. CASE client_quiet_gang
  <2>1. PICK p \in Players : p = playernow  BY DEF Kept, TypeOK
  <2>2. PICK t : t = decks[p][nc[p]]  OBVIOUS
  <2>3. /\ pc = "quiet" /\ pc' = "discard"
        /\ door' = [door EXCEPT ![p] = @ \o <<t, t, t, t>>]
        /\ decks' = [decks EXCEPT ![p] = Remove(@, nc[p], t, 3)]
        /\ nc' = [nc EXCEPT ![p] = @ - 3] /\ UNCHANGED <<flowers, flower_index, sea>>
      BY <1>2, <2>1, <2>2 DEF client_quiet_gang, QuietGang, Shrink
  <2>4. Same  BY <2>3 DEF Kept, MInv, InPlay, Ended
  <2>5. LaysDown(p, cdecks[p][cnc[p]], 4, 3) /\ cdecks[p][cnc[p]] = t
      BY <1>2, <2>1, <2>2, <2>4 DEF client_quiet_gang, Same
  <2>6. Same'
    <3>1. PICK x : x = [i \in 1..4 |-> t]  OBVIOUS
    <3>2. x = <<t, t, t, t>>  BY <3>1
    <3>3. LaysDown(p, t, 4, 3)  BY <2>5
    <3>4. door' = [door EXCEPT ![p] = @ \o x]  BY <2>3, <3>2
    <3> QED  BY <2>3, <2>4, <3>1, <3>3, <3>4, MirrorLays
  <2> QED  BY <2>3, <2>6 DEF MInv, Untouched
<1> QED  BY <1>1, <1>2

\* The client sorts the three tiles it lays down; the server counts up from
\* the least.
LEMMA MirrorEat ==
    ASSUME Kept, NEW e1 \in Slots, NEW e2 \in Slots, client_eat(e1, e2) PROVE MInv'
<1>1. PICK q \in Players : q = Asked  BY AskedOther DEF Kept, TypeOK
<1>2. PICK d \in [Slots -> Entry] : d = decks[q]  BY DEF Kept, TypeOK
<1>3. PICK t \in Entry : t = discarded_mj  BY DEF Kept, TypeOK
<1>4. pc = "eat" /\ pc' = "hu" /\ t # Null /\ eatable(d[e1], d[e2], t)
    BY <1>1, <1>2, <1>3 DEF client_eat, Eat, Kept, Shape
<1>5. Same /\ Told  BY <1>3, <1>4 DEF Kept, MInv, InPlay, Ended
<1>6. PICK f : f = [i \in 0..2 |-> <<d[e1], d[e2], t>>[i + 1]]  OBVIOUS
<1>7. f[0] = d[e1] /\ f[1] = d[e2] /\ f[2] = t /\ f \in [0..2 -> Nat]
  <2>1. d[e1] \in 0..58 /\ d[e2] \in 0..58 /\ t \in 0..58  BY EntryBound
  <2>2. f[0] = d[e1] /\ f[1] = d[e2] /\ f[2] = t  BY <1>6
  <2>3. \A i \in 0..2 : f[i] \in Nat  BY <2>1, <2>2
  <2> QED  BY <1>6, <2>2, <2>3
<1>8. PICK lo \in Nat : /\ lo = Min({d[e1], d[e2], t})
                        /\ {d[e1], d[e2], t} = {lo, lo + 1, lo + 2}
  <2>1. Min({d[e1], d[e2], t}) \in Tile  BY <1>4, EatenTiles
  <2>2. Min({d[e1], d[e2], t}) \in 0..58  BY <2>1, EntryBound DEF Entry
  <2>3. PICK lo : lo = Min({d[e1], d[e2], t})  OBVIOUS
  <2>4. lo \in Nat /\ {d[e1], d[e2], t} = {lo, lo + 1, lo + 2}
      BY <1>4, <2>2, <2>3 DEF eatable
  <2> QED  BY <2>3, <2>4
<1>9. PICK three : three = decks_quick_sort(f, 2)  OBVIOUS
<1>10. three[0] = lo /\ three[1] = lo + 1 /\ three[2] = lo + 2
  <2>1. InRow(f, lo)  BY <1>7, <1>8 DEF InRow
  <2>2. f \in [0..2 -> Nat]  BY <1>7
  <2> QED  BY <1>9, <2>1, <2>2, SortedChow
<1>11. /\ door' = [door EXCEPT ![q] = @ \o <<lo, lo + 1, lo + 2>>]
       /\ decks' = [decks EXCEPT ![q] = decks_quick_sort(AfterEat(d, nc[q], e1, e2), nc[q] - 3)]
       /\ nc' = [nc EXCEPT ![q] = @ - 3] /\ UNCHANGED <<flowers, flower_index, sea>>
    BY <1>1, <1>2, <1>3, <1>8 DEF client_eat, Eat, TakesTurn, Shrink
<1>12. cdecks[q] = d /\ cdiscarded[q] = t
    BY <1>2, <1>3, <1>5 DEF Same, Told
<1>13. /\ cdoor' = [cdoor EXCEPT ![q] = @ \o <<three[0], three[1], three[2]>>]
       /\ cdecks' = [cdecks EXCEPT ![q] = decks_quick_sort(AfterEat(d, cnc[q], e1, e2), cnc[q] - 3)]
       /\ cnc' = [cnc EXCEPT ![q] = @ - 3]
       /\ UNCHANGED <<cflowers, cflower_index, csea, cdiscarded>>
    BY <1>1, <1>6, <1>9, <1>12 DEF client_eat
<1>14. Same'  BY <1>5, <1>10, <1>11, <1>13 DEF Same
<1> QED  BY <1>4, <1>14 DEF MInv, Untouched

\* The discard nobody wanted goes to both copies of the sea.
LEMMA MirrorUnclaimed ==
    ASSUME Kept, client_unclaimed PROVE MInv'
<1>1. /\ pc = "react" /\ ask = 11 /\ pc' \in {"draw", "set"}
      /\ sea' = [sea EXCEPT ![playernow] = Append(@, discarded_mj)]
      /\ UNCHANGED <<decks, nc, flowers, flower_index, door>>
    BY DEF client_unclaimed, Unclaimed, Return
<1>2. discarded_mj # Null  BY <1>1 DEF Kept, Shape
<1>3. Same /\ Told  BY <1>1, <1>2 DEF Kept, MInv, InPlay, Ended
<1>4. cdiscarded[playernow] = discarded_mj  BY <1>3 DEF Told, Kept, TypeOK
<1>5. /\ csea' = [csea EXCEPT ![playernow] = Append(@, discarded_mj)]
      /\ UNCHANGED <<cdecks, cnc, cflowers, cflower_index, cdoor, cdiscarded>>
    BY <1>4 DEF client_unclaimed
<1>6. Same'  BY <1>1, <1>3, <1>5 DEF Same
<1> QED  BY <1>1, <1>6 DEF MInv, Untouched

\* While flowers are replaced the last slot of a hand stays empty.
LEMMA MirrorRegrab ==
    ASSUME Kept, Deal \/ has_flower, UNCHANGED mirror PROVE MInv'
<1>0. HandSize \in Nat /\ HandSize \in Slots  BY ConstantFacts DEF Slots
<1>1. /\ pc \in {"deal", "regrab"} /\ pc' = "regrab" /\ UNCHANGED <<nc, door, sea>>
    BY DEF Deal, has_flower
<1>2. UNCHANGED <<cdecks, cnc, cflowers, cflower_index, cdoor, csea>>
    BY DEF mirror
<1>3. Untouched  BY DEF Kept, MInv
<1>4. ASSUME NEW p \in Players PROVE decks'[p][HandSize] = Null
  <2>1. CASE Deal  BY <1>0, <2>1 DEF Deal
  <2>2. CASE has_flower
    <3>1. PICK p0 : p0 = (playernow + playeradd) % 4  OBVIOUS
    <3>2. pc = "regrab" /\ decks' = [decks EXCEPT ![p0] =
                 [i \in Slots |-> IF i \in FlowerSlots(p0) THEN Replacement(p0, i)
                                  ELSE decks[p0][i]]]
        BY <2>2, <3>1 DEF has_flower
    <3>3. decks[p][HandSize] = Null  BY <1>3, <3>2 DEF Untouched
    <3>4. decks \in [Players -> [Slots -> Entry]]  BY DEF Kept, TypeOK
    <3>5. CASE p = p0
      <4>1. HandSize \notin FlowerSlots(p)  BY <3>3 DEF FlowerSlots, Null, FLOWER
      <4> QED  BY <1>0, <3>2, <3>3, <3>4, <3>5, <4>1
    <3>6. CASE p # p0  BY <3>2, <3>3, <3>4, <3>6
    <3> QED  BY <3>5, <3>6
  <2> QED  BY <2>1, <2>2
<1> QED  BY <1>1, <1>2, <1>3, <1>4 DEF MInv, Untouched, InPlay

\* The other steps move no tile, on either side.
LEMMA MirrorElsewhere ==
    ASSUME Kept, Elsewhere PROVE MInv'
<1>1. UNCHANGED <<cdecks, cnc, cflowers, cflower_index, cdoor, csea, cdiscarded>>
      /\ UNCHANGED mirror
    BY DEF Elsewhere, mirror
<1>2. CASE Deal \/ has_flower  BY <1>1, <1>2, MirrorRegrab
<1>3. CASE DrawPastEnd \/ CountNull \/ GameOver \/ Disconnect
  <2>1. pc' \in Ended
      BY <1>3 DEF DrawPastEnd, CountNull, GameOver, Disconnect, Ended
  <2> QED  BY <2>1 DEF MInv, Untouched, InPlay, Ended
<1>4. CASE HuAccept \/ HuPass \/ QuietPass \/ HuClaim
  <2>1. /\ pc \in {"hu", "quiet", "react"} /\ pc' \in {"set", "draw", "quiet", "discard"}
        /\ UNCHANGED <<decks, nc, flowers, flower_index, door, sea>>
      BY <1>4 DEF HuAccept, HuPass, QuietPass, HuClaim, Return, hands
  <2>2. Same  BY <2>1 DEF Kept, MInv, InPlay, Ended
  <2>3. Same'  BY <1>1, <2>1, <2>2 DEF Same
  <2> QED  BY <2>1, <2>3 DEF MInv, Untouched
<1>5. CASE Pass \/ EatYes
  <2>1. /\ pc = "react" /\ pc' \in {"react", "eat"}
        /\ UNCHANGED <<decks, nc, flowers, flower_index, door, sea, discarded_mj>>
      BY <1>5 DEF Pass, EatYes, hands
  <2>2. Same  BY <2>1 DEF Kept, MInv, InPlay, Ended
  <2>3. Same'  BY <1>1, <2>1, <2>2 DEF Same
  <2>4. discarded_mj # Null => Told  BY <2>1 DEF Kept, MInv
  <2>5. discarded_mj' # Null => Told'  BY <1>1, <2>1, <2>4 DEF Told
  <2> QED  BY <2>1, <2>3, <2>5 DEF MInv, Untouched
<1> QED  BY <1>2, <1>3, <1>4, <1>5 DEF Elsewhere

\* Every step of the table and its clients keeps the copies equal.
LEMMA MirrorNext == Kept /\ [MNext]_mvars => Kept'
<1> SUFFICES ASSUME Kept, [MNext]_mvars PROVE Kept'
    OBVIOUS
<1>1. TypeOK' /\ Shape' /\ FlowersAside'
    BY MNextIsNext, TypeNext, AsideNext DEF Kept
<1>2. MInv'
  <2>1. CASE client_game_init  BY <2>1, MirrorNextRound
  <2>2. CASE get_decks  BY <2>2, MirrorGetDecks
  <2>3. CASE client_draw  BY <2>3, MirrorDraw
  <2>4. CASE \E i \in Slots : client_discard(i)  BY <2>4, MirrorDiscard
  <2>5. CASE client_gang \/ client_pong \/ client_quiet_gang  BY <2>5, MirrorClaim
  <2>6. CASE \E e1, e2 \in Slots : client_eat(e1, e2)  BY <2>6, MirrorEat
  <2>7. CASE client_unclaimed  BY <2>7, MirrorUnclaimed
  <2>8. CASE Elsewhere  BY <2>8, MirrorElsewhere
  <2>9. CASE UNCHANGED mvars
      BY <2>9 DEF mvars, vars, hands, mirror, Kept, MInv, Untouched, InPlay, Same, Told
  <2> QED
      BY <2>1, <2>2, <2>3, <2>4, <2>5, <2>6, <2>7, <2>8, <2>9 DEF MNext
<1> QED  BY <1>1, <1>2 DEF Kept

\* Although the server never sends a hand again after the deal, no sequence
\* of draws, flowers, claims, damaged hands and rounds makes a client's copy
\* differ from the server's, and whoever is offered a tile has read it right.
THEOREM ClientsAgree == MSpec => []MirrorsServer
<1>1. MInit => Kept
    BY TypeInit, AsideInit, MirrorInit DEF MInit, Kept
<1>2. Kept => MirrorsServer
  <2> SUFFICES ASSUME Kept, InPlay PROVE MirrorsServer
      BY DEF MirrorsServer, InPlay
  <2>1. Same /\ ((pc \in {"react", "eat"} /\ discarded_mj # Null) => Told)
      BY DEF Kept, MInv
  <2> QED  BY <2>1 DEF Same, Told, MirrorsServer
<1>3. MSpec => []Kept
    BY <1>1, MirrorNext, PTL DEF MSpec
<1> QED  BY <1>2, <1>3, PTL
=============================================================================
