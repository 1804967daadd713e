---------------------------- MODULE MahjongTable ----------------------------
(***************************************************************************)
(* One table of the mahjong server: the child process that game() runs in, *)
(* from the deal to the vote on the next round, with its four players.     *)
(*                                                                         *)
(* The server asks one player at a time and waits for the answer, so a     *)
(* step of the model is one exchange with one player, together with all    *)
(* the server does up to the next one.  othersreaction() calls itself when *)
(* a claim is followed by a discard; the call is its last action, so the   *)
(* model keeps only whether it runs nested, which decides the value that   *)
(* game() sees (nested results are dropped).                               *)
(***************************************************************************)
EXTENDS HuCheck, Sequences

CONSTANTS WallSize,   \* tiles in shuffled_mjs: 144
          Walls,      \* the shuffles considered: functions on 0..WallSize-1
          Rounds      \* rounds of a game: 4

Players == 0..3

ASSUME WallAssumption ==
    /\ WallSize \in Nat
    /\ \A w \in Walls :
         /\ w \in [0..(WallSize - 1) -> Tile]
         /\ \A t \in Tile : Cardinality({i \in 0..(WallSize - 1) : w[i] = t})
                              <= IF t \in FLOWER THEN 1 ELSE 4
         /\ 4 * HandSize + Cardinality({i \in 0..(WallSize - 1) : w[i] \in FLOWER})
              < WallSize

ASSUME RoundsAssumption == Rounds \in 1..4

VARIABLES
    wall,           \* shuffled_mjs
    take_index,     \* next tile of the wall
    decks,          \* decks[p]: the hand of player p
    nc,             \* nc[p]: normal_capacity
    flowers,        \* flowers[p]: the set of flowers put aside
    flower_index,   \* flower_index[p]: how many entries the array has
    door,           \* door[p]: claimed groups, in the order they were laid
    sea,            \* sea[p]: discards nobody claimed
    discarded_mj,   \* the tile on offer, or Null
    winner,         \* index of the winner, or -1
    playernow,      \* whose turn it is
    startplayer,    \* who started the round
    playeradd,      \* deal(): offset of the player replacing flowers
    no_flower_count,\* deal(): passes in a row that found no flower
    pc,             \* where the server is
    ask,            \* othersreaction(): which of the ten questions is next
    claimed,        \* this turn began with a claim, not with a draw in turn
    nested,         \* othersreaction() was called from othersreaction()
    client          \* the call the client of playernow is in

hands == <<decks, nc, flowers, flower_index, door, sea>>
dealing == <<playeradd, no_flower_count>>
vars == <<wall, take_index, hands, discarded_mj, winner, playernow, startplayer,
          dealing, pc, ask, claimed, nested, client>>

\* The server is waiting for nothing any more.
Ended == {"over", "crashed", "exited"}
PCs == {"deal", "regrab", "draw", "hu", "quiet", "discard", "react", "eat", "set"}
         \cup Ended

EmptyDeck == [i \in Slots |-> Null]

\* player_gameinfo_init and game_init leave nothing from an earlier round.
Init ==
    /\ wall \in Walls
    /\ take_index = 0
    /\ decks = [p \in Players |-> EmptyDeck]
    /\ nc = [p \in Players |-> HandSize]
    /\ flowers = [p \in Players |-> {}]
    /\ flower_index = [p \in Players |-> 0]
    /\ door = [p \in Players |-> <<>>]
    /\ sea = [p \in Players |-> <<>>]
    /\ discarded_mj = Null
    /\ winner = -1
    /\ playernow = 0
    /\ startplayer = 0
    /\ playeradd = 0
    /\ no_flower_count = 0
    /\ pc = "deal"
    /\ ask = 1
    /\ claimed = FALSE
    /\ nested = FALSE
    /\ client = "get_decks"

-----------------------------------------------------------------------------
(* Dealing                                                                 *)

\* Variants: the tiles of one round of dealing overlap with the next's; the
\* player after the last one is not the first.
DealtOverlapping(p, i) ==
    LET add == (p - playernow + 4) % 4
    IN  wall[(i \div 4) * 12 + add * 4 + (i % 4)]
NoWrap(p) == p + 1
NextPlayer(p) == (p + 1) % 4

\* deal(): four tiles at a time to each player, starting with playernow.
DealtTo(p, i) ==
    LET add == (p - playernow + 4) % 4
    IN  wall[(i \div 4) * 16 + add * 4 + (i % 4)]

Deal ==
    /\ pc = "deal"
    /\ decks' = [p \in Players |->
                   [i \in Slots |-> IF i < HandSize THEN DealtTo(p, i) ELSE Null]]
    /\ take_index' = 4 * HandSize
    /\ playeradd' = 0
    /\ no_flower_count' = 0
    /\ pc' = "regrab"
    /\ UNCHANGED <<wall, nc, flowers, flower_index, door, sea, discarded_mj, winner,
                   playernow, startplayer, ask, claimed, nested, client>>

\* has_flower(): one pass over a hand; every flower goes to the player's
\* flowers and is replaced by the next tile of the wall, itself maybe one.
\* (Variants: honours are taken for flowers; all get the same tile.)
HonourSlots(p) == {i \in Slots : decks[p][i] \in DAZI \cup FLOWER}
SameReplacement(p, i) == wall[take_index]
FlowerSlots(p) == {i \in Slots : decks[p][i] \in FLOWER}
Replacement(p, i) == wall[take_index + Cardinality({j \in FlowerSlots(p) : j < i})]

\* Variants: one pass too few is awaited; a pass without a flower does not
\* count.
PassesShort == 3
NeverCounted(found) == 0
\* deal() stops replacing after this many passes in a row without a flower.
FlowerPasses == 4
CountPass(found) == IF found > 0 THEN 0 ELSE no_flower_count + 1

has_flower ==
    LET p == (playernow + playeradd) % 4
        found == Cardinality(FlowerSlots(p))
    IN  /\ pc = "regrab"
        /\ no_flower_count < FlowerPasses
        /\ take_index + found <= WallSize
        /\ flowers' = [flowers EXCEPT ![p] = @ \cup {decks[p][i] : i \in FlowerSlots(p)}]
        /\ flower_index' = [flower_index EXCEPT ![p] = @ + found]
        /\ decks' = [decks EXCEPT ![p] =
                       [i \in Slots |-> IF i \in FlowerSlots(p) THEN Replacement(p, i)
                                        ELSE decks[p][i]]]
        /\ take_index' = take_index + found
        /\ no_flower_count' = CountPass(found)
        /\ playeradd' = (playeradd + 1) % 4
        /\ UNCHANGED <<wall, nc, door, sea, discarded_mj, winner, playernow, startplayer,
                       pc, ask, claimed, nested, client>>

\* The hands are sorted and sent to the clients; playernow is told "your
\* turn" and goes into client_draw().
StartPlay ==
    /\ pc = "regrab"
    /\ no_flower_count = FlowerPasses
    /\ decks' = [p \in Players |-> decks_quick_sort(decks[p], HandSize - 1)]
    /\ pc' = "draw"
    /\ client' = "draw"
    /\ UNCHANGED <<wall, take_index, nc, flowers, flower_index, door, sea, discarded_mj,
                   winner, playernow, startplayer, dealing, ask, claimed, nested>>

-----------------------------------------------------------------------------
(* A player's turn: draw, is_hu, quiet_gang, discard                       *)

\* draw(): the next tile of the wall into slot nc; while it is a flower, it
\* is put aside and another one is taken.
draw ==
    LET t == wall[take_index]
        p == playernow
    IN  /\ pc = "draw" /\ client = "draw"
        /\ take_index < WallSize
        /\ take_index' = take_index + 1
        /\ decks' = [decks EXCEPT ![p][nc[p]] = t]
        /\ IF t \in FLOWER
           THEN /\ flowers' = [flowers EXCEPT ![p] = @ \cup {t}]
                /\ flower_index' = [flower_index EXCEPT ![p] = @ + 1]
                /\ UNCHANGED <<pc, client>>
           ELSE /\ pc' = "hu" /\ client' = "hu"
                /\ UNCHANGED <<flowers, flower_index>>
        /\ UNCHANGED <<wall, nc, door, sea, discarded_mj, winner, playernow, startplayer,
                       dealing, ask, claimed, nested>>

\* draw() does not look at the end of the wall: shuffled_mjs[144] is read
\* and the build's address sanitizer ends the process.
DrawPastEnd ==
    /\ pc = "draw" /\ client = "draw"
    /\ take_index = WallSize
    /\ pc' = "crashed"
    /\ UNCHANGED <<wall, take_index, hands, discarded_mj, winner, playernow, startplayer,
                   dealing, ask, claimed, nested, client>>

\* A variant of the loop of game() that does not look at winner again.
OnDespiteWinner(ret, won) == ret = 0 /\ take_index # WallSize
\* game(): whether the round goes on when othersreaction() has returned ret.
RoundGoesOn(ret, won) == ret = 0 /\ take_index # WallSize /\ won = -1

\* The outermost othersreaction() returns ret: the next player's turn, or
\* the end of the round.  (When winner ends the loop, playernow is advanced
\* once more, which nothing reads.)
Return(ret, won) ==
    IF RoundGoesOn(ret, won)
    THEN /\ playernow' = NextPlayer(playernow)
         /\ pc' = "draw" /\ client' = "draw"
    ELSE /\ pc' = "set" /\ client' = "loop"
         /\ UNCHANGED playernow

\* is_hu(), answered with YES.  Whether called from draw_n_discard or from
\* othersreaction, a 1 is returned; nested, it is dropped on the way.
HuAccept ==
    /\ pc = "hu" /\ client = "hu"
    /\ hu_check(decks[playernow], nc[playernow])
    /\ winner' = playernow
    /\ Return(IF claimed /\ nested THEN 0 ELSE 1, winner')
    /\ claimed' = FALSE
    /\ nested' = FALSE
    /\ UNCHANGED <<wall, take_index, hands, discarded_mj, startplayer, dealing, ask>>

\* Where the client goes when client_is_hu() has returned 0: game() calls
\* client_quiet_gang() only in a turn that began with "your turn".
ClientAfterHu == IF claimed THEN "discard" ELSE "quiet"

\* is_hu(): the hand is not complete, or the player prefers to play on.
\* A claimed turn goes straight to the discard.
HuPass ==
    /\ pc = "hu" /\ client = "hu"
    /\ pc' = IF claimed THEN "discard" ELSE "quiet"
    /\ client' = ClientAfterHu
    /\ UNCHANGED <<wall, take_index, hands, discarded_mj, winner, playernow, startplayer,
                   dealing, ask, claimed, nested>>

\* Variants: the hand shrinks by the two tiles a pong takes from it; it is
\* set to what a first claim leaves.
ShrinkByTwo(n) == n - 2
ShrinkFromFull(n) == HandSize - 3
\* normal_capacity -= 3, for every kind of claim.
Shrink(n) == n - 3

\* Where the client goes when client_quiet_gang() has laid four tiles down:
\* it returns 1, and game() there calls client_draw().
ClientAfterQuietGang == "draw"

\* quiet_gang() answered with YES: four tiles go to the door.  The server's
\* function returns 0 and draw_n_discard goes on to discard().
QuietGang ==
    LET p == playernow
        t == decks[p][nc[p]]
    IN  /\ pc = "quiet" /\ client = "quiet"
        /\ is_gang_possible(decks[p], nc[p], t)
        /\ door' = [door EXCEPT ![p] = @ \o <<t, t, t, t>>]
        /\ decks' = [decks EXCEPT ![p] = Remove(@, nc[p], t, 3)]
        /\ nc' = [nc EXCEPT ![p] = Shrink(@)]
        /\ discarded_mj' = Null
        /\ pc' = "discard"
        /\ client' = ClientAfterQuietGang
        /\ UNCHANGED <<wall, take_index, flowers, flower_index, sea, winner, playernow,
                       startplayer, dealing, ask, claimed, nested>>

\* quiet_gang(): not possible, or declined.
QuietPass ==
    /\ pc = "quiet" /\ client = "quiet"
    /\ pc' = "discard"
    /\ client' = "discard"
    /\ UNCHANGED <<wall, take_index, hands, discarded_mj, winner, playernow, startplayer,
                   dealing, ask, claimed, nested>>

\* client_discard() asks until the index is one of these.
Choosable(p) == 0..nc[p]

\* discard(): slot index is put on offer, the tile of slot nc takes its
\* place and the hand is sorted.
discard(index) ==
    LET p == playernow
    IN  /\ pc = "discard" /\ client = "discard"
        /\ index \in Choosable(p)
        /\ discarded_mj' = decks[p][index]
        /\ decks' = [decks EXCEPT ![p] =
              decks_quick_sort([swap(@, nc[p], index) EXCEPT ![nc[p]] = Null], nc[p] - 1)]
        /\ pc' = "react"
        /\ ask' = 1
        /\ nested' = claimed
        /\ client' = "loop"
        /\ UNCHANGED <<wall, take_index, nc, flowers, flower_index, door, sea, winner,
                       playernow, startplayer, dealing, claimed>>

-----------------------------------------------------------------------------
(* othersreaction(): hu is offered to the three others in turn, then gang  *)
(* to the three, then pong, then eat to the next player only.              *)

Asked == (playernow + ((ask - 1) % 3) + 1) % 4

Offer ==
    LET d == decks[Asked]
        n == nc[Asked]
    IN  CASE ask \in 1..3 -> is_add_hu_possible(d, n, discarded_mj)
          [] ask \in 4..6 -> is_gang_possible(d, n, discarded_mj)
          [] ask \in 7..9 -> is_pong_possible(d, n, discarded_mj)
          [] ask = 10     -> is_eat_possible(d, n, discarded_mj)
          [] OTHER        -> FALSE

\* A variant in which an empty slot of a hand is passed over in silence.
ScansOffer == discarded_mj = Null

\* The tests count the tiles of the hand and the one on offer by kind.  A
\* null tile among them is counted in count[-10], below the array.
ScansNull ==
    \/ discarded_mj = Null
    \/ \E j \in 0..(nc[Asked] - 1) : decks[Asked][j] = Null

\* The address sanitizer ends the process in is_add_hu_possible.
CountNull ==
    /\ pc = "react" /\ ask <= 10
    /\ ScansNull
    /\ pc' = "crashed"
    /\ UNCHANGED <<wall, take_index, hands, discarded_mj, winner, playernow, startplayer,
                   dealing, ask, claimed, nested, client>>

\* The player cannot use the tile, or answers NO.
Pass ==
    /\ pc = "react" /\ ask <= 10
    /\ ~ScansNull
    /\ ask' = ask + 1
    /\ UNCHANGED <<wall, take_index, hands, discarded_mj, winner, playernow, startplayer,
                   dealing, pc, claimed, nested, client>>

\* Case 0, YES: the claimer wins.  A nested call's 1 is not passed on.
HuClaim ==
    /\ pc = "react" /\ ask \in 1..3
    /\ ~ScansNull /\ Offer
    /\ winner' = Asked
    /\ Return(IF nested THEN 0 ELSE 1, winner')
    /\ claimed' = FALSE
    /\ nested' = FALSE
    /\ UNCHANGED <<wall, take_index, hands, discarded_mj, startplayer, dealing, ask>>

\* The player q lays tiles on the door and takes the turn.
TakesTurn(q) ==
    /\ nc' = [nc EXCEPT ![q] = Shrink(@)]
    /\ playernow' = q
    /\ discarded_mj' = Null
    /\ claimed' = TRUE
    /\ UNCHANGED <<wall, take_index, flowers, flower_index, sea, winner, startplayer,
                   dealing, ask, nested>>

\* Case 1, YES: three tiles of the hand and the one on offer; the claimer
\* draws a tile and does not go through quiet_gang.
GangClaim ==
    LET q == Asked
        t == discarded_mj
    IN  /\ pc = "react" /\ ask \in 4..6
        /\ ~ScansNull /\ Offer
        /\ door' = [door EXCEPT ![q] = @ \o <<t, t, t, t>>]
        /\ decks' = [decks EXCEPT ![q] = Remove(@, nc[q], t, 3)]
        /\ pc' = "draw" /\ client' = "draw"
        /\ TakesTurn(q)

\* Case 2, YES: two tiles of the hand and the one on offer.  Slot nc now
\* holds the largest tile left, in the place of a drawn one.
PongClaim ==
    LET q == Asked
        t == discarded_mj
    IN  /\ pc = "react" /\ ask \in 7..9
        /\ ~ScansNull /\ Offer
        /\ door' = [door EXCEPT ![q] = @ \o <<t, t, t>>]
        /\ decks' = [decks EXCEPT ![q] = Remove(@, nc[q], t, 2)]
        /\ pc' = "hu" /\ client' = "hu"
        /\ TakesTurn(q)

\* Case 3, YES: the player is asked which two tiles to eat with.
EatYes ==
    /\ pc = "react" /\ ask = 10
    /\ ~ScansNull /\ Offer
    /\ pc' = "eat"
    /\ UNCHANGED <<wall, take_index, hands, discarded_mj, winner, playernow, startplayer,
                   dealing, ask, claimed, nested, client>>

\* What eating with slots e1 and e2 leaves of the hand: both are emptied,
\* then e1 is swapped with the last slot and e2 with the one before it.
AfterEat(d, n, e1, e2) ==
    swap(swap([d EXCEPT ![e1] = Null, ![e2] = Null], e1, n - 1), e2, n - 2)

\* The choice of two slots of the deck.  A choice that makes no chow with
\* the tile on offer is refused and asked for again, which changes nothing.
Eat(e1, e2) ==
    LET q == Asked
        d == decks[q]
        lo == Min({d[e1], d[e2], discarded_mj})
    IN  /\ pc = "eat"
        /\ eatable(d[e1], d[e2], discarded_mj)
        /\ door' = [door EXCEPT ![q] = @ \o <<lo, lo + 1, lo + 2>>]
        /\ decks' = [decks EXCEPT ![q] =
                       decks_quick_sort(AfterEat(d, nc[q], e1, e2), nc[q] - 3)]
        /\ pc' = "hu" /\ client' = "hu"
        /\ TakesTurn(q)

\* Case 4: nobody wants the tile and it goes to the sea of its player.
Unclaimed ==
    /\ pc = "react" /\ ask = 11
    /\ sea' = [sea EXCEPT ![playernow] = Append(@, discarded_mj)]
    /\ discarded_mj' = Null
    /\ Return(0, winner)
    /\ claimed' = FALSE
    /\ nested' = FALSE
    /\ UNCHANGED <<wall, take_index, decks, nc, flowers, flower_index, door, winner,
                   startplayer, dealing, ask>>

-----------------------------------------------------------------------------
(* The end of a round and of the game                                      *)

\* game_set_display(): all four want another round and there is one left.
\* game_init() and shuffle() start it with the next player.
NextRound ==
    /\ pc = "set"
    /\ startplayer + 1 < Rounds
    /\ startplayer' = startplayer + 1
    /\ playernow' = startplayer + 1
    /\ wall' \in Walls
    /\ take_index' = 0
    /\ decks' = [p \in Players |-> EmptyDeck]
    /\ nc' = [p \in Players |-> HandSize]
    /\ flowers' = [p \in Players |-> {}]
    /\ flower_index' = [p \in Players |-> 0]
    /\ door' = [p \in Players |-> <<>>]
    /\ sea' = [p \in Players |-> <<>>]
    /\ discarded_mj' = Null
    /\ winner' = -1
    /\ ask' = 1
    /\ pc' = "deal" /\ client' = "get_decks"
    /\ UNCHANGED <<dealing, claimed, nested>>

\* Somebody wants no more, or this was the last round.
GameOver ==
    /\ pc = "set"
    /\ pc' = "over"
    /\ UNCHANGED <<wall, take_index, hands, discarded_mj, winner, playernow, startplayer,
                   dealing, ask, claimed, nested, client>>

\* A client goes away: the next exchange with it fails and the server's
\* write_message_wait_ack or read_and_ack ends the process with exit(1).
Disconnect ==
    /\ pc \notin Ended
    /\ pc' = "exited"
    /\ UNCHANGED <<wall, take_index, hands, discarded_mj, winner, playernow, startplayer,
                   dealing, ask, claimed, nested, client>>

\* What the server and the answers of the players do.
Step ==
    \/ Deal \/ has_flower \/ StartPlay
    \/ draw \/ DrawPastEnd \/ HuAccept \/ HuPass \/ QuietGang \/ QuietPass
    \/ \E i \in Slots : discard(i)
    \/ CountNull \/ Pass \/ HuClaim \/ GangClaim \/ PongClaim \/ EatYes
    \/ \E e1, e2 \in Slots : Eat(e1, e2)
    \/ Unclaimed \/ NextRound \/ GameOver

Next == Step \/ Disconnect

Spec == Init /\ [][Next]_vars

\* The server never idles while it can go on, and a player who is asked
\* answers in the end.
FairSpec == Spec /\ WF_vars(Step)

-----------------------------------------------------------------------------
(* Properties                                                              *)

\* take_index stays within the wall and normal_capacity within the decks
\* array, the hands hold tiles or null tiles, and the turn, the question and
\* the two programs' places are ones the code has.  (What bounds the entries
\* of flowers[8], door[20] and sea is FlowersOnce, DoorMatchesHand and
\* Accounting, below.)
TypeOK ==
    /\ wall \in [0..(WallSize - 1) -> Tile]
    /\ take_index \in 0..WallSize
    /\ decks \in [Players -> [Slots -> Entry]]
    /\ nc \in [Players -> 0..HandSize]
    /\ flowers \in [Players -> SUBSET FLOWER]
    /\ flower_index \in [Players -> Nat]
    /\ door \in [Players -> Seq(Tile)]
    /\ sea \in [Players -> Seq(Tile)]
    /\ discarded_mj \in Entry
    /\ winner \in Players \cup {-1}
    /\ playernow \in Players
    /\ startplayer \in 0..(Rounds - 1)
    /\ playeradd \in 0..3
    /\ no_flower_count \in 0..FlowerPasses
    /\ pc \in PCs
    /\ ask \in 1..11
    /\ claimed \in BOOLEAN /\ nested \in BOOLEAN
    /\ client \in {"get_decks", "loop", "draw", "hu", "quiet", "discard"}

\* After a quiet gang the server waits for the index of a discard and the
\* client for a tile: neither ever comes.
Hung == pc = "discard" /\ client = "draw"

\* The player at turn has the tile of slot nc as well; after the round, the
\* winner by a tile of his own still has it.
Holding ==
    \/ pc \in {"hu", "quiet", "discard"} /\ ~Hung
    \/ pc = "set" /\ winner = playernow

\* A discarded tile lies open: it is on offer, or the winner claimed it.
OnOffer ==
    \/ pc \in {"react", "eat"}
    \/ pc = "set" /\ winner \notin {-1, playernow}

Live(p) == 0..(nc[p] - (IF Holding /\ p = playernow THEN 0 ELSE 1))

\* Eat can leave a null tile among the live ones of a hand, and a tile
\* stranded above them.
Holed(p) == \E i \in Live(p) : decks[p][i] = Null

InSeq(s, t) == Cardinality({i \in DOMAIN s : s[i] = t})
Total(f) == f[0] + f[1] + f[2] + f[3]

\* The slots of the decks array whose tiles are the player's: all of them,
\* but for the copy left in slot nc while another tile is drawn for a flower
\* and the one left behind by a quiet gang.
Owned(p) ==
    IF p = playernow /\ Hung THEN Live(p)
    ELSE IF p = playernow /\ pc = "draw" THEN Slots \ {nc[p]} ELSE Slots

\* No claim, removal, sort or discard creates or destroys a tile: of every
\* kind, the wall, the decks, the doors, the seas, the flowers and the open
\* discard always have as many as were shuffled.
TileConservation ==
    pc \notin Ended =>
        \A t \in Tile :
            Cardinality({i \in 0..(WallSize - 1) : wall[i] = t}) =
              Cardinality({i \in take_index..(WallSize - 1) : wall[i] = t})
              + Total([p \in Players |->
                         Cardinality({i \in Owned(p) : decks[p][i] = t})
                         + InSeq(door[p], t) + InSeq(sea[p], t)
                         + (IF t \in flowers[p] THEN 1 ELSE 0)])
              + (IF OnOffer /\ discarded_mj = t THEN 1 ELSE 0)

\* The indices the server keeps always add up to the tiles taken from the
\* wall, whatever was claimed: no array runs ahead of the tiles dealt.
Accounting ==
    pc \notin Ended \cup {"deal"} =>
        take_index = Total(nc) + Total(flower_index)
                     + Total([p \in Players |-> Len(door[p])])
                     + Total([p \in Players |-> Len(sea[p])])
                     + (IF Holding THEN 1 ELSE 0) + (IF OnOffer THEN 1 ELSE 0)

\* A claim shortens the hand by three and lays three or four tiles down,
\* and at least one tile stays: door[20] holds what five claims lay down.
DoorMatchesHand ==
    \A p \in Players :
        /\ nc[p] % 3 = 1
        /\ HandSize - nc[p] <= Len(door[p])
        /\ 3 * Len(door[p]) <= 4 * (HandSize - nc[p])

\* A flower is put aside once, so flower_index stays within flowers[8].
FlowersOnce ==
    \A p \in Players : flower_index[p] = Cardinality(flowers[p])

\* Replacing flowers during the deal stays within the wall.
RegrabInWall ==
    pc = "regrab" => \A p \in Players :
        take_index + Cardinality(FlowerSlots(p)) <= WallSize

\* Once play has begun no flower is in a hand, on a door, in a sea or on
\* offer: is_hu and the claim tests index count[34] by playable tiles only.
NoFlowerInPlay ==
    pc \notin {"deal", "regrab"} \cup Ended =>
        /\ discarded_mj \notin FLOWER
        /\ \A p \in Players :
             /\ \A i \in Live(p) : decks[p][i] \notin FLOWER
             /\ \A i \in DOMAIN door[p] : door[p][i] \notin FLOWER
             /\ \A i \in DOMAIN sea[p] : sea[p][i] \notin FLOWER

\* Between turns every hand is sorted, and nothing is left above the live
\* tiles of a hand that no eat has damaged: an index beyond them that a
\* player types finds no tile.
HandsTidy ==
    pc \notin {"deal", "regrab"} \cup Ended =>
        \A p \in Players :
            /\ \A i \in 0..(nc[p] - 2) : decks[p][i] <= decks[p][i + 1]
            /\ (p # playernow /\ ~Holed(p)) =>
                  \A i \in nc[p]..HandSize : decks[p][i] = Null

\* A player who has agreed to eat has two slots to name, so the loop that
\* asks for them can be left.
EatHasChoice ==
    pc = "eat" =>
        \E e1, e2 \in 0..(nc[Asked] - 1) :
            eatable(decks[Asked][e1], decks[Asked][e2], discarded_mj)

\* quiet_gang never counts a null tile: a hand damaged by an eat does not
\* get a turn of its own before one of the others' tests has met it.
QuietGangCountsReal ==
    pc = "quiet" => ~Holed(playernow)

\* Once there is a winner the round is over, although the value returned by
\* a nested othersreaction() is dropped.
WinnerEndsRound ==
    winner # -1 => pc \in {"set"} \cup Ended

\* Every round comes to an end, be it a bad one.
RoundEnds ==
    pc = "deal" ~> (pc \in {"set"} \cup Ended \/ Hung)

-----------------------------------------------------------------------------
(* What comments in the server say of it, and does not hold                *)

\* "no more game" once take_index is 144: no tile is drawn from an empty
\* wall.  (game() looks only when othersreaction() has returned.)
DrawsWithinWall ==
    ~(pc = "draw" /\ take_index = WallSize)

\* "totally 34 kinds of mjs" and "all the numbers here should be 1-indexed":
\* only real tiles are counted in count[34].
CountsRealTiles ==
    (pc = "react" /\ ask <= 10) => ~ScansNull

\* "After four rounds, the game is over": if no player leaves and the wall
\* and the hands stay sound, the game comes to its end.
GameEnds ==
    <>(pc \in Ended)
=============================================================================
