---------------------------- MODULE ClientMirror ----------------------------
(***************************************************************************)
(* The table together with the copies that the four clients keep of their  *)
(* own hands, doors, flowers and seas.  The server never sends a hand      *)
(* again after the deal: each client repeats every update with its own     *)
(* code, on its own arrays, and with the discarded tile as it has read it  *)
(* from the server's line.  A player names tiles by their index in that    *)
(* copy, and the server looks the index up in its own.                     *)
(*                                                                         *)
(* A step is one of the table's with what the clients concerned do in the  *)
(* same exchange.                                                          *)
(***************************************************************************)
EXTENDS MahjongTable

VARIABLES
    cdecks, cnc, cflowers, cflower_index, cdoor, csea,  \* as at the table
    cdiscarded      \* cdiscarded[p]: discarded_mj in client p

mirror == <<cdecks, cnc, cflowers, cflower_index, cdoor, csea, cdiscarded>>
mvars == <<vars, mirror>>

\* client_game_init(): the state of a client when a round starts.
Cleared ==
    [cdecks |-> EmptyDeck, cnc |-> HandSize, cflowers |-> {}, cflower_index |-> 0,
     cdoor |-> <<>>, csea |-> <<>>, cdiscarded |-> Null]

MInit ==
    /\ Init
    /\ cdecks = [p \in Players |-> Cleared.cdecks]
    /\ cnc = [p \in Players |-> Cleared.cnc]
    /\ cflowers = [p \in Players |-> Cleared.cflowers]
    /\ cflower_index = [p \in Players |-> Cleared.cflower_index]
    /\ cdoor = [p \in Players |-> Cleared.cdoor]
    /\ csea = [p \in Players |-> Cleared.csea]
    /\ cdiscarded = [p \in Players |-> Cleared.cdiscarded]

client_game_init ==
    /\ NextRound
    /\ cdecks' = [p \in Players |-> Cleared.cdecks]
    /\ cnc' = [p \in Players |-> Cleared.cnc]
    /\ cflowers' = [p \in Players |-> Cleared.cflowers]
    /\ cflower_index' = [p \in Players |-> Cleared.cflower_index]
    /\ cdoor' = [p \in Players |-> Cleared.cdoor]
    /\ csea' = [p \in Players |-> Cleared.csea]
    /\ cdiscarded' = [p \in Players |-> Cleared.cdiscarded]

\* get_decks(): the sorted hand and the flowers, tile by tile.
get_decks ==
    /\ StartPlay
    /\ cdecks' = [p \in Players |->
                    [i \in Slots |-> IF i < HandSize THEN decks'[p][i] ELSE cdecks[p][i]]]
    /\ cflowers' = [p \in Players |-> cflowers[p] \cup flowers[p]]
    /\ cflower_index' = [p \in Players |-> cflower_index[p] + flower_index[p]]
    /\ UNCHANGED <<cnc, cdoor, csea, cdiscarded>>

\* client_draw()
client_draw ==
    LET p == playernow
        t == wall[take_index]
    IN  /\ draw
        /\ cdecks' = [cdecks EXCEPT ![p][cnc[p]] = t]
        /\ cflowers' = [cflowers EXCEPT ![p] = IF t \in FLOWER THEN @ \cup {t} ELSE @]
        /\ cflower_index' = [cflower_index EXCEPT ![p] = IF t \in FLOWER THEN @ + 1 ELSE @]
        /\ UNCHANGED <<cnc, cdoor, csea, cdiscarded>>

-----------------------------------------------------------------------------
(* The line "(Discard) Player 2 discarded 5 TONG."                         *)

DaziWords == <<"E", "S", "W", "N", "Z", "F", "B">>     \* EAST, SOUTH, ...
SuitWords == << <<"T", "O">>, <<"T", "I">>, <<"W", "A">> >>

\* broadcast_discard_mj(): the characters 29, 31 and 32 of the line.  (With
\* a letter as 29th, nobody looks at the others.)
Announced(t) ==
    IF t \in DAZI THEN [at29 |-> DaziWords[t % 10], digit |-> 0, at31 |-> "", at32 |-> ""]
    ELSE [at29 |-> "digit", digit |-> t % 10,
          at31 |-> SuitWords[t \div 10][1], at32 |-> SuitWords[t \div 10][2]]

\* A variant that tells TONG from TIAO by the wrong letter.
MisheardSuit(m) == IF m.at31 = "W" THEN 30 ELSE IF m.at31 = "O" THEN 10 ELSE 20
\* game() in the client: the type of a suited tile.
HeardSuit(m) == IF m.at31 = "W" THEN 30 ELSE IF m.at32 = "O" THEN 10 ELSE 20

Heard(m) ==
    IF m.at29 # "digit"
    THEN 40 + (CHOOSE n \in DOMAIN DaziWords : DaziWords[n] = m.at29)
    ELSE HeardSuit(m) + m.digit

-----------------------------------------------------------------------------
(* Discards and claims                                                     *)

\* client_discard(): the chosen tile leaves the hand, which is sorted.
AfterDiscard(d, n, i) ==
    decks_quick_sort([swap(d, n, i) EXCEPT ![n] = Null], n - 1)

\* The player chooses by the client's own normal_capacity.  The others are
\* told of the tile the server found at that index, unless it found none.
client_discard(i) ==
    LET p == playernow
    IN  /\ i \in 0..cnc[p]
        /\ discard(i)
        /\ cdecks' = [cdecks EXCEPT ![p] = AfterDiscard(@, cnc[p], i)]
        /\ cdiscarded' = [q \in Players |->
                            IF q = p THEN cdecks[p][i]
                            ELSE IF discarded_mj' \in Playable
                                 THEN Heard(Announced(discarded_mj')) ELSE cdiscarded[q]]
        /\ UNCHANGED <<cnc, cflowers, cflower_index, cdoor, csea>>

\* Client q lays laid copies of t down, need of them from its hand.
LaysDown(q, t, laid, need) ==
    /\ cdoor' = [cdoor EXCEPT ![q] = @ \o [i \in 1..laid |-> t]]
    /\ cdecks' = [cdecks EXCEPT ![q] = Remove(@, cnc[q], t, need)]
    /\ cnc' = [cnc EXCEPT ![q] = @ - 3]
    /\ cdiscarded' = [cdiscarded EXCEPT ![q] = Null]
    /\ UNCHANGED <<cflowers, cflower_index, csea>>

client_quiet_gang ==
    LET p == playernow
    IN  QuietGang /\ LaysDown(p, cdecks[p][cnc[p]], 4, 3)

client_gang == GangClaim /\ LaysDown(Asked, cdiscarded[Asked], 4, 3)
client_pong == PongClaim /\ LaysDown(Asked, cdiscarded[Asked], 3, 2)

\* "eatable.": the same swaps as at the table.  The client keeps its
\* discarded_mj.
client_eat(e1, e2) ==
    LET q == Asked
        d == cdecks[q]
        three == decks_quick_sort([i \in 0..2 |-> << d[e1], d[e2], cdiscarded[q] >>[i + 1]], 2)
    IN  /\ Eat(e1, e2)
        /\ cdoor' = [cdoor EXCEPT ![q] = @ \o << three[0], three[1], three[2] >>]
        /\ cdecks' = [cdecks EXCEPT ![q] =
                        decks_quick_sort(AfterEat(d, cnc[q], e1, e2), cnc[q] - 3)]
        /\ cnc' = [cnc EXCEPT ![q] = @ - 3]
        /\ UNCHANGED <<cflowers, cflower_index, csea, cdiscarded>>

\* "no one wants it."
client_unclaimed ==
    /\ Unclaimed
    /\ csea' = [csea EXCEPT ![playernow] = Append(@, cdiscarded[playernow])]
    /\ UNCHANGED <<cdecks, cnc, cflowers, cflower_index, cdoor, cdiscarded>>

\* The steps in which no client changes what it keeps.
Elsewhere ==
    /\ \/ Deal \/ has_flower \/ DrawPastEnd \/ HuAccept \/ HuPass \/ QuietPass
       \/ CountNull \/ Pass \/ HuClaim \/ EatYes \/ GameOver \/ Disconnect
    /\ UNCHANGED mirror

MNext ==
    \/ client_game_init \/ get_decks \/ client_draw
    \/ \E i \in Slots : client_discard(i)
    \/ client_quiet_gang \/ client_gang \/ client_pong
    \/ \E e1, e2 \in Slots : client_eat(e1, e2)
    \/ client_unclaimed
    \/ Elsewhere

MSpec == MInit /\ [][MNext]_mvars

-----------------------------------------------------------------------------
(* Properties                                                              *)

\* From the deal to the end of the round every client's copy is the
\* server's, slot by slot, through every claim and flower, also while a hand
\* is damaged by an eat, and a player who is offered a tile has read the
\* right one from the line: an index typed for a discard or an eat means the
\* same tile to both.
MirrorsServer ==
    pc \notin {"deal", "regrab"} \cup Ended =>
        /\ cdecks = decks /\ cnc = nc
        /\ cflowers = flowers /\ cflower_index = flower_index
        /\ cdoor = door /\ csea = sea
        /\ (pc \in {"react", "eat"} /\ discarded_mj # Null) =>
              \A q \in Players : cdiscarded[q] = discarded_mj
=============================================================================
