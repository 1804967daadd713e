----------------------------- MODULE MCFullHand -----------------------------
(***************************************************************************)
(* A table with the code's own hand size: sixteen tiles each, dealt in     *)
(* four rounds of four, with what is left of the wall cut to a few tiles.  *)
(* A to D are the hands from the one that starts the round.                *)
(*                                                                         *)
(* Mixed: hands that fit little.  A draws the fourth 29, B is dealt a      *)
(* flower and can eat, C can pong 42, D can gang 43.                       *)
(*                                                                         *)
(* Chained: A draws the last tiles of the wall, four flowers and 36, and   *)
(* from then on the round lives on claims.  B can pong 11 from A, 12 and   *)
(* 15 from C and 14 from D, eat 36 or 39 from A, and hands them the turn   *)
(* by discarding 21, 17, 22 and 18, in any order: up to five claims by B,  *)
(* down to a hand of one tile, and a win with the pair of 38 that is left. *)
(* B's hand ends in 37, 38, 38, 38, so that the eat can take the last slot *)
(* and leave a hole, as the first claim of B or as a later one.            *)
(***************************************************************************)
EXTENDS ClientMirror

MixedHands ==
    << <<11, 14, 17, 29, 29, 29, 31, 34, 37, 41, 42, 43, 44, 45, 46, 47>>,
       <<51, 12, 13, 14, 24, 27, 31, 34, 37, 41, 42, 44, 45, 46, 47, 11>>,
       <<42, 14, 17, 21, 24, 27, 31, 34, 37, 11, 42, 19, 44, 45, 46, 47>>,
       <<43, 11, 14, 17, 21, 24, 27, 31, 34, 37, 43, 41, 43, 45, 46, 47>> >>
MixedRest == <<52, 39, 29, 53, 15>>

ChainedHands ==
    << <<41, 11, 41, 21, 42, 39, 42, 21, 43, 41, 42, 43, 43, 41, 42, 43>>,
       <<38, 11, 15, 12, 14, 22, 37, 21, 18, 17, 15, 38, 14, 12, 38, 11>>,
       <<24, 17, 25, 12, 44, 22, 15, 24, 17, 25, 44, 22, 24, 25, 24, 25>>,
       <<27, 18, 28, 14, 31, 18, 27, 28, 31, 45, 27, 28, 31, 27, 28, 31>> >>
ChainedRest == <<51, 52, 53, 54, 36>>

\* Tile i of the wall goes to hand (i % 16) \div 4, in time i \div 16.
Stacked(hands4, rest) ==
    [i \in 0..(WallSize - 1) |->
        IF i < 64 THEN hands4[((i % 16) \div 4) + 1][(i \div 16) * 4 + (i % 4) + 1]
        ELSE rest[i - 63]]

StackedWalls == {Stacked(MixedHands, MixedRest), Stacked(ChainedHands, ChainedRest)}
=============================================================================
