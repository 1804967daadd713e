--------------------------- MODULE MCMahjongTable ---------------------------
(***************************************************************************)
(* Small tables: hands of four tiles (a complete hand is a pair and one    *)
(* group) and walls of WallSize tiles, arranged so that every kind of      *)
(* claim, flowers in the deal and in the draw, and the end of the wall are *)
(* all within reach.                                                       *)
(***************************************************************************)
EXTENDS MahjongTable

AsWall(s) == [i \in 0..(WallSize - 1) |-> s[i + 1]]

\* Player 1 can win with, pong or eat 14; player 2 can gang 22; player 3
\* has a flower; the last tile is a flower.
Claims == AsWall(<<14, 22, 23, 31,   14, 14, 15, 16,   22, 22, 22, 31,   31, 31, 23, 51,
                   23, 41, 24, 16, 52>>)

\* Flowers replaced by flowers, over several passes; honours to pong.
Flowery == AsWall(<<12, 12, 12, 41,   41, 41, 42, 43,   13, 14, 15, 16,   17, 18, 52, 53,
                    51, 54, 19, 43, 11>>)

\* Player 0 draws the fourth 12, then a flower; several eats in a row.
QuietDrawn == AsWall(<<12, 12, 12, 13,   13, 13, 14, 14,   14, 15, 15, 16,   16, 17, 17, 11,
                       12, 51, 18, 13, 15>>)

SmallWalls == {Claims, Flowery, QuietDrawn}
=============================================================================
