----------------------------- MODULE MCHuCheck -----------------------------
(***************************************************************************)
(* The winning-hand and claim tests compared with what they are meant to   *)
(* decide, on every hand of up to MaxTiles tiles drawn from Dealt.  Hands  *)
(* grow one tile at a time, in order, so every multiset is met once.       *)
(***************************************************************************)
EXTENDS HuCheck

CONSTANTS Dealt,      \* the tiles hands are made of
          MaxTiles    \* bound: tiles in a hand

ASSUME DealtAssumption == Dealt \subseteq Playable /\ MaxTiles \in Nat

VARIABLES d,    \* the hand, a function on the slots 0..n-1
          n     \* how many tiles it has

vars == <<d, n>>

Init == n = 0 /\ d = [i \in {} |-> Null]

AddTile(t) ==
    /\ n < MaxTiles
    /\ Count(d, n, t) < 4
    /\ n > 0 => d[n - 1] <= t
    /\ d' = [i \in 0..n |-> IF i < n THEN d[i] ELSE t]
    /\ n' = n + 1

Next == \E t \in Dealt : AddTile(t)

Spec == Init /\ [][Next]_vars

-----------------------------------------------------------------------------
(* The reference: the tiles are a pair and groups, each group a triplet    *)
(* or three consecutive tiles of one suit.                                 *)

Groups(S) ==
    {<<t, t, t>> : t \in S}
    \cup {<<t, t + 1, t + 2>> : t \in {x \in S : {x, x + 1, x + 2} \subseteq Suited}}

IsComplete(hand, size) ==
    LET tiles == {hand[i] : i \in 0..(size - 1)}
        fits == {g \in Groups(tiles) : {g[1], g[2], g[3]} \subseteq tiles}
        k == (size - 2) \div 3
    IN  \E p \in tiles, f \in [1..k -> fits] : \A t \in tiles :
          Count(hand, size, t) =
            (IF t = p THEN 2 ELSE 0)
              + Cardinality({ij \in (1..k) \X (1..3) : f[ij[1]][ij[2]] = t})

With(t) == [i \in 0..n |-> IF i < n THEN d[i] ELSE t]

\* hu_check accepts exactly the complete hands: the backtracking over the
\* 34 counters neither misses a partition nor lets one cross two suits.
HuCheckExact ==
    n % 3 = 2 => (hu_check(d, n - 1) <=> IsComplete(d, n))

\* is_add_hu_possible accepts exactly the discards that complete a hand.
AddHuExact ==
    n % 3 = 1 => \A t \in Dealt :
        is_add_hu_possible(d, n, t) <=> IsComplete(With(t), n + 1)

\* A player is offered a suited discard exactly when two tiles of the hand
\* pass the check of the choice that follows, so the loop that asks for
\* them can be left; an honour is never offered.
EatOfferExact ==
    \A t \in Dealt :
        is_eat_possible(d, n, t) <=>
            /\ t \in Suited
            /\ \E i, j \in 0..(n - 1) : eatable(d[i], d[j], t)
=============================================================================
