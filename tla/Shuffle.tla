------------------------------ MODULE Shuffle ------------------------------
(***************************************************************************)
(* shuffle(): the tiles are laid out kind by kind, each with a random      *)
(* priority, and sorted by it.  priority_quick_sort() is the partition     *)
(* sort that HandUpdate follows loop by loop (there for decks_quick_sort), *)
(* with the priority as the value to compare; it is not stable, so tiles   *)
(* of equal priority come in any order.                                    *)
(***************************************************************************)
EXTENDS Tiles

WallIndex == 0..143

\* The tile that the five loops put at nowindex = i: four of each number of
\* TONG, TIAO and WAN, four of each DAZI, one of each FLOWER.
Made(i) ==
    IF i < 108 THEN ((i \div 36) + 1) * 10 + ((i % 36) \div 4) + 1
    ELSE IF i < 136 THEN 41 + ((i - 108) \div 4)
    ELSE 51 + (i - 136)

\* priority_quick_sort(shuffled_mjs, 0, 143): from where the tiles come.
Orders(priority) ==
    {o \in [WallIndex -> WallIndex] :
        /\ \A i, j \in WallIndex : o[i] = o[j] => i = j
        /\ \A i, j \in WallIndex : i < j => priority[o[i]] <= priority[o[j]]}

Laid(o) == [i \in WallIndex |-> Made(o[i])]

shuffle(priority) == {Laid(o) : o \in Orders(priority)}
=============================================================================
