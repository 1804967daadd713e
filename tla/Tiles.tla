------------------------------- MODULE Tiles -------------------------------
(***************************************************************************)
(* Tiles and the operations on one player's hand (server: struct mj, the   *)
(* decks array, decks_quick_sort, the pong/gang removal loops).            *)
(*                                                                         *)
(* A tile is its sort key type*10 + number, the value decks_quick_sort and *)
(* mj_compare order tiles by.  The null tile (type 0, number 0) is 0.  The *)
(* priority field only drives the shuffle and is left out.                 *)
(*                                                                         *)
(* A hand is a function on the slots 0..HandSize of the decks array: slots *)
(* 0 .. nc-1 hold the concealed tiles, slot nc the tile just taken.        *)
(***************************************************************************)
EXTENDS Integers, FiniteSets, FiniteSetsExt

CONSTANT HandSize   \* normal_capacity after the deal: 16 in the code

\* The deal gives four tiles at a time, and a complete hand is a pair plus
\* groups of three with one tile still to come.
ASSUME HandSizeAssumption ==
    /\ HandSize \in Nat
    /\ HandSize % 4 = 0
    /\ HandSize % 3 = 1

Null == 0
Suited == (11..19) \cup (21..29) \cup (31..39)     \* TONG, TIAO, WAN
DAZI == 41..47                                     \* winds and dragons
FLOWER == 51..58
Playable == Suited \cup DAZI
Tile == Playable \cup FLOWER
Entry == Tile \cup {Null}                          \* of the decks array

\* The index into the count[34] arrays.  It is -10 for the null tile.
KindIndex(t) == ((t \div 10) - 1) * 9 + (t % 10) - 1

Slots == 0..HandSize

\* decks[j] = t for how many of the first n slots.
Count(d, n, t) == Cardinality({j \in 0..(n - 1) : d[j] = t})

\* The i-th smallest (from 0) of the values of d on the index set R.
Nth(d, R, i) ==
    Min({v \in {d[j] : j \in R} : Cardinality({m \in R : d[m] <= v}) > i})

\* Variants of the hand operations, used only to see that the properties
\* can tell them from the code's: a sort that stops one slot early, and a
\* removal that leaves one tile too many behind.
SortShort(d, k) ==
    [i \in DOMAIN d |-> IF i < k THEN Nth(d, 0..(k - 1), i) ELSE d[i]]
RemoveOneLess(d, n, t, need) ==
    LET gone == {i \in 0..(n - 1) : d[i] = t /\ Count(d, i, t) < need - 1}
    IN  [i \in DOMAIN d |->
            IF i < n - need THEN Nth(d, (0..(n - 1)) \ gone, i)
            ELSE IF i < n THEN Null ELSE d[i]]

\* decks_quick_sort(d, 0, k): slots 0..k in order, the others untouched.
decks_quick_sort(d, k) ==
    [i \in DOMAIN d |-> IF i <= k THEN Nth(d, 0..k, i) ELSE d[i]]

swap(d, i, j) == [d EXCEPT ![i] = d[j], ![j] = d[i]]

\* The removal of a pong (need = 2) or a gang (need = 3): the first need
\* slots holding t are emptied, the emptied slots are swapped to the end of
\* the first n, and the rest is sorted.
FirstSlots(d, n, t, need) == {i \in 0..(n - 1) : d[i] = t /\ Count(d, i, t) < need}
Remove(d, n, t, need) ==
    [i \in DOMAIN d |->
        IF i < n - need THEN Nth(d, (0..(n - 1)) \ FirstSlots(d, n, t, need), i)
        ELSE IF i < n THEN Null ELSE d[i]]
=============================================================================
