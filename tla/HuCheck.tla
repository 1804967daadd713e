------------------------------ MODULE HuCheck ------------------------------
(***************************************************************************)
(* The winning-hand test (server: hu_recursive_check, hu_check,            *)
(* is_add_hu_possible) and the claim tests is_gang_possible,               *)
(* is_pong_possible and is_eat_possible, on counts of the 34 tile kinds.   *)
(***************************************************************************)
EXTENDS Tiles

Kinds == 0..33

\* A variant that lets a run of three cross from one suit into the next.
ChowAcross(i) == i + 2 < 27

\* Three consecutive kinds of one suit starting at i.
ChowAt(i) == i + 2 < 27 /\ i \div 9 = (i + 2) \div 9

\* 順子: is there a chow at i in the counts c
HasChow(c, i) ==
    /\ ChowAt(i)
    /\ c[i] >= 1 /\ c[i + 1] >= 1 /\ c[i + 2] >= 1

\* What a call works on: the counts, and how many tiles are to be used up.
\* hu_check and is_add_hu_possible start it with a multiple of three, and
\* every call is for three tiles less.
Calls == [Kinds -> Nat] \X {n \in Nat : n % 3 = 0}

\* Can the counts be used up by n/3 chows and triplets.  The code undoes
\* its changes to count when a branch fails, so each branch starts from c.
hu_recursive_check[call \in Calls] ==
    LET c == call[1]
        n == call[2]
    IN  \/ n = 0
        \/ \E i \in Kinds :
              \/ /\ HasChow(c, i)
                 /\ hu_recursive_check[
                      <<[c EXCEPT ![i] = @ - 1, ![i + 1] = @ - 1, ![i + 2] = @ - 1], n - 3>>]
              \/ /\ c[i] >= 3
                 /\ hu_recursive_check[<<[c EXCEPT ![i] = @ - 3], n - 3>>]

\* Some pair whose removal leaves n tiles of chows and triplets.
Wins(c, n) ==
    \E i \in Kinds : c[i] >= 2 /\ hu_recursive_check[<<[c EXCEPT ![i] = @ - 2], n>>]

\* The count array filled from the first n slots of a hand.  A null tile
\* adds to count[-10], outside the array, and so to no kind.
Counts(d, n) ==
    [k \in Kinds |-> Cardinality({j \in 0..(n - 1) : d[j] # Null /\ KindIndex(d[j]) = k})]

\* hu_check: the hand and the tile in slot nc together are complete.
hu_check(d, nc) == Wins(Counts(d, nc + 1), nc - 1)

\* is_add_hu_possible: the hand and the tile t discarded by another are.
is_add_hu_possible(d, nc, t) ==
    LET c == Counts(d, nc)
    IN  Wins([k \in Kinds |-> IF k = KindIndex(t) THEN c[k] + 1 ELSE c[k]], nc - 1)

is_gang_possible(d, nc, t) == Count(d, nc, t) >= 3
is_pong_possible(d, nc, t) == Count(d, nc, t) >= 2

\* A variant with one index mistyped.
EatMistyped(d, nc, t) ==
    LET k == KindIndex(t)
        Has(x) == x \in Kinds /\ x \div 9 = k \div 9 /\ Counts(d, nc)[x] >= 1
    IN  /\ t \notin DAZI
        /\ \/ Has(k + 1) /\ Has(k + 2)
           \/ Has(k + 1) /\ Has(k - 1)
           \/ Has(k - 1) /\ Has(k - 1)

\* is_eat_possible: two tiles of the hand make a chow with t.
is_eat_possible(d, nc, t) ==
    LET k == KindIndex(t)
        Has(x) == x \in Kinds /\ x \div 9 = k \div 9 /\ Counts(d, nc)[x] >= 1
    IN  /\ t \notin DAZI
        /\ \/ Has(k + 1) /\ Has(k + 2)
           \/ Has(k + 1) /\ Has(k - 1)
           \/ Has(k - 2) /\ Has(k - 1)

\* The check of the two chosen tiles a, b against the discarded t: sorted,
\* they are of one type and their numbers are consecutive.
eatable(a, b, t) ==
    LET lo == Min({a, b, t})
    IN  {a, b, t} = {lo, lo + 1, lo + 2} /\ lo \div 10 = (lo + 2) \div 10
=============================================================================
