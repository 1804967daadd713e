----------------------------- MODULE HandUpdate -----------------------------
(***************************************************************************)
(* How a hand is updated when a pong (need = 2) or a gang (need = 3) is    *)
(* claimed: a loop empties the slots of the claimed tiles, a second one    *)
(* swaps the emptied slots to the end, and decks_quick_sort() sorts the    *)
(* rest.  A job with need = 0 is a call of decks_quick_sort() alone, as    *)
(* after the deal and in discard().                                        *)
(*                                                                         *)
(* One step is one turn of a loop.  The recursion of decks_quick_sort() is *)
(* a stack of the ranges still to be sorted.                               *)
(***************************************************************************)
EXTENDS Tiles, Sequences

CONSTANT Jobs     \* records [hand, n, t, need]

\* Tiles are only taken from a sorted hand that has them and has no empty
\* slot: the table's other invariants say so.
ASSUME JobsAssumption ==
    \A j \in Jobs :
        /\ j \in [hand : [Slots -> Entry], n : 1..HandSize, t : Entry, need : {0, 2, 3}]
        /\ j.need > 0 =>
              /\ Count(j.hand, j.n, j.t) >= j.need
              /\ \A k \in 0..(j.n - 1) : j.hand[k] # Null
              /\ \A k, l \in 0..(j.n - 1) : k <= l => j.hand[k] <= j.hand[l]

VARIABLES
    job,           \* what is to be done, with the hand as it was
    deck,          \* the hand
    i, need,       \* of the two loops
    stack,         \* ranges to be sorted
    start, end,    \* the range being partitioned
    left, right,
    pc

vars == <<job, deck, i, need, stack, start, end, left, right, pc>>
loops == <<i, need>>
range == <<start, end, left, right>>

Init ==
    /\ job \in Jobs
    /\ deck = job.hand
    /\ i = 0
    /\ need = job.need
    /\ stack = << <<0, job.n - job.need - 1>> >>
    /\ start = 0 /\ end = 0 /\ left = 0 /\ right = 0
    /\ pc = IF job.need = 0 THEN "sort" ELSE "mark"

\* The loops are left when need is down to 0, or at the end of the hand.
LastTurn(found) == (found /\ need = 1) \/ i = job.n - 1

\* The first loop: the claimed tiles are emptied.
Mark ==
    LET found == deck[i] = job.t
    IN  /\ pc = "mark"
        /\ deck' = IF found THEN [deck EXCEPT ![i] = Null] ELSE deck
        /\ IF LastTurn(found)
           THEN i' = 0 /\ need' = job.need /\ pc' = "compact"
           ELSE i' = i + 1 /\ need' = need - (IF found THEN 1 ELSE 0) /\ UNCHANGED pc
        /\ UNCHANGED <<job, stack, range>>

\* A variant that counts the last slots from one too far up.
TargetTooHigh == job.n - job.need + need
\* Where an emptied slot goes: normal_capacity - 3 + need for a pong,
\* normal_capacity - 4 + need for a gang.
Target == job.n - (job.need + 1) + need

\* The second loop.
Compact ==
    LET found == deck[i] = Null
    IN  /\ pc = "compact"
        /\ deck' = IF found THEN swap(deck, i, Target) ELSE deck
        /\ IF LastTurn(found)
           THEN pc' = "sort" /\ UNCHANGED loops
           ELSE i' = i + 1 /\ need' = need - (IF found THEN 1 ELSE 0) /\ UNCHANGED pc
        /\ UNCHANGED <<job, stack, range>>

\* A call of decks_quick_sort(): nothing to do for less than two slots.
Call ==
    LET s == stack[1][1]
        e == stack[1][2]
    IN  /\ pc = "sort" /\ stack # <<>>
        /\ stack' = Tail(stack)
        /\ IF s >= e
           THEN UNCHANGED <<range, pc>>
           ELSE /\ start' = s /\ end' = e
                /\ left' = s + 1 /\ right' = e
                /\ pc' = "left"
        /\ UNCHANGED <<job, deck, loops>>

\* A variant that does not look whether left has met right.
LeftUnchecked == deck[left] <= deck[start]
\* The condition of the first inner loop.
LeftInOrder == left <= right /\ deck[left] <= deck[start]

MoveLeft ==
    /\ pc = "left"
    /\ IF LeftInOrder THEN left' = left + 1 /\ UNCHANGED pc
       ELSE pc' = "right" /\ UNCHANGED left
    /\ UNCHANGED <<job, deck, loops, stack, start, end, right>>

\* The second inner loop, and the swap after it.
MoveRight ==
    /\ pc = "right"
    /\ IF left <= right /\ deck[right] >= deck[start]
       THEN right' = right - 1 /\ UNCHANGED <<deck, pc>>
       ELSE /\ deck' = IF left < right THEN swap(deck, left, right) ELSE deck
            /\ pc' = IF left <= right THEN "left" ELSE "place"
            /\ UNCHANGED right
    /\ UNCHANGED <<job, loops, stack, start, end, left>>

\* The pivot goes between the two halves, which are sorted in turn.
Place ==
    /\ pc = "place"
    /\ deck' = swap(deck, start, right)
    /\ stack' = << <<start, right - 1>>, <<right + 1, end>> >> \o stack
    /\ pc' = "sort"
    /\ UNCHANGED <<job, loops, range>>

Return ==
    /\ pc = "sort" /\ stack = <<>>
    /\ pc' = "done"
    /\ UNCHANGED <<job, deck, loops, stack, range>>

Next == Mark \/ Compact \/ Call \/ MoveLeft \/ MoveRight \/ Place \/ Return

\* Sequential code: it goes on until it has returned.
Spec == Init /\ [][Next]_vars /\ WF_vars(Next)

-----------------------------------------------------------------------------
(* Properties                                                              *)

\* While a range is partitioned, left and right stay within it, whatever
\* equal tiles it holds: no tile outside of it is read or moved.
PartitionInRange ==
    pc \in {"left", "right", "place"} =>
        /\ left \in (start + 1)..(end + 1)
        /\ right \in start..end
        /\ end < job.n

Promise ==
    INSTANCE HandUpdateSpec WITH deck <- IF pc = "done" THEN deck ELSE job.hand,
                                 done <- pc = "done"

\* The loops together do what Remove and decks_quick_sort say in one step,
\* and they end: the table's model may treat them as one.
KeepsPromise == Promise!Spec
=============================================================================
