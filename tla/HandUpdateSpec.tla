--------------------------- MODULE HandUpdateSpec ---------------------------
(***************************************************************************)
(* What an update of a hand promises: in one step, the need tiles t are    *)
(* gone from the first n slots and the rest of them is sorted.  With       *)
(* need = 0 it is just the sort.                                           *)
(***************************************************************************)
EXTENDS Tiles

CONSTANT Jobs     \* records [hand, n, t, need]

VARIABLES job, deck, done

Init == job \in Jobs /\ deck = job.hand /\ done = FALSE

Update ==
    /\ ~done
    /\ done' = TRUE
    /\ deck' = Remove(job.hand, job.n, job.t, job.need)
    /\ job' = job

Safety == Init /\ [][Update]_<<job, deck, done>>

Spec == Safety /\ WF_<<job, deck, done>>(Update)
=============================================================================
