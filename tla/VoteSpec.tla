------------------------------ MODULE VoteSpec ------------------------------
(***************************************************************************)
(* What the vote on another round promises: everybody may vote once, the   *)
(* decision is "start" only if all voted YES and "stop" only if all voted  *)
(* and somebody said NO, and whoever hears of a decision hears that one.   *)
(* A vote may also come to nothing, when a player is gone.                 *)
(***************************************************************************)
CONSTANT Players

VARIABLES
    vote,       \* vote[p]: "none", "YES" or "NO"
    decision,   \* "none", "start" or "stop"
    heard       \* heard[p]: what p was told

Init ==
    /\ vote = [p \in Players |-> "none"]
    /\ decision = "none"
    /\ heard = [p \in Players |-> "none"]

Cast(p) ==
    /\ vote[p] = "none" /\ decision = "none"
    /\ \E v \in {"YES", "NO"} : vote' = [vote EXCEPT ![p] = v]
    /\ UNCHANGED <<decision, heard>>

Decide ==
    /\ decision = "none"
    /\ \A p \in Players : vote[p] # "none"
    /\ decision' = IF \A p \in Players : vote[p] = "YES" THEN "start" ELSE "stop"
    /\ UNCHANGED <<vote, heard>>

Hear(p) ==
    /\ decision # "none" /\ heard[p] = "none"
    /\ heard' = [heard EXCEPT ![p] = decision]
    /\ UNCHANGED <<vote, decision>>

Next == Decide \/ \E p \in Players : Cast(p) \/ Hear(p)

Spec == Init /\ [][Next]_<<vote, decision, heard>>
=============================================================================
