------------------------------ MODULE MCLobby ------------------------------
(***************************************************************************)
(* A lobby with fewer seats than the code's four, and clients enough for a *)
(* second table to fill up while the first one plays.                      *)
(***************************************************************************)
EXTENDS Lobby, TLC

CONSTANTS c1, c2, c3, c4, c5

FourClients == {c1, c2, c3, c4}
FiveClients == FourClients \cup {c5}

\* Clients differ in nothing but their names.
ClientSymmetry == Permutations(Clients)
=============================================================================
