------------------------------- MODULE MCWire -------------------------------
(***************************************************************************)
(* Three players, so that the loops of the server have a first, a middle   *)
(* and a last one.  The last may leave at any moment and type unasked.     *)
(***************************************************************************)
EXTENDS Wire

Last == {PlayerCount - 1}
=============================================================================
