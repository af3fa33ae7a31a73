------------------------------ MODULE MCFlipper ------------------------------
(***************************************************************************)
(* FlipperConnection with constants for TLC.                               *)
(***************************************************************************)
EXTENDS FlipperConnection, TLC

Symmetry == Permutations(Key) \cup Permutations(Conn)
=============================================================================
