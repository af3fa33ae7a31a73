---------------------------- MODULE MCFlipperApp ----------------------------
(***************************************************************************)
(* FlipperApp with constants for TLC: two plugins that share an identifier *)
(* and one of its own.                                                     *)
(***************************************************************************)
EXTENDS FlipperApp, TLC

CONSTANTS layout, layout2, network, inspector, requestLog

identifierMC ==
    layout :> inspector @@ layout2 :> inspector @@ network :> requestLog

\* layout and layout2 differ in nothing but being two objects.
Symmetry ==
    Permutations(Key) \cup Permutations(Conn) \cup Permutations({layout, layout2})
=============================================================================
