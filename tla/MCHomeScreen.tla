---------------------------- MODULE MCHomeScreen ----------------------------
(* Small sets of texts for the login form. *)
EXTENDS HomeScreen

CONSTANTS ann, bob, n7

MCWords == {ann, bob}
MCNumerals == {n7}

\* One valid text for every field: the visits and their storage traffic matter.
MCTypedOne == <<{ann}, {ann}, {ann}, {n7}>>

\* Two last names, so that an overwritten text can be told from the new one.
MCTypedTwo == <<{ann}, {ann, bob}, {ann}, {n7}>>
=============================================================================
