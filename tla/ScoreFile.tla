------------------------------ MODULE ScoreFile ------------------------------
(***************************************************************************)
(* What the app promises of the score file, with no screen, queue or       *)
(* answer: every submission is tried on the file once, in the order of the *)
(* submissions and without leaving one out; it replaces what is there, or  *)
(* is lost and leaves the file as it was or empty.  Nothing else touches   *)
(* the file.                                                               *)
(***************************************************************************)
EXTENDS Integers

VARIABLES
    submits,         \* submissions so far, which are numbered from 1
    file,            \* the content: its kind and the submission it is from
    failed           \* submissions that were lost

fvars == <<submits, file, failed>>

\* Submissions known to have been tried; the last one tried is among them.
Tried == failed \cup {file.score}

IsNext(n) ==
    /\ n <= submits
    /\ n - 1 \in Tried
    /\ \A m \in Tried : m < n

FInit ==
    /\ submits = 0
    /\ file.kind \in {"none", "score"} /\ file.score = 0
    /\ failed = {}

HandIn ==
    /\ submits' = submits + 1
    /\ UNCHANGED <<file, failed>>

Store(n) ==
    /\ IsNext(n)
    /\ file' = [kind |-> "score", score |-> n]
    /\ UNCHANGED <<submits, failed>>

Lose(n) ==
    /\ IsNext(n)
    /\ failed' = failed \cup {n}
    /\ file' = file \/ file' = [kind |-> "empty", score |-> 0]
    /\ UNCHANGED submits

FNext == HandIn \/ \E n \in 1 .. submits : Store(n) \/ Lose(n)

FSpec == FInit /\ [][FNext]_fvars
=============================================================================
