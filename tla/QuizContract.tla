---------------------------- MODULE QuizContract ----------------------------
(***************************************************************************)
(* What a quiz promises, with no screen, no queue and no animation: it     *)
(* moves through the questions one at a time and never back, marks each    *)
(* step with at most one point, puts only scores it has reached on file,   *)
(* and hands the user back only for a submission whose write was tried.    *)
(***************************************************************************)
EXTENDS Integers

CONSTANT totalQuestions

VARIABLES
    position,        \* the question being asked
    points,          \* the score so far
    unsaved,         \* submissions whose write has not been tried
    settled,         \* tried writes the quiz has not reacted to
    record,          \* the score file
    done             \* whether the user has been handed back

cvars == <<position, points, unsaved, settled, record, done>>

Mark == points' \in {points, points + 1}

CInit ==
    /\ position = 1
    /\ points = 0
    /\ unsaved = 0
    /\ settled = 0
    /\ done = FALSE
    /\ record.kind \in {"absent", "empty", "score"}

Move ==
    /\ position < totalQuestions
    /\ position' = position + 1
    /\ Mark
    /\ UNCHANGED <<unsaved, settled, record, done>>

HandIn ==
    /\ position = totalQuestions
    /\ Mark
    /\ unsaved' = unsaved + 1
    /\ UNCHANGED <<position, settled, record, done>>

Save ==
    /\ unsaved > 0
    /\ unsaved' = unsaved - 1
    /\ settled' = settled + 1
    /\ \/ record' = record
       \/ record'.kind = "empty"
       \/ record'.kind = "score" /\ record'.score \in 0 .. points
    /\ UNCHANGED <<position, points, done>>

HandBack ==
    /\ settled > 0
    /\ settled' = settled - 1
    /\ done' = TRUE
    /\ UNCHANGED <<position, points, unsaved, record>>

CNext == Move \/ HandIn \/ Save \/ HandBack

CSpec == CInit /\ [][CNext]_cvars
=============================================================================
