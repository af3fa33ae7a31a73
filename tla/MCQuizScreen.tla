---------------------------- MODULE MCQuizScreen ----------------------------
(* The quiz over the bank of assests/data.json. *)
EXTENDS QuizScreen

MCTotalQuestions == 4

MCOptionText ==
    << <<"Australia", "Britain", "France", "Germany">>,
       <<"An extramarital affair", "Fraud", "Illness", "Protests">>,
       <<"An attack drone", "A man with a jetpack",
         "A girl attached to a kite", "A U.F.O.">>,
       <<"Argentina", "Belize", "Colombia", "Mexico">> >>

MCAnswerText == <<"Germany", "Illness", "A man with a jetpack", "Argentina">>

\* Every question of data.json can be answered: exactly one of its options is
\* the answer, letter for letter.
ASSUME EveryQuestionHasOneAnswer ==
    \A q \in 1 .. MCTotalQuestions : \E o \in Option :
        {p \in Option : MCAnswerText[q] = MCOptionText[q][p]} = {o}
=============================================================================
