------------------------------ MODULE QuizBank ------------------------------
(***************************************************************************)
(* The question bank the quiz is played over: the three objects of         *)
(* assests/data.json, loaded by QuizScreen.js as customData.  The wording  *)
(* of a question (customData[0]) is only displayed, so of that object the  *)
(* number of its keys is kept.                                             *)
(***************************************************************************)
EXTENDS Integers

CONSTANTS
    totalQuestions,  \* the number of keys of customData[0]
    OptionText,      \* customData[1]: OptionText[q][i] is the text of option i
    AnswerText       \* customData[2]: AnswerText[q] is the text of the answer

Question == 1 .. totalQuestions

\* The options the render loop puts on the screen for every question.
Option == 1 .. 4

\* The value of selectedOption while nothing is selected.
NoOption == -1

ASSUME BankAssumption ==
    /\ totalQuestions \in Nat \ {0}
    /\ DOMAIN OptionText = Question
    /\ \A q \in Question : DOMAIN OptionText[q] = Option
    /\ DOMAIN AnswerText = Question

\* Whether option o is graded as right on question q.  Looking up an option
\* that does not exist gives undefined, which equals no answer text.
IsRight(q, o) == o \in Option /\ AnswerText[q] = OptionText[q][o]
=============================================================================
