----------------------------- MODULE QuizState ------------------------------
(***************************************************************************)
(* this.state of a QuizScreen component and what its handlers do to it.    *)
(* The operators take one state and return the next one, so that a module  *)
(* with several quiz screens can use them as well as a module with one.    *)
(* Every setState is followed by a render; render() itself assigns         *)
(* lastQuestion.                                                           *)
(***************************************************************************)
EXTENDS QuizBank

ScreenState ==
    [ currentQuestion : Question,
      selectedOption  : Option \cup {NoOption},
      answered        : BOOLEAN,
      correctCount    : Nat,
      lastQuestion    : BOOLEAN ]

\* Mutant: the comparison is one question late, or one early.
PastLastQuestion(s) == s.currentQuestion > totalQuestions
OneBeforeLast(s) == s.currentQuestion >= totalQuestions - 1

OnLastQuestion(s) == s.currentQuestion = totalQuestions

\* The assignment render() makes to this.state.
Rendered(s) ==
    IF OnLastQuestion(s) THEN [s EXCEPT !.lastQuestion = TRUE] ELSE s

InitialState ==
    Rendered([ currentQuestion |-> 1,
               selectedOption  |-> NoOption,
               answered        |-> FALSE,
               correctCount    |-> 0,
               lastQuestion    |-> FALSE ])

\* Click(key): select an option; the next/submit button becomes visible.
Clicked(s, key) ==
    Rendered([s EXCEPT !.selectedOption = key, !.answered = TRUE])

\* The next/submit button is rendered only while this holds.
NextButtonShown(s) == s.answered

\* The first statement of nextQuestion: a direct assignment to this.state,
\* with no setState and hence no render.
Graded(s) ==
    IF IsRight(s.currentQuestion, s.selectedOption)
    THEN [s EXCEPT !.correctCount = @ + 1]
    ELSE s

\* Mutant: the previous selection is not cleared.
AdvancedKeepingSelection(s) ==
    Rendered([Graded(s) EXCEPT !.currentQuestion = @ + 1, !.answered = FALSE])

\* Mutant: setState overwrites the point that was assigned to this.state.
AdvancedLosingPoint(s) ==
    Rendered([s EXCEPT !.currentQuestion = @ + 1,
                       !.answered = FALSE,
                       !.selectedOption = NoOption])

\* The rest of nextQuestion on every question but the last.
Advanced(s) ==
    Rendered([Graded(s) EXCEPT !.currentQuestion = @ + 1,
                               !.answered = FALSE,
                               !.selectedOption = NoOption])
=============================================================================
