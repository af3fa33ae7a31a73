\* A second press of submit before the screen is gone.
CONSTANTS
    totalQuestions <- MCTotalQuestions
    OptionText <- MCOptionText
    AnswerText <- MCAnswerText
    MaxSubmits = 2
SPECIFICATION Spec
INVARIANTS
    FileHoldsAScore
\* The screen may come to rest: everything settled and nothing mounted.
CHECK_DEADLOCK FALSE
