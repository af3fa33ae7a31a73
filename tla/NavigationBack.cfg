\* Login is pressed twice.
CONSTANTS
    MaxPresses = 2
    MaxScreens = 5
SPECIFICATION Spec
INVARIANTS
    BackDisabledDuringQuiz
\* The user may stop, and the bound on screens stops everyone.
CHECK_DEADLOCK FALSE
