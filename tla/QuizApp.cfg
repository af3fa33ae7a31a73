\* Any button may be pressed twice, and one call of RNFS may fail.
CONSTANTS
    MaxPresses = 2
    MaxScreens = 5
    MaxFaults = 1
SPECIFICATION FairAppSpec
INVARIANTS
    TypeOK
    BackWorksOutsideQuiz
    SinglePressDisablesBack
    SinglePressCompletesQuiz
    ShownIsCurrent
    QuietShowsFile
    QuietShowsLast
PROPERTIES
    ImplementsRecord
    SubmittedIsShown
\* The user may stop, and the bound on screens stops everyone.
CHECK_DEADLOCK FALSE
