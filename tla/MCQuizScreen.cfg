\* All interleavings of one quiz with up to two submissions, until it rests.
CONSTANTS
    totalQuestions <- MCTotalQuestions
    OptionText <- MCOptionText
    AnswerText <- MCAnswerText
    MaxSubmits = 2
SPECIFICATION FairSpec
INVARIANTS
    TypeOK
    SelectionIsCurrent
    GradedInOrder
    ScoreIsExact
    SubmissionsBounded
    OneReplacePerSubmit
    PersistedOrReported
PROPERTIES
    ImplementsContract
    SubmitLeadsHome
\* The screen may come to rest: everything settled and nothing mounted.
CHECK_DEADLOCK FALSE
