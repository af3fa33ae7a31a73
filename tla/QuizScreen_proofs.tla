-------------------------- MODULE QuizScreen_proofs -------------------------
(***************************************************************************)
(* Proofs about QuizScreen, for every question bank and every number of    *)
(* submissions.                                                            *)
(***************************************************************************)
EXTENDS QuizScreen, SequenceTheorems, FiniteSetTheorems, TLAPS

-----------------------------------------------------------------------------
(* The operators on this.state. *)

\* render() flags the last question and changes nothing else.
LEMMA RenderedFacts ==
    ASSUME NEW s \in ScreenState, s.lastQuestion => OnLastQuestion(s)
    PROVE  /\ Rendered(s) \in ScreenState
           /\ Rendered(s).currentQuestion = s.currentQuestion
           /\ Rendered(s).correctCount = s.correctCount
           /\ Rendered(s).answered = s.answered
           /\ Rendered(s).selectedOption = s.selectedOption
           /\ Rendered(s).lastQuestion <=> OnLastQuestion(Rendered(s))
<1>1. CASE OnLastQuestion(s)
  <2>1. Rendered(s) = [s EXCEPT !.lastQuestion = TRUE]
    BY <1>1, Zenon DEF Rendered
  <2> QED
    BY <1>1, <2>1, Zenon DEF ScreenState, OnLastQuestion
<1>2. CASE ~OnLastQuestion(s)
  <2>1. Rendered(s) = s
    BY <1>2, Zenon DEF Rendered
  <2> QED
    BY <1>2, <2>1, Zenon DEF ScreenState, OnLastQuestion
<1> QED
  BY <1>1, <1>2, Zenon

\* A fresh QuizScreen starts with a well-formed state, with nothing selected
\* and lastQuestion flagged exactly if the bank has one question.
LEMMA InitialStateFacts ==
    /\ InitialState \in ScreenState
    /\ InitialState.currentQuestion = 1
    /\ InitialState.correctCount = 0
    /\ InitialState.answered = FALSE
    /\ InitialState.selectedOption = NoOption
    /\ InitialState.lastQuestion <=> OnLastQuestion(InitialState)
<1> DEFINE s == [ currentQuestion |-> 1,
                  selectedOption  |-> NoOption,
                  answered        |-> FALSE,
                  correctCount    |-> 0,
                  lastQuestion    |-> FALSE ]
<1>1. s \in ScreenState
  BY BankAssumption DEF BankAssumption, ScreenState, Question
<1>2. /\ s.currentQuestion = 1
      /\ s.correctCount = 0
      /\ s.answered = FALSE
      /\ s.selectedOption = NoOption
      /\ s.lastQuestion = FALSE
  BY Zenon
<1>3. InitialState = Rendered(s)
  BY Zenon DEF InitialState
<1> QED
  BY <1>1, <1>2, <1>3, RenderedFacts, Zenon

\* Click changes the selection, and nothing else once lastQuestion is flagged.
LEMMA ClickedFacts ==
    ASSUME NEW s \in ScreenState, NEW key \in Option,
           s.lastQuestion <=> OnLastQuestion(s)
    PROVE  /\ Clicked(s, key) \in ScreenState
           /\ Clicked(s, key).currentQuestion = s.currentQuestion
           /\ Clicked(s, key).correctCount = s.correctCount
           /\ Clicked(s, key).answered = TRUE
           /\ Clicked(s, key).selectedOption = key
           /\ Clicked(s, key).lastQuestion <=> OnLastQuestion(Clicked(s, key))
<1> DEFINE c == [s EXCEPT !.selectedOption = key, !.answered = TRUE]
<1>1. /\ c \in ScreenState
      /\ c.currentQuestion = s.currentQuestion
      /\ c.correctCount = s.correctCount
      /\ c.answered = TRUE
      /\ c.selectedOption = key
      /\ c.lastQuestion = s.lastQuestion
  BY Zenon DEF ScreenState
<1>2. c.lastQuestion => OnLastQuestion(c)
  BY <1>1, Zenon DEF OnLastQuestion
<1>3. Clicked(s, key) = Rendered(c)
  BY Zenon DEF Clicked
<1> HIDE DEF c
<1> QED
  BY <1>1, <1>2, <1>3, RenderedFacts, Zenon

\* The grading step of nextQuestion adds one point, exactly if the selected
\* option is right, and leaves the rest of this.state alone.
LEMMA GradedFacts ==
    ASSUME NEW s \in ScreenState
    PROVE  /\ Graded(s) \in ScreenState
           /\ Graded(s).currentQuestion = s.currentQuestion
           /\ Graded(s).answered = s.answered
           /\ Graded(s).selectedOption = s.selectedOption
           /\ Graded(s).lastQuestion = s.lastQuestion
           /\ Graded(s).correctCount =
                 IF IsRight(s.currentQuestion, s.selectedOption)
                 THEN s.correctCount + 1 ELSE s.correctCount
<1> DEFINE right == IsRight(s.currentQuestion, s.selectedOption)
<1>1. CASE right
  <2>1. Graded(s) = [s EXCEPT !.correctCount = @ + 1]
    BY <1>1, Zenon DEF Graded
  <2> QED
    BY <1>1, <2>1, SMTT(30) DEF ScreenState
<1>2. CASE ~right
  <2>1. Graded(s) = s
    BY <1>2, Zenon DEF Graded
  <2> QED
    BY <1>2, <2>1, Zenon DEF ScreenState
<1> QED
  BY <1>1, <1>2, Zenon

\* The rest of nextQuestion goes to the next question with the graded score
\* and with nothing selected.
LEMMA AdvancedFacts ==
    ASSUME NEW s \in ScreenState,
           s.lastQuestion <=> OnLastQuestion(s), ~OnLastQuestion(s)
    PROVE  /\ Advanced(s) \in ScreenState
           /\ Advanced(s).currentQuestion = s.currentQuestion + 1
           /\ Advanced(s).correctCount = Graded(s).correctCount
           /\ Advanced(s).answered = FALSE
           /\ Advanced(s).selectedOption = NoOption
           /\ Advanced(s).lastQuestion <=> OnLastQuestion(Advanced(s))
<1> DEFINE g == Graded(s)
<1>1. /\ g \in ScreenState
      /\ g.currentQuestion = s.currentQuestion
      /\ g.lastQuestion = s.lastQuestion
  BY GradedFacts, Zenon
<1>2. s.currentQuestion + 1 \in Question
  BY BankAssumption, SMTT(30)
     DEF BankAssumption, ScreenState, OnLastQuestion, Question
<1>3. g.lastQuestion = FALSE
  BY <1>1, Zenon DEF ScreenState
<1> DEFINE n == [g EXCEPT !.currentQuestion = @ + 1,
                          !.answered = FALSE,
                          !.selectedOption = NoOption]
<1>4. Advanced(s) = Rendered(n)
  BY Zenon DEF Advanced
<1> HIDE DEF g
<1>5. /\ n \in ScreenState
      /\ n.currentQuestion = s.currentQuestion + 1
      /\ n.correctCount = g.correctCount
      /\ n.answered = FALSE
      /\ n.selectedOption = NoOption
      /\ n.lastQuestion = FALSE
  BY <1>1, <1>2, <1>3, Zenon DEF ScreenState
<1> HIDE DEF n
<1>6. g.correctCount = Graded(s).correctCount
  BY Zenon DEF g
<1> QED
  BY <1>4, <1>5, <1>6, RenderedFacts

-----------------------------------------------------------------------------
(* Types and the selection. *)

\* Neither part is inductive alone: a press is recorded with an option of the
\* bank only because the button is shown only while one is selected.
CoreInv == TypeOK /\ SelectionIsCurrent

LEMMA CoreInit == Init => CoreInv
<1> SUFFICES ASSUME Init PROVE CoreInv
  BY Zenon
<1>1. screen \in ScreenState /\ SelectionIsCurrent
  BY InitialStateFacts, Zenon DEF Init, SelectionIsCurrent
<1>2. file \in FileState
  BY BankAssumption
     DEF BankAssumption, Init, FileState, NoFile, EmptyFile, ScoreFile
<1> QED
  BY <1>1, <1>2 DEF Init, CoreInv, TypeOK

\* Every handler, callback and native step keeps the types and the selection.
LEMMA CoreStep == CoreInv /\ [Next]_vars => CoreInv'
<1> SUFFICES ASSUME CoreInv, [Next]_vars PROVE CoreInv'
  BY Zenon
<1> USE DEF CoreInv
<1>1. ASSUME NEW key \in Option, Click(key) PROVE CoreInv'
  <2>1. /\ screen' \in ScreenState
        /\ screen'.answered = TRUE
        /\ screen'.selectedOption = key
        /\ screen'.lastQuestion <=> OnLastQuestion(screen')
    BY <1>1, ClickedFacts, Zenon DEF Click, TypeOK, SelectionIsCurrent
  <2>2. key # NoOption
    BY DEF Option, NoOption
  <2>3. SelectionIsCurrent'
    BY <2>1, <2>2, Zenon DEF SelectionIsCurrent, OnLastQuestion
  <2> QED
    BY <1>1, <2>1, <2>3, Zenon DEF Click, TypeOK
<1>2. CASE NextQuestion
  <2>1. screen' \in ScreenState /\ SelectionIsCurrent'
    BY <1>2, AdvancedFacts, Zenon DEF NextQuestion, TypeOK, SelectionIsCurrent
  <2>2. Pick \in Record
    BY <1>2, Zenon DEF NextQuestion, NextButtonShown, TypeOK, SelectionIsCurrent,
                ScreenState, Pick, Record
  <2> QED
    BY <1>2, <2>1, <2>2 DEF NextQuestion, TypeOK
<1>3. CASE Submit
  <2>1. screen' \in ScreenState /\ SelectionIsCurrent'
    BY <1>3, GradedFacts, Zenon DEF Submit, TypeOK, SelectionIsCurrent, OnLastQuestion
  <2>2. Pick \in Record
    BY <1>3, Zenon DEF Submit, NextButtonShown, TypeOK, SelectionIsCurrent,
                ScreenState, Pick, Record
  <2>3. Graded(screen).correctCount \in Nat
    BY GradedFacts, Zenon DEF TypeOK, ScreenState
  <2> QED
    BY <1>3, <2>1, <2>2, <2>3 DEF Submit, TypeOK
<1>4. CASE NativeWrite
  <2>1. Head(writes) \in Nat /\ Tail(writes) \in Seq(Nat)
    BY <1>4 DEF NativeWrite, TypeOK
  <2>2. ScoreFile(Head(writes)) \in FileState
    BY <2>1, Zenon DEF ScoreFile, FileState
  <2> QED
    BY <1>4, <2>1, <2>2 DEF NativeWrite, TypeOK, SelectionIsCurrent
<1>5. CASE NativeWriteFails
  <2>1. Tail(writes) \in Seq(Nat)
    BY <1>5 DEF NativeWriteFails, TypeOK
  <2>2. EmptyFile \in FileState
    BY Zenon DEF EmptyFile, FileState
  <2> QED
    BY <1>5, <2>1, <2>2 DEF NativeWriteFails, TypeOK, SelectionIsCurrent
<1>6. CASE WriteFileSettles
  <2>1. Tail(answers) \in Seq({"written", "failed"})
    BY <1>6 DEF WriteFileSettles, TypeOK
  <2> QED
    BY <1>6, <2>1 DEF WriteFileSettles, AfterReplace, TypeOK, SelectionIsCurrent
<1>7. CASE TransitionEnd
  BY <1>7, Zenon DEF TransitionEnd, TypeOK, SelectionIsCurrent
<1>8. CASE HandleBackButton
  BY <1>8, Zenon DEF HandleBackButton, TypeOK, SelectionIsCurrent
<1>9. CASE UNCHANGED vars
  BY <1>9, Zenon DEF vars, TypeOK, SelectionIsCurrent
<1> QED
  BY <1>1, <1>2, <1>3, <1>4, <1>5, <1>6, <1>7, <1>8, <1>9, Zenon DEF Next, User, Native

\* In every reachable state of every quiz the variables have their types; in
\* particular currentQuestion never leaves the bank.
THEOREM TypeCorrect == Spec => []TypeOK
<1>1. CoreInv => TypeOK
  BY Zenon DEF CoreInv
<1> QED
  BY <1>1, CoreInit, CoreStep, PTL DEF Spec

\* The button that grades is visible exactly while an option of the question
\* on the screen is selected, whatever the order of clicks, presses, writes
\* and navigation.
THEOREM SelectionCorrect == Spec => []SelectionIsCurrent
<1>1. CoreInv => SelectionIsCurrent
  BY Zenon DEF CoreInv
<1> QED
  BY <1>1, CoreInit, CoreStep, PTL DEF Spec

\* What CoreInv says of the screen, in the form the proofs below use.
LEMMA ScreenFacts ==
    ASSUME CoreInv
    PROVE  /\ screen \in ScreenState
           /\ screen.currentQuestion \in 1 .. totalQuestions
           /\ totalQuestions \in Nat
           /\ screen.correctCount \in Nat
           /\ screen.lastQuestion <=> OnLastQuestion(screen)
BY BankAssumption, Zenon
   DEF CoreInv, TypeOK, SelectionIsCurrent, ScreenState, Question, BankAssumption

\* The same for the queues and the histories.
LEMMA QueueFacts ==
    ASSUME CoreInv
    PROVE  /\ writes \in Seq(Nat) /\ Len(writes) \in Nat
           /\ answers \in Seq({"written", "failed"}) /\ Len(answers) \in Nat
           /\ submitted \in Seq(Nat) /\ Len(submitted) \in Nat
           /\ picks \in Seq(Record) /\ Len(picks) \in Nat
           /\ replaces \in Nat
BY LenProperties, Zenon DEF CoreInv, TypeOK

\* The press of the grading button is worth at most a point, and is recorded
\* with an option of the bank.
LEMMA PressFacts ==
    ASSUME CoreInv
    PROVE  /\ Graded(screen).correctCount \in Nat
           /\ Graded(screen).correctCount
                 \in {screen.correctCount, screen.correctCount + 1}
           /\ NextButtonShown(screen) => Pick \in Record
<1>1. Graded(screen).correctCount \in {screen.correctCount, screen.correctCount + 1}
  BY ScreenFacts, GradedFacts, Zenon
<1>2. Graded(screen).correctCount \in Nat
  BY <1>1, ScreenFacts
<1>3. NextButtonShown(screen) => Pick \in Record
  BY Zenon DEF NextButtonShown, CoreInv, TypeOK, SelectionIsCurrent, ScreenState, Pick,
         Record
<1> QED
  BY <1>1, <1>2, <1>3, Zenon

-----------------------------------------------------------------------------
(* Submissions and navigation. *)

LEMMA ReplaceStep ==
    CoreInv /\ OneReplacePerSubmit /\ [Next]_vars => OneReplacePerSubmit'
<1> SUFFICES ASSUME CoreInv, OneReplacePerSubmit, [Next]_vars
             PROVE  OneReplacePerSubmit'
  BY Zenon
<1>0. /\ Len(submitted) \in Nat /\ Len(answers) \in Nat /\ Len(writes) \in Nat
      /\ replaces \in Nat
      /\ Len(submitted) = replaces + Len(answers) + Len(writes)
  BY QueueFacts, Zenon DEF OneReplacePerSubmit
<1>1. CASE Submit
  <2> DEFINE new == Graded(screen).correctCount
  <2>1. /\ writes' = Append(writes, new) /\ submitted' = Append(submitted, new)
        /\ replaces' = replaces /\ answers' = answers
    BY <1>1, Zenon DEF Submit
  <2>2. new \in Nat
    BY PressFacts, Zenon
  <2> HIDE DEF new
  <2>3. Len(writes') = Len(writes) + 1
    BY <2>1, <2>2, QueueFacts, AppendProperties, Zenon
  <2>4. Len(submitted') = Len(submitted) + 1
    BY <2>1, <2>2, QueueFacts, AppendProperties, Zenon
  <2> QED
    BY <1>0, <2>1, <2>3, <2>4 DEF OneReplacePerSubmit
<1>2. CASE NativeWrite \/ NativeWriteFails
  <2>1. /\ writes # <<>> /\ writes' = Tail(writes)
        /\ answers' \in {Append(answers, "written"), Append(answers, "failed")}
        /\ replaces' = replaces /\ submitted' = submitted
    BY <1>2, Zenon DEF NativeWrite, NativeWriteFails
  <2>2. Len(writes') = Len(writes) - 1
    BY <2>1, QueueFacts, HeadTailProperties, Zenon
  <2>3. Len(answers') = Len(answers) + 1
    BY <2>1, QueueFacts, AppendProperties
  <2> QED
    BY <1>0, <2>1, <2>2, <2>3 DEF OneReplacePerSubmit
<1>3. CASE WriteFileSettles
  <2>1. /\ answers # <<>> /\ answers' = Tail(answers)
        /\ replaces' = replaces + 1
        /\ writes' = writes /\ submitted' = submitted
    BY <1>3, Zenon DEF WriteFileSettles
  <2>2. Len(answers') = Len(answers) - 1
    BY <2>1, QueueFacts, HeadTailProperties, Zenon
  <2> QED
    BY <1>0, <2>1, <2>2 DEF OneReplacePerSubmit
<1>4. CASE UNCHANGED <<writes, answers, replaces, submitted>>
  BY <1>4, Zenon DEF OneReplacePerSubmit
<1>5. CASE NextQuestion \/ TransitionEnd \/ HandleBackButton \/ UNCHANGED vars
  BY <1>4, <1>5, Zenon DEF NextQuestion, TransitionEnd, HandleBackButton, vars
<1>6. ASSUME NEW key \in Option, Click(key) PROVE OneReplacePerSubmit'
  BY <1>4, <1>6, Zenon DEF Click
<1> QED
  BY <1>1, <1>2, <1>3, <1>5, <1>6, Zenon DEF Next, User, Native

\* Every press of submit leads to exactly one navigation to the home screen,
\* however often submit is pressed and whether its write succeeds or not.
THEOREM ReplacesCorrect == Spec => []OneReplacePerSubmit
<1>1. Init => OneReplacePerSubmit
  BY DEF Init, OneReplacePerSubmit
<1> QED
  BY <1>1, CoreInit, CoreStep, ReplaceStep, PTL DEF Spec

-----------------------------------------------------------------------------
(* The order in which questions are graded. *)

\* GradedInOrder is inductive once it is known that a quiz that was submitted
\* stays on its last question.
ProgressInv ==
    /\ GradedInOrder
    /\ submitted # <<>> => OnLastQuestion(screen)

\* The number of the question that the i-th press graded.
QuestionOfPress(i) == IF i < totalQuestions THEN i ELSE totalQuestions

LEMMA ProgressStep == CoreInv /\ ProgressInv /\ [Next]_vars => ProgressInv'
<1> SUFFICES ASSUME CoreInv, ProgressInv, [Next]_vars PROVE ProgressInv'
  BY Zenon
<1>1. /\ screen.currentQuestion \in 1 .. totalQuestions
      /\ totalQuestions \in Nat
      /\ Len(picks) \in Nat /\ Len(submitted) \in Nat
      /\ DOMAIN picks = 1 .. Len(picks)
  BY ScreenFacts, QueueFacts, LenProperties, Zenon
<1>2. /\ Len(picks) = screen.currentQuestion - 1 + Len(submitted)
      /\ \A i \in 1 .. Len(picks) : picks[i].question = QuestionOfPress(i)
  BY <1>1, Zenon DEF ProgressInv, GradedInOrder, QuestionOfPress
<1>3. ASSUME Pick \in Record, picks' = Append(picks, Pick),
             Len(picks) + 1 = screen'.currentQuestion - 1 + Len(submitted'),
             screen.currentQuestion = QuestionOfPress(Len(picks) + 1)
      PROVE  GradedInOrder'
  <2>1. /\ Len(picks') = Len(picks) + 1
        /\ DOMAIN picks' = 1 .. Len(picks) + 1
        /\ \A i \in 1 .. Len(picks) : picks'[i] = picks[i]
        /\ picks'[Len(picks) + 1] = Pick
    <3>1. /\ Append(picks, Pick) \in Seq(Record)
          /\ Len(Append(picks, Pick)) = Len(picks) + 1
          /\ \A i \in 1 .. Len(picks) : Append(picks, Pick)[i] = picks[i]
          /\ Append(picks, Pick)[Len(picks) + 1] = Pick
      BY <1>3, QueueFacts, AppendProperties
    <3> QED
      BY <1>3, <3>1, LenProperties, Zenon
  <2>2. Pick.question = QuestionOfPress(Len(picks) + 1)
    BY <1>3, Zenon DEF Pick
  <2>3. \A i \in DOMAIN picks' : picks'[i].question = QuestionOfPress(i)
    <3> SUFFICES ASSUME NEW i \in 1 .. Len(picks) + 1
                 PROVE  picks'[i].question = QuestionOfPress(i)
      BY <2>1, Zenon
    <3>1. CASE i = Len(picks) + 1
      BY <2>1, <2>2, <3>1, Zenon
    <3>2. CASE i \in 1 .. Len(picks)
      BY <1>2, <2>1, <3>2, Zenon
    <3> QED
      BY <1>1, <3>1, <3>2
  <2> QED
    BY <1>3, <2>1, <2>3, Zenon DEF GradedInOrder, QuestionOfPress
<1>5. CASE NextQuestion
  <2>1. /\ NextButtonShown(screen) /\ ~OnLastQuestion(screen)
        /\ screen' = Advanced(screen)
        /\ submitted' = submitted /\ picks' = Append(picks, Pick)
    BY <1>5, Zenon DEF NextQuestion
  <2>2. screen'.currentQuestion = screen.currentQuestion + 1
    BY <2>1, ScreenFacts, AdvancedFacts, Zenon
  <2>3. submitted = <<>>
    BY <2>1, Zenon DEF ProgressInv
  <2>4. Len(picks) + 1 = screen.currentQuestion
    BY <1>1, <1>2, <2>3
  <2>5. screen.currentQuestion < totalQuestions
    BY <1>1, <2>1 DEF OnLastQuestion
  <2>6. screen.currentQuestion = QuestionOfPress(Len(picks) + 1)
    BY <2>4, <2>5, Zenon DEF QuestionOfPress
  <2>7. Len(picks) + 1 = screen'.currentQuestion - 1 + Len(submitted')
    BY <1>1, <2>1, <2>2, <2>3, <2>4
  <2>8. GradedInOrder'
    BY <1>3, <2>1, <2>6, <2>7, PressFacts, Zenon
  <2> QED
    BY <2>1, <2>3, <2>8, Zenon DEF ProgressInv
<1>6. CASE Submit
  <2>1. /\ NextButtonShown(screen) /\ screen.currentQuestion = totalQuestions
        /\ screen' = Graded(screen)
        /\ submitted' = Append(submitted, Graded(screen).correctCount)
        /\ picks' = Append(picks, Pick)
    BY <1>6, Zenon DEF Submit, OnLastQuestion
  <2>2. screen'.currentQuestion = screen.currentQuestion
    BY <2>1, ScreenFacts, GradedFacts, Zenon
  <2>3. Len(submitted') = Len(submitted) + 1
    BY <2>1, QueueFacts, PressFacts, AppendProperties
  <2>4. screen.currentQuestion = QuestionOfPress(Len(picks) + 1)
    BY <1>1, <1>2, <2>1 DEF QuestionOfPress
  <2>5. Len(picks) + 1 = screen'.currentQuestion - 1 + Len(submitted')
    BY <1>1, <1>2, <2>2, <2>3
  <2>6. GradedInOrder'
    BY <1>3, <2>1, <2>4, <2>5, PressFacts, Zenon
  <2> QED
    BY <2>1, <2>2, <2>6, Zenon DEF ProgressInv, OnLastQuestion
<1>7. CASE screen'.currentQuestion = screen.currentQuestion
           /\ UNCHANGED <<submitted, picks>>
  BY <1>7, Zenon DEF ProgressInv, GradedInOrder, OnLastQuestion
<1>8. ASSUME NEW key \in Option, Click(key) PROVE ProgressInv'
  BY <1>7, <1>8, ScreenFacts, ClickedFacts, Zenon DEF Click
<1>9. CASE Native \/ WriteFileSettles \/ TransitionEnd \/ HandleBackButton
           \/ UNCHANGED vars
  BY <1>7, <1>9, Zenon DEF Native, NativeWrite, NativeWriteFails, WriteFileSettles,
                    TransitionEnd, HandleBackButton, vars
<1> QED
  BY <1>5, <1>6, <1>8, <1>9, Zenon DEF Next, User

\* No quiz skips a question, grades one twice before the last, or goes back:
\* the i-th press of the button graded question i until the quiz was submitted.
THEOREM OrderCorrect == Spec => []GradedInOrder
<1>1. Init => ProgressInv
  BY InitialStateFacts DEF Init, ProgressInv, GradedInOrder
<1>2. ProgressInv => GradedInOrder
  BY Zenon DEF ProgressInv
<1> QED
  BY <1>1, <1>2, CoreInit, CoreStep, ProgressStep, PTL DEF Spec

-----------------------------------------------------------------------------
(* The scores that are submitted. *)

\* The submitted scores are bounded because the running score is; the scores
\* still to be written are among the submitted ones.
PointsInv ==
    /\ SubmissionsBounded
    /\ screen.correctCount <= screen.currentQuestion - 1 + Len(submitted)
    /\ \A i \in 1 .. Len(writes) : writes[i] <= screen.correctCount

LEMMA PointsStep == CoreInv /\ PointsInv /\ [Next]_vars => PointsInv'
<1> SUFFICES ASSUME CoreInv, PointsInv, [Next]_vars PROVE PointsInv'
  BY Zenon
<1> DEFINE count == screen.correctCount
           n == Len(submitted)
<1>1. /\ screen \in ScreenState
      /\ screen.currentQuestion \in 1 .. totalQuestions
      /\ totalQuestions \in Nat
      /\ count \in Nat
      /\ writes \in Seq(Nat) /\ submitted \in Seq(Nat)
      /\ Len(writes) \in Nat /\ n \in Nat
      /\ DOMAIN submitted = 1 .. n
      /\ \A i \in 1 .. n : submitted[i] \in Nat
      /\ \A i \in 1 .. Len(writes) : writes[i] \in Nat
      /\ screen.lastQuestion <=> OnLastQuestion(screen)
  <2>1. /\ DOMAIN submitted = 1 .. n
        /\ \A i \in 1 .. n : submitted[i] \in Nat
    BY QueueFacts, LenProperties, ElementOfSeq, Zenon
  <2>2. \A i \in 1 .. Len(writes) : writes[i] \in Nat
    BY QueueFacts, ElementOfSeq, Zenon
  <2> QED
    BY <2>1, <2>2, ScreenFacts, QueueFacts, Zenon
<1>9. /\ \A i \in 1 .. n : submitted[i] <= totalQuestions - 1 + i
      /\ \A i \in 1 .. n : submitted[i] <= count
      /\ \A i \in 1 .. n : \A j \in i .. n : submitted[i] <= submitted[j]
      /\ count <= screen.currentQuestion - 1 + n
      /\ \A i \in 1 .. Len(writes) : writes[i] <= count
  BY <1>1, Zenon DEF PointsInv, SubmissionsBounded
<1>2. /\ Graded(screen).correctCount \in {count, count + 1}
      /\ Graded(screen).correctCount \in Nat
  BY PressFacts, Zenon
<1>3. CASE NextQuestion
  <2>1. /\ screen'.correctCount \in {count, count + 1}
        /\ screen'.currentQuestion = screen.currentQuestion + 1
        /\ submitted' = submitted /\ writes' = writes
    BY <1>1, <1>2, <1>3, AdvancedFacts, Zenon DEF NextQuestion
  <2> HIDE DEF count, n
  <2>6. \A k \in Nat : k <= count => k <= screen'.correctCount
    <3>1. count \in Nat
      BY <1>1, Zenon
    <3> QED
      BY <2>1, <3>1
  <2>2. \A i \in 1 .. n : submitted[i] <= screen'.correctCount
    <3> SUFFICES ASSUME NEW i \in 1 .. n
                 PROVE  submitted[i] <= screen'.correctCount
      BY Zenon
    <3>1. submitted[i] \in Nat /\ submitted[i] <= count
      BY <1>1, <1>9, Zenon
    <3> QED
      BY <2>6, <3>1, Zenon
  <2>3. \A i \in 1 .. Len(writes) : writes[i] <= screen'.correctCount
    <3> SUFFICES ASSUME NEW i \in 1 .. Len(writes)
                 PROVE  writes[i] <= screen'.correctCount
      BY Zenon
    <3>1. writes[i] \in Nat /\ writes[i] <= count
      BY <1>1, <1>9, Zenon
    <3> QED
      BY <2>6, <3>1, Zenon
  <2>4. screen'.correctCount <= screen'.currentQuestion - 1 + n
    <3>1. /\ count \in Nat /\ n \in Nat /\ screen.currentQuestion \in Nat
          /\ count <= screen.currentQuestion - 1 + n
      BY <1>1, <1>9
    <3> QED
      BY <2>1, <3>1
  <2>7. Len(submitted') = n
    BY <2>1, Zenon DEF n
  <2>5. SubmissionsBounded'
    BY <1>9, <2>1, <2>2, <2>7 DEF SubmissionsBounded, n
  <2> QED
    BY <2>1, <2>3, <2>4, <2>5, Zenon DEF PointsInv, n
<1>4. CASE Submit
  <2> DEFINE new == Graded(screen).correctCount
  <2>1. /\ screen'.correctCount = new
        /\ screen'.currentQuestion = totalQuestions
        /\ screen.currentQuestion = totalQuestions
    BY <1>1, <1>4, GradedFacts, Zenon DEF Submit, OnLastQuestion
  <2>2. /\ Len(submitted') = n + 1
        /\ DOMAIN submitted' = 1 .. n + 1
        /\ submitted'[n + 1] = new
        /\ \A i \in 1 .. n : submitted'[i] = submitted[i]
    BY <1>1, <1>2, <1>4, AppendProperties, LenProperties DEF Submit
  <2>3. /\ Len(writes') = Len(writes) + 1
        /\ writes'[Len(writes) + 1] = new
        /\ \A i \in 1 .. Len(writes) : writes'[i] = writes[i]
    BY <1>1, <1>2, <1>4, AppendProperties DEF Submit
  <2> HIDE DEF count, new, n
  <2>4. count <= new /\ new <= totalQuestions + n /\ new \in Nat
    BY <1>1, <1>9, <1>2, <2>1 DEF new
  <2>5. \A i \in 1 .. n + 1 : submitted'[i] <= totalQuestions - 1 + i
    <3> SUFFICES ASSUME NEW i \in 1 .. n + 1
                 PROVE  submitted'[i] <= totalQuestions - 1 + i
      BY Zenon
    <3>1. CASE i = n + 1
      <4>1. totalQuestions - 1 + i = totalQuestions + n
        BY <1>1, <3>1
      <4> QED
        BY <2>2, <2>4, <3>1, <4>1, Zenon
    <3>2. CASE i \in 1 .. n
      BY <1>9, <2>2, <3>2, Zenon
    <3> QED
      BY <1>1, <3>1, <3>2
  <2>6. \A i \in 1 .. n + 1 : submitted'[i] <= new
    <3> SUFFICES ASSUME NEW i \in 1 .. n + 1 PROVE submitted'[i] <= new
      BY Zenon
    <3>1. CASE i = n + 1
      BY <2>2, <2>4, <3>1
    <3>2. CASE i \in 1 .. n
      <4>1. /\ submitted'[i] = submitted[i] /\ submitted[i] <= count
            /\ submitted[i] \in Nat /\ count \in Nat
        BY <1>1, <1>9, <2>2, <3>2, Zenon
      <4> QED
        BY <2>4, <4>1
    <3> QED
      BY <1>1, <3>1, <3>2
  <2>7. \A i \in 1 .. n + 1 : \A j \in i .. n + 1 : submitted'[i] <= submitted'[j]
    <3> SUFFICES ASSUME NEW i \in 1 .. n + 1, NEW j \in i .. n + 1
                 PROVE  submitted'[i] <= submitted'[j]
      BY Zenon
    <3>1. CASE j = n + 1
      BY <2>2, <2>6, <3>1, Zenon
    <3>2. CASE j # n + 1
      <4>1. i \in 1 .. n /\ j \in i .. n /\ j \in 1 .. n
        BY <1>1, <3>2
      <4> QED
        BY <1>9, <2>2, <4>1, Zenon
    <3> QED
      BY <3>1, <3>2, Zenon
  <2>8. SubmissionsBounded'
    BY <2>1, <2>2, <2>5, <2>6, <2>7, Zenon DEF SubmissionsBounded
  <2>9. \A i \in 1 .. Len(writes') : writes'[i] <= new
    <3> SUFFICES ASSUME NEW i \in 1 .. Len(writes') PROVE writes'[i] <= new
      BY Zenon
    <3>1. CASE i = Len(writes) + 1
      BY <2>3, <2>4, <3>1
    <3>2. CASE i \in 1 .. Len(writes)
      <4>1. writes'[i] = writes[i] /\ writes[i] <= count /\ writes[i] \in Nat
        BY <1>1, <1>9, <2>3, <3>2, Zenon
      <4>2. count \in Nat
        BY <1>1, Zenon
      <4> QED
        BY <2>4, <4>1, <4>2
    <3> QED
      BY <1>1, <2>3, <3>1, <3>2
  <2>10. screen'.correctCount <= screen'.currentQuestion - 1 + Len(submitted')
    BY <1>1, <2>1, <2>2, <2>4
  <2> QED
    BY <2>1, <2>8, <2>9, <2>10, Zenon DEF PointsInv
<1>5. CASE Native
  <2>1. /\ Len(writes') = Len(writes) - 1
        /\ \A i \in 1 .. Len(writes') : writes'[i] = writes[i + 1]
        /\ UNCHANGED <<screen, submitted>>
    BY <1>1, <1>5, HeadTailProperties, Zenon DEF Native, NativeWrite, NativeWriteFails
  <2> HIDE DEF count, n
  <2>2. \A i \in 1 .. Len(writes') : writes'[i] <= count
    <3> SUFFICES ASSUME NEW i \in 1 .. Len(writes') PROVE writes'[i] <= count
      BY Zenon
    <3>1. i + 1 \in 1 .. Len(writes)
      BY <1>1, <2>1
    <3> QED
      BY <1>9, <2>1, <3>1, Zenon
  <2> QED
    BY <2>1, <2>2, Zenon DEF PointsInv, SubmissionsBounded, count
<1>6. CASE /\ screen'.correctCount = count
           /\ screen'.currentQuestion = screen.currentQuestion
           /\ UNCHANGED <<submitted, writes>>
  BY <1>6, Zenon DEF PointsInv, SubmissionsBounded
<1>7. ASSUME NEW key \in Option, Click(key) PROVE PointsInv'
  BY <1>1, <1>6, <1>7, ClickedFacts, Zenon DEF Click
<1>8. CASE WriteFileSettles \/ TransitionEnd \/ HandleBackButton \/ UNCHANGED vars
  BY <1>6, <1>8, Zenon DEF WriteFileSettles, TransitionEnd, HandleBackButton, vars
<1> QED
  BY <1>3, <1>4, <1>5, <1>7, <1>8, Zenon DEF Next, User

LEMMA PointsInit == Init => PointsInv
BY InitialStateFacts DEF Init, PointsInv, SubmissionsBounded

\* The first score submitted is at most the number of questions, each further
\* press of submit can add at most one point to what is stored, and a later
\* submission never stores less than an earlier one.
THEOREM SubmissionsCorrect == Spec => []SubmissionsBounded
<1>1. PointsInv => SubmissionsBounded
  BY Zenon DEF PointsInv
<1> QED
  BY <1>1, CoreInit, CoreStep, PointsInit, PointsStep, PTL DEF Spec

-----------------------------------------------------------------------------
(* The score. *)

\* A press that picks the right option adds its index to the presses counted,
\* a press that does not adds nothing.
LEMMA ScorePress ==
    ASSUME CoreInv, ScoreIsExact, Pick \in Record,
           picks' = Append(picks, Pick),
           screen'.correctCount = Graded(screen).correctCount
    PROVE  ScoreIsExact'
<1> DEFINE n == Len(picks)
           old == RightAmong(n)
           right == IsRight(screen.currentQuestion, screen.selectedOption)
<1>1. /\ screen \in ScreenState
      /\ screen.correctCount \in Nat
      /\ picks \in Seq(Record)
      /\ n \in Nat
  BY LenProperties, Zenon DEF CoreInv, TypeOK, ScreenState
<1>2. /\ Len(picks') = n + 1
      /\ \A i \in 1 .. n : picks'[i] = picks[i]
      /\ picks'[n + 1] = Pick
  BY <1>1, AppendProperties
<1>3. IsFiniteSet(old) /\ n + 1 \notin old
  <2>1. IsFiniteSet(1 .. n)
    BY <1>1, FS_Interval
  <2>2. old \subseteq 1 .. n
    BY Zenon DEF RightAmong
  <2>3. n + 1 \notin 1 .. n
    BY <1>1
  <2> QED
    BY <2>1, <2>2, <2>3, FS_Subset, Zenon
<1>4. RightAmong(Len(picks))' =
         {i \in 1 .. n + 1 : IsRight(picks'[i].question, picks'[i].option)}
  BY <1>2, Zenon DEF RightAmong, IsRight
<1>5. IsRight(picks'[n + 1].question, picks'[n + 1].option) <=> right
  BY <1>2 DEF Pick
<1>6. 1 .. n + 1 = (1 .. n) \cup {n + 1}
  BY <1>1
<1>7. \A i \in 1 .. n : IsRight(picks'[i].question, picks'[i].option)
                          <=> IsRight(picks[i].question, picks[i].option)
  BY <1>2, Zenon
<1>8. CASE right
  <2>1. RightAmong(Len(picks))' = old \cup {n + 1}
    BY <1>4, <1>5, <1>6, <1>7, <1>8, Zenon DEF RightAmong
  <2>2. Cardinality(RightAmong(Len(picks))') = Cardinality(old) + 1
    BY <1>3, <2>1, FS_AddElement, Zenon
  <2>3. screen'.correctCount = screen.correctCount + 1
    BY <1>1, <1>8, GradedFacts, Zenon
  <2> QED
    BY <2>2, <2>3, Zenon DEF ScoreIsExact
<1>9. CASE ~right
  <2>1. RightAmong(Len(picks))' = old
    BY <1>4, <1>5, <1>6, <1>7, <1>9, Zenon DEF RightAmong
  <2>2. screen'.correctCount = screen.correctCount
    BY <1>1, <1>9, GradedFacts, Zenon
  <2> QED
    BY <2>1, <2>2, Zenon DEF ScoreIsExact
<1> QED
  BY <1>8, <1>9, Zenon

LEMMA ScoreStep == CoreInv /\ ScoreIsExact /\ [Next]_vars => ScoreIsExact'
<1> SUFFICES ASSUME CoreInv, ScoreIsExact, [Next]_vars PROVE ScoreIsExact'
  BY Zenon
<1>1. screen \in ScreenState /\ (screen.lastQuestion <=> OnLastQuestion(screen))
  BY Zenon DEF CoreInv, TypeOK, SelectionIsCurrent
<1>2. NextButtonShown(screen) => Pick \in Record
  BY <1>1, Zenon DEF NextButtonShown, CoreInv, SelectionIsCurrent, ScreenState, Pick, Record
<1>3. CASE NextQuestion
  <2>1. screen'.correctCount = Graded(screen).correctCount
    BY <1>1, <1>3, AdvancedFacts, Zenon DEF NextQuestion
  <2> QED
    BY <1>2, <1>3, <2>1, ScorePress, Zenon DEF NextQuestion
<1>4. CASE Submit
  BY <1>2, <1>4, ScorePress, Zenon DEF Submit
<1>5. CASE screen'.correctCount = screen.correctCount /\ picks' = picks
  BY <1>5, Zenon DEF ScoreIsExact, RightAmong
<1>6. ASSUME NEW key \in Option, Click(key) PROVE ScoreIsExact'
  BY <1>1, <1>5, <1>6, ClickedFacts, Zenon DEF Click
<1>7. CASE Native \/ WriteFileSettles \/ TransitionEnd \/ HandleBackButton
           \/ UNCHANGED vars
  BY <1>5, <1>7, Zenon DEF Native, NativeWrite, NativeWriteFails, WriteFileSettles,
                    TransitionEnd, HandleBackButton, vars
<1> QED
  BY <1>3, <1>4, <1>6, <1>7, Zenon DEF Next, User

\* correctCount, assigned behind React's back, is the number of presses that
\* picked the right option: no increment is lost or repeated by a setState, a
\* render or a submission.
THEOREM ScoreCorrect == Spec => []ScoreIsExact
<1>1. Init => ScoreIsExact
  <2> SUFFICES ASSUME Init PROVE ScoreIsExact
    BY Zenon
  <2>1. RightAmong(Len(picks)) = {}
    BY DEF Init, RightAmong
  <2> QED
    BY <2>1, InitialStateFacts, FS_EmptySet, Zenon DEF Init, ScoreIsExact
<1> QED
  BY <1>1, CoreInit, CoreStep, ScoreStep, PTL DEF Spec

-----------------------------------------------------------------------------
(* The contract. *)

LEMMA ContractStep ==
    CoreInv /\ PointsInv /\ [Next]_vars => [Contract!CNext]_(Contract!cvars)
<1> SUFFICES ASSUME CoreInv, PointsInv, [Next]_vars
             PROVE  Contract!CNext \/ UNCHANGED Contract!cvars
  BY Zenon
<1>1. /\ screen \in ScreenState
      /\ screen.currentQuestion \in 1 .. totalQuestions
      /\ totalQuestions \in Nat
      /\ screen.correctCount \in Nat
      /\ writes \in Seq(Nat) /\ answers \in Seq({"written", "failed"})
      /\ Len(writes) \in Nat /\ Len(answers) \in Nat
      /\ screen.lastQuestion <=> OnLastQuestion(screen)
  BY ScreenFacts, QueueFacts, Zenon
<1>2. /\ Graded(screen).correctCount \in {screen.correctCount, screen.correctCount + 1}
      /\ Graded(screen).correctCount \in Nat
  BY PressFacts, Zenon
<1>3. CASE NextQuestion
  <2>1. /\ screen'.correctCount = Graded(screen).correctCount
        /\ screen'.currentQuestion = screen.currentQuestion + 1
    BY <1>1, <1>3, AdvancedFacts, Zenon DEF NextQuestion
  <2>2. screen.currentQuestion < totalQuestions
    BY <1>1, <1>3 DEF NextQuestion, OnLastQuestion
  <2>3. Contract!Move
    BY <1>2, <1>3, <2>1, <2>2, Zenon DEF NextQuestion, Contract!Move, Contract!Mark
  <2> QED
    BY <2>3, Zenon DEF Contract!CNext
<1>4. CASE Submit
  <2>1. /\ screen'.correctCount = Graded(screen).correctCount
        /\ screen'.currentQuestion = screen.currentQuestion
        /\ screen.currentQuestion = totalQuestions
    BY <1>1, <1>4, GradedFacts, Zenon DEF Submit, OnLastQuestion
  <2>2. Len(writes') = Len(writes) + 1
    BY <1>1, <1>2, <1>4, AppendProperties DEF Submit
  <2>3. Contract!HandIn
    BY <1>2, <1>4, <2>1, <2>2, Zenon DEF Submit, Contract!HandIn, Contract!Mark
  <2> QED
    BY <2>3, Zenon DEF Contract!CNext
<1>5. CASE Native
  <2>1. /\ Len(writes') = Len(writes) - 1
        /\ Len(writes) > 0
    BY <1>1, <1>5, HeadTailProperties, EmptySeq
       DEF Native, NativeWrite, NativeWriteFails
  <2>2. Len(answers') = Len(answers) + 1
    BY <1>1, <1>5, AppendProperties DEF Native, NativeWrite, NativeWriteFails
  <2>3. Head(writes) = writes[1] /\ writes[1] \in Nat
    BY <1>1, <2>1, ElementOfSeq
  <2>4. writes[1] <= screen.correctCount
    BY <1>1, <2>1 DEF PointsInv
  <2>5. \/ file' = file
        \/ file'.kind = "empty"
        \/ file'.kind = "score" /\ file'.score \in 0 .. screen.correctCount
    BY <1>1, <1>5, <2>3, <2>4
       DEF Native, NativeWrite, NativeWriteFails, ScoreFile, EmptyFile
  <2>6. Contract!Save
    BY <1>5, <2>1, <2>2, <2>5, Zenon
       DEF Native, NativeWrite, NativeWriteFails, Contract!Save
  <2> QED
    BY <2>6, Zenon DEF Contract!CNext
<1>6. CASE WriteFileSettles
  <2>1. /\ Len(answers') = Len(answers) - 1
        /\ Len(answers) > 0
    BY <1>1, <1>6, HeadTailProperties, EmptySeq DEF WriteFileSettles
  <2>2. (mount' # "focused") = TRUE
    BY <1>6, Zenon DEF WriteFileSettles, AfterReplace
  <2>3. Contract!HandBack
    BY <1>6, <2>1, <2>2, Zenon DEF WriteFileSettles, Contract!HandBack
  <2> QED
    BY <2>3, Zenon DEF Contract!CNext
<1>7. ASSUME NEW key \in Option, Click(key) PROVE UNCHANGED Contract!cvars
  BY <1>1, <1>7, ClickedFacts, Zenon DEF Click, Contract!cvars
<1>8. CASE TransitionEnd
  <2>1. (mount' # "focused") = (mount # "focused")
    BY <1>8, Zenon DEF TransitionEnd
  <2> QED
    BY <1>8, <2>1, Zenon DEF TransitionEnd, Contract!cvars
<1>9. CASE HandleBackButton \/ UNCHANGED vars
  BY <1>9, Zenon DEF HandleBackButton, vars, Contract!cvars
<1> QED
  BY <1>3, <1>4, <1>5, <1>6, <1>7, <1>8, <1>9, Zenon DEF Next, User

\* Every behaviour of the screen is a behaviour of the contract: questions only
\* move forward, a press is worth at most one point, only a score the quiz has
\* reached gets on file, and the user goes home only after a write was tried.
THEOREM ContractCorrect == Spec => ImplementsContract
<1>1. Init => Contract!CInit
  <2> SUFFICES ASSUME Init PROVE Contract!CInit
    BY Zenon
  <2>1. file.kind \in {"absent", "empty", "score"}
    BY DEF Init, NoFile, EmptyFile, ScoreFile
  <2>2. (mount # "focused") = FALSE
    BY Zenon DEF Init
  <2> QED
    BY <2>1, <2>2, InitialStateFacts, Zenon DEF Init, Contract!CInit
<1> QED
  BY <1>1, CoreInit, CoreStep, PointsInit, PointsStep, ContractStep, PTL
     DEF Spec, ImplementsContract, Contract!CSpec

-----------------------------------------------------------------------------
(* The score on file. *)

\* The number of writes RNFS has tried.
Tried == replaces + Len(answers)

Failure ==
    \/ StoreFailed \in alerts
    \/ \E i \in 1 .. Len(answers) : answers[i] = "failed"

\* RNFS works through the submissions in order, and unless a write failed the
\* file holds the submission it tried last.  PersistedOrReported only speaks of
\* the time after the first navigation, and is not inductive.
FileInv ==
    /\ OneReplacePerSubmit
    /\ \A i \in 1 .. Len(writes) : writes[i] = submitted[Tried + i]
    /\ Tried > 0 => Failure \/ file = ScoreFile(submitted[Tried])

LEMMA FileStep == CoreInv /\ FileInv /\ [Next]_vars => FileInv'
<1> SUFFICES ASSUME CoreInv, FileInv, [Next]_vars PROVE FileInv'
  BY Zenon
<1> DEFINE k == Tried
           m == Len(writes)
           n == Len(submitted)
           Answer == {"written", "failed"}
<1>1. /\ writes \in Seq(Nat) /\ submitted \in Seq(Nat) /\ answers \in Seq(Answer)
      /\ replaces \in Nat /\ Len(answers) \in Nat
      /\ k \in Nat /\ m \in Nat /\ n \in Nat
      /\ n = k + m
  BY LenProperties DEF CoreInv, TypeOK, FileInv, OneReplacePerSubmit, Tried
<1>2. OneReplacePerSubmit'
  BY ReplaceStep, Zenon DEF FileInv
<1>3. CASE Submit
  <2> DEFINE new == Graded(screen).correctCount
  <2>1. new \in Nat
    BY GradedFacts, Zenon DEF CoreInv, TypeOK, ScreenState
  <2>2. /\ Len(writes') = m + 1
        /\ writes'[m + 1] = new
        /\ \A i \in 1 .. m : writes'[i] = writes[i]
    BY <1>1, <1>3, <2>1, AppendProperties DEF Submit
  <2>3. /\ submitted'[n + 1] = new
        /\ \A i \in 1 .. n : submitted'[i] = submitted[i]
    BY <1>1, <1>3, <2>1, AppendProperties DEF Submit
  <2>4. Tried' = k /\ (Failure' <=> Failure) /\ file' = file
    BY <1>3, Zenon DEF Submit, Tried, Failure
  <2> HIDE DEF k, m, n, new
  <2>5. \A i \in 1 .. m + 1 : writes'[i] = submitted'[k + i]
    <3> SUFFICES ASSUME NEW i \in 1 .. m + 1 PROVE writes'[i] = submitted'[k + i]
      BY Zenon
    <3>1. CASE i = m + 1
      <4>1. k + i = n + 1
        BY <1>1, <3>1
      <4> QED
        BY <2>2, <2>3, <3>1, <4>1, Zenon
    <3>2. CASE i \in 1 .. m
      <4>1. k + i \in 1 .. n
        BY <1>1, <3>2
      <4> QED
        BY <2>2, <2>3, <3>2, <4>1, Zenon DEF FileInv, k, m
    <3> QED
      BY <1>1, <3>1, <3>2
  <2>6. k > 0 => submitted'[k] = submitted[k]
    BY <1>1, <2>3
  <2> QED
    BY <1>2, <2>2, <2>4, <2>5, <2>6, Zenon DEF FileInv, k
<1>4. CASE Native
  <2>1. /\ m > 0
        /\ Len(writes') = m - 1
        /\ \A i \in 1 .. m - 1 : writes'[i] = writes[i + 1]
        /\ Head(writes) = writes[1]
    <3>1. writes # <<>> /\ writes' = Tail(writes)
      BY <1>4, Zenon DEF Native, NativeWrite, NativeWriteFails
    <3>2. m > 0
      BY <1>1, <3>1, EmptySeq
    <3>3. /\ Len(writes') = m - 1
          /\ \A i \in 1 .. Len(writes') : writes'[i] = writes[i + 1]
      BY <1>1, <3>1, HeadTailProperties, Zenon
    <3>4. Head(writes) = writes[1]
      BY <1>1, <3>1
    <3> QED
      BY <3>2, <3>3, <3>4, Zenon
  <2>2. PICK a \in Answer : answers' = Append(answers, a)
    BY <1>4, Zenon DEF Native, NativeWrite, NativeWriteFails
  <2>3. /\ Len(answers') = Len(answers) + 1
        /\ answers'[Len(answers) + 1] = a
        /\ \A i \in 1 .. Len(answers) : answers'[i] = answers[i]
    BY <1>1, <2>2, AppendProperties
  <2>4. UNCHANGED <<submitted, replaces, alerts>>
    BY <1>4, Zenon DEF Native, NativeWrite, NativeWriteFails
  <2>5. Tried' = k + 1
    BY <1>1, <2>3, <2>4 DEF Tried
  <2> HIDE DEF k, m, n
  <2>6. \A i \in 1 .. m - 1 : writes'[i] = submitted[(k + 1) + i]
    <3> SUFFICES ASSUME NEW i \in 1 .. m - 1
                 PROVE  writes'[i] = submitted[(k + 1) + i]
      BY Zenon
    <3>1. i + 1 \in 1 .. m /\ k + (i + 1) = (k + 1) + i
      BY <1>1
    <3>2. writes[i + 1] = submitted[k + (i + 1)]
      BY <3>1, Zenon DEF FileInv, k, m
    <3> QED
      BY <2>1, <3>1, <3>2, Zenon
  <2>7. writes[1] = submitted[k + 1]
    BY <1>1, <2>1 DEF FileInv, k, m
  <2>8. Failure' \/ file' = ScoreFile(submitted[k + 1])
    <3>1. CASE NativeWrite
      BY <2>1, <2>7, <3>1, Zenon DEF NativeWrite
    <3>2. CASE NativeWriteFails
      <4>1. /\ Len(answers') = Len(answers) + 1
            /\ answers'[Len(answers) + 1] = "failed"
        BY <1>1, <3>2, AppendProperties DEF NativeWriteFails
      <4>2. Len(answers) + 1 \in 1 .. Len(answers')
        BY <1>1, <4>1
      <4> QED
        BY <4>1, <4>2, Zenon DEF Failure
    <3> QED
      BY <1>4, <3>1, <3>2, Zenon DEF Native
  <2> QED
    BY <1>2, <2>1, <2>4, <2>5, <2>6, <2>8, Zenon DEF FileInv
<1>5. CASE WriteFileSettles
  <2>1. /\ answers # <<>>
        /\ answers' = Tail(answers)
        /\ replaces' = replaces + 1
        /\ alerts \subseteq alerts'
        /\ Head(answers) = "failed" => StoreFailed \in alerts'
        /\ UNCHANGED <<writes, file, submitted>>
    BY <1>5, Zenon DEF WriteFileSettles
  <2>2. /\ Len(answers') = Len(answers) - 1
        /\ \A i \in 1 .. Len(answers') : answers'[i] = answers[i + 1]
        /\ Head(answers) = answers[1]
    BY <1>1, <2>1, HeadTailProperties
  <2>3. Tried' = k
    BY <1>1, <2>1, <2>2 DEF Tried
  <2>4. Failure => Failure'
    <3>1. CASE StoreFailed \in alerts
      BY <2>1, <3>1, Zenon DEF Failure
    <3>2. ASSUME NEW i \in 1 .. Len(answers), answers[i] = "failed" PROVE Failure'
      <4>1. CASE i = 1
        BY <2>1, <2>2, <3>2, <4>1, Zenon DEF Failure
      <4>2. CASE i # 1
        <5>1. i - 1 \in 1 .. Len(answers') /\ (i - 1) + 1 = i
          BY <1>1, <2>2, <4>2
        <5>2. answers'[i - 1] = "failed"
          BY <2>2, <3>2, <5>1, Zenon
        <5> QED
          BY <5>1, <5>2, Zenon DEF Failure
      <4> QED
        BY <4>1, <4>2, Zenon
    <3> QED
      BY <3>1, <3>2, Zenon DEF Failure
  <2>5. \A i \in 1 .. Len(writes') : writes'[i] = submitted'[Tried' + i]
    BY <2>1, <2>3, Zenon DEF FileInv
  <2>6. Tried' > 0 => Failure' \/ file' = ScoreFile(submitted'[Tried'])
    BY <2>1, <2>3, <2>4, Zenon DEF FileInv
  <2> QED
    BY <1>2, <2>5, <2>6, Zenon DEF FileInv
<1>6. CASE /\ UNCHANGED <<writes, answers, file, replaces, submitted>>
           /\ alerts \subseteq alerts'
  <2>1. Tried' = Tried /\ (Failure => Failure')
    BY <1>6, Zenon DEF Tried, Failure
  <2>2. \A i \in 1 .. Len(writes') : writes'[i] = submitted'[Tried' + i]
    BY <1>6, <2>1, Zenon DEF FileInv
  <2>3. Tried' > 0 => Failure' \/ file' = ScoreFile(submitted'[Tried'])
    BY <1>6, <2>1, Zenon DEF FileInv
  <2> QED
    BY <1>2, <2>2, <2>3, Zenon DEF FileInv
<1>7. ASSUME NEW key \in Option, Click(key) PROVE FileInv'
  BY <1>6, <1>7, Zenon DEF Click
<1>8. CASE NextQuestion \/ TransitionEnd \/ HandleBackButton \/ UNCHANGED vars
  BY <1>6, <1>8, Zenon DEF NextQuestion, TransitionEnd, HandleBackButton, vars
<1> QED
  BY <1>3, <1>4, <1>5, <1>7, <1>8, Zenon DEF Next, User

\* Once a submission has taken the user home, its score or a later one is on
\* file, unless a write failed; and then the user has been told, or the answer
\* is still on its way.
THEOREM FileCorrect == Spec => []PersistedOrReported
<1>1. Init => FileInv
  BY DEF Init, FileInv, OneReplacePerSubmit, Tried
<1>2. CoreInv /\ FileInv => PersistedOrReported
  <2> SUFFICES ASSUME CoreInv, FileInv, replaces > 0, ~Failure
               PROVE  /\ file.kind = "score"
                      /\ \E i \in replaces .. Len(submitted) : file.score = submitted[i]
    BY LenProperties, Zenon DEF PersistedOrReported, Failure, CoreInv, TypeOK
  <2>1. /\ replaces \in Nat /\ Len(answers) \in Nat /\ Len(writes) \in Nat
        /\ Len(submitted) = replaces + Len(answers) + Len(writes)
    BY LenProperties, Zenon DEF CoreInv, TypeOK, FileInv, OneReplacePerSubmit
  <2>2. Tried > 0 /\ Tried \in replaces .. Len(submitted)
    BY <2>1 DEF Tried
  <2>3. file = ScoreFile(submitted[Tried])
    BY <2>2, Zenon DEF FileInv
  <2> QED
    BY <2>2, <2>3, Zenon DEF ScoreFile
<1> QED
  BY <1>1, <1>2, CoreInit, CoreStep, FileStep, PTL DEF Spec
=============================================================================
