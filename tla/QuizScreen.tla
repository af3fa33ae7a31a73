----------------------------- MODULE QuizScreen -----------------------------
(***************************************************************************)
(* One QuizScreen from its mount until everything it started has settled:  *)
(* the answering of the questions, the submission, the asynchronous write  *)
(* of the score and the navigation to the home screen.                     *)
(*                                                                         *)
(* JavaScript runs one handler or promise callback at a time, so each is   *)
(* one action.  What runs between them is native: RNFS performs the        *)
(* requested writes one at a time in request order, and answers them in    *)
(* that order.  The handler of the submit button neither disables the      *)
(* button nor changes the state that shows it, so the button works until   *)
(* the screen is unmounted.                                                *)
(***************************************************************************)
EXTENDS QuizState, Sequences, FiniteSets

CONSTANT
    MaxSubmits       \* bound: presses of the submit button

ASSUME MaxSubmitsAssumption == MaxSubmits \in Nat

VARIABLES
    screen,          \* this.state
    mount,           \* where the component is in its life
    writes,          \* scores handed to RNFS.writeFile, not yet written
    answers,         \* outcomes of finished writes, not yet seen by JavaScript
    file,            \* the score file
    alerts,          \* the messages shown with Alert.alert
    replaces,        \* calls of navigation.replace('HomeScreen') made
    submitted,       \* history: the scores passed to writeFile, in order
    picks            \* history: the question and option of every press of the
                     \* next/submit button, in order

vars == <<screen, mount, writes, answers, file, alerts, replaces, submitted, picks>>

-----------------------------------------------------------------------------
(* The score file. *)

NoFile == [kind |-> "absent", score |-> 0]

\* A write that failed after it had opened, and so truncated, the file.
EmptyFile == [kind |-> "empty", score |-> 0]

\* The file holding the text correctCount.toString().
ScoreFile(n) == [kind |-> "score", score |-> n]

FileState == [kind : {"absent", "empty", "score"}, score : Nat]

Completes == "Please Complete Quiz"
StoreFailed == "Failed to store the score"

\* focused: the route on top.  leaving: replaced, but still mounted below the
\* new screen while the stack animates.  unmounted: gone.
Mounted == mount \in {"focused", "leaving"}

-----------------------------------------------------------------------------
(* The file on entry was left by an earlier quiz, if there was one. *)

Init ==
    /\ screen = InitialState
    /\ mount = "focused"
    /\ writes = <<>>
    /\ answers = <<>>
    /\ file \in {NoFile, EmptyFile} \cup {ScoreFile(n) : n \in 0 .. totalQuestions}
    /\ alerts = {}
    /\ replaces = 0
    /\ submitted = <<>>
    /\ picks = <<>>

\* The press of the next/submit button now being handled.
Pick == [question |-> screen.currentQuestion, option |-> screen.selectedOption]

Click(key) ==
    /\ Mounted
    /\ screen' = Clicked(screen, key)
    /\ UNCHANGED <<mount, writes, answers, file, alerts, replaces, submitted, picks>>

\* nextQuestion on a question that is not the last one.
NextQuestion ==
    /\ Mounted
    /\ NextButtonShown(screen)
    /\ ~OnLastQuestion(screen)
    /\ screen' = Advanced(screen)
    /\ picks' = Append(picks, Pick)
    /\ UNCHANGED <<mount, writes, answers, file, alerts, replaces, submitted>>

\* Mutant: the last question is graded a second time on the way to the file.
SubmitGradingTwice ==
    /\ Mounted
    /\ NextButtonShown(screen)
    /\ OnLastQuestion(screen)
    /\ Len(submitted) < MaxSubmits
    /\ screen' = Graded(Graded(screen))
    /\ writes' = Append(writes, screen'.correctCount)
    /\ submitted' = Append(submitted, screen'.correctCount)
    /\ picks' = Append(picks, Pick)
    /\ UNCHANGED <<mount, answers, file, alerts, replaces>>

\* Mutant: the screen is replaced without waiting for the write.
SubmitWithoutAwait ==
    /\ Mounted
    /\ NextButtonShown(screen)
    /\ OnLastQuestion(screen)
    /\ Len(submitted) < MaxSubmits
    /\ screen' = Graded(screen)
    /\ writes' = Append(writes, screen'.correctCount)
    /\ submitted' = Append(submitted, screen'.correctCount)
    /\ picks' = Append(picks, Pick)
    /\ mount' = "leaving"
    /\ UNCHANGED <<answers, file, alerts, replaces>>

\* nextQuestion on the last question, up to the await in writeFile.
Submit ==
    /\ Mounted
    /\ NextButtonShown(screen)
    /\ OnLastQuestion(screen)
    /\ Len(submitted) < MaxSubmits
    /\ screen' = Graded(screen)
    /\ writes' = Append(writes, Graded(screen).correctCount)
    /\ submitted' = Append(submitted, Graded(screen).correctCount)
    /\ picks' = Append(picks, Pick)
    /\ UNCHANGED <<mount, answers, file, alerts, replaces>>

\* RNFS performs the oldest requested write.
NativeWrite ==
    /\ writes # <<>>
    /\ writes' = Tail(writes)
    /\ file' = ScoreFile(Head(writes))
    /\ answers' = Append(answers, "written")
    /\ UNCHANGED <<screen, mount, alerts, replaces, submitted, picks>>

\* RNFS fails to, before or after it truncated the file.
NativeWriteFails ==
    /\ writes # <<>>
    /\ writes' = Tail(writes)
    /\ file' \in {file, EmptyFile}
    /\ answers' = Append(answers, "failed")
    /\ UNCHANGED <<screen, mount, alerts, replaces, submitted, picks>>

\* What a navigation.replace does to this screen.  Replacing it starts the
\* animation; replacing the screen that replaced it ends its life.
AfterReplace(m) == IF m = "focused" THEN "leaving" ELSE "unmounted"

\* Mutant: the catch block does not tell the user.
WriteFileSettlesSilently ==
    /\ answers # <<>>
    /\ answers' = Tail(answers)
    /\ replaces' = replaces + 1
    /\ mount' = AfterReplace(mount)
    /\ UNCHANGED <<screen, writes, file, alerts, submitted, picks>>

\* Mutant: the failure is thrown again, so then() is not called.
WriteFileSettlesOrThrows ==
    /\ answers # <<>>
    /\ answers' = Tail(answers)
    /\ IF Head(answers) = "failed"
       THEN /\ alerts' = alerts \cup {StoreFailed}
            /\ UNCHANGED <<replaces, mount>>
       ELSE /\ replaces' = replaces + 1
            /\ mount' = AfterReplace(mount)
            /\ UNCHANGED alerts
    /\ UNCHANGED <<screen, writes, file, submitted, picks>>

\* writeFile resumes after its await (through the catch block if the write
\* failed) and its then() callback replaces the route on top of the stack.
WriteFileSettles ==
    /\ answers # <<>>
    /\ answers' = Tail(answers)
    /\ alerts' = IF Head(answers) = "failed" THEN alerts \cup {StoreFailed}
                                             ELSE alerts
    /\ replaces' = replaces + 1
    /\ mount' = AfterReplace(mount)
    /\ UNCHANGED <<screen, writes, file, submitted, picks>>

\* The stack animation ends and the screen below is unmounted.
TransitionEnd ==
    /\ mount = "leaving"
    /\ mount' = "unmounted"
    /\ UNCHANGED <<screen, writes, answers, file, alerts, replaces, submitted, picks>>

\* The hardware back button while the handler is registered.
HandleBackButton ==
    /\ Mounted
    /\ alerts' = alerts \cup {Completes}
    /\ UNCHANGED <<screen, mount, writes, answers, file, replaces, submitted, picks>>

User ==
    \/ \E key \in Option : Click(key)
    \/ NextQuestion
    \/ Submit
    \/ HandleBackButton

Native == NativeWrite \/ NativeWriteFails

Next == User \/ Native \/ WriteFileSettles \/ TransitionEnd

\* The user owes nothing.  The native queue, the JavaScript event loop and the
\* animation driver keep running while the process lives.
Fairness ==
    /\ WF_vars(Native)
    /\ WF_vars(WriteFileSettles)
    /\ WF_vars(TransitionEnd)

Spec == Init /\ [][Next]_vars

FairSpec == Spec /\ Fairness
-----------------------------------------------------------------------------
(* Properties. *)

Record == [question : Question, option : Option]

\* Every variable keeps its type; in particular currentQuestion stays inside
\* the bank, so the lookups of render() and nextQuestion never miss.
TypeOK ==
    /\ screen \in ScreenState
    /\ mount \in {"focused", "leaving", "unmounted"}
    /\ writes \in Seq(Nat)
    /\ answers \in Seq({"written", "failed"})
    /\ file \in FileState
    /\ alerts \in SUBSET {Completes, StoreFailed}
    /\ replaces \in Nat
    /\ submitted \in Seq(Nat)
    /\ picks \in Seq(Record)

\* What the button that grades is shown for: an option of the question on the
\* screen is selected exactly while the button is visible (no selection is
\* carried from one question to the next), and render() has flagged the last
\* question exactly when it is on the screen.
SelectionIsCurrent ==
    /\ screen.answered <=> screen.selectedOption # NoOption
    /\ screen.lastQuestion <=> OnLastQuestion(screen)

\* The questions are graded in order and none is skipped: the i-th press
\* graded question i, and every press after the first submission graded the
\* last question again.
GradedInOrder ==
    /\ Len(picks) = screen.currentQuestion - 1 + Len(submitted)
    /\ \A i \in DOMAIN picks :
          picks[i].question = IF i < totalQuestions THEN i ELSE totalQuestions

\* The presses among the first n that picked the right option.
RightAmong(n) ==
    {i \in 1 .. n : IsRight(picks[i].question, picks[i].option)}

\* correctCount, which nextQuestion updates behind React's back, is exactly the
\* number of presses that picked the right option: no setState or render in
\* between loses an increment or repeats one.
ScoreIsExact ==
    screen.correctCount = Cardinality(RightAmong(Len(picks)))

\* The score of the first submission is a score of this quiz, and every
\* further press of submit can raise it by at most one; the scores submitted
\* never fall.
SubmissionsBounded ==
    \A i \in DOMAIN submitted :
        /\ submitted[i] <= totalQuestions - 1 + i
        /\ submitted[i] <= screen.correctCount
        /\ \A j \in i .. Len(submitted) : submitted[i] <= submitted[j]

\* Every press of submit is answered by exactly one navigation to the home
\* screen: it has been made, or its write is still on its way.
OneReplacePerSubmit ==
    Len(submitted) = replaces + Len(answers) + Len(writes)

\* When the quiz has gone home, the file holds the score of the submission
\* that took it there or of a later one, unless a write failed; a failure is
\* reported to the user, or its answer is still on its way to JavaScript.
PersistedOrReported ==
    replaces > 0 =>
        \/ StoreFailed \in alerts
        \/ \E i \in DOMAIN answers : answers[i] = "failed"
        \/ /\ file.kind = "score"
           /\ \E i \in replaces .. Len(submitted) : file.score = submitted[i]

\* A quiz that is submitted is always left, whether its write succeeds or not.
SubmitLeadsHome == submitted # <<>> ~> mount = "unmounted"

\* QuizScreen.js:54 says the file stores the score of the quiz.
FileHoldsAScore ==
    file.kind = "score" => file.score \in 0 .. totalQuestions

Contract == INSTANCE QuizContract
            WITH position <- screen.currentQuestion,
                 points   <- screen.correctCount,
                 unsaved  <- Len(writes),
                 settled  <- Len(answers),
                 record   <- file,
                 done     <- mount # "focused"

\* The screen, with its button that keeps working, its queues and its
\* animation, implements the contract of QuizContract.
ImplementsContract == Contract!CSpec
=============================================================================
