------------------------------- MODULE QuizApp -------------------------------
(***************************************************************************)
(* The whole app around the score: the screens of Navigation, the file     *)
(* that quiz screens write and home screens read, and the native module    *)
(* between them.                                                           *)
(*                                                                         *)
(* A submitted quiz writes the file and goes home when the write has       *)
(* settled.  A home screen asks whether the file is there when it is       *)
(* constructed, reads it when it is, and shows what it read.  RNFS         *)
(* performs the calls of all screens one at a time in the order they were  *)
(* made and answers in that order.                                         *)
(*                                                                         *)
(* A score is named by the submission it comes from: 1 for the first press *)
(* of submit since the app was installed, and so on.                       *)
(***************************************************************************)
EXTENDS Navigation, Sequences, FiniteSets

CONSTANT MaxFaults       \* bound: calls of RNFS that fail

ASSUME AppAssumption == MaxFaults \in Nat

VARIABLES
    file,            \* the content of test2.txt
    calls,           \* calls of RNFS that are not performed yet
    answers,         \* answers of RNFS that JavaScript has not handled yet
    shown,           \* shown[s]: state.scoreExists and state.score of screen s
    opened,          \* history: the submission that opened screen s, or 0
    submits,         \* history: submissions so far
    failed,          \* history: submissions whose write failed
    misread          \* history: screens whose check or read failed

ioVars == <<file, calls, answers, shown, opened, submits, failed, misread>>
appVars == <<vars, ioVars>>

-----------------------------------------------------------------------------
(* Contents, calls and answers. *)

NoFile == [kind |-> "none", score |-> 0]
EmptyFile == [kind |-> "empty", score |-> 0]
ScoreOf(n) == [kind |-> "score", score |-> n]

Content == [kind : {"none", "empty", "score"}, score : Nat]

\* A call of screen s; n is the submission a write stores.
WriteCall(s, n) == [op |-> "write", by |-> s, score |-> n]
ExistsCall(s) == [op |-> "exists", by |-> s, score |-> 0]
ReadCall(s) == [op |-> "read", by |-> s, score |-> 0]

\* The answer to call c: whether it was performed and what the file was then.
AnswerTo(c, ok, content) == [call |-> c, ok |-> ok, content |-> content]

Faults == failed \cup misread

-----------------------------------------------------------------------------
AppInit ==
    /\ Init
    /\ file \in {NoFile, ScoreOf(0)}          \* a file of an earlier process
    /\ calls = <<ExistsCall(1)>>
    /\ answers = <<>>
    /\ shown = [s \in Screen |-> NoFile]
    /\ opened = [s \in Screen |-> 0]
    /\ submits = 0
    /\ failed = {}
    /\ misread = {}

AppLogin(s) ==
    /\ Login(s)
    /\ UNCHANGED ioVars

\* Mutant: the score is written as it was before the submission.
AppSubmitStale(s) ==
    /\ Submit(s)
    /\ submits' = submits + 1
    /\ calls' = Append(calls, WriteCall(s, submits))
    /\ UNCHANGED <<file, answers, shown, opened, failed, misread>>

\* nextQuestion on the last question, with the call in writeFile.
AppSubmit(s) ==
    /\ Submit(s)
    /\ submits' = submits + 1
    /\ calls' = Append(calls, WriteCall(s, submits + 1))
    /\ UNCHANGED <<file, answers, shown, opened, failed, misread>>

\* Mutant: a write does not replace the file that is there.
PerformKeeping ==
    LET c == Head(calls) IN
    /\ calls # <<>>
    /\ calls' = Tail(calls)
    /\ file' = IF c.op = "write" /\ file = NoFile THEN ScoreOf(c.score) ELSE file
    /\ answers' = Append(answers, AnswerTo(c, TRUE, file'))
    /\ UNCHANGED <<vars, shown, opened, submits, failed, misread>>

\* RNFS performs the oldest call.
Perform ==
    LET c == Head(calls) IN
    /\ calls # <<>>
    /\ c.op = "read" => file.kind # "none"
    /\ calls' = Tail(calls)
    /\ file' = IF c.op = "write" THEN ScoreOf(c.score) ELSE file
    /\ answers' = Append(answers, AnswerTo(c, TRUE, file'))
    /\ UNCHANGED <<vars, shown, opened, submits, failed, misread>>

\* RNFS fails to; a write may have truncated the file.
Fail ==
    LET c == Head(calls) IN
    /\ calls # <<>>
    /\ Cardinality(failed) + Cardinality(misread) < MaxFaults
    /\ calls' = Tail(calls)
    /\ answers' = Append(answers, AnswerTo(c, FALSE, NoFile))
    /\ IF c.op = "write"
       THEN /\ file' \in {file, EmptyFile}
            /\ failed' = failed \cup {c.score}
            /\ UNCHANGED misread
       ELSE /\ misread' = misread \cup {c.by}
            /\ UNCHANGED <<file, failed>>
    /\ UNCHANGED <<vars, shown, opened, submits>>

\* JavaScript handles the oldest answer.
Handled(op) ==
    /\ answers # <<>>
    /\ Head(answers).call.op = op
    /\ answers' = Tail(answers)

\* Mutant: a write that settles navigates although its app was left.
WriteAnsweredAnyway ==
    LET s == Head(answers).call.by IN
    /\ Handled("write")
    /\ top # NoScreen
    /\ owed' = [owed EXCEPT ![s] = @ - 1]
    /\ Replace("HomeScreen")
    /\ calls' = Append(calls, ExistsCall(mounted + 1))
    /\ opened' = [opened EXCEPT ![mounted + 1] = Head(answers).call.score]
    /\ UNCHANGED <<presses, file, shown, submits, failed, misread>>

\* Mutant: the home screen a quiz opens does not check for the file.
WriteAnsweredUnchecked ==
    LET s == Head(answers).call.by IN
    /\ Handled("write")
    /\ IF owed[s] > 0
       THEN /\ WriteSettles(s)
            /\ opened' = [opened EXCEPT ![mounted + 1] = Head(answers).call.score]
       ELSE UNCHANGED <<vars, opened>>
    /\ UNCHANGED <<file, calls, shown, submits, failed, misread>>

\* Mutant: a write that failed is made again.
WriteAnsweredRetrying ==
    LET a == Head(answers)
        s == a.call.by IN
    /\ Handled("write")
    /\ IF owed[s] > 0
       THEN /\ WriteSettles(s)
            /\ calls' = (IF a.ok THEN calls ELSE Append(calls, a.call))
                          \o <<ExistsCall(mounted + 1)>>
            /\ opened' = [opened EXCEPT ![mounted + 1] = a.call.score]
       ELSE UNCHANGED <<vars, calls, opened>>
    /\ UNCHANGED <<file, shown, submits, failed, misread>>

\* writeFile resumes, whether the write succeeded or not, and its then() callback
\* navigates; the home screen that is constructed calls checkFile.
WriteAnswered ==
    LET s == Head(answers).call.by IN
    /\ Handled("write")
    /\ IF owed[s] > 0
       THEN /\ WriteSettles(s)
            /\ calls' = Append(calls, ExistsCall(mounted + 1))
            /\ opened' = [opened EXCEPT ![mounted + 1] = Head(answers).call.score]
       ELSE UNCHANGED <<vars, calls, opened>>
    /\ UNCHANGED <<file, shown, submits, failed, misread>>

\* Mutant: checkFile is called again instead of readFile.
ExistsAnsweredPolling ==
    LET a == Head(answers) IN
    /\ Handled("exists")
    /\ calls' = Append(calls, a.call)
    /\ UNCHANGED <<vars, file, shown, opened, submits, failed, misread>>

\* checkFile resumes: readFile is called when the file is there.
ExistsAnswered ==
    LET a == Head(answers) IN
    /\ Handled("exists")
    /\ calls' = IF a.ok /\ a.content.kind # "none"
                THEN Append(calls, ReadCall(a.call.by))
                ELSE calls
    /\ UNCHANGED <<vars, file, shown, opened, submits, failed, misread>>

\* readFile resumes and fills the state of its screen, unless it is unmounted.
ReadAnswered ==
    LET a == Head(answers) IN
    /\ Handled("read")
    /\ shown' = IF a.ok /\ OnDisplay(a.call.by)
                THEN [shown EXCEPT ![a.call.by] = a.content]
                ELSE shown
    /\ UNCHANGED <<vars, file, calls, opened, submits, failed, misread>>

AppTransitionEnd == TransitionEnd /\ UNCHANGED ioVars

\* The app is left; RNFS goes on with the calls it has.
AppBackExits == BackExits /\ UNCHANGED ioVars

\* The app is opened again and its home screen constructed.
AppLaunch ==
    /\ Launch
    /\ calls' = Append(calls, ExistsCall(mounted + 1))
    /\ UNCHANGED <<file, answers, shown, opened, submits, failed, misread>>

AppNext ==
    \/ \E s \in Screen : AppLogin(s) \/ AppSubmit(s)
    \/ Perform
    \/ Fail
    \/ WriteAnswered
    \/ ExistsAnswered
    \/ ReadAnswered
    \/ AppTransitionEnd
    \/ AppBackExits
    \/ AppLaunch

AppSpec == AppInit /\ [][AppNext]_appVars

\* RNFS and the JavaScript event loop keep running.
FairAppSpec ==
    /\ AppSpec
    /\ WF_appVars(Perform \/ Fail)
    /\ WF_appVars(WriteAnswered \/ ExistsAnswered \/ ReadAnswered)

-----------------------------------------------------------------------------
(* Properties. *)

\* The two calls of a home screen never find the file gone in between, and a screen
\* that a quiz opened shows the score of that submission or of a later one, never
\* the one before: the write is performed before the check, and nothing older can
\* follow.  Only a write that failed leaves it another content.
ShownIsCurrent ==
    \A s \in Screen : shown[s].kind # "none" =>
        \/ shown[s].kind = "score" /\ shown[s].score >= opened[s]
        \/ \E n \in failed : n >= opened[s]

\* When RNFS and JavaScript have nothing left to do, the home screen on top shows
\* what is in the file, whatever was pressed, left and opened again before.
QuietShowsFile ==
    /\ calls = <<>> /\ answers = <<>>
    /\ top # NoScreen /\ kind[top] = "HomeScreen" /\ top \notin misread
    => shown[top] = file

\* And what it shows then is the last score submitted, unless the write of that very
\* one failed: no failure of an earlier write, and no write, check or read of a screen
\* long gone, leaves an earlier score on display.
QuietShowsLast ==
    /\ calls = <<>> /\ answers = <<>>
    /\ top # NoScreen /\ kind[top] = "HomeScreen" /\ top \notin misread
    /\ submits > 0 /\ submits \notin failed
    => shown[top] = ScoreOf(submits)

Record == INSTANCE ScoreFile

\* However many screens write, and whatever fails, is left or pressed twice, the file
\* is one record of the submissions: writeFile of each is tried once and in order, and
\* no earlier score comes back over a later one.
ImplementsRecord == Record!FSpec

\* Time and again the home screen on top shows the last score submitted, unless RNFS
\* failed, the app was left or a quiz not yet submitted is open: the chain of write,
\* navigation, check and read never breaks off.
SubmittedIsShown ==
    []<>(\/ submits = 0
         \/ Faults # {}
         \/ top = NoScreen
         \/ kind[top] = "QuizScreen" /\ presses[top] = 0
         \/ shown[top] = ScoreOf(submits)
         \/ mounted = MaxScreens)
=============================================================================
