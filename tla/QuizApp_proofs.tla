--------------------------- MODULE QuizApp_proofs ---------------------------
(***************************************************************************)
(* Proofs about QuizApp, for any number of screens, presses and faults.    *)
(***************************************************************************)
EXTENDS QuizApp, Navigation_proofs

-----------------------------------------------------------------------------
(* Types, and the composition as an implementation of Navigation. *)

Call == [op : {"write", "exists", "read"}, by : Screen, score : Nat]
Answer == [call : Call, ok : BOOLEAN, content : Content]

IOType ==
    /\ file \in Content
    /\ calls \in Seq(Call)
    /\ answers \in Seq(Answer)
    /\ shown \in [Screen -> Content]
    /\ opened \in [Screen -> Nat]
    /\ submits \in Nat
    /\ failed \subseteq Nat

LEMMA CallFacts ==
    ASSUME NEW s \in Screen, NEW n \in Nat
    PROVE  WriteCall(s, n) \in Call /\ ExistsCall(s) \in Call /\ ReadCall(s) \in Call
BY Zenon DEF WriteCall, ExistsCall, ReadCall, Call

LEMMA ContentFacts ==
    /\ NoFile \in Content /\ EmptyFile \in Content
    /\ \A n \in Nat : ScoreOf(n) \in Content
BY Zenon DEF NoFile, EmptyFile, ScoreOf, Content

\* What the next call and the next answer are.
LEMMA HeadFacts ==
    ASSUME IOType
    PROVE  /\ calls # <<>> =>
                /\ Head(calls) \in Call /\ Tail(calls) \in Seq(Call)
                /\ Head(calls) = calls[1] /\ 1 \in DOMAIN calls
                /\ Len(calls) \in Nat \ {0} /\ Len(Tail(calls)) = Len(calls) - 1
                /\ \A i \in DOMAIN Tail(calls) :
                     i + 1 \in DOMAIN calls /\ Tail(calls)[i] = calls[i + 1]
           /\ answers # <<>> =>
                /\ Head(answers) \in Answer /\ Tail(answers) \in Seq(Answer)
                /\ Head(answers) = answers[1] /\ 1 \in DOMAIN answers
                /\ \A i \in DOMAIN Tail(answers) :
                     i + 1 \in DOMAIN answers /\ Tail(answers)[i] = answers[i + 1]
BY DEF IOType

LEMMA Appended ==
    ASSUME NEW S, NEW q \in Seq(S), NEW x \in S
    PROVE  /\ Append(q, x) \in Seq(S)
           /\ Len(q) \in Nat /\ DOMAIN q = 1 .. Len(q)
           /\ DOMAIN Append(q, x) = 1 .. Len(q) + 1
           /\ \A i \in DOMAIN Append(q, x) :
                \/ i \in DOMAIN q /\ Append(q, x)[i] = q[i]
                \/ i = Len(q) + 1 /\ Append(q, x)[i] = x
OBVIOUS

LEMMA IOTypeInit == AppInit => IOType
<1> SUFFICES ASSUME AppInit PROVE IOType
  BY Zenon
<1>1. 1 \in Screen
  BY NavigationAssumption DEF NavigationAssumption, Screen
<1>2. calls \in Seq(Call)
  BY <1>1, CallFacts DEF AppInit
<1>3. file \in Content
  BY ContentFacts, Zenon DEF AppInit
<1> QED
  BY <1>2, <1>3, ContentFacts DEF AppInit, IOType

LEMMA IOTypeStep == NavType /\ IOType /\ [AppNext]_appVars => IOType'
<1> SUFFICES ASSUME NavType, IOType, [AppNext]_appVars PROVE IOType'
  BY Zenon
<1>1. ASSUME NEW s \in Screen, AppLogin(s) PROVE IOType'
  BY <1>1, Zenon DEF AppLogin, ioVars, IOType
<1>2. ASSUME NEW s \in Screen, AppSubmit(s) PROVE IOType'
  <2>1. WriteCall(s, submits + 1) \in Call
    BY CallFacts DEF IOType
  <2> QED
    BY <1>2, <2>1 DEF AppSubmit, IOType
<1>3. ASSUME Perform PROVE IOType'
  <2>1. Head(calls) \in Call /\ Tail(calls) \in Seq(Call)
    BY <1>3, HeadFacts, Zenon DEF Perform
  <2>2. file' \in Content
    BY <1>3, <2>1, ContentFacts, Zenon DEF Perform, IOType, Call
  <2>3. AnswerTo(Head(calls), TRUE, file') \in Answer
    BY <2>1, <2>2, Zenon DEF AnswerTo, Answer
  <2>4. /\ calls' = Tail(calls)
        /\ answers' = Append(answers, AnswerTo(Head(calls), TRUE, file'))
        /\ UNCHANGED <<shown, opened, submits, failed>>
    BY <1>3, Zenon DEF Perform
  <2>5. answers' \in Seq(Answer)
    BY <2>3, <2>4, Appended, Zenon DEF IOType
  <2> QED
    BY <2>1, <2>2, <2>4, <2>5, Zenon DEF IOType
<1>4. ASSUME Fail PROVE IOType'
  <2>1. Head(calls) \in Call /\ Tail(calls) \in Seq(Call)
    BY <1>4, HeadFacts, Zenon DEF Fail
  <2>2. file' \in Content /\ failed' \subseteq Nat
    BY <1>4, <2>1, ContentFacts, Zenon DEF Fail, IOType, Call
  <2>3. AnswerTo(Head(calls), FALSE, NoFile) \in Answer
    BY <2>1, ContentFacts, Zenon DEF AnswerTo, Answer
  <2>4. /\ calls' = Tail(calls)
        /\ answers' = Append(answers, AnswerTo(Head(calls), FALSE, NoFile))
        /\ UNCHANGED <<shown, opened, submits>>
    BY <1>4, Zenon DEF Fail
  <2>5. answers' \in Seq(Answer)
    BY <2>3, <2>4, Appended, Zenon DEF IOType
  <2> QED
    BY <2>1, <2>2, <2>4, <2>5, Zenon DEF IOType
<1>5. ASSUME WriteAnswered PROVE IOType'
  <2> DEFINE a == Head(answers)
  <2>1. a \in Answer /\ Tail(answers) \in Seq(Answer)
    BY <1>5, HeadFacts, Zenon DEF WriteAnswered, Handled
  <2>2. a.call.by \in Screen /\ a.call.score \in Nat
    BY <2>1, Zenon DEF Answer, Call
  <2>3. answers' = Tail(answers)
    BY <1>5, Zenon DEF WriteAnswered, Handled
  <2>4. CASE owed[a.call.by] > 0
    <3>1. mounted + 1 \in Screen
      BY <1>5, <2>4, ReplaceFacts, Zenon DEF WriteAnswered, WriteSettles
    <3>2. ExistsCall(mounted + 1) \in Call
      BY <3>1, CallFacts, Zenon
    <3>3. /\ calls' = Append(calls, ExistsCall(mounted + 1))
          /\ opened' = [opened EXCEPT ![mounted + 1] = a.call.score]
          /\ UNCHANGED <<file, shown, submits, failed>>
      BY <1>5, <2>4, Zenon DEF WriteAnswered
    <3>4. calls' \in Seq(Call)
      BY <3>2, <3>3, Appended, Zenon DEF IOType
    <3>5. opened' \in [Screen -> Nat]
      BY <2>2, <3>3, Zenon DEF IOType
    <3> QED
      BY <2>1, <2>3, <3>3, <3>4, <3>5, Zenon DEF IOType
  <2>5. CASE ~(owed[a.call.by] > 0)
    BY <1>5, <2>1, <2>3, <2>5, Zenon DEF WriteAnswered, IOType
  <2> QED
    BY <2>4, <2>5, Zenon
<1>6. ASSUME ExistsAnswered PROVE IOType'
  <2>1. Head(answers) \in Answer /\ Tail(answers) \in Seq(Answer)
    BY <1>6, HeadFacts, Zenon DEF ExistsAnswered, Handled
  <2>2. ReadCall(Head(answers).call.by) \in Call
    BY <2>1, CallFacts, Zenon DEF Answer, Call
  <2> QED
    BY <1>6, <2>1, <2>2 DEF ExistsAnswered, Handled, IOType
<1>7. ASSUME ReadAnswered PROVE IOType'
  <2>1. Head(answers) \in Answer /\ Tail(answers) \in Seq(Answer)
    BY <1>7, HeadFacts, Zenon DEF ReadAnswered, Handled
  <2>2. Head(answers).content \in Content
    BY <2>1, Zenon DEF Answer
  <2> QED
    BY <1>7, <2>1, <2>2, Zenon DEF ReadAnswered, Handled, IOType
<1>8. ASSUME AppLaunch PROVE IOType'
  <2>1. mounted + 1 \in Screen
    BY <1>8, NavigationAssumption
       DEF NavigationAssumption, AppLaunch, Launch, NavType, TypeOK, Screen
  <2>2. ExistsCall(mounted + 1) \in Call
    BY <2>1, CallFacts, Zenon
  <2> QED
    BY <1>8, <2>2 DEF AppLaunch, IOType
<1>9. CASE AppTransitionEnd \/ AppBackExits \/ UNCHANGED appVars
  BY <1>9, Zenon DEF AppTransitionEnd, AppBackExits, appVars, ioVars, IOType
<1> QED
  BY <1>1, <1>2, <1>3, <1>4, <1>5, <1>6, <1>7, <1>8, <1>9, Zenon DEF AppNext

LEMMA AppStepIsNavigationStep == IOType /\ [AppNext]_appVars => [Next]_vars
<1> SUFFICES ASSUME IOType, [AppNext]_appVars PROVE [Next]_vars
  BY Zenon
<1>1. ASSUME NEW s \in Screen, AppLogin(s) \/ AppSubmit(s) PROVE Next
  BY <1>1, Zenon DEF AppLogin, AppSubmit, Next
<1>2. ASSUME Perform \/ Fail \/ ExistsAnswered \/ ReadAnswered PROVE UNCHANGED vars
  BY <1>2, Zenon DEF Perform, Fail, ExistsAnswered, ReadAnswered
<1>3. ASSUME WriteAnswered PROVE [Next]_vars
  <2>1. Head(answers).call.by \in Screen
    BY <1>3, HeadFacts, Zenon DEF WriteAnswered, Handled, Answer, Call
  <2>2. CASE owed[Head(answers).call.by] > 0
    BY <1>3, <2>1, <2>2, Zenon DEF WriteAnswered, Next
  <2> QED
    BY <1>3, <2>2, Zenon DEF WriteAnswered
<1>4. ASSUME AppTransitionEnd \/ AppBackExits \/ AppLaunch PROVE Next
  BY <1>4, Zenon DEF AppTransitionEnd, AppBackExits, AppLaunch, Next
<1>5. CASE UNCHANGED appVars
  BY <1>5, Zenon DEF appVars
<1> QED
  BY <1>1, <1>2, <1>3, <1>4, <1>5, Zenon DEF AppNext

LEMMA AppTypes == AppSpec => [](NavType /\ IOType)
<1>1. AppInit => NavType /\ IOType
  BY NavTypeInit, IOTypeInit, Zenon DEF AppInit
<1>2. NavType /\ IOType /\ [AppNext]_appVars => (NavType /\ IOType)'
  BY NavTypeStep, IOTypeStep, AppStepIsNavigationStep, Zenon
<1> QED
  BY <1>1, <1>2, PTL DEF AppSpec

\* Behind the file, its queue and its screens the app is the navigator: every step of
\* the composition is a step of Navigation or leaves its variables alone.
THEOREM AppImplementsNavigation == AppSpec => Spec
<1>1. AppInit => Init
  BY Zenon DEF AppInit
<1> QED
  BY <1>1, AppTypes, AppStepIsNavigationStep, PTL DEF AppSpec, Spec

\* What holds of the navigator holds of the app: the back button is never left
\* disabled outside of a quiz, whatever the writes of the scores do.
THEOREM AppBackWorks == AppSpec => []BackWorksOutsideQuiz
BY AppImplementsNavigation, BackWorksCorrect, PTL

-----------------------------------------------------------------------------
(* A screen shows its own score or a later one.  Writes are performed in the order *)
(* of their submissions, so the file is never older than a write that was answered. *)

Pending(n) == \E i \in DOMAIN calls : calls[i].op = "write" /\ calls[i].score = n

\* Every write that is left belongs to a submission after n.
Performed(n) ==
    /\ n <= submits
    /\ \A i \in DOMAIN calls : calls[i].op = "write" => n < calls[i].score

Current(x, n) ==
    \/ x.kind = "score" /\ x.score >= n
    \/ \E m \in failed : m >= n

\* Only mounted screens call RNFS and show something.
Callers ==
    /\ \A i \in DOMAIN calls : calls[i].by <= mounted
    /\ \A i \in DOMAIN answers : answers[i].call.by <= mounted
    /\ \A s \in Screen : s > mounted => shown[s] = NoFile

WritesInOrder ==
    /\ \A i, j \in DOMAIN calls :
          i < j /\ calls[i].op = "write" /\ calls[j].op = "write"
          => calls[i].score < calls[j].score
    /\ \A i \in DOMAIN calls : calls[i].op = "write" => calls[i].score <= submits
    /\ \A n \in 0 .. submits : Pending(n) \/ Performed(n)

AnsweredIsPerformed ==
    /\ \A i \in DOMAIN answers :
          answers[i].call.op = "write" => Performed(answers[i].call.score)
    /\ \A s \in Screen : Performed(opened[s])

FileIsCurrent ==
    file.kind # "none" => \A n \in 0 .. submits : Performed(n) => Current(file, n)

ReadsAreCurrent ==
    /\ \A i \in DOMAIN answers :
          answers[i].call.op = "read" /\ answers[i].ok
          => Current(answers[i].content, opened[answers[i].call.by])
    /\ \A s \in Screen : shown[s].kind # "none" => Current(shown[s], opened[s])

CurrentInv ==
    /\ Callers /\ WritesInOrder /\ AnsweredIsPerformed /\ FileIsCurrent /\ ReadsAreCurrent

LEMMA CurrentInit == AppInit => CurrentInv
<1> SUFFICES ASSUME AppInit PROVE CurrentInv
  BY Zenon
<1>1. /\ calls = <<ExistsCall(1)>> /\ answers = <<>> /\ submits = 0 /\ mounted = 1
      /\ shown = [s \in Screen |-> NoFile] /\ opened = [s \in Screen |-> 0]
      /\ file = NoFile \/ file = ScoreOf(0)
  BY Zenon DEF AppInit, Init
<1>2. DOMAIN calls = {1} /\ calls[1].op # "write" /\ calls[1].by = 1 /\ DOMAIN answers = {}
  BY <1>1 DEF ExistsCall
<1>3. \A n \in 0 .. submits : n = 0 /\ Performed(n)
  BY <1>1, <1>2 DEF Performed
<1>4. Callers
  BY <1>1, <1>2 DEF Callers
<1>5. WritesInOrder
  BY <1>2, <1>3, Zenon DEF WritesInOrder
<1>6. AnsweredIsPerformed
  BY <1>1, <1>2, <1>3 DEF AnsweredIsPerformed
<1>7. FileIsCurrent
  BY <1>1, <1>3 DEF FileIsCurrent, Current, NoFile, ScoreOf
<1>8. ReadsAreCurrent
  BY <1>1, <1>2, Zenon DEF ReadsAreCurrent, NoFile
<1> QED
  BY <1>4, <1>5, <1>6, <1>7, <1>8, Zenon DEF CurrentInv

\* A call that is not a write changes nothing about the order of the writes.
LEMMA NoNewWrite ==
    ASSUME IOType, IOType', WritesInOrder, submits' = submits,
           NEW x \in Call, x.op # "write",
           calls' = calls \/ calls' = Append(calls, x)
    PROVE  /\ WritesInOrder'
           /\ \A n \in Nat : Performed(n)' <=> Performed(n)
<1>1. CASE calls' = calls
  BY <1>1, Zenon DEF WritesInOrder, Performed, Pending
<1>2. CASE calls' = Append(calls, x)
  <2>1. /\ \A i \in DOMAIN calls : i \in DOMAIN calls' /\ calls'[i] = calls[i]
        /\ \A i \in DOMAIN calls' : calls'[i].op = "write" =>
              i \in DOMAIN calls /\ calls'[i] = calls[i]
    BY <1>2 DEF IOType
  <2>2. \A n \in Nat : Performed(n)' <=> Performed(n)
    BY <2>1, Zenon DEF Performed
  <2>3. \A n \in Nat : Pending(n)' <=> Pending(n)
    BY <2>1, Zenon DEF Pending
  <2>4. \A n \in 0 .. submits' : n \in 0 .. submits /\ n \in Nat
    BY DEF IOType
  <2>5. /\ \A i, j \in DOMAIN calls' :
              i < j /\ calls'[i].op = "write" /\ calls'[j].op = "write"
              => calls'[i].score < calls'[j].score
        /\ \A i \in DOMAIN calls' : calls'[i].op = "write" => calls'[i].score <= submits'
    BY <2>1, Zenon DEF WritesInOrder
  <2> QED
    BY <2>2, <2>3, <2>4, <2>5, Zenon DEF WritesInOrder
<1> QED
  BY <1>1, <1>2, Zenon

\* The write of a submission is the last one.
LEMMA SubmitKeepsCurrent ==
    ASSUME NavType, IOType, IOType', CurrentInv, NEW s \in Screen, AppSubmit(s)
    PROVE  CurrentInv'
<1>1. /\ submits' = submits + 1 /\ mounted' = mounted
      /\ calls' = Append(calls, WriteCall(s, submits + 1))
      /\ UNCHANGED <<file, answers, shown, opened, failed>>
  BY Zenon DEF AppSubmit, Submit
<1>2. s <= mounted
  BY Zenon DEF AppSubmit, Submit, Pressed, OnDisplay, NavType, TypeOK, Known, Screen, NoScreen
<1>3. WriteCall(s, submits + 1) \in Call
  BY CallFacts DEF IOType
<1>4. /\ Len(calls) \in Nat /\ DOMAIN calls = 1 .. Len(calls)
      /\ DOMAIN calls' = 1 .. Len(calls) + 1
      /\ \A i \in DOMAIN calls : calls'[i] = calls[i]
      /\ calls'[Len(calls) + 1] = WriteCall(s, submits + 1)
  BY <1>1, <1>3 DEF IOType
<1>5. /\ WriteCall(s, submits + 1).op = "write" /\ WriteCall(s, submits + 1).by = s
      /\ WriteCall(s, submits + 1).score = submits + 1
  BY Zenon DEF WriteCall
<1>6. submits \in Nat
  BY Zenon DEF IOType
<1>7. \A n \in Nat : Performed(n) => Performed(n)'
  BY <1>1, <1>4, <1>5, <1>6 DEF Performed
<1>8. \A n \in Nat : Performed(n)' => n <= submits /\ Performed(n)
  BY <1>1, <1>4, <1>5, <1>6 DEF Performed
<1>9. Callers'
  BY <1>1, <1>2, <1>4, <1>5 DEF CurrentInv, Callers
<1>10. WritesInOrder'
  <2>1. \A i \in DOMAIN calls : calls[i].op = "write" =>
            calls[i].score \in Nat /\ calls[i].score <= submits
    <3>1. \A i \in DOMAIN calls : calls[i] \in Call
      BY DEF IOType
    <3> QED
      BY <3>1, Zenon DEF CurrentInv, WritesInOrder, Call
  <2>2. \A i, j \in DOMAIN calls' :
          i < j /\ calls'[i].op = "write" /\ calls'[j].op = "write"
          => calls'[i].score < calls'[j].score
    <3> SUFFICES ASSUME NEW i \in DOMAIN calls', NEW j \in DOMAIN calls', i < j,
                        calls'[i].op = "write", calls'[j].op = "write"
                 PROVE  calls'[i].score < calls'[j].score
      BY Zenon
    <3>1. i \in DOMAIN calls
      BY <1>4
    <3>2. CASE j \in DOMAIN calls
      BY <1>4, <3>1, <3>2, Zenon DEF CurrentInv, WritesInOrder
    <3>3. CASE j = Len(calls) + 1
      BY <1>4, <1>5, <1>6, <2>1, <3>1, <3>3
    <3> QED
      BY <1>4, <3>2, <3>3
  <2>3. \A i \in DOMAIN calls' : calls'[i].op = "write" => calls'[i].score <= submits'
    BY <1>1, <1>4, <1>5, <1>6, <2>1
  <2>4. \A n \in 0 .. submits' : Pending(n)' \/ Performed(n)'
    <3> SUFFICES ASSUME NEW n \in 0 .. submits' PROVE Pending(n)' \/ Performed(n)'
      BY Zenon
    <3>1. CASE n = submits + 1
      BY <1>4, <1>5, <3>1 DEF Pending
    <3>2. CASE n \in 0 .. submits
      BY <1>4, <1>7, <3>2 DEF CurrentInv, WritesInOrder, Pending
    <3> QED
      BY <1>1, <1>6, <3>1, <3>2
  <2> QED
    BY <2>2, <2>3, <2>4, Zenon DEF WritesInOrder
<1>11. AnsweredIsPerformed'
  <2>1. \A i \in DOMAIN answers : answers[i].call.score \in Nat
    <3>1. \A i \in DOMAIN answers : answers[i] \in Answer
      BY DEF IOType
    <3> QED
      BY <3>1, Zenon DEF Answer, Call
  <2>2. \A t \in Screen : opened[t] \in Nat
    BY Zenon DEF IOType
  <2> QED
    BY <1>1, <1>7, <2>1, <2>2, Zenon DEF CurrentInv, AnsweredIsPerformed
<1>12. FileIsCurrent'
  BY <1>1, <1>6, <1>8 DEF CurrentInv, FileIsCurrent, Current
<1>13. ReadsAreCurrent'
  BY <1>1, Zenon DEF CurrentInv, ReadsAreCurrent, Current
<1> QED
  BY <1>9, <1>10, <1>11, <1>12, <1>13, Zenon DEF CurrentInv

LEMMA Elements ==
    ASSUME IOType
    PROVE  /\ \A i \in DOMAIN calls : calls[i].by \in Screen /\ calls[i].score \in Nat
           /\ \A i \in DOMAIN answers :
                answers[i].call.by \in Screen /\ answers[i].call.score \in Nat
<1>1. /\ \A i \in DOMAIN calls : calls[i] \in Call
      /\ \A i \in DOMAIN answers : answers[i] \in Answer
  BY DEF IOType
<1> QED
  BY <1>1, Zenon DEF Answer, Call

\* The oldest call leaves the queue.  If it is a write it is the next submission.
LEMMA FirstCall ==
    ASSUME IOType, WritesInOrder, calls # <<>>, calls' = Tail(calls), submits' = submits
    PROVE  /\ WritesInOrder'
           /\ \A n \in Nat : Performed(n) => Performed(n)'
           /\ calls[1].op = "write" =>
                \A n \in Nat : /\ n = calls[1].score => Performed(n)'
                               /\ Performed(n)' => n <= calls[1].score
           /\ calls[1].op # "write" => \A n \in Nat : Performed(n)' => Performed(n)
<1>1. /\ 1 \in DOMAIN calls
      /\ \A i \in DOMAIN calls' : i + 1 \in DOMAIN calls /\ calls'[i] = calls[i + 1]
      /\ \A i \in DOMAIN calls : i # 1 => i - 1 \in DOMAIN calls' /\ calls[i] = calls'[i - 1]
      /\ DOMAIN calls' \subseteq Nat \ {0} /\ DOMAIN calls \subseteq Nat \ {0}
  BY DEF IOType
<1>2. submits \in Nat /\ \A i \in DOMAIN calls : calls[i].score \in Nat
  BY Elements, Zenon DEF IOType
<1>3. \A n \in Nat : Performed(n) => Performed(n)'
  BY <1>1 DEF Performed
<1>4. \A n \in Nat : Pending(n) => Pending(n)' \/ (calls[1].op = "write" /\ calls[1].score = n)
  <2> SUFFICES ASSUME NEW n \in Nat, NEW i \in DOMAIN calls,
                      calls[i].op = "write", calls[i].score = n
               PROVE  Pending(n)' \/ (calls[1].op = "write" /\ calls[1].score = n)
    BY Zenon DEF Pending
  <2>1. CASE i = 1
    BY <2>1, Zenon
  <2>2. CASE i # 1
    BY <1>1, <2>2, Zenon DEF Pending
  <2> QED
    BY <2>1, <2>2, Zenon
<1>5. \A n \in Nat : Performed(n)' => ~Pending(n)'
  <2> SUFFICES ASSUME NEW n \in Nat, Performed(n)', Pending(n)' PROVE FALSE
    BY Zenon
  <2>1. PICK i \in DOMAIN calls' : calls'[i].op = "write" /\ calls'[i].score = n
    BY Zenon DEF Pending
  <2> QED
    BY <2>1 DEF Performed
<1>6. calls[1].op = "write" =>
        /\ calls[1].score <= submits
        /\ \A i \in DOMAIN calls' : calls'[i].op = "write" => calls[1].score < calls'[i].score
  <2>1. \A i \in DOMAIN calls' : 1 < i + 1
    BY <1>1
  <2> QED
    BY <1>1, <2>1 DEF WritesInOrder
<1>7. calls[1].op = "write" => \A n \in Nat : n = calls[1].score => Performed(n)'
  BY <1>6, Zenon DEF Performed
<1>8. calls[1].op = "write" => \A n \in Nat : Performed(n)' => n <= calls[1].score
  <2> SUFFICES ASSUME calls[1].op = "write", NEW n \in Nat, Performed(n)', n > calls[1].score
               PROVE  FALSE
    BY <1>1, <1>2
  <2>1. n \in 0 .. submits
    BY <1>2 DEF Performed
  <2>2. ~Performed(n)
    BY <1>1, <1>2 DEF Performed
  <2>3. Pending(n)
    BY <2>1, <2>2, Zenon DEF WritesInOrder
  <2> QED
    BY <1>1, <1>2, <1>4, <1>5, <2>3
<1>9. calls[1].op # "write" => \A n \in Nat : Performed(n)' => Performed(n)
  <2> SUFFICES ASSUME calls[1].op # "write", NEW n \in Nat, Performed(n)'
               PROVE  Performed(n)
    BY Zenon
  <2>1. n \in 0 .. submits
    BY <1>2 DEF Performed
  <2> QED
    BY <1>4, <1>5, <2>1, Zenon DEF WritesInOrder
<1>10. WritesInOrder'
  <2>1. \A i, j \in DOMAIN calls' :
          i < j /\ calls'[i].op = "write" /\ calls'[j].op = "write"
          => calls'[i].score < calls'[j].score
    <3>1. \A i, j \in DOMAIN calls' : i < j => i + 1 < j + 1
      BY <1>1
    <3> QED
      BY <1>1, <3>1 DEF WritesInOrder
  <2>2. \A i \in DOMAIN calls' : calls'[i].op = "write" => calls'[i].score <= submits'
    BY <1>1 DEF WritesInOrder
  <2>3. \A n \in 0 .. submits' : Pending(n)' \/ Performed(n)'
    <3> SUFFICES ASSUME NEW n \in 0 .. submits' PROVE Pending(n)' \/ Performed(n)'
      BY Zenon
    <3>1. n \in Nat
      BY <1>2
    <3>2. Pending(n) \/ Performed(n)
      BY Zenon DEF WritesInOrder
    <3> QED
      BY <1>3, <1>4, <1>7, <3>1, <3>2, Zenon
  <2> QED
    BY <2>1, <2>2, <2>3, Zenon DEF WritesInOrder
<1> QED
  BY <1>3, <1>7, <1>8, <1>9, <1>10, Zenon

LEMMA CallDoneKeepsCurrent ==
    ASSUME NavType, IOType, IOType', CurrentInv, Perform \/ Fail
    PROVE  CurrentInv'
<1> DEFINE c == calls[1]
           a == answers'[Len(answers) + 1]
<1>1. /\ calls # <<>> /\ calls' = Tail(calls) /\ c = Head(calls)
      /\ UNCHANGED <<mounted, shown, opened, submits>>
  BY HeadFacts, Zenon DEF Perform, Fail, vars
<1>2. /\ WritesInOrder'
      /\ \A n \in Nat : Performed(n) => Performed(n)'
      /\ c.op = "write" => \A n \in Nat : /\ n = c.score => Performed(n)'
                                          /\ Performed(n)' => n <= c.score
      /\ c.op # "write" => \A n \in Nat : Performed(n)' => Performed(n)
  BY <1>1, FirstCall, Zenon DEF CurrentInv
<1>3. c.by \in Screen /\ c.score \in Nat /\ c.by <= mounted
  BY <1>1, HeadFacts, Elements, Zenon DEF CurrentInv, Callers
<1>4. /\ \A i \in DOMAIN answers' :
            \/ i \in DOMAIN answers /\ answers'[i] = answers[i]
            \/ i = Len(answers) + 1
      /\ a.call = c
      /\ a.ok => Perform /\ a.content = file'
  <2>1. Head(calls) \in Call
    BY <1>1, HeadFacts, Zenon
  <2>2. CASE Perform
    <3>1. AnswerTo(Head(calls), TRUE, file') \in Answer
      BY <2>1, Zenon DEF AnswerTo, Answer, IOType
    <3>2. answers' = Append(answers, AnswerTo(Head(calls), TRUE, file'))
      BY <2>2, Zenon DEF Perform
    <3>3. \A x \in Answer : answers' = Append(answers, x) =>
             /\ \A i \in DOMAIN answers' :
                  \/ i \in DOMAIN answers /\ answers'[i] = answers[i]
                  \/ i = Len(answers) + 1
             /\ a = x
      BY DEF IOType
    <3> QED
      BY <1>1, <2>2, <3>1, <3>2, <3>3 DEF AnswerTo
  <2>3. CASE Fail
    <3>1. AnswerTo(Head(calls), FALSE, NoFile) \in Answer
      BY <2>1, ContentFacts, Zenon DEF AnswerTo, Answer
    <3>2. answers' = Append(answers, AnswerTo(Head(calls), FALSE, NoFile))
      BY <2>3, Zenon DEF Fail
    <3>3. \A x \in Answer : answers' = Append(answers, x) =>
             /\ \A i \in DOMAIN answers' :
                  \/ i \in DOMAIN answers /\ answers'[i] = answers[i]
                  \/ i = Len(answers) + 1
             /\ a = x
      BY DEF IOType
    <3> QED
      BY <1>1, <3>1, <3>2, <3>3 DEF AnswerTo
  <2> QED
    BY <2>2, <2>3, Zenon
<1>5. failed \subseteq failed' /\ (c.op # "write" => failed' = failed /\ file' = file)
  BY <1>1, Zenon DEF Perform, Fail
<1>6. c.op = "write" => file' = ScoreOf(c.score) \/ c.score \in failed'
  BY <1>1, Zenon DEF Perform, Fail
<1> HIDE DEF c, a
<1>7. \A x, n : Current(x, n) => (\E m \in failed' : m >= n) \/ (x.kind = "score" /\ x.score >= n)
  BY <1>5, Zenon DEF Current
<1>8. Callers'
  <2>1. \A i \in DOMAIN calls' : calls'[i].by <= mounted
    BY <1>1, HeadFacts, Zenon DEF CurrentInv, Callers
  <2>2. \A i \in DOMAIN answers' : answers'[i].call.by <= mounted
    BY <1>3, <1>4, Zenon DEF CurrentInv, Callers, a
  <2> QED
    BY <1>1, <2>1, <2>2, Zenon DEF CurrentInv, Callers
<1>9. AnsweredIsPerformed'
  <2>1. \A s \in Screen : opened[s] \in Nat
    BY Zenon DEF IOType
  <2>2. \A i \in DOMAIN answers' : \A n \in Nat :
          answers'[i].call.op = "write" /\ n = answers'[i].call.score => Performed(n)'
    BY <1>2, <1>4, Zenon DEF CurrentInv, AnsweredIsPerformed, a
  <2>3. \A i \in DOMAIN answers' : answers'[i].call.score \in Nat
    BY <1>3, <1>4, Elements, Zenon DEF a
  <2>4. \A s \in Screen : \A n \in Nat : n = opened'[s] => Performed(n)'
    BY <1>1, <1>2, Zenon DEF CurrentInv, AnsweredIsPerformed
  <2> QED
    BY <1>1, <2>1, <2>2, <2>3, <2>4, Zenon DEF AnsweredIsPerformed
<1>10. FileIsCurrent'
  <2> SUFFICES ASSUME file'.kind # "none", NEW n \in 0 .. submits, Performed(n)'
               PROVE  \/ file'.kind = "score" /\ file'.score >= n
                      \/ \E m \in failed' : m >= n
    BY <1>1, Zenon DEF FileIsCurrent, Current
  <2>0. n \in Nat
    BY DEF IOType
  <2>1. CASE c.op = "write"
    BY <1>2, <1>3, <1>6, <2>0, <2>1 DEF ScoreOf
  <2>2. CASE c.op # "write"
    BY <1>2, <1>5, <2>0, <2>2, Zenon DEF CurrentInv, FileIsCurrent, Current
  <2> QED
    BY <2>1, <2>2, Zenon
<1>11. ReadsAreCurrent'
  <2>1. \A s \in Screen : shown'[s].kind # "none" => Current(shown[s], opened[s])
    BY <1>1, Zenon DEF CurrentInv, ReadsAreCurrent
  <2>2. \A i \in DOMAIN answers' :
          answers'[i].call.op = "read" /\ answers'[i].ok
          => \/ answers'[i].content.kind = "score"
                /\ answers'[i].content.score >= opened[answers'[i].call.by]
             \/ \E m \in failed' : m >= opened[answers'[i].call.by]
    <3> SUFFICES ASSUME NEW i \in DOMAIN answers', answers'[i].call.op = "read", answers'[i].ok
                 PROVE  \/ answers'[i].content.kind = "score"
                           /\ answers'[i].content.score >= opened[answers'[i].call.by]
                        \/ \E m \in failed' : m >= opened[answers'[i].call.by]
      BY Zenon
    <3>1. CASE i \in DOMAIN answers /\ answers'[i] = answers[i]
      BY <1>7, <3>1, Zenon DEF CurrentInv, ReadsAreCurrent
    <3>2. CASE i = Len(answers) + 1
      <4>1. Perform /\ answers'[i].content = file' /\ answers'[i].call = c /\ c.op = "read"
        BY <1>4, <3>2, Zenon DEF a
      <4>2. file' = file /\ file.kind # "none"
        BY <1>1, <1>5, <4>1, Zenon DEF Perform
      <4>3. Performed(opened[c.by]) /\ opened[c.by] \in 0 .. submits
        BY <1>3 DEF CurrentInv, AnsweredIsPerformed, Performed, IOType
      <4>4. Current(file, opened[c.by])
        BY <4>2, <4>3, Zenon DEF CurrentInv, FileIsCurrent
      <4> QED
        BY <1>7, <4>1, <4>2, <4>4, Zenon
    <3> QED
      BY <1>4, <3>1, <3>2, Zenon
  <2> QED
    BY <1>1, <1>7, <2>1, <2>2, Zenon DEF ReadsAreCurrent, Current
<1> QED
  BY <1>2, <1>8, <1>9, <1>10, <1>11, Zenon DEF CurrentInv

\* Answers that are left, and calls other than writes.
LEMMA QuietKeepsCurrent ==
    ASSUME NavType, IOType, IOType', CurrentInv, mounted' \in Nat, mounted <= mounted',
           UNCHANGED <<file, shown, opened, submits, failed>>,
           answers' = answers \/ (answers # <<>> /\ answers' = Tail(answers)),
           NEW x \in Call, x.op # "write", x.by <= mounted',
           calls' = calls \/ calls' = Append(calls, x)
    PROVE  CurrentInv'
<1>1. /\ WritesInOrder'
      /\ \A n \in Nat : Performed(n)' <=> Performed(n)
  BY NoNewWrite, Zenon DEF CurrentInv
<1>2. \A i \in DOMAIN answers' : \E j \in DOMAIN answers : answers'[i] = answers[j]
  BY HeadFacts
<1>3. \A i \in DOMAIN calls' : calls'[i] = x \/ \E j \in DOMAIN calls : calls'[i] = calls[j]
  <2>1. calls \in Seq(Call)
    BY Zenon DEF IOType
  <2>2. \A i \in DOMAIN Append(calls, x) :
          \/ i \in DOMAIN calls /\ Append(calls, x)[i] = calls[i]
          \/ i = Len(calls) + 1 /\ Append(calls, x)[i] = x
    BY ONLY <2>1, x \in Call, SMTT(30)
  <2> QED
    BY <2>2, Zenon
<1>4. mounted \in Nat /\ \A s \in Screen : s \in Nat
  BY DEF NavType, TypeOK, Screen
<1>5. Callers'
  <2>1. \A i \in DOMAIN calls' : calls'[i].by <= mounted'
    <3>1. \A j \in DOMAIN calls : calls[j].by \in Nat /\ calls[j].by <= mounted'
      BY <1>4, Elements DEF CurrentInv, Callers
    <3> QED
      BY <1>3, <3>1, Zenon
  <2>2. \A i \in DOMAIN answers' : answers'[i].call.by <= mounted'
    <3>1. \A j \in DOMAIN answers : answers[j].call.by <= mounted'
      BY <1>4, Elements DEF CurrentInv, Callers
    <3> QED
      BY <1>2, <3>1, Zenon
  <2>3. \A s \in Screen : s > mounted' => shown'[s] = NoFile
    BY <1>4 DEF CurrentInv, Callers
  <2> QED
    BY <2>1, <2>2, <2>3, Zenon DEF Callers
<1>6. AnsweredIsPerformed'
  <2>1. \A s \in Screen : opened[s] \in Nat
    BY Zenon DEF IOType
  <2>2. \A j \in DOMAIN answers : answers[j].call.op = "write" =>
           \A n \in Nat : n = answers[j].call.score => Performed(n)'
    BY <1>1, Zenon DEF CurrentInv, AnsweredIsPerformed
  <2>3. \A i \in DOMAIN answers' : answers'[i].call.score \in Nat
    BY <1>2, Elements, Zenon
  <2> QED
    BY <1>1, <1>2, <2>1, <2>2, <2>3, Zenon DEF CurrentInv, AnsweredIsPerformed
<1>7. FileIsCurrent'
  <2>1. \A n \in 0 .. submits : n \in Nat
    BY DEF IOType
  <2> QED
    BY <1>1, <2>1, Zenon DEF CurrentInv, FileIsCurrent, Current
<1>8. ReadsAreCurrent'
  BY <1>2 DEF CurrentInv, ReadsAreCurrent, Current
<1> QED
  BY <1>1, <1>5, <1>6, <1>7, <1>8, Zenon DEF CurrentInv

LEMMA ReadKeepsCurrent ==
    ASSUME NavType, IOType, IOType', CurrentInv, ReadAnswered
    PROVE  CurrentInv'
<1> DEFINE a == Head(answers)
<1>1. /\ answers # <<>> /\ answers' = Tail(answers) /\ a.call.op = "read"
      /\ \/ shown' = shown
         \/ a.ok /\ shown' = [shown EXCEPT ![a.call.by] = a.content]
      /\ UNCHANGED <<mounted, file, calls, opened, submits, failed>>
  BY Zenon DEF ReadAnswered, Handled, vars
<1>2. /\ \A i \in DOMAIN answers' : \E j \in DOMAIN answers : answers'[i] = answers[j]
      /\ 1 \in DOMAIN answers /\ a = answers[1]
  BY <1>1, HeadFacts, Zenon
<1>3. /\ a.call.by \in Screen /\ a.call.by <= mounted
      /\ a.ok => Current(a.content, opened[a.call.by])
  BY <1>1, <1>2, Elements, Zenon DEF CurrentInv, Callers, ReadsAreCurrent
<1> HIDE DEF a
<1>4. \A s \in Screen : shown'[s] = shown[s] \/ (s = a.call.by /\ a.ok /\ shown'[s] = a.content)
  BY <1>1, <1>3, Zenon DEF IOType
<1>5. Callers'
  <2>1. \A s \in Screen : s > mounted => s # a.call.by
    BY <1>3 DEF NavType, TypeOK, Screen
  <2> QED
    BY <1>1, <1>2, <1>4, <2>1 DEF CurrentInv, Callers
<1>6. WritesInOrder' /\ AnsweredIsPerformed' /\ FileIsCurrent'
  BY <1>1, <1>2 DEF CurrentInv, WritesInOrder, AnsweredIsPerformed, FileIsCurrent, Current,
     Performed, Pending
<1>7. ReadsAreCurrent'
  BY <1>1, <1>2, <1>3, <1>4 DEF CurrentInv, ReadsAreCurrent, Current
<1> QED
  BY <1>5, <1>6, <1>7, Zenon DEF CurrentInv

\* The screen a write opens is new: nothing was read for it yet.
LEMMA WriteKeepsCurrent ==
    ASSUME NavType, IOType, IOType', CurrentInv, WriteAnswered,
           owed[Head(answers).call.by] > 0
    PROVE  CurrentInv'
<1> DEFINE a == Head(answers)
           new == mounted + 1
<1>1. /\ answers # <<>> /\ answers' = Tail(answers) /\ a.call.op = "write"
      /\ WriteSettles(a.call.by)
      /\ calls' = Append(calls, ExistsCall(new))
      /\ opened' = [opened EXCEPT ![new] = a.call.score]
      /\ UNCHANGED <<file, shown, submits, failed>>
  BY Zenon DEF WriteAnswered, Handled
<1>2. mounted' = new /\ new \in Screen
  BY <1>1, ReplaceFacts, Zenon DEF WriteSettles
<1>3. mounted \in Nat /\ new \in Nat /\ mounted < new /\ \A s \in Screen : s \in Nat
  BY DEF NavType, TypeOK, Screen
<1>4. ExistsCall(new) \in Call /\ ExistsCall(new).op # "write" /\ ExistsCall(new).by = new
  BY <1>2, CallFacts, Zenon DEF ExistsCall
<1>5. /\ WritesInOrder'
      /\ \A n \in Nat : Performed(n)' <=> Performed(n)
  BY <1>1, <1>4, NoNewWrite, Zenon DEF CurrentInv
<1>6. /\ \A i \in DOMAIN answers' : \E j \in DOMAIN answers : answers'[i] = answers[j]
      /\ 1 \in DOMAIN answers /\ a = answers[1]
  BY <1>1, HeadFacts, Zenon
<1>7. \A i \in DOMAIN calls' :
        calls'[i] = ExistsCall(new) \/ \E j \in DOMAIN calls : calls'[i] = calls[j]
  BY <1>1, <1>4, Appended DEF IOType
<1>8. a.call.score \in Nat /\ Performed(a.call.score)
  BY <1>1, <1>6, Elements, Zenon DEF CurrentInv, AnsweredIsPerformed
<1> HIDE DEF a, new
<1>9. /\ opened'[new] = a.call.score
      /\ \A s \in Screen : s # new => opened'[s] = opened[s]
      /\ shown[new] = NoFile
  BY <1>1, <1>2, <1>3, Zenon DEF IOType, CurrentInv, Callers
<1>10. \A j \in DOMAIN answers :
         answers[j].call.by \in Screen /\ answers[j].call.by <= mounted /\ answers[j].call.by # new
  BY <1>3, Elements DEF CurrentInv, Callers
<1>11. Callers'
  <2>0. \A k \in Nat : k <= mounted => k <= mounted'
    BY <1>2, <1>3
  <2>1. \A i \in DOMAIN calls' : calls'[i].by <= mounted'
    <3>1. \A j \in DOMAIN calls : calls[j].by \in Nat /\ calls[j].by <= mounted'
      BY <1>3, <2>0, Elements, Zenon DEF CurrentInv, Callers
    <3> QED
      BY <1>2, <1>3, <1>4, <1>7, <3>1
  <2>2. \A i \in DOMAIN answers' : answers'[i].call.by <= mounted'
    <3>1. \A j \in DOMAIN answers : answers[j].call.by <= mounted'
      BY <1>3, <1>10, <2>0, Zenon
    <3> QED
      BY <1>6, <3>1, Zenon
  <2>3. \A s \in Screen : s > mounted' => shown'[s] = NoFile
    BY <1>1, <1>2, <1>3 DEF CurrentInv, Callers
  <2> QED
    BY <2>1, <2>2, <2>3, Zenon DEF Callers
<1>12. AnsweredIsPerformed'
  <2>1. \A s \in Screen : opened[s] \in Nat /\ Performed(opened[s])
    BY Zenon DEF IOType, CurrentInv, AnsweredIsPerformed
  <2>2. \A s \in Screen : opened'[s] \in Nat /\ \A n \in Nat : n = opened'[s] => Performed(n)'
    BY <1>5, <1>8, <1>9, <2>1, Zenon
  <2>3. \A j \in DOMAIN answers : answers[j].call.op = "write" =>
           \A n \in Nat : n = answers[j].call.score => Performed(n)'
    BY <1>5, Zenon DEF CurrentInv, AnsweredIsPerformed
  <2>4. \A i \in DOMAIN answers' : answers'[i].call.score \in Nat
    BY <1>6, Elements, Zenon
  <2>5. \A i \in DOMAIN answers' : answers'[i].call.op = "write" =>
           \A n \in Nat : n = answers'[i].call.score => Performed(n)'
    BY <1>6, <2>3, Zenon
  <2> QED
    BY <2>2, <2>4, <2>5, Zenon DEF AnsweredIsPerformed
<1>13. FileIsCurrent'
  <2>1. \A n \in 0 .. submits : n \in Nat
    BY DEF IOType
  <2> QED
    BY <1>1, <1>5, <2>1, Zenon DEF CurrentInv, FileIsCurrent, Current
<1>14. ReadsAreCurrent'
  <2>1. \A j \in DOMAIN answers : opened'[answers[j].call.by] = opened[answers[j].call.by]
    BY <1>9, <1>10, Zenon
  <2>2. \A s \in Screen : shown[s].kind # "none" => opened'[s] = opened[s]
    BY <1>9 DEF NoFile
  <2> QED
    BY <1>1, <1>6, <2>1, <2>2, SMTT(30) DEF CurrentInv, ReadsAreCurrent, Current
<1> QED
  BY <1>5, <1>11, <1>12, <1>13, <1>14, Zenon DEF CurrentInv

LEMMA CurrentStep ==
    NavType /\ IOType /\ CurrentInv /\ [AppNext]_appVars => CurrentInv'
<1> SUFFICES ASSUME NavType, IOType, CurrentInv, [AppNext]_appVars PROVE CurrentInv'
  BY Zenon
<1>1. IOType'
  BY IOTypeStep, Zenon
<1>2. mounted \in Screen /\ mounted \in Nat
  BY DEF NavType, TypeOK, Screen
<1>3. /\ ExistsCall(mounted) \in Call /\ ExistsCall(mounted).op # "write"
      /\ ExistsCall(mounted).by = mounted
  BY <1>2, CallFacts, Zenon DEF IOType, ExistsCall
<1>4. ASSUME NEW s \in Screen, AppLogin(s) PROVE CurrentInv'
  <2>1. mounted' = mounted + 1 /\ UNCHANGED ioVars
    BY <1>4, ReplaceFacts, Zenon DEF AppLogin, Login
  <2> QED
    BY <1>1, <1>2, <1>3, <2>1, QuietKeepsCurrent DEF ioVars
<1>5. ASSUME NEW s \in Screen, AppSubmit(s) PROVE CurrentInv'
  BY <1>1, <1>5, SubmitKeepsCurrent, Zenon
<1>6. ASSUME Perform \/ Fail PROVE CurrentInv'
  BY <1>1, <1>6, CallDoneKeepsCurrent, Zenon
<1>7. ASSUME WriteAnswered PROVE CurrentInv'
  <2>1. CASE owed[Head(answers).call.by] > 0
    BY <1>1, <1>7, <2>1, WriteKeepsCurrent, Zenon
  <2>2. CASE ~(owed[Head(answers).call.by] > 0)
    BY <1>1, <1>2, <1>3, <1>7, <2>2, QuietKeepsCurrent DEF WriteAnswered, Handled, vars
  <2> QED
    BY <2>1, <2>2, Zenon
<1>8. ASSUME ExistsAnswered PROVE CurrentInv'
  <2> DEFINE r == ReadCall(Head(answers).call.by)
  <2>1. /\ answers # <<>> /\ answers' = Tail(answers)
        /\ calls' = calls \/ calls' = Append(calls, r)
        /\ UNCHANGED <<mounted, file, shown, opened, submits, failed>>
    BY <1>8, Zenon DEF ExistsAnswered, Handled, vars
  <2>2. Head(answers).call.by \in Screen /\ Head(answers).call.by <= mounted
    BY <2>1, HeadFacts, Elements, Zenon DEF CurrentInv, Callers
  <2>3. r \in Call /\ r.op # "write" /\ r.by <= mounted
    BY <2>2, CallFacts, Zenon DEF ReadCall, IOType
  <2> HIDE DEF r
  <2> QED
    BY <1>1, <1>2, <2>1, <2>3, QuietKeepsCurrent
<1>9. ASSUME ReadAnswered PROVE CurrentInv'
  BY <1>1, <1>9, ReadKeepsCurrent, Zenon
<1>10. ASSUME AppLaunch PROVE CurrentInv'
  <2> DEFINE e == ExistsCall(mounted + 1)
  <2>1. /\ calls' = Append(calls, e) /\ mounted' = mounted + 1
        /\ UNCHANGED <<file, answers, shown, opened, submits, failed>>
    BY <1>10, Zenon DEF AppLaunch, Launch
  <2>2. mounted + 1 \in Screen
    BY <1>10, NavigationAssumption
       DEF NavigationAssumption, AppLaunch, Launch, NavType, TypeOK, Screen
  <2>3. e \in Call /\ e.op # "write" /\ e.by <= mounted'
    BY <1>2, <2>1, <2>2, CallFacts DEF ExistsCall, IOType
  <2> HIDE DEF e
  <2> QED
    BY <1>1, <1>2, <2>1, <2>3, QuietKeepsCurrent
<1>11. CASE AppTransitionEnd \/ AppBackExits \/ UNCHANGED appVars
  <2>1. UNCHANGED ioVars /\ mounted' = mounted
    BY <1>11, Zenon DEF AppTransitionEnd, AppBackExits, TransitionEnd, BackExits, appVars, vars
  <2> QED
    BY <1>1, <1>2, <1>3, <2>1, QuietKeepsCurrent DEF ioVars
<1> QED
  BY <1>4, <1>5, <1>6, <1>7, <1>8, <1>9, <1>10, <1>11, Zenon DEF AppNext

\* A home screen never shows a score older than the submission that opened it, for
\* any number of screens, presses and failures of RNFS: however the calls of several
\* screens are interleaved, only a write that failed explains another content.
THEOREM ShownCorrect == AppSpec => []ShownIsCurrent
<1>1. CurrentInv => ShownIsCurrent
  BY Zenon DEF CurrentInv, ReadsAreCurrent, Current, ShownIsCurrent
<1> QED
  BY <1>1, AppTypes, CurrentInit, CurrentStep, PTL DEF AppSpec

-----------------------------------------------------------------------------
(* When nothing is left to do, the home screen on top shows the file.  Until then  *)
(* it has yet to ask, or an answer is on its way, or a write that will replace it. *)

\* Call c is the one by which screen s finds out about the file.
Asks(c, s) == c.op # "write" /\ c.by = s

\* A screen has at most one such call with RNFS.
AsksOnce ==
    /\ \A s \in Screen : \A i, j \in DOMAIN calls :
         Asks(calls[i], s) /\ Asks(calls[j], s) => i = j
    /\ \A s \in Screen : \A i, j \in DOMAIN answers :
         Asks(answers[i].call, s) /\ Asks(answers[j].call, s) => i = j
    /\ \A s \in Screen : \A i \in DOMAIN calls : \A j \in DOMAIN answers :
         ~(Asks(calls[i], s) /\ Asks(answers[j].call, s))

\* A file that is not there yet was never shown.
NeverShown ==
    /\ file.kind = "none" => file = NoFile /\ \A s \in Screen : shown[s] = NoFile
    /\ \A i \in DOMAIN answers :
         answers[i].call.op = "read" /\ answers[i].ok => file.kind # "none"

\* A write will open another home screen when it is answered.
WillReplace ==
    \/ \E i \in DOMAIN calls : calls[i].op = "write" /\ owed[calls[i].by] > 0
    \/ \E i \in DOMAIN answers : answers[i].call.op = "write" /\ owed[answers[i].call.by] > 0

NoWrites == \A i \in DOMAIN calls : calls[i].op # "write"

WillAsk(s) ==
    \E i \in DOMAIN calls :
        /\ Asks(calls[i], s)
        /\ calls[i].op = "read" => file.kind # "none"
        /\ \A j \in DOMAIN calls : calls[j].op = "write" => j < i

WillHear(s) ==
    /\ NoWrites
    /\ \E i \in DOMAIN answers :
         Asks(answers[i].call, s) /\ answers[i].ok /\ answers[i].content = file

HasHeard(s) ==
    /\ NoWrites
    /\ shown[s] = file
    /\ \A i \in DOMAIN calls : ~Asks(calls[i], s)
    /\ \A i \in DOMAIN answers : ~Asks(answers[i].call, s)

Informed(s) == WillReplace \/ WillAsk(s) \/ WillHear(s) \/ HasHeard(s)

\* The screen on top is a home screen for which RNFS did not fail.
HomeOnTop == top # NoScreen /\ kind[top] = "HomeScreen" /\ top \notin misread

QuietInv == AsksOnce /\ NeverShown /\ (HomeOnTop => Informed(top))

LEMMA QuietInit == AppInit => QuietInv
<1> SUFFICES ASSUME AppInit PROVE QuietInv
  BY Zenon
<1>1. /\ calls = <<ExistsCall(1)>> /\ answers = <<>> /\ top = 1
      /\ shown = [s \in Screen |-> NoFile] /\ (file = NoFile \/ file = ScoreOf(0))
  BY Zenon DEF AppInit, Init
<1>2. /\ DOMAIN calls = {1} /\ calls[1].op = "exists" /\ calls[1].by = 1
      /\ DOMAIN answers = {}
  BY <1>1 DEF ExistsCall
<1>3. AsksOnce
  BY <1>2, Zenon DEF AsksOnce
<1>4. NeverShown
  BY <1>1, <1>2 DEF NeverShown, ScoreOf
<1>5. WillAsk(top)
  BY <1>1, <1>2, Zenon DEF WillAsk, Asks
<1> QED
  BY <1>3, <1>4, <1>5, Zenon DEF QuietInv, Informed

\* RNFS is done with the oldest call.
LEMMA CallDone ==
    ASSUME IOType, IOType', Perform \/ Fail
    PROVE  /\ 1 \in DOMAIN calls /\ calls[1] = Head(calls)
           /\ DOMAIN calls \subseteq Nat /\ DOMAIN calls' \subseteq Nat
           /\ \A i \in DOMAIN calls' : /\ i + 1 \in DOMAIN calls /\ calls'[i] = calls[i + 1]
                                       /\ i + 1 # 1
           /\ \A i \in DOMAIN calls : i # 1 => i - 1 \in DOMAIN calls' /\ calls'[i - 1] = calls[i]
           /\ \A i \in DOMAIN answers : i \in DOMAIN answers' /\ answers'[i] = answers[i]
           /\ \E n \in DOMAIN answers' :
                /\ \A i \in DOMAIN answers' : i = n \/ i \in DOMAIN answers
                /\ n \notin DOMAIN answers
                /\ answers'[n].call = calls[1]
                /\ Perform => answers'[n].ok /\ answers'[n].content = file'
                /\ Fail /\ ~Perform => ~answers'[n].ok
           /\ UNCHANGED <<top, kind, owed, shown, mounted>>
<1>1. calls # <<>> /\ calls' = Tail(calls) /\ UNCHANGED <<top, kind, owed, shown, mounted>>
  BY Zenon DEF Perform, Fail, vars
<1>2. /\ 1 \in DOMAIN calls /\ calls[1] = Head(calls) /\ Head(calls) \in Call
      /\ DOMAIN calls \subseteq Nat /\ DOMAIN calls' \subseteq Nat
      /\ \A i \in DOMAIN calls' : /\ i + 1 \in DOMAIN calls /\ calls'[i] = calls[i + 1]
                                  /\ i + 1 # 1
      /\ \A i \in DOMAIN calls : i # 1 => i - 1 \in DOMAIN calls' /\ calls'[i - 1] = calls[i]
  BY <1>1, SMTT(30) DEF IOType
<1>3. PICK a \in Answer :
        /\ answers' = Append(answers, a) /\ a.call = calls[1]
        /\ Perform => a.ok /\ a.content = file'
        /\ Fail /\ ~Perform => ~a.ok
  <2>1. CASE Perform
    <3>1. AnswerTo(Head(calls), TRUE, file') \in Answer
      BY <1>2, Zenon DEF AnswerTo, Answer, IOType
    <3>2. answers' = Append(answers, AnswerTo(Head(calls), TRUE, file'))
      BY <2>1, Zenon DEF Perform
    <3> QED
      BY <1>2, <2>1, <3>1, <3>2, Zenon DEF AnswerTo
  <2>2. CASE Fail /\ ~Perform
    <3>1. AnswerTo(Head(calls), FALSE, NoFile) \in Answer
      BY <1>2, ContentFacts, Zenon DEF AnswerTo, Answer
    <3>2. answers' = Append(answers, AnswerTo(Head(calls), FALSE, NoFile))
      BY <2>2, Zenon DEF Fail
    <3> QED
      BY <1>2, <2>2, <3>1, <3>2, Zenon DEF AnswerTo
  <2> QED
    BY <2>1, <2>2, Zenon
<1>4. /\ \A i \in DOMAIN answers : i \in DOMAIN answers' /\ answers'[i] = answers[i]
      /\ \E n \in DOMAIN answers' :
           /\ \A i \in DOMAIN answers' : i = n \/ i \in DOMAIN answers
           /\ n \notin DOMAIN answers /\ answers'[n] = a
  <2>1. Len(answers) \in Nat /\ DOMAIN answers = 1 .. Len(answers)
    BY DEF IOType
  <2>2. /\ DOMAIN answers' = 1 .. Len(answers) + 1
        /\ answers'[Len(answers) + 1] = a
        /\ \A i \in DOMAIN answers : answers'[i] = answers[i]
    BY <1>3 DEF IOType
  <2> QED
    BY <2>1, <2>2
<1> QED
  BY <1>1, <1>2, <1>3, <1>4

LEMMA CallDoneKeepsQuiet ==
    ASSUME IOType, IOType', QuietInv, Perform \/ Fail
    PROVE  QuietInv'
<1>1. /\ 1 \in DOMAIN calls /\ calls[1] = Head(calls)
      /\ DOMAIN calls \subseteq Nat /\ DOMAIN calls' \subseteq Nat
      /\ \A i \in DOMAIN calls' : /\ i + 1 \in DOMAIN calls /\ calls'[i] = calls[i + 1]
                                  /\ i + 1 # 1
      /\ \A i \in DOMAIN calls : i # 1 => i - 1 \in DOMAIN calls' /\ calls'[i - 1] = calls[i]
      /\ \A i \in DOMAIN answers : i \in DOMAIN answers' /\ answers'[i] = answers[i]
      /\ UNCHANGED <<top, kind, owed, shown, mounted>>
  BY CallDone, Zenon
<1>2. PICK n \in DOMAIN answers' :
        /\ \A i \in DOMAIN answers' : i = n \/ i \in DOMAIN answers
        /\ n \notin DOMAIN answers
        /\ answers'[n].call = calls[1]
        /\ Perform => answers'[n].ok /\ answers'[n].content = file'
        /\ Fail /\ ~Perform => ~answers'[n].ok
  BY CallDone, Zenon
<1>3. /\ file'.kind = "none" => file' = file
      /\ calls[1].op # "write" => file' = file
      /\ Perform /\ calls[1].op = "read" => file.kind # "none"
      /\ misread \subseteq misread'
      /\ Fail /\ ~Perform /\ calls[1].op # "write" => calls[1].by \in misread'
  <2>1. CASE Perform
    <3>1. /\ file' = IF calls[1].op = "write" THEN ScoreOf(calls[1].score) ELSE file
          /\ misread' = misread /\ (calls[1].op = "read" => file.kind # "none")
      BY <1>1, <2>1, Zenon DEF Perform
    <3> QED
      BY <2>1, <3>1, Zenon DEF ScoreOf
  <2>2. CASE Fail /\ ~Perform
    <3>1. /\ file' = file \/ (calls[1].op = "write" /\ file' = EmptyFile)
          /\ misread' = misread \/ misread' = misread \cup {calls[1].by}
          /\ calls[1].op # "write" => misread' = misread \cup {calls[1].by}
      BY <1>1, <2>2, Zenon DEF Fail
    <3> QED
      BY <2>2, <3>1 DEF EmptyFile
  <2> QED
    BY <2>1, <2>2, Zenon
<1>4. AsksOnce'
  <2>1. ASSUME NEW s \in Screen, NEW i \in DOMAIN calls', NEW j \in DOMAIN calls',
               Asks(calls'[i], s), Asks(calls'[j], s)
        PROVE  i = j
    <3>1. i + 1 = j + 1
      BY <1>1, <2>1, Zenon DEF QuietInv, AsksOnce
    <3> QED
      BY <1>1, <3>1
  <2>2. ASSUME NEW s \in Screen, NEW i \in DOMAIN answers', NEW j \in DOMAIN answers',
               Asks(answers'[i].call, s), Asks(answers'[j].call, s)
        PROVE  i = j
    BY <1>1, <1>2, <2>2 DEF QuietInv, AsksOnce
  <2>3. ASSUME NEW s \in Screen, NEW i \in DOMAIN calls', NEW j \in DOMAIN answers',
               Asks(calls'[i], s), Asks(answers'[j].call, s)
        PROVE  FALSE
    <3>1. i + 1 \in DOMAIN calls /\ Asks(calls[i + 1], s) /\ i + 1 # 1
      BY <1>1, <2>3, Zenon
    <3>2. CASE j = n
      BY <1>1, <1>2, <2>3, <3>1, <3>2, Zenon DEF QuietInv, AsksOnce
    <3>3. CASE j \in DOMAIN answers
      BY <1>1, <2>3, <3>1, <3>3 DEF QuietInv, AsksOnce
    <3> QED
      BY <1>2, <3>2, <3>3, Zenon
  <2> QED
    BY <2>1, <2>2, <2>3, Zenon DEF AsksOnce, Asks
<1>5. NeverShown'
  <2>1. file'.kind = "none" => file' = NoFile /\ \A s \in Screen : shown'[s] = NoFile
    BY <1>1, <1>3, Zenon DEF QuietInv, NeverShown
  <2>2. ASSUME NEW i \in DOMAIN answers', answers'[i].call.op = "read", answers'[i].ok
        PROVE  file'.kind # "none"
    <3>1. CASE i \in DOMAIN answers
      BY <1>1, <1>3, <2>2, <3>1, Zenon DEF QuietInv, NeverShown
    <3>2. CASE i = n
      BY <1>2, <1>3, <2>2, <3>2, Zenon
    <3> QED
      BY <1>2, <3>1, <3>2, Zenon
  <2> QED
    BY <2>1, <2>2, Zenon DEF NeverShown
<1>6. ASSUME HomeOnTop' PROVE Informed(top)'
  <2>1. HomeOnTop
    BY <1>1, <1>3, <1>6, Zenon DEF HomeOnTop
  <2>2. NoWrites => NoWrites' /\ file' = file
    BY <1>1, <1>3 DEF NoWrites
  <2>3. CASE WillReplace
    <3>1. ASSUME NEW i \in DOMAIN calls, calls[i].op = "write", owed[calls[i].by] > 0
          PROVE  WillReplace'
      <4>1. CASE i = 1
        BY <1>1, <1>2, <3>1, <4>1 DEF WillReplace
      <4>2. CASE i # 1
        BY <1>1, <3>1, <4>2 DEF WillReplace
      <4> QED
        BY <4>1, <4>2, Zenon
    <3>2. ASSUME NEW i \in DOMAIN answers, answers[i].call.op = "write",
                 owed[answers[i].call.by] > 0
          PROVE  WillReplace'
      BY <1>1, <3>2, Zenon DEF WillReplace
    <3> QED
      BY <2>3, <3>1, <3>2, Zenon DEF WillReplace, Informed
  <2>4. CASE WillAsk(top)
    <3>1. PICK i \in DOMAIN calls :
            /\ Asks(calls[i], top)
            /\ calls[i].op = "read" => file.kind # "none"
            /\ \A j \in DOMAIN calls : calls[j].op = "write" => j < i
      BY <2>4, Zenon DEF WillAsk
    <3>2. CASE i = 1
      <4>1. NoWrites'
        BY <1>1, <3>1, <3>2 DEF NoWrites
      <4>2. ~(Fail /\ ~Perform)
        BY <1>1, <1>3, <1>6, <3>1, <3>2, Zenon DEF Asks, HomeOnTop
      <4>3. Asks(answers'[n].call, top') /\ answers'[n].ok /\ answers'[n].content = file'
        BY <1>1, <1>2, <3>1, <3>2, <4>2, Zenon
      <4>4. WillHear(top)'
        BY <4>1, <4>3, Zenon DEF WillHear, Asks
      <4> QED
        BY <4>4, Zenon DEF Informed
    <3>3. CASE i # 1
      <4>1. i - 1 \in DOMAIN calls' /\ calls'[i - 1] = calls[i] /\ i \in Nat
        BY <1>1, <3>3, Zenon
      <4>2. \A j \in DOMAIN calls' : calls'[j].op = "write" => j < i - 1
        BY <1>1, <3>1, <4>1
      <4>3. calls[i].op = "read" => file'.kind # "none"
        BY <1>3, <3>1, Zenon
      <4>4. Asks(calls'[i - 1], top')
        BY <1>1, <3>1, <4>1, Zenon
      <4>5. WillAsk(top)'
        BY <4>1, <4>2, <4>3, <4>4, Zenon DEF WillAsk, Asks
      <4> QED
        BY <4>5, Zenon DEF Informed
    <3> QED
      BY <3>2, <3>3, Zenon
  <2>5. CASE WillHear(top)
    BY <1>1, <2>2, <2>5, Zenon DEF WillHear, Asks, Informed
  <2>6. CASE HasHeard(top)
    <3>1. \A i \in DOMAIN calls' : ~Asks(calls'[i], top)
      BY <1>1, <2>6, Zenon DEF HasHeard
    <3>2. \A i \in DOMAIN answers' : ~Asks(answers'[i].call, top)
      BY <1>1, <1>2, <2>6 DEF HasHeard
    <3>3. HasHeard(top)'
      BY <1>1, <2>2, <2>6, <3>1, <3>2, Zenon DEF HasHeard, Asks
    <3> QED
      BY <3>3, Zenon DEF Informed
  <2> QED
    BY <2>1, <2>3, <2>4, <2>5, <2>6, Zenon DEF QuietInv, Informed
<1> QED
  BY <1>4, <1>5, <1>6, Zenon DEF QuietInv

\* JavaScript takes the oldest answer.
LEMMA AnswerTaken ==
    ASSUME IOType, answers # <<>>, answers' = Tail(answers)
    PROVE  /\ 1 \in DOMAIN answers /\ answers[1] = Head(answers)
           /\ DOMAIN answers \subseteq Nat /\ DOMAIN answers' \subseteq Nat
           /\ \A i \in DOMAIN answers' : /\ i + 1 \in DOMAIN answers /\ i + 1 # 1
                                         /\ answers'[i] = answers[i + 1]
           /\ \A i \in DOMAIN answers :
                i # 1 => i - 1 \in DOMAIN answers' /\ answers'[i - 1] = answers[i]
BY DEF IOType

\* A screen calls RNFS.
LEMMA CallMade ==
    ASSUME IOType, NEW x \in Call, calls' = Append(calls, x)
    PROVE  \E n \in DOMAIN calls' :
             /\ calls'[n] = x /\ n \notin DOMAIN calls
             /\ \A i \in DOMAIN calls : i \in DOMAIN calls' /\ calls'[i] = calls[i] /\ i < n
             /\ \A i \in DOMAIN calls' : i = n \/ i \in DOMAIN calls
<1>1. /\ Len(calls) \in Nat /\ DOMAIN calls = 1 .. Len(calls)
      /\ DOMAIN calls' = 1 .. Len(calls) + 1 /\ calls'[Len(calls) + 1] = x
      /\ \A i \in DOMAIN calls : calls'[i] = calls[i]
  BY DEF IOType
<1>2. /\ Len(calls) + 1 \in DOMAIN calls' /\ Len(calls) + 1 \notin DOMAIN calls
      /\ \A i \in DOMAIN calls : i \in DOMAIN calls' /\ i < Len(calls) + 1
      /\ \A i \in DOMAIN calls' : i = Len(calls) + 1 \/ i \in DOMAIN calls
  BY <1>1
<1> QED
  BY <1>1, <1>2, Zenon

LEMMA AsksOnceKept ==
    ASSUME IOType, AsksOnce, answers' = answers \/ (answers # <<>> /\ answers' = Tail(answers)),
           \/ calls' = calls
           \/ \E x \in Call :
                /\ calls' = Append(calls, x)
                /\ x.op # "write" =>
                     /\ \A i \in DOMAIN calls : ~Asks(calls[i], x.by)
                     /\ \A i \in DOMAIN answers' : ~Asks(answers'[i].call, x.by)
    PROVE  AsksOnce'
<1>1. /\ \A i \in DOMAIN answers' : \E j \in DOMAIN answers : answers'[i] = answers[j]
      /\ \A s \in Screen : \A i, j \in DOMAIN answers' :
           Asks(answers'[i].call, s) /\ Asks(answers'[j].call, s) => i = j
  <2>1. CASE answers' = answers
    BY <2>1, Zenon DEF AsksOnce
  <2>2. CASE answers # <<>> /\ answers' = Tail(answers)
    <3>1. ASSUME NEW s \in Screen, NEW i \in DOMAIN answers', NEW j \in DOMAIN answers',
                 Asks(answers'[i].call, s), Asks(answers'[j].call, s)
          PROVE  i = j
      <4>1. i + 1 = j + 1
        BY <2>2, <3>1, AnswerTaken, Zenon DEF AsksOnce
      <4>2. i \in Nat /\ j \in Nat
        BY <2>2, AnswerTaken, Zenon
      <4> QED
        BY <4>1, <4>2
    <3> QED
      BY <2>2, <3>1, AnswerTaken, Zenon
  <2> QED
    BY <2>1, <2>2, Zenon
<1>2. CASE calls' = calls
  BY <1>1, <1>2 DEF AsksOnce, Asks
<1>3. ASSUME NEW x \in Call, calls' = Append(calls, x),
             x.op # "write" =>
               /\ \A i \in DOMAIN calls : ~Asks(calls[i], x.by)
               /\ \A i \in DOMAIN answers' : ~Asks(answers'[i].call, x.by)
      PROVE  AsksOnce'
  <2>1. PICK n \in DOMAIN calls' :
          /\ calls'[n] = x
          /\ \A i \in DOMAIN calls : i \in DOMAIN calls' /\ calls'[i] = calls[i]
          /\ \A i \in DOMAIN calls' : i = n \/ i \in DOMAIN calls
    BY <1>3, CallMade, Zenon
  <2>2. ASSUME NEW s \in Screen, NEW i \in DOMAIN calls', NEW j \in DOMAIN calls',
               Asks(calls'[i], s), Asks(calls'[j], s)
        PROVE  i = j
    BY <1>3, <2>1, <2>2 DEF AsksOnce, Asks
  <2>3. ASSUME NEW s \in Screen, NEW i \in DOMAIN calls', NEW j \in DOMAIN answers',
               Asks(calls'[i], s), Asks(answers'[j].call, s)
        PROVE  FALSE
    BY <1>1, <1>3, <2>1, <2>3, SMTT(30) DEF AsksOnce, Asks
  <2> QED
    BY <1>1, <2>2, <2>3, Zenon DEF AsksOnce, Asks
<1> QED
  BY <1>2, <1>3, Zenon

\* JavaScript handles an answer that opens no screen.
LEMMA StaysInformed ==
    ASSUME NavType, IOType, Informed(top), answers # <<>>, answers' = Tail(answers),
           UNCHANGED <<top, owed, file>>,
           Head(answers).call.op = "write" => ~(owed[Head(answers).call.by] > 0),
           \A s \in Screen : ~Asks(Head(answers).call, s) => shown'[s] = shown[s],
           \/ calls' = calls
           \/ \E x \in Call : /\ calls' = Append(calls, x) /\ x.op # "write"
                              /\ \A s : Asks(x, s) => Asks(Head(answers).call, s),
           top \in Screen
    PROVE  \/ Informed(top)'
           \/ /\ NoWrites /\ Asks(Head(answers).call, top)
              /\ Head(answers).ok /\ Head(answers).content = file
<1>1. /\ 1 \in DOMAIN answers /\ answers[1] = Head(answers)
      /\ \A i \in DOMAIN answers' : /\ i + 1 \in DOMAIN answers
                                    /\ answers'[i] = answers[i + 1]
      /\ \A i \in DOMAIN answers :
           i # 1 => i - 1 \in DOMAIN answers' /\ answers'[i - 1] = answers[i]
  BY AnswerTaken, Zenon
<1>2. /\ \A i \in DOMAIN calls : i \in DOMAIN calls' /\ calls'[i] = calls[i]
      /\ \A i \in DOMAIN calls' :
           \/ i \in DOMAIN calls
           \/ /\ calls'[i].op # "write"
              /\ \A s : Asks(calls'[i], s) => Asks(Head(answers).call, s)
  <2>1. CASE calls' = calls
    BY <2>1, Zenon
  <2>2. ASSUME NEW x \in Call, calls' = Append(calls, x), x.op # "write",
               \A s : Asks(x, s) => Asks(Head(answers).call, s)
        PROVE  <1>2!1 /\ <1>2!2
    BY <2>2, CallMade
  <2> QED
    BY <2>1, <2>2, Zenon
<1>3. NoWrites => NoWrites'
  BY <1>2, Zenon DEF NoWrites
<1>4. CASE WillReplace
  <2>1. ASSUME NEW i \in DOMAIN calls, calls[i].op = "write", owed[calls[i].by] > 0
        PROVE  WillReplace'
    BY <1>2, <2>1, Zenon DEF WillReplace
  <2>2. ASSUME NEW i \in DOMAIN answers, answers[i].call.op = "write",
               owed[answers[i].call.by] > 0
        PROVE  WillReplace'
    <3>1. i # 1
      BY <1>1, <2>2, Zenon
    <3>2. i - 1 \in DOMAIN answers' /\ answers'[i - 1] = answers[i]
      BY <1>1, <3>1, Zenon
    <3> QED
      BY <2>2, <3>2, Zenon DEF WillReplace
  <2> QED
    BY <1>4, <2>1, <2>2, Zenon DEF WillReplace, Informed
<1>5. CASE WillAsk(top)
  <2>1. WillAsk(top)'
    BY <1>2, <1>5, Zenon DEF WillAsk, Asks
  <2> QED
    BY <2>1, Zenon DEF Informed
<1>6. CASE WillHear(top)
  <2>1. PICK i \in DOMAIN answers :
          Asks(answers[i].call, top) /\ answers[i].ok /\ answers[i].content = file
    BY <1>6, Zenon DEF WillHear
  <2>2. CASE i = 1
    BY <1>1, <1>6, <2>1, <2>2, Zenon DEF WillHear
  <2>3. CASE i # 1
    <3>1. i - 1 \in DOMAIN answers' /\ answers'[i - 1] = answers[i]
      BY <1>1, <2>3, Zenon
    <3>2. NoWrites'
      BY <1>3, <1>6, Zenon DEF WillHear
    <3>3. WillHear(top)'
      BY <2>1, <3>1, <3>2, SMTT(30) DEF WillHear, Asks
    <3> QED
      BY <3>3, Zenon DEF Informed
  <2> QED
    BY <2>2, <2>3, Zenon
<1>7. CASE HasHeard(top)
  <2>1. ~Asks(Head(answers).call, top)
    BY <1>1, <1>7, Zenon DEF HasHeard
  <2>2. /\ \A i \in DOMAIN calls' : ~Asks(calls'[i], top)
        /\ \A i \in DOMAIN answers' : ~Asks(answers'[i].call, top)
    BY <1>1, <1>2, <1>7, <2>1, Zenon DEF HasHeard
  <2>3. HasHeard(top)'
    BY <1>3, <1>7, <2>1, <2>2, Zenon DEF HasHeard, Asks
  <2> QED
    BY <2>3, Zenon DEF Informed
<1> QED
  BY <1>4, <1>5, <1>6, <1>7, Zenon DEF Informed

\* A home screen is constructed and asks for the file, behind every write.
LEMMA NewKeepsQuiet ==
    ASSUME NavType, IOType, CurrentInv, QuietInv, mounted + 1 \in Screen, top' = mounted + 1,
           calls' = Append(calls, ExistsCall(mounted + 1)),
           answers' = answers \/ (answers # <<>> /\ answers' = Tail(answers)),
           UNCHANGED <<file, shown>>
    PROVE  QuietInv'
<1> DEFINE x == ExistsCall(mounted + 1)
<1>1. x \in Call /\ x.op = "exists" /\ x.by = mounted + 1
  BY CallFacts, Zenon DEF ExistsCall, IOType
<1>2. mounted \in Nat /\ \A s \in Screen : s \in Nat
  BY DEF NavType, TypeOK, Screen
<1>3. \A i \in DOMAIN answers' : \E j \in DOMAIN answers : answers'[i] = answers[j]
  BY AnswerTaken, Zenon
<1>4. /\ \A i \in DOMAIN calls : ~Asks(calls[i], x.by)
      /\ \A i \in DOMAIN answers' : ~Asks(answers'[i].call, x.by)
  <2>1. \A j \in DOMAIN calls : calls[j].by # mounted + 1
    BY <1>2, Elements DEF CurrentInv, Callers
  <2>2. \A j \in DOMAIN answers : answers[j].call.by # mounted + 1
    BY <1>2, Elements DEF CurrentInv, Callers
  <2> QED
    BY <1>1, <1>3, <2>1, <2>2, Zenon DEF Asks
<1> HIDE DEF x
<1>5. calls' = Append(calls, x)
  BY Zenon DEF x
<1>6. AsksOnce'
  BY <1>1, <1>4, <1>5, AsksOnceKept, Zenon DEF QuietInv
<1>7. NeverShown'
  BY <1>3, Zenon DEF QuietInv, NeverShown
<1>8. WillAsk(top)'
  <2>1. PICK n \in DOMAIN calls' :
          /\ calls'[n] = x
          /\ \A i \in DOMAIN calls : calls'[i] = calls[i] /\ i < n
          /\ \A i \in DOMAIN calls' : i = n \/ i \in DOMAIN calls
    BY <1>1, <1>5, CallMade, Zenon
  <2>2. \A j \in DOMAIN calls' : calls'[j].op = "write" => j < n
    BY <1>1, <2>1, Zenon
  <2>3. Asks(calls'[n], top') /\ calls'[n].op # "read"
    BY <1>1, <2>1, Zenon DEF Asks
  <2> QED
    BY <2>2, <2>3, Zenon DEF WillAsk, Asks
<1> QED
  BY <1>6, <1>7, <1>8, Zenon DEF QuietInv, Informed

LEMMA SubmitKeepsQuiet ==
    ASSUME NavType, IOType, QuietInv, NEW s \in Screen, AppSubmit(s)
    PROVE  QuietInv'
<1> DEFINE x == WriteCall(s, submits + 1)
<1>1. x \in Call /\ x.op = "write" /\ x.by = s
  BY CallFacts DEF WriteCall, IOType
<1>2. /\ calls' = Append(calls, x) /\ UNCHANGED <<file, answers, shown>>
      /\ owed' = [owed EXCEPT ![s] = @ + 1]
  BY Zenon DEF AppSubmit, Submit
<1> HIDE DEF x
<1>3. owed'[s] > 0
  <2>1. owed[s] \in Nat
    BY NavigationAssumption DEF NavigationAssumption, NavType, TypeOK
  <2>2. owed'[s] = owed[s] + 1
    BY <1>2, Zenon DEF NavType, TypeOK
  <2> QED
    BY <2>1, <2>2
<1>4. AsksOnce'
  BY <1>1, <1>2, AsksOnceKept, Zenon DEF QuietInv
<1>5. NeverShown'
  BY <1>2, Zenon DEF QuietInv, NeverShown
<1>6. WillReplace'
  <2>1. PICK n \in DOMAIN calls' : calls'[n] = x
    BY <1>1, <1>2, CallMade, Zenon
  <2> QED
    BY <1>1, <1>3, <2>1, Zenon DEF WillReplace
<1> QED
  BY <1>4, <1>5, <1>6, Zenon DEF QuietInv, Informed

LEMMA ExistsKeepsQuiet ==
    ASSUME NavType, IOType, QuietInv, ExistsAnswered
    PROVE  QuietInv'
<1> DEFINE a == Head(answers)
           x == ReadCall(a.call.by)
<1>1. /\ answers # <<>> /\ answers' = Tail(answers) /\ a.call.op = "exists"
      /\ calls' = IF a.ok /\ a.content.kind # "none" THEN Append(calls, x) ELSE calls
      /\ UNCHANGED <<top, kind, owed, file, shown, misread>>
  BY Zenon DEF ExistsAnswered, Handled, vars
<1>2. /\ 1 \in DOMAIN answers /\ answers[1] = a
      /\ \A i \in DOMAIN answers' : /\ i + 1 \in DOMAIN answers /\ i + 1 # 1
                                    /\ answers'[i] = answers[i + 1]
  BY <1>1, AnswerTaken, Zenon
<1>3. a.call.by \in Screen
  BY <1>2, Elements, Zenon
<1>4. x \in Call /\ x.op = "read" /\ x.by = a.call.by
  BY <1>3, CallFacts, Zenon DEF ReadCall, IOType
<1> HIDE DEF a, x
<1>5. /\ \A i \in DOMAIN calls : ~Asks(calls[i], a.call.by)
      /\ \A i \in DOMAIN answers' : ~Asks(answers'[i].call, a.call.by)
  <2>1. Asks(answers[1].call, a.call.by)
    BY <1>1, <1>2, Zenon DEF Asks
  <2>2. \A i \in DOMAIN calls : ~Asks(calls[i], a.call.by)
    BY <1>2, <1>3, <2>1, Zenon DEF QuietInv, AsksOnce
  <2>3. \A j \in DOMAIN answers : Asks(answers[j].call, a.call.by) => j = 1
    BY <1>2, <1>3, <2>1, Zenon DEF QuietInv, AsksOnce
  <2>4. \A i \in DOMAIN answers' : ~Asks(answers'[i].call, a.call.by)
    BY <1>2, <2>3, Zenon
  <2> QED
    BY <2>2, <2>4, Zenon
<1>6. AsksOnce'
  BY <1>1, <1>4, <1>5, AsksOnceKept, Zenon DEF QuietInv
<1>7. NeverShown'
  BY <1>1, <1>2 DEF QuietInv, NeverShown
<1>8. ASSUME HomeOnTop' PROVE Informed(top)'
  <2>1. HomeOnTop /\ top \in Screen
    BY <1>1, <1>8, Zenon DEF HomeOnTop, NavType, TypeOK
  <2>2. \A s : Asks(x, s) => Asks(a.call, s)
    BY <1>1, <1>4, Zenon DEF Asks
  <2>3. \/ Informed(top)'
        \/ NoWrites /\ Asks(a.call, top) /\ a.ok /\ a.content = file
    <3>1. Informed(top)
      BY <2>1, Zenon DEF QuietInv
    <3> QED
      BY <1>1, <1>4, <2>1, <2>2, <3>1, StaysInformed, Zenon DEF a
  <2>4. ASSUME NoWrites, Asks(a.call, top), a.ok, a.content = file PROVE Informed(top)'
    <3>1. top = a.call.by
      BY <2>4, Zenon DEF Asks
    <3>2. CASE file.kind # "none"
      <4>1. calls' = Append(calls, x)
        BY <1>1, <2>4, <3>2, Zenon
      <4>2. PICK n \in DOMAIN calls' :
              /\ calls'[n] = x
              /\ \A i \in DOMAIN calls : calls'[i] = calls[i]
              /\ \A i \in DOMAIN calls' : i = n \/ i \in DOMAIN calls
        BY <1>4, <4>1, CallMade, Zenon
      <4>3. \A j \in DOMAIN calls' : calls'[j].op # "write"
        BY <1>4, <2>4, <4>2, Zenon DEF NoWrites
      <4>4. WillAsk(top)'
        BY <1>1, <1>4, <3>1, <3>2, <4>2, <4>3, Zenon DEF WillAsk, Asks
      <4> QED
        BY <4>4, Zenon DEF Informed
    <3>3. CASE file.kind = "none"
      <4>1. calls' = calls /\ shown[top] = file
        BY <1>1, <2>1, <2>4, <3>3, Zenon DEF QuietInv, NeverShown
      <4>2. HasHeard(top)'
        BY <1>1, <1>5, <2>4, <3>1, <4>1, Zenon DEF HasHeard, NoWrites, Asks
      <4> QED
        BY <4>2, Zenon DEF Informed
    <3> QED
      BY <3>2, <3>3, Zenon
  <2> QED
    BY <2>3, <2>4, Zenon
<1> QED
  BY <1>6, <1>7, <1>8, Zenon DEF QuietInv

LEMMA ReadKeepsQuiet ==
    ASSUME NavType, IOType, QuietInv, ReadAnswered
    PROVE  QuietInv'
<1> DEFINE a == Head(answers)
<1>1. /\ answers # <<>> /\ answers' = Tail(answers) /\ a.call.op = "read"
      /\ shown' = IF a.ok /\ OnDisplay(a.call.by)
                  THEN [shown EXCEPT ![a.call.by] = a.content] ELSE shown
      /\ UNCHANGED <<top, kind, owed, file, calls, misread>>
  BY Zenon DEF ReadAnswered, Handled, vars
<1>2. /\ 1 \in DOMAIN answers /\ answers[1] = a
      /\ \A i \in DOMAIN answers' : /\ i + 1 \in DOMAIN answers /\ i + 1 # 1
                                    /\ answers'[i] = answers[i + 1]
  BY <1>1, AnswerTaken, Zenon
<1>3. a.call.by \in Screen
  BY <1>2, Elements, Zenon
<1> HIDE DEF a
<1>4. AsksOnce'
  BY <1>1, AsksOnceKept, Zenon DEF QuietInv
<1>5. NeverShown'
  <2>1. file.kind = "none" => ~a.ok
    BY <1>1, <1>2, Zenon DEF QuietInv, NeverShown
  <2> QED
    BY <1>1, <1>2, <2>1, Zenon DEF QuietInv, NeverShown
<1>6. \A s \in Screen : ~Asks(a.call, s) => shown'[s] = shown[s]
  BY <1>1, Zenon DEF IOType, Asks
<1>7. ASSUME HomeOnTop' PROVE Informed(top)'
  <2>1. HomeOnTop /\ top \in Screen
    BY <1>1, <1>7, Zenon DEF HomeOnTop, NavType, TypeOK
  <2>2. \/ Informed(top)'
        \/ NoWrites /\ Asks(a.call, top) /\ a.ok /\ a.content = file
    <3>1. Informed(top)
      BY <2>1, Zenon DEF QuietInv
    <3> QED
      BY <1>1, <1>6, <2>1, <3>1, StaysInformed, Zenon DEF a
  <2>3. ASSUME NoWrites, Asks(a.call, top), a.ok, a.content = file PROVE Informed(top)'
    <3>1. top = a.call.by
      BY <2>3, Zenon DEF Asks
    <3>2. shown'[top] = file
      BY <1>1, <2>1, <2>3, <3>1, Zenon DEF OnDisplay, IOType
    <3>3. \A i \in DOMAIN calls : ~Asks(calls[i], top)
      BY <1>2, <2>1, <2>3, Zenon DEF QuietInv, AsksOnce
    <3>4. \A j \in DOMAIN answers : Asks(answers[j].call, top) => j = 1
      BY <1>2, <2>1, <2>3, Zenon DEF QuietInv, AsksOnce
    <3>5. HasHeard(top)'
      BY <1>1, <1>2, <2>3, <3>2, <3>3, <3>4 DEF HasHeard, NoWrites, Asks
    <3> QED
      BY <3>5, Zenon DEF Informed
  <2> QED
    BY <2>2, <2>3, Zenon
<1> QED
  BY <1>4, <1>5, <1>7, Zenon DEF QuietInv

LEMMA QuietStep ==
    NavType /\ IOType /\ CurrentInv /\ QuietInv /\ [AppNext]_appVars => QuietInv'
<1> SUFFICES ASSUME NavType, IOType, CurrentInv, QuietInv, [AppNext]_appVars PROVE QuietInv'
  BY Zenon
<1>1. IOType'
  BY IOTypeStep, Zenon
<1>2. ASSUME UNCHANGED <<file, calls, answers, shown>>, HomeOnTop' => Informed(top)'
      PROVE  QuietInv'
  BY <1>2 DEF QuietInv, AsksOnce, NeverShown, Asks
<1>3. ASSUME NEW s \in Screen, AppLogin(s) PROVE QuietInv'
  <2>1. kind'[top'] = "QuizScreen"
    BY <1>3, ReplaceFacts, Zenon DEF AppLogin, Login
  <2> QED
    BY <1>2, <1>3, <2>1, Zenon DEF AppLogin, ioVars, HomeOnTop
<1>4. ASSUME NEW s \in Screen, AppSubmit(s) PROVE QuietInv'
  BY <1>4, SubmitKeepsQuiet, Zenon
<1>5. ASSUME Perform \/ Fail PROVE QuietInv'
  BY <1>1, <1>5, CallDoneKeepsQuiet, Zenon
<1>6. ASSUME WriteAnswered PROVE QuietInv'
  <2>1. CASE owed[Head(answers).call.by] > 0
    <3>1. /\ answers # <<>> /\ answers' = Tail(answers) /\ WriteSettles(Head(answers).call.by)
          /\ calls' = Append(calls, ExistsCall(mounted + 1)) /\ UNCHANGED <<file, shown>>
      BY <1>6, <2>1, Zenon DEF WriteAnswered, Handled
    <3>2. mounted + 1 \in Screen /\ top' = mounted + 1
      BY <3>1, ReplaceFacts, Zenon DEF WriteSettles
    <3> QED
      BY <3>1, <3>2, NewKeepsQuiet, Zenon
  <2>2. CASE ~(owed[Head(answers).call.by] > 0)
    <3>1. /\ answers # <<>> /\ answers' = Tail(answers) /\ Head(answers).call.op = "write"
          /\ UNCHANGED <<top, kind, owed, file, calls, shown, misread>>
      BY <1>6, <2>2, Zenon DEF WriteAnswered, Handled, vars
    <3>2. AsksOnce'
      BY <3>1, AsksOnceKept, Zenon DEF QuietInv
    <3>3. NeverShown'
      BY <3>1, AnswerTaken, SMTT(30) DEF QuietInv, NeverShown
    <3>4. ASSUME HomeOnTop' PROVE Informed(top)'
      <4>1. HomeOnTop /\ top \in Screen /\ Informed(top)
        BY <3>1, <3>4, Zenon DEF HomeOnTop, NavType, TypeOK, QuietInv
      <4>2. ~Asks(Head(answers).call, top)
        BY <3>1, Zenon DEF Asks
      <4> QED
        BY <2>2, <3>1, <4>1, <4>2, StaysInformed, Zenon
    <3> QED
      BY <3>2, <3>3, <3>4, Zenon DEF QuietInv
  <2> QED
    BY <2>1, <2>2, Zenon
<1>7. ASSUME ExistsAnswered PROVE QuietInv'
  BY <1>7, ExistsKeepsQuiet, Zenon
<1>8. ASSUME ReadAnswered PROVE QuietInv'
  BY <1>8, ReadKeepsQuiet, Zenon
<1>9. ASSUME AppLaunch PROVE QuietInv'
  <2>1. mounted + 1 \in Screen
    BY <1>9, NavigationAssumption
       DEF NavigationAssumption, AppLaunch, Launch, NavType, TypeOK, Screen
  <2> QED
    BY <1>9, <2>1, NewKeepsQuiet, Zenon DEF AppLaunch, Launch
<1>10. CASE AppBackExits
  BY <1>2, <1>10, Zenon DEF AppBackExits, BackExits, ioVars, HomeOnTop
<1>11. CASE AppTransitionEnd \/ UNCHANGED appVars
  <2>1. UNCHANGED <<file, calls, answers, shown, misread, top, kind, owed>>
    BY <1>11, Zenon DEF AppTransitionEnd, TransitionEnd, ioVars, appVars, vars
  <2>2. HomeOnTop' => Informed(top)'
    BY <2>1, Zenon DEF QuietInv, HomeOnTop, Informed, WillReplace, WillAsk, WillHear, HasHeard,
                NoWrites, Asks
  <2> QED
    BY <1>2, <2>1, <2>2, Zenon
<1> QED
  BY <1>3, <1>4, <1>5, <1>6, <1>7, <1>8, <1>9, <1>10, <1>11, Zenon DEF AppNext

\* When RNFS and JavaScript have nothing left to do, the home screen on top shows
\* what is in the file: the check and the read of HomeScreen.js are never overtaken by
\* a write unless another home screen will replace the one that asked.
THEOREM QuietCorrect == AppSpec => []QuietShowsFile
<1>1. QuietInv => QuietShowsFile
  BY DEF QuietInv, HomeOnTop, Informed, WillReplace, WillAsk, WillHear, HasHeard,
         QuietShowsFile
<1> QED
  BY <1>1, AppTypes, CurrentInit, CurrentStep, QuietInit, QuietStep, PTL DEF AppSpec

\* The app keeps the types of the navigator.
THEOREM AppTypeCorrect == AppSpec => []TypeOK
BY AppImplementsNavigation, NavTypeCorrect, PTL

\* With one press per button, the back button is disabled during every quiz of the
\* app, although QuizScreen.js navigates only when RNFS has settled the write.
THEOREM AppBackDisabled == AppSpec => []SinglePressDisablesBack
BY AppImplementsNavigation, BackDisabledCorrect, PTL

\* With one press per button, no write that settles late takes a quiz off the screen
\* that was not submitted.
THEOREM AppCompleted == AppSpec => []SinglePressCompletesQuiz
BY AppImplementsNavigation, CompletedCorrect, PTL

-----------------------------------------------------------------------------
(* The file as one record of the submissions. *)

\* What is in the file or failed was performed, and is as new as anything that was.
RecordInv ==
    /\ \A n \in Record!Tried : n \in Nat /\ Performed(n)
    /\ \A n \in Nat : Performed(n) => \E m \in Record!Tried : n <= m

LEMMA RecordInit == AppInit => RecordInv /\ Record!FInit
<1> SUFFICES ASSUME AppInit PROVE RecordInv /\ Record!FInit
  BY Zenon
<1>1. /\ calls = <<ExistsCall(1)>> /\ submits = 0 /\ failed = {}
      /\ file.kind \in {"none", "score"} /\ file.score = 0
  BY DEF AppInit, NoFile, ScoreOf
<1>2. DOMAIN calls = {1} /\ calls[1].op # "write"
  BY <1>1 DEF ExistsCall
<1>3. Record!Tried = {0}
  BY <1>1, Zenon DEF Record!Tried
<1>4. Performed(0) /\ \A n \in Nat : Performed(n) => n <= 0
  BY <1>1, <1>2 DEF Performed
<1> QED
  BY <1>1, <1>3, <1>4 DEF RecordInv, Record!FInit

\* The write that leaves the queue is of the submission after the last one tried.
LEMMA WriteIsNext ==
    ASSUME IOType, WritesInOrder, RecordInv, calls # <<>>, calls[1].op = "write"
    PROVE  calls[1].score \in 1 .. submits /\ Record!IsNext(calls[1].score)
<1> DEFINE k == calls[1].score
<1>1. /\ 1 \in DOMAIN calls /\ DOMAIN calls \subseteq Nat \ {0}
      /\ k \in Nat /\ submits \in Nat
      /\ \A i \in DOMAIN calls : calls[i].score \in Nat
  BY HeadFacts, Elements DEF IOType
<1>2. k <= submits /\ \A i \in DOMAIN calls : calls[i].op = "write" => k <= calls[i].score
  BY <1>1 DEF WritesInOrder
<1>3. \A m \in Record!Tried : m < k
  BY <1>1, Zenon DEF RecordInv, Performed
<1>4. \E m \in Record!Tried : m \in Nat
  <2>1. file.score \in Nat
    BY Zenon DEF IOType, Content
  <2> QED
    BY <2>1, Zenon DEF Record!Tried
<1>5. k - 1 \in 0 .. submits /\ k - 1 \in Nat
  BY <1>1, <1>2, <1>3, <1>4
<1>6. ~Pending(k - 1)
  BY <1>1, <1>2 DEF Pending
<1>7. Performed(k - 1)
  BY <1>5, <1>6, Zenon DEF WritesInOrder
<1>8. PICK m \in Record!Tried : k - 1 <= m
  BY <1>5, <1>7, Zenon DEF RecordInv
<1>9. m \in Nat /\ m < k
  BY <1>3, Zenon DEF RecordInv
<1>10. m = k - 1
  BY <1>1, <1>8, <1>9
<1> QED
  BY <1>1, <1>2, <1>3, <1>5, <1>10 DEF Record!IsNext

\* RNFS stores or loses the next submission, or leaves the record alone.
LEMMA CallDoneRecords ==
    ASSUME IOType, IOType', WritesInOrder, RecordInv, Perform \/ Fail
    PROVE  RecordInv' /\ [Record!FNext]_(Record!fvars)
<1> DEFINE k == calls[1].score
<1>1. calls # <<>> /\ calls' = Tail(calls) /\ submits' = submits /\ Head(calls) = calls[1]
  BY HeadFacts, ZenonT(30) DEF Perform, Fail
<1>2. /\ \A n \in Nat : Performed(n) => Performed(n)'
      /\ calls[1].op = "write" => \A n \in Nat : /\ n = k => Performed(n)'
                                                 /\ Performed(n)' => n <= k
      /\ calls[1].op # "write" => \A n \in Nat : Performed(n)' => Performed(n)
  BY <1>1, FirstCall, Zenon
<1>3. CASE calls[1].op = "write"
  <2>1. k \in 1 .. submits /\ k \in Nat /\ Record!IsNext(k)
    BY <1>1, <1>3, WriteIsNext DEF IOType
  <2>2. CASE Perform
    <3>1. file' = ScoreOf(k) /\ failed' = failed
      BY <1>1, <1>3, <2>2, Zenon DEF Perform
    <3>2. Record!Store(k)
      BY <1>1, <2>1, <3>1, Zenon DEF Record!Store, ScoreOf
    <3>3. (Record!Tried)' = failed \cup {k} /\ failed \subseteq Record!Tried
      BY <3>1, Zenon DEF Record!Tried, ScoreOf
    <3>4. RecordInv'
      BY <1>2, <1>3, <2>1, <3>3, Zenon DEF RecordInv
    <3> QED
      BY <2>1, <3>2, <3>4, Zenon DEF Record!FNext
  <2>3. CASE Fail
    <3>1. file' \in {file, EmptyFile} /\ failed' = failed \cup {k}
      BY <1>1, <1>3, <2>3, Zenon DEF Fail
    <3>2. Record!Lose(k)
      BY <1>1, <2>1, <3>1, Zenon DEF Record!Lose, EmptyFile
    <3>3. k \in (Record!Tried)'
      BY <3>1, Zenon DEF Record!Tried
    <3>4. \A n \in (Record!Tried)' : n \in Record!Tried \/ n = k \/ n = 0
      BY <3>1 DEF Record!Tried, EmptyFile
    <3>5. PICK n \in Nat : n = k /\ Performed(n)'
      BY <1>2, <1>3, <2>1, Zenon
    <3>6. 0 \in Nat /\ Performed(0)'
      <4>1. \A i \in DOMAIN calls' : calls'[i].score \in Nat
        <5>1. \A i \in DOMAIN calls' : calls'[i] \in Call
          BY DEF IOType
        <5> QED
          BY <5>1, Zenon DEF Call
      <4>2. submits' \in Nat
        BY Zenon DEF IOType
      <4> QED
        BY <3>5, <4>1, <4>2 DEF Performed
    <3>7. \A m \in (Record!Tried)' : m \in Nat /\ Performed(m)'
      <4> SUFFICES ASSUME NEW m \in (Record!Tried)' PROVE m \in Nat /\ Performed(m)'
        BY Zenon
      <4>1. CASE m \in Record!Tried
        BY <1>2, <4>1, Zenon DEF RecordInv
      <4>2. CASE m = k
        BY <3>5, <4>2, Zenon
      <4>3. CASE m = 0
        BY <3>6, <4>3, Zenon
      <4> QED
        BY <3>4, <4>1, <4>2, <4>3, Zenon
    <3>8. \A m \in Nat : Performed(m)' => \E t \in (Record!Tried)' : m <= t
      BY <1>2, <1>3, <3>3, Zenon
    <3>9. RecordInv'
      BY <3>7, <3>8, Zenon DEF RecordInv
    <3> QED
      BY <2>1, <3>2, <3>9, Zenon DEF Record!FNext
  <2> QED
    BY <2>2, <2>3, Zenon
<1>4. CASE calls[1].op # "write"
  <2>1. file' = file /\ failed' = failed
    BY <1>1, <1>4, Zenon DEF Perform, Fail
  <2>2. (Record!Tried)' = Record!Tried
    BY <2>1, Zenon DEF Record!Tried
  <2>3. RecordInv'
    BY <1>2, <1>4, <2>2, Zenon DEF RecordInv
  <2> QED
    BY <1>1, <2>1, <2>3, Zenon DEF Record!fvars
<1> QED
  BY <1>3, <1>4, Zenon

\* Other calls and answers leave the record alone.
LEMMA OthersKeepRecord ==
    ASSUME IOType, IOType', WritesInOrder, RecordInv,
           UNCHANGED <<file, submits, failed>>,
           NEW x \in Call, x.op # "write", calls' = calls \/ calls' = Append(calls, x)
    PROVE  RecordInv' /\ [Record!FNext]_(Record!fvars)
<1>1. \A n \in Nat : Performed(n)' <=> Performed(n)
  BY NoNewWrite, Zenon
<1>2. (Record!Tried)' = Record!Tried
  BY Zenon DEF Record!Tried
<1>3. RecordInv'
  BY <1>1, <1>2, Zenon DEF RecordInv
<1> QED
  BY <1>3, Zenon DEF Record!fvars

LEMMA SubmitRecords ==
    ASSUME NavType, IOType, RecordInv, NEW s \in Screen, AppSubmit(s)
    PROVE  RecordInv' /\ [Record!FNext]_(Record!fvars)
<1>1. /\ submits' = submits + 1 /\ file' = file /\ failed' = failed
      /\ calls' = Append(calls, WriteCall(s, submits + 1))
  BY Zenon DEF AppSubmit
<1>2. WriteCall(s, submits + 1) \in Call /\ submits \in Nat
  BY CallFacts DEF IOType
<1>3. /\ Len(calls) \in Nat /\ DOMAIN calls = 1 .. Len(calls)
      /\ DOMAIN calls' = 1 .. Len(calls) + 1
      /\ \A i \in DOMAIN calls : calls'[i] = calls[i]
      /\ calls'[Len(calls) + 1] = WriteCall(s, submits + 1)
  BY <1>1, <1>2 DEF IOType
<1>4. WriteCall(s, submits + 1).op = "write" /\ WriteCall(s, submits + 1).score = submits + 1
  BY Zenon DEF WriteCall
<1>5. \A n \in Nat : Performed(n)' <=> Performed(n)
  BY <1>1, <1>2, <1>3, <1>4 DEF Performed
<1>6. (Record!Tried)' = Record!Tried
  BY <1>1, Zenon DEF Record!Tried
<1>7. RecordInv'
  BY <1>5, <1>6, Zenon DEF RecordInv
<1> QED
  BY <1>1, <1>7, Zenon DEF Record!FNext, Record!HandIn

LEMMA RecordStep ==
    NavType /\ IOType /\ CurrentInv /\ RecordInv /\ [AppNext]_appVars
    => RecordInv' /\ [Record!FNext]_(Record!fvars)
<1> SUFFICES ASSUME NavType, IOType, CurrentInv, RecordInv, [AppNext]_appVars
             PROVE  RecordInv' /\ [Record!FNext]_(Record!fvars)
  BY Zenon
<1> DEFINE Goal == RecordInv' /\ [Record!FNext]_(Record!fvars)
<1>1. IOType' /\ WritesInOrder
  BY IOTypeStep, Zenon DEF CurrentInv
<1>2. ASSUME NEW s \in Screen, AppSubmit(s) PROVE Goal
  BY <1>2, SubmitRecords, Zenon
<1>3. ASSUME Perform \/ Fail PROVE Goal
  BY <1>1, <1>3, CallDoneRecords, Zenon
<1>4. ASSUME UNCHANGED <<file, submits, failed>>,
             \/ calls' = calls
             \/ \E s \in Screen : calls' = Append(calls, ExistsCall(s))
             \/ \E s \in Screen : calls' = Append(calls, ReadCall(s))
      PROVE  Goal
  <2>1. \A s \in Screen : /\ ExistsCall(s) \in Call /\ ExistsCall(s).op # "write"
                          /\ ReadCall(s) \in Call /\ ReadCall(s).op # "write"
    BY CallFacts, Zenon DEF ExistsCall, ReadCall
  <2>2. \E s \in Screen : TRUE
    BY Zenon DEF NavType, TypeOK
  <2>3. PICK x \in Call : x.op # "write" /\ (calls' = calls \/ calls' = Append(calls, x))
    BY <1>4, <2>1, <2>2, Zenon
  <2> QED
    BY <1>1, <1>4, <2>3, OthersKeepRecord, Zenon
<1>5. ASSUME WriteAnswered PROVE Goal
  <2>1. CASE owed[Head(answers).call.by] > 0
    <3>1. /\ WriteSettles(Head(answers).call.by)
          /\ calls' = Append(calls, ExistsCall(mounted + 1))
          /\ UNCHANGED <<file, submits, failed>>
      BY <1>5, <2>1, Zenon DEF WriteAnswered
    <3>2. mounted + 1 \in Screen
      BY <3>1, ReplaceFacts, Zenon DEF WriteSettles
    <3> QED
      BY <1>4, <3>1, <3>2, Zenon
  <2>2. CASE ~(owed[Head(answers).call.by] > 0)
    <3>1. calls' = calls /\ UNCHANGED <<file, submits, failed>>
      BY <1>5, <2>2, Zenon DEF WriteAnswered
    <3> QED
      BY <1>4, <3>1, Zenon
  <2> QED
    BY <2>1, <2>2, Zenon
<1>6. ASSUME ExistsAnswered PROVE Goal
  <2>1. /\ answers # <<>> /\ UNCHANGED <<file, submits, failed>>
        /\ calls' = calls \/ calls' = Append(calls, ReadCall(Head(answers).call.by))
    BY <1>6, Zenon DEF ExistsAnswered, Handled
  <2>2. Head(answers).call.by \in Screen
    BY <2>1, HeadFacts, Elements, Zenon
  <2> QED
    BY <1>4, <2>1, <2>2, Zenon
<1>7. ASSUME AppLaunch PROVE Goal
  <2>1. calls' = Append(calls, ExistsCall(mounted + 1)) /\ UNCHANGED <<file, submits, failed>>
    BY <1>7, Zenon DEF AppLaunch
  <2>2. mounted + 1 \in Screen
    BY <1>7, NavigationAssumption
       DEF NavigationAssumption, AppLaunch, Launch, NavType, TypeOK, Screen
  <2> QED
    BY <1>4, <2>1, <2>2, Zenon
<1>8. ASSUME \/ \E s \in Screen : AppLogin(s)
             \/ ReadAnswered \/ AppTransitionEnd \/ AppBackExits \/ UNCHANGED appVars
      PROVE  Goal
  <2>1. calls' = calls /\ UNCHANGED <<file, submits, failed>>
    BY <1>8, Zenon DEF AppLogin, ReadAnswered, AppTransitionEnd, AppBackExits, ioVars, appVars
  <2> QED
    BY <1>4, <2>1, Zenon
<1> HIDE DEF Goal
<1>9. Goal
  BY <1>2, <1>3, <1>5, <1>6, <1>7, <1>8, Zenon DEF AppNext
<1> QED
  BY <1>9, Zenon DEF Goal

\* For any number of screens, presses and failures the score file is one record of
\* the submissions: writeFile of each is tried once, in order and with none left out,
\* and no earlier score comes back over a later one.
THEOREM RecordCorrect == AppSpec => ImplementsRecord
<1>1. NavType /\ IOType /\ CurrentInv /\ RecordInv /\ [AppNext]_appVars => RecordInv'
  BY RecordStep, Zenon
<1>2. NavType /\ IOType /\ CurrentInv /\ RecordInv /\ [AppNext]_appVars
      => [Record!FNext]_(Record!fvars)
  BY RecordStep, Zenon
<1>3. AppInit => RecordInv /\ Record!FInit
  BY RecordInit, Zenon
<1> QED
  BY <1>1, <1>2, <1>3, AppTypes, CurrentInit, CurrentStep, PTL
     DEF AppSpec, ImplementsRecord, Record!FSpec

\* A file without a score counts for no submission.
NoScore == file.kind = "none" => file.score = 0

\* When RNFS and JavaScript have nothing left to do, the home screen on top shows the
\* last score submitted, unless the write of that one failed: HomeScreen.js reads after
\* the last write, and the file is then of the last submission.
THEOREM QuietLastCorrect == AppSpec => []QuietShowsLast
<1>1. IOType /\ CurrentInv /\ RecordInv /\ NoScore /\ QuietShowsFile => QuietShowsLast
  <2> SUFFICES ASSUME IOType, CurrentInv, RecordInv, NoScore, QuietShowsFile,
                      calls = <<>>, answers = <<>>,
                      top # NoScreen, kind[top] = "HomeScreen", top \notin misread,
                      submits > 0, submits \notin failed
               PROVE  shown[top] = ScoreOf(submits)
    BY Zenon DEF QuietShowsLast
  <2>1. submits \in Nat /\ submits \in 0 .. submits /\ file \in Content
    BY DEF IOType
  <2>2. Performed(submits)
    BY <2>1 DEF Performed
  <2>3. \A m \in Record!Tried : m \in Nat /\ m <= submits
    BY Zenon DEF RecordInv, Performed
  <2>4. file.score \in Nat /\ file.score <= submits
    BY <2>3, Zenon DEF Record!Tried
  <2>5. PICK m \in Record!Tried : submits <= m
    BY <2>1, <2>2, Zenon DEF RecordInv
  <2>6. m = submits
    BY <2>1, <2>3, <2>5
  <2>7. file.score = submits
    BY <2>6, Zenon DEF Record!Tried
  <2>8. file.kind # "none"
    BY <2>7 DEF NoScore
  <2>9. Current(file, submits)
    BY <2>1, <2>2, <2>8, Zenon DEF CurrentInv, FileIsCurrent
  <2>10. \A n \in failed : ~(n >= submits)
    <3>1. \A n \in failed : n \in Nat /\ n <= submits /\ n # submits
      BY <2>3, Zenon DEF Record!Tried
    <3> QED
      BY <2>1, <3>1
  <2>11. file.kind = "score"
    BY <2>9, <2>10, Zenon DEF Current
  <2>12. file = ScoreOf(submits)
    BY <2>1, <2>7, <2>11 DEF Content, ScoreOf
  <2> QED
    BY <2>12, Zenon DEF QuietShowsFile
<1>2. AppInit => NoScore
  BY RecordInit, Zenon DEF NoScore, Record!FInit
<1>3. NoScore /\ [Record!FNext]_(Record!fvars) => NoScore'
  BY DEF NoScore, Record!FNext, Record!fvars, Record!HandIn, Record!Store, Record!Lose
<1>4. NavType /\ IOType /\ CurrentInv /\ RecordInv /\ [AppNext]_appVars
      => RecordInv' /\ [Record!FNext]_(Record!fvars)
  BY RecordStep, Zenon
<1>5. AppInit => RecordInv
  BY RecordInit, Zenon
<1> QED
  BY <1>1, <1>2, <1>3, <1>4, <1>5, AppTypes, CurrentInit, CurrentStep, QuietCorrect, PTL
     DEF AppSpec

=============================================================================
