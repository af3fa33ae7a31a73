-------------------------- MODULE Navigation_proofs -------------------------
(***************************************************************************)
(* Proofs about Navigation, for any number of screens.                     *)
(***************************************************************************)
EXTENDS Navigation, TLAPS

-----------------------------------------------------------------------------
(* Types. *)

\* A screen number that was not given out yet is nowhere, and an app that was
\* left displays nothing.
Known ==
    /\ top <= mounted /\ below <= mounted
    /\ top = NoScreen => below = NoScreen

\* A quiz screen owes no more navigations than it was asked for.
OwedWasPressed == \A s \in Screen : owed[s] <= presses[s]

NavType == TypeOK /\ Known /\ OwedWasPressed

LEMMA NavTypeInit == Init => NavType
BY NavigationAssumption
   DEF NavigationAssumption, Init, NavType, TypeOK, Known, OwedWasPressed,
       Screen, NoScreen

\* What Replace(k) does to the variables of the navigator.
LEMMA ReplaceFacts ==
    ASSUME NavType, NEW k \in {"HomeScreen", "QuizScreen"}, Replace(k)
    PROVE  /\ mounted' = mounted + 1 /\ mounted + 1 \in Screen
           /\ top' = mounted + 1 /\ below' = top
           /\ top # mounted + 1 /\ below # mounted + 1
           /\ kind' \in [Screen -> {"HomeScreen", "QuizScreen"}]
           /\ kind'[mounted + 1] = k
           /\ \A s \in Screen : s # mounted + 1 => kind'[s] = kind[s]
           /\ subscribed' \in SUBSET {handleBackButton(s) : s \in Screen}
           /\ Known'
<1>1. /\ mounted \in 1 .. MaxScreens /\ MaxScreens \in Nat
      /\ top \in 0 .. MaxScreens /\ below \in 0 .. MaxScreens
      /\ top <= mounted /\ below <= mounted
  BY NavigationAssumption
     DEF NavigationAssumption, NavType, TypeOK, Known, Screen, NoScreen
<1>2. /\ mounted' = mounted + 1 /\ mounted + 1 \in Screen
      /\ top' = mounted + 1 /\ below' = top
      /\ top # mounted + 1 /\ below # mounted + 1
      /\ Known'
  BY <1>1 DEF Replace, Screen, NoScreen, Known
<1>3. /\ kind' \in [Screen -> {"HomeScreen", "QuizScreen"}]
      /\ kind'[mounted + 1] = k
      /\ \A s \in Screen : s # mounted + 1 => kind'[s] = kind[s]
  BY <1>2, Zenon DEF NavType, TypeOK, Replace
<1>4. subscribed' \in SUBSET {handleBackButton(s) : s \in Screen}
  BY <1>2, Zenon DEF NavType, TypeOK, Replace, Subscribe, Unsubscribe
<1> QED
  BY <1>2, <1>3, <1>4, Zenon

LEMMA NavTypeStep == NavType /\ [Next]_vars => NavType'
<1> SUFFICES ASSUME NavType, [Next]_vars PROVE NavType'
  BY Zenon
<1> USE NavigationAssumption DEF NavigationAssumption
<1>1. /\ presses \in [Screen -> 0 .. MaxPresses]
      /\ owed \in [Screen -> 0 .. MaxPresses]
      /\ MaxPresses \in Nat
      /\ \A s \in Screen : owed[s] <= presses[s]
  BY Zenon DEF NavType, TypeOK, OwedWasPressed
<1>2. ASSUME NEW s \in Screen, Pressed(s)
      PROVE  /\ presses' \in [Screen -> 0 .. MaxPresses]
             /\ presses'[s] = presses[s] + 1
             /\ \A t \in Screen : t # s => presses'[t] = presses[t]
  BY <1>1, <1>2 DEF Pressed
<1>3. ASSUME NEW k \in {"HomeScreen", "QuizScreen"}, Replace(k),
             presses' \in [Screen -> 0 .. MaxPresses],
             owed' \in [Screen -> 0 .. MaxPresses]
      PROVE  TypeOK' /\ Known'
  <2>1. top \in Screen \cup {NoScreen}
    BY Zenon DEF NavType, TypeOK
  <2> QED
    BY <1>3, <2>1, ReplaceFacts, Zenon DEF TypeOK
<1>4. ASSUME NEW s \in Screen, Login(s) PROVE NavType'
  <2>1. OwedWasPressed'
    BY <1>1, <1>2, <1>4 DEF Login, OwedWasPressed
  <2> QED
    BY <1>1, <1>2, <1>3, <1>4, <2>1, Zenon DEF Login, NavType
<1>5. ASSUME NEW s \in Screen, Submit(s) PROVE NavType'
  <2>1. /\ presses' \in [Screen -> 0 .. MaxPresses]
        /\ presses'[s] = presses[s] + 1
        /\ \A t \in Screen : t # s => presses'[t] = presses[t]
        /\ presses[s] < MaxPresses
    BY <1>2, <1>5, Zenon DEF Submit, Pressed
  <2>2. owed' \in [Screen -> 0 .. MaxPresses] /\ OwedWasPressed'
    BY <1>1, <1>5, <2>1 DEF Submit, OwedWasPressed
  <2> QED
    BY <1>5, <2>1, <2>2, Zenon DEF Submit, NavType, TypeOK, Known
<1>6. ASSUME NEW s \in Screen, WriteSettles(s) PROVE NavType'
  <2>1. owed' \in [Screen -> 0 .. MaxPresses] /\ OwedWasPressed'
    BY <1>1, <1>6 DEF WriteSettles, OwedWasPressed
  <2> QED
    BY <1>1, <1>3, <1>6, <2>1, Zenon DEF WriteSettles, NavType
<1>7. CASE TransitionEnd
  BY <1>7 DEF TransitionEnd, NavType, TypeOK, Known, OwedWasPressed,
              Unsubscribe, Screen, NoScreen
<1>8. CASE BackExits
  <2>1. owed' \in [Screen -> 0 .. MaxPresses] /\ OwedWasPressed'
    BY <1>1, <1>8 DEF BackExits, OwedWasPressed
  <2>2. Known'
    BY <1>8 DEF BackExits, NavType, TypeOK, Known, Screen, NoScreen
  <2> QED
    BY <1>8, <2>1, <2>2, Zenon DEF BackExits, NavType, TypeOK
<1>9. CASE Launch
  BY <1>9 DEF Launch, NavType, TypeOK, Known, OwedWasPressed, Screen, NoScreen
<1>10. CASE UNCHANGED vars
  BY <1>10, Zenon DEF vars, NavType, TypeOK, Known, OwedWasPressed
<1> QED
  BY <1>4, <1>5, <1>6, <1>7, <1>8, <1>9, <1>10, Zenon DEF Next

-----------------------------------------------------------------------------
(* The back button outside of a quiz. *)

LEMMA BackWorksStep ==
    NavType /\ BackWorksOutsideQuiz /\ [Next]_vars => BackWorksOutsideQuiz'
<1> SUFFICES ASSUME NavType, BackWorksOutsideQuiz, [Next]_vars
             PROVE  BackWorksOutsideQuiz'
  BY Zenon
<1>1. ASSUME NEW k \in {"HomeScreen", "QuizScreen"}, Replace(k)
      PROVE  BackWorksOutsideQuiz'
  <2>1. CASE k = "QuizScreen"
    BY <1>1, <2>1, ReplaceFacts, Zenon DEF BackWorksOutsideQuiz, OnDisplay
  <2>2. CASE k = "HomeScreen"
    <3> SUFFICES ASSUME subscribed' # {} PROVE BackWorksOutsideQuiz'
      BY Zenon DEF BackWorksOutsideQuiz
    <3>1. subscribed' = Unsubscribe(subscribed, below)
      BY <1>1, <2>2, Zenon DEF Replace, Subscribe
    <3>2. subscribed # {} /\ ~(below \in Screen /\ kind[below] = "QuizScreen")
      BY <3>1, Zenon DEF Unsubscribe, NavType, TypeOK, handleBackButton
    <3>3. top \in Screen /\ kind[top] = "QuizScreen"
      BY <3>2, Zenon DEF BackWorksOutsideQuiz, OnDisplay
    <3> QED
      BY <1>1, <3>3, ReplaceFacts, Zenon DEF BackWorksOutsideQuiz, OnDisplay
  <2> QED
    BY <2>1, <2>2, Zenon
<1>2. ASSUME NEW s \in Screen, Login(s) \/ WriteSettles(s)
      PROVE  BackWorksOutsideQuiz'
  BY <1>1, <1>2, Zenon DEF Login, WriteSettles
<1>3. CASE UNCHANGED <<kind, top, below, subscribed>>
  BY <1>3, Zenon DEF BackWorksOutsideQuiz, OnDisplay
<1>4. ASSUME NEW s \in Screen, Submit(s) PROVE BackWorksOutsideQuiz'
  BY <1>3, <1>4, Zenon DEF Submit
<1>5. CASE TransitionEnd
  <2> SUFFICES ASSUME subscribed' # {} PROVE BackWorksOutsideQuiz'
    BY Zenon DEF BackWorksOutsideQuiz
  <2>1. subscribed # {} /\ ~(below \in Screen /\ kind[below] = "QuizScreen")
    BY <1>5, Zenon DEF TransitionEnd, Unsubscribe, NavType, TypeOK, handleBackButton
  <2>2. top \in Screen /\ kind[top] = "QuizScreen"
    BY <2>1, Zenon DEF BackWorksOutsideQuiz, OnDisplay
  <2> QED
    BY <1>5, <2>2, Zenon DEF TransitionEnd, BackWorksOutsideQuiz, OnDisplay
<1>6. CASE BackExits
  BY <1>6, Zenon DEF BackExits, BackWorksOutsideQuiz
<1>7. CASE Launch
  <2>1. subscribed = {}
    BY <1>7 DEF Launch, NavType, Known, BackWorksOutsideQuiz, OnDisplay,
                Screen, NoScreen
  <2> QED
    BY <1>7, <2>1, Zenon DEF Launch, BackWorksOutsideQuiz
<1>8. CASE UNCHANGED vars
  BY <1>3, <1>8, Zenon DEF vars
<1> QED
  BY <1>2, <1>4, <1>5, <1>6, <1>7, <1>8, Zenon DEF Next

\* However often Login and submit are pressed, in whatever order screens are
\* mounted, animated away and dropped, the back button is never left disabled
\* when no quiz is on display.
THEOREM BackWorksCorrect == Spec => []BackWorksOutsideQuiz
<1>1. Init => BackWorksOutsideQuiz
  BY Zenon DEF Init, BackWorksOutsideQuiz
<1> QED
  BY <1>1, NavTypeInit, NavTypeStep, BackWorksStep, PTL DEF Spec

-----------------------------------------------------------------------------
(* Buttons that are pressed once. *)

\* Everything that goes wrong with the back button and with quizzes that are
\* taken away goes wrong through a second press on one screen.  With one press,
\* the screen below has had its press, so only the screen on top can navigate,
\* and home screens and quiz screens alternate.
OnePress ==
    /\ \A s \in Screen : s > mounted => presses[s] = 0
    /\ below # NoScreen => presses[below] = 1 /\ kind[below] # kind[top]
    /\ \A s \in Screen : owed[s] > 0 => s = top /\ kind[s] = "QuizScreen"
    /\ BackDisabledDuringQuiz
    /\ QuizIsCompleted

\* Presses are only ever counted up.
LEMMA SinglePressBefore ==
    ASSUME NavType, [Next]_vars, SinglePress'
    PROVE  SinglePress
<1>1. presses \in [Screen -> Nat] /\ \A s \in Screen : presses'[s] <= 1
  BY NavigationAssumption DEF NavigationAssumption, NavType, TypeOK, SinglePress
<1>2. ASSUME NEW s \in Screen, Pressed(s) PROVE SinglePress
  BY <1>1, <1>2 DEF Pressed, SinglePress
<1>3. ASSUME UNCHANGED presses PROVE SinglePress
  BY <1>1, <1>3, Zenon DEF SinglePress
<1> QED
  BY <1>2, <1>3, Zenon DEF Next, vars, Login, Submit, WriteSettles, TransitionEnd, BackExits,
                    Launch

LEMMA OnePressStep ==
    NavType /\ (SinglePress => OnePress) /\ [Next]_vars => (SinglePress => OnePress)'
<1> SUFFICES ASSUME NavType, SinglePress => OnePress, [Next]_vars, SinglePress'
             PROVE  OnePress'
  BY Zenon
<1>0. SinglePress /\ OnePress /\ \A s \in Screen : presses'[s] <= 1
  BY SinglePressBefore, Zenon DEF SinglePress
<1> HIDE DEF SinglePress
<1>1. /\ presses \in [Screen -> 0 .. 1]
      /\ owed \in [Screen -> 0 .. 1]
      /\ kind \in [Screen -> {"HomeScreen", "QuizScreen"}]
      /\ top \in Screen \cup {NoScreen} /\ below \in Screen \cup {NoScreen}
      /\ top <= mounted /\ below <= mounted
      /\ mounted \in 1 .. MaxScreens /\ MaxScreens \in Nat
      /\ \A s \in Screen : owed[s] <= presses[s]
  <2>1. \A s \in Screen : presses[s] <= 1
    BY <1>0, Zenon DEF SinglePress
  <2>2. /\ presses \in [Screen -> 0 .. MaxPresses]
        /\ owed \in [Screen -> 0 .. MaxPresses]
        /\ \A s \in Screen : owed[s] <= presses[s]
        /\ MaxPresses \in Nat
    BY NavigationAssumption, Zenon DEF NavigationAssumption, NavType, TypeOK, OwedWasPressed
  <2>3. presses \in [Screen -> 0 .. 1] /\ owed \in [Screen -> 0 .. 1]
    BY <2>1, <2>2
  <2> QED
    BY <2>2, <2>3, NavigationAssumption, Zenon
       DEF NavigationAssumption, NavType, TypeOK, Known, Screen
<1>2. ASSUME NEW s \in Screen, OnDisplay(s), presses[s] = 0
      PROVE  s = top
  BY <1>0, <1>2 DEF OnePress, OnDisplay, Screen, NoScreen
\* A replace by the screen on top, which has had its press.
<1>3. ASSUME NEW k \in {"HomeScreen", "QuizScreen"}, Replace(k),
             top \in Screen, kind[top] # k, presses'[top] = 1,
             \A s \in Screen : s # top => presses'[s] = presses[s],
             \A s \in Screen : owed'[s] = 0
      PROVE  OnePress'
  <2>1. /\ mounted' = mounted + 1 /\ mounted + 1 \in Screen
        /\ top' = mounted + 1 /\ below' = top
        /\ top # mounted + 1
        /\ kind'[mounted + 1] = k
        /\ \A s \in Screen : s # mounted + 1 => kind'[s] = kind[s]
    BY <1>3, ReplaceFacts, Zenon
  <2>2. \A s \in Screen : s > mounted' => presses'[s] = 0
    BY <1>0, <1>1, <1>3, <2>1 DEF OnePress, Screen
  <2>3. presses'[below'] = 1 /\ kind'[below'] # kind'[top']
    BY <1>3, <2>1, Zenon
  <2>4. BackDisabledDuringQuiz'
    <3> SUFFICES ASSUME k = "QuizScreen" PROVE subscribed' # {}
      BY <2>1, Zenon DEF BackDisabledDuringQuiz
    <3> QED
      BY <1>3, Zenon DEF Replace, Subscribe
  <2>5. QuizIsCompleted'
    <3> SUFFICES ASSUME NEW s \in 1 .. mounted + 1, kind'[s] = "QuizScreen",
                        s # mounted + 1
                 PROVE  presses'[s] > 0
      BY <2>1, Zenon DEF QuizIsCompleted
    <3>1. s \in 1 .. mounted /\ s \in Screen /\ kind[s] = "QuizScreen"
      BY <1>1, <2>1 DEF Screen
    <3>2. CASE s = top
      BY <1>3, <3>2
    <3>3. CASE s # top
      BY <1>0, <1>3, <3>1, <3>3, Zenon DEF OnePress, QuizIsCompleted
    <3> QED
      BY <3>2, <3>3, Zenon
  <2> QED
    BY <1>0, <1>3, <2>2, <2>3, <2>4, <2>5 DEF OnePress
<1>4. ASSUME NEW s \in Screen, Login(s) PROVE OnePress'
  <2>1. /\ OnDisplay(s) /\ presses[s] = 0 /\ presses'[s] = 1
        /\ \A t \in Screen : t # s => presses'[t] = presses[t]
    BY <1>0, <1>1, <1>4 DEF Login, Pressed
  <2>2. s = top
    BY <1>2, <2>1, Zenon
  <2>3. \A t \in Screen : owed'[t] = 0
    BY <1>0, <1>1, <1>4, <2>2 DEF Login, OnePress
  <2> QED
    BY <1>3, <1>4, <2>1, <2>2, <2>3, Zenon DEF Login
<1>5. ASSUME NEW s \in Screen, Submit(s) PROVE OnePress'
  <2>1. /\ OnDisplay(s) /\ presses[s] = 0 /\ presses'[s] = 1
        /\ \A t \in Screen : t # s => presses'[t] = presses[t]
        /\ \A t \in Screen : t # s => owed'[t] = owed[t]
        /\ kind[s] = "QuizScreen"
        /\ UNCHANGED <<kind, top, below, mounted, subscribed>>
    BY <1>0, <1>1, <1>5 DEF Submit, Pressed
  <2>2. s = top
    BY <1>2, <2>1, Zenon
  <2>3. \A t \in Screen : t > mounted => presses'[t] = 0
    BY <1>0, <1>1, <2>1, <2>2 DEF OnePress, Screen
  <2>4. below # NoScreen => presses'[below] = 1
    BY <1>0, <1>1, <2>1, Zenon DEF OnePress
  <2>5. QuizIsCompleted'
    <3> SUFFICES ASSUME NEW t \in 1 .. mounted, kind[t] = "QuizScreen", t # top
                 PROVE  presses'[t] > 0
      BY <2>1, Zenon DEF QuizIsCompleted
    <3> QED
      BY <1>0, <1>1, <2>1, <2>2 DEF OnePress, QuizIsCompleted, Screen
  <2> QED
    BY <1>0, <2>1, <2>2, <2>3, <2>4, <2>5, Zenon DEF OnePress, BackDisabledDuringQuiz
<1>6. ASSUME NEW s \in Screen, WriteSettles(s) PROVE OnePress'
  <2>1. s = top /\ kind[s] = "QuizScreen" /\ owed[s] = 1 /\ presses[s] = 1
    BY <1>0, <1>1, <1>6 DEF WriteSettles, OnePress
  <2>2. \A t \in Screen : owed'[t] = 0
    BY <1>0, <1>1, <1>6, <2>1 DEF WriteSettles, OnePress
  <2> QED
    BY <1>3, <1>6, <2>1, <2>2, Zenon DEF WriteSettles
<1>7. CASE TransitionEnd
  <2>1. BackDisabledDuringQuiz'
    BY <1>0, <1>1, <1>7, Zenon
       DEF TransitionEnd, OnePress, BackDisabledDuringQuiz, Unsubscribe
  <2> QED
    BY <1>0, <1>7, <2>1, Zenon DEF TransitionEnd, OnePress, QuizIsCompleted
<1>8. CASE BackExits
  <2>1. top # NoScreen => kind[top] # "QuizScreen"
    BY <1>0, <1>8, Zenon DEF BackExits, OnePress, BackDisabledDuringQuiz
  <2>2. QuizIsCompleted'
    BY <1>0, <1>8, <2>1, Zenon DEF BackExits, OnePress, QuizIsCompleted
  <2> QED
    BY <1>0, <1>1, <1>8, <2>2 DEF BackExits, OnePress, BackDisabledDuringQuiz
<1>9. CASE Launch
  <2>1. /\ mounted' = mounted + 1 /\ mounted + 1 \in Screen
        /\ top' = mounted + 1 /\ below' = below /\ below = NoScreen
        /\ UNCHANGED <<subscribed, presses, owed>>
        /\ kind'[mounted + 1] = "HomeScreen"
        /\ \A s \in Screen : s # mounted + 1 => kind'[s] = kind[s]
    BY <1>1, <1>9 DEF Launch, NavType, Known, Screen
  <2>2. \A s \in Screen : owed[s] = 0
    BY <1>0, <1>1, <1>9 DEF Launch, OnePress, Screen, NoScreen
  <2>3. BackDisabledDuringQuiz'
    BY <2>1, Zenon DEF BackDisabledDuringQuiz
  <2>4. QuizIsCompleted'
    <3> SUFFICES ASSUME NEW s \in 1 .. mounted + 1, kind'[s] = "QuizScreen",
                        s # mounted + 1
                 PROVE  presses[s] > 0
      BY <2>1, Zenon DEF QuizIsCompleted
    <3>1. s \in 1 .. mounted /\ kind[s] = "QuizScreen" /\ s # top
      BY <1>1, <1>9, <2>1 DEF Launch, Screen, NoScreen
    <3> QED
      BY <1>0, <3>1, Zenon DEF OnePress, QuizIsCompleted
  <2>5. \A s \in Screen : s > mounted' => presses'[s] = 0
    BY <1>0, <1>1, <2>1 DEF OnePress, Screen
  <2> QED
    BY <1>0, <2>1, <2>2, <2>3, <2>4, <2>5 DEF OnePress
<1>10. CASE UNCHANGED vars
  BY <1>0, <1>10, Zenon DEF vars, OnePress, BackDisabledDuringQuiz, QuizIsCompleted
<1> QED
  BY <1>4, <1>5, <1>6, <1>7, <1>8, <1>9, <1>10, Zenon DEF Next

LEMMA OnePressInit == Init => OnePress
BY NavigationAssumption
   DEF NavigationAssumption, Init, OnePress, BackDisabledDuringQuiz,
       QuizIsCompleted, Screen, NoScreen

\* As long as no button is pressed twice on one screen, the back button is disabled
\* whenever a quiz is on top.
THEOREM BackDisabledCorrect == Spec => []SinglePressDisablesBack
<1>1. Init => (SinglePress => OnePress)
  BY OnePressInit, Zenon
<1>2. (SinglePress => OnePress) => SinglePressDisablesBack
  BY Zenon DEF OnePress, SinglePressDisablesBack
<1> QED
  BY <1>1, <1>2, NavTypeInit, NavTypeStep, OnePressStep, PTL DEF Spec

\* As long as no button is pressed twice on one screen, a quiz is only ever left after
\* it was submitted.
THEOREM CompletedCorrect == Spec => []SinglePressCompletesQuiz
<1>1. Init => (SinglePress => OnePress)
  BY OnePressInit, Zenon
<1>2. (SinglePress => OnePress) => SinglePressCompletesQuiz
  BY Zenon DEF OnePress, SinglePressCompletesQuiz
<1> QED
  BY <1>1, <1>2, NavTypeInit, NavTypeStep, OnePressStep, PTL DEF Spec

\* Every variable of the navigator keeps its type; in particular a quiz screen never
\* navigates more often than it was submitted.
THEOREM NavTypeCorrect == Spec => []TypeOK
<1>1. NavType => TypeOK
  BY Zenon DEF NavType
<1> QED
  BY <1>1, NavTypeInit, NavTypeStep, PTL DEF Spec
=============================================================================
