----------------------------- MODULE Navigation -----------------------------
(***************************************************************************)
(* The stack navigator, the screens it mounts and the hardware back        *)
(* button.                                                                 *)
(*                                                                         *)
(* Both screens navigate with navigation.replace, so the stack never holds *)
(* more than one route.  replace acts on the route that is on top when it  *)
(* is called, which need not be the screen that calls it: the home screen  *)
(* calls it in the handler of Login, the quiz screen when the write of its *)
(* score has settled.  The screen that was on top stays mounted below the  *)
(* new one, and can be touched, until the animation ends or another        *)
(* replace interrupts it.                                                  *)
(*                                                                         *)
(* The quiz screen registers handleBackButton when it is mounted and       *)
(* removes it when it is unmounted.  handleBackButton is a method of the   *)
(* class and is never bound, so all quiz screens share one function, and   *)
(* BackHandler keeps a function at most once.                              *)
(***************************************************************************)
EXTENDS Integers

CONSTANTS
    MaxScreens,      \* bound: screens mounted
    MaxPresses       \* bound: presses of Login or submit on one screen

ASSUME NavigationAssumption ==
    /\ MaxScreens \in Nat \ {0}
    /\ MaxPresses \in Nat

VARIABLES
    kind,            \* kind[s]: the component screen s is an instance of
    top,             \* the screen on top of the stack, NoScreen after an exit
    below,           \* the screen being animated away, or NoScreen
    mounted,         \* screens mounted so far; the last one is the newest
    subscribed,      \* the functions BackHandler calls
    presses,         \* presses of the button of each screen that navigates
    owed             \* replaces each quiz screen will call when writes settle

vars == <<kind, top, below, mounted, subscribed, presses, owed>>

Screen == 1 .. MaxScreens
NoScreen == 0

\* The function screen s registers: the same one for every quiz screen.
handleBackButton(s) == "QuizScreen.prototype.handleBackButton"

OnDisplay(s) == s \in Screen /\ s \in {top, below}

\* componentDidMount and componentWillUnmount of screen s, a component k.
Subscribe(functions, s, k) ==
    IF k = "QuizScreen" THEN functions \cup {handleBackButton(s)} ELSE functions

\* Mutant: componentWillUnmount is missing.
KeepSubscribed(functions, s) == functions

Unsubscribe(functions, s) ==
    IF s \in Screen /\ kind[s] = "QuizScreen"
    THEN functions \ {handleBackButton(s)}
    ELSE functions

-----------------------------------------------------------------------------
Init ==
    /\ kind = [s \in Screen |-> "HomeScreen"]
    /\ top = 1
    /\ below = NoScreen
    /\ mounted = 1
    /\ subscribed = {}
    /\ presses = [s \in Screen |-> 0]
    /\ owed = [s \in Screen |-> 0]

\* Mutant: the new screen subscribes before the old one unsubscribes.
ReplaceMountingFirst(k) ==
    /\ mounted < MaxScreens
    /\ mounted' = mounted + 1
    /\ kind' = [kind EXCEPT ![mounted + 1] = k]
    /\ top' = mounted + 1
    /\ below' = top
    /\ subscribed' = Unsubscribe(Subscribe(subscribed, mounted + 1, k), below)

\* navigation.replace(k).  React runs componentWillUnmount of the screens that
\* leave the tree before componentDidMount of the one that enters it.
Replace(k) ==
    /\ mounted < MaxScreens
    /\ mounted' = mounted + 1
    /\ kind' = [kind EXCEPT ![mounted + 1] = k]
    /\ top' = mounted + 1
    /\ below' = top
    /\ subscribed' = Subscribe(Unsubscribe(subscribed, below), mounted + 1, k)

Pressed(s) ==
    /\ OnDisplay(s)
    /\ presses[s] < MaxPresses
    /\ presses' = [presses EXCEPT ![s] = @ + 1]

\* openQuizScreen on a form that validates.
Login(s) ==
    /\ Pressed(s)
    /\ kind[s] = "HomeScreen"
    /\ Replace("QuizScreen")
    /\ UNCHANGED owed

\* nextQuestion on the last question.
Submit(s) ==
    /\ Pressed(s)
    /\ kind[s] = "QuizScreen"
    /\ owed' = [owed EXCEPT ![s] = @ + 1]
    /\ UNCHANGED <<kind, top, below, mounted, subscribed>>

\* writeFile().then(...) of a quiz screen, which may be long unmounted.
WriteSettles(s) ==
    /\ owed[s] > 0
    /\ top # NoScreen
    /\ owed' = [owed EXCEPT ![s] = @ - 1]
    /\ Replace("HomeScreen")
    /\ UNCHANGED presses

\* The animation ends and the screen below is unmounted.
TransitionEnd ==
    /\ below # NoScreen
    /\ below' = NoScreen
    /\ subscribed' = Unsubscribe(subscribed, below)
    /\ UNCHANGED <<kind, top, mounted, presses, owed>>

\* Mutant: handleBackButton does not return true, so the default follows.
BackExitsAnyway ==
    /\ top # NoScreen
    /\ top' = NoScreen
    /\ below' = NoScreen
    /\ subscribed' = {}
    /\ owed' = [s \in Screen |-> 0]
    /\ UNCHANGED <<kind, mounted, presses>>

\* The hardware back button with no function registered: BackHandler.exitApp.
\* The screens are unmounted with the navigator, and a write that settles
\* later finds no navigator to act on.
BackExits ==
    /\ top # NoScreen
    /\ subscribed = {}
    /\ top' = NoScreen
    /\ below' = NoScreen
    /\ owed' = [s \in Screen |-> 0]
    /\ UNCHANGED <<kind, mounted, subscribed, presses>>

\* The app is opened again.
Launch ==
    /\ top = NoScreen
    /\ mounted < MaxScreens
    /\ mounted' = mounted + 1
    /\ kind' = [kind EXCEPT ![mounted + 1] = "HomeScreen"]
    /\ top' = mounted + 1
    /\ UNCHANGED <<below, subscribed, presses, owed>>

Next ==
    \/ \E s \in Screen : Login(s) \/ Submit(s) \/ WriteSettles(s)
    \/ TransitionEnd
    \/ BackExits
    \/ Launch

Spec == Init /\ [][Next]_vars

-----------------------------------------------------------------------------
(* Properties. *)

\* Every variable keeps its type.
TypeOK ==
    /\ kind \in [Screen -> {"HomeScreen", "QuizScreen"}]
    /\ top \in Screen \cup {NoScreen}
    /\ below \in Screen \cup {NoScreen}
    /\ mounted \in Screen
    /\ subscribed \in SUBSET {handleBackButton(s) : s \in Screen}
    /\ presses \in [Screen -> 0 .. MaxPresses]
    /\ owed \in [Screen -> 0 .. MaxPresses]

\* The back button is never disabled without a quiz on display: every
\* subscription is given back, on every path off the quiz screen.
BackWorksOutsideQuiz ==
    subscribed # {} =>
        \E s \in Screen : OnDisplay(s) /\ kind[s] = "QuizScreen"

\* QuizScreen.js:40 "disables back button": it is disabled for as long as a
\* quiz is on top.
BackDisabledDuringQuiz ==
    top # NoScreen /\ kind[top] = "QuizScreen" => subscribed # {}

\* A quiz that is no longer on top was submitted.
QuizIsCompleted ==
    \A s \in 1 .. mounted :
        kind[s] = "QuizScreen" /\ s # top => presses[s] > 0

\* No button that navigates was pressed twice on one screen.
SinglePress == \A s \in Screen : presses[s] <= 1

\* As long as nobody presses Login or submit twice on one screen, the back button
\* is disabled during every quiz, although the screens share one handler that
\* each of them removes.
SinglePressDisablesBack == SinglePress => BackDisabledDuringQuiz

\* QuizScreen.js:50 "Please Complete Quiz": as long as nobody presses Login or
\* submit twice on one screen, no replace of a late write or of a screen that is
\* being animated away takes a quiz off the screen that was not submitted.
SinglePressCompletesQuiz == SinglePress => QuizIsCompleted
=============================================================================
