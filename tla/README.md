# A TLA+ verification of Quiz-App

Quiz-App is a React Native app with two screens. The home screen is a login
form with a profile kept in AsyncStorage and the score of the last quiz. The
quiz screen asks the questions of `assests/data.json` and stores the score in a
file. What is hard about it is not the quiz but what happens around it: every
read and write is asynchronous, a screen that has been replaced is still alive
and can still be touched, the async functions of a screen go on after it is
gone, and the process can die between any two of their steps.

Debug builds also run the client of the Flipper debugger, which is vendored as
C++ source under `ios/Pods/Flipper`. It keeps a connection to a desktop
application alive from three threads that share their members without a lock,
and exchanges certificates through files. It is modelled too.

## Parts of the system

| Part | State | Operations | Interacts with |
|---|---|---|---|
| Question bank (`assests/data.json`) | none | lookup of options and answers | quiz screen |
| Quiz screen (`QuizScreen.js`) | `this.state`, the score file | `Click`, `nextQuestion`, `writeFile`, `handleBackButton` | RNFS, navigator, BackHandler |
| Home screen, form and profile (`HomeScreen.js`) | four fields and their error flags, AsyncStorage | four input handlers, `validate`, `openQuizScreen`, `setData`, `getData` | AsyncStorage, navigator |
| Home screen, score (`HomeScreen.js`) | `score`, `scoreExists` | `checkFile`, `readFile` | RNFS |
| Navigation (`Navigation.js`) and the back button | the route on top, the screen being animated away, the functions BackHandler calls | `navigation.replace`, mount, unmount, back button | both screens |
| Connection manager of Flipper (`FlipperConnectionManagerImpl.cpp`) | flags, `client_`, the queues of its thread, delayed retries | `start`, `stop`, `startSync`, `reconnect`, `sendMessage`, the signing request, connection events | RSocket, the desktop, the certificate store |
| Certificate store of Flipper (`ConnectionContextStore.cpp`) | key, signing request, certificate | `getCertificateSigningRequest`, `resetState`, `getSSLContext` | the disk, the desktop |
| Client of Flipper (`FlipperClient.cpp`) | `plugins_`, `connections_`, `connected_` | `addPlugin`, `removePlugin`, `onConnected`, `onDisconnected`, `onMessageReceived` | connection manager, plugins |
| Hosts (`MainApplication.java`, `ReactNativeFlipper.java`, `AppDelegate.m`) | none of the app's own | start-up | React Native |

The rest of the repository is other vendored libraries (`ios/Pods`) or generated
(`android/app/build`). Paths of Flipper below are relative to
`ios/Pods/Flipper/xplat/Flipper`.

## Modules

| Module | Models |
|---|---|
| `QuizBank` | the bank, as constants: `OptionText` is `customData[1]`, `AnswerText` is `customData[2]` |
| `QuizState` | `this.state` of a quiz screen and what each handler does to it, as operators on one state |
| `QuizScreen` | one quiz screen from mount to rest: answering, submitting, the write of the score, the way home |
| `QuizContract` | what a quiz promises, with no screen, queue or animation |
| `HomeScreen` | the login form and the stored profile over several visits |
| `Navigation` | the stack, the screens on display and the back-button subscription |
| `QuizApp` | `Navigation` with the score file, the queue of RNFS and what every home screen shows |
| `ScoreFile` | what the app promises of the score file, with no screen, queue or answer |
| `ConnectionContextStore` | the files of a Flipper connection, as operators on one store |
| `FlipperConnection` | the connection manager on its three threads |
| `FlipperClient` | the plugins and which of them are connected |
| `FlipperApp` | the client and the connection manager together |
| `FlipperSession` | what the plugins are promised, with no sockets, certificates, threads or retries |
| `QuizScreen_proofs`, `HomeQueue_proofs`, `HomeOrder_proofs`, `HomeScreen_proofs`, `Navigation_proofs`, `QuizApp_proofs`, `FlipperConnection_proofs`, `FlipperApp_proofs` | theorems |
| `MCQuizScreen`, `MCHomeScreen`, `MCFlipper`, `MCFlipperApp` | instances for TLC: the real bank, small sets of texts, connections, keys and plugins |

Definitions named in a comment "Mutant: ..." are plausible bugs of the
definition that follows them. They are in no specification; replacing the
definition by its mutant must break a property.

### How steps correspond to code

JavaScript runs one event handler or promise callback at a time, so each is one
action, up to its next `await`. A `setState` in it is applied by the end of the
action; a `setState` on an unmounted component does nothing.

* **QuizScreen.** `Click(key)` is `Click`. `NextQuestion` and `Submit` are the
  two branches of `nextQuestion`; both grade first, by direct assignment to
  `this.state`. `Submit` runs into `writeFile` up to its `await`.
  `WriteFileSettles` is the rest of `writeFile`, through the catch block if the
  write failed, and the `then` callback. `render()` assigns `lastQuestion`; it
  is part of every action that ends in a `setState` (`Rendered`).
* **HomeScreen.** A visit is one component. `Construct` is the constructor,
  which starts `getData`. `Input` stands for the four input handlers, which are
  the same up to the field. `openQuizScreen` is three actions, for the three
  outcomes of `validate()`: true, false, and an exception. The requests carry
  the local variables of the async function that made them; `GetDataResumes`
  and `SetDataResumes` continue it. `StorageRejects` is the catch block of
  either: it calls `Alert`, which the file does not import, so it throws.
* **Navigation.** `Replace(k)` is `navigation.replace`. `Login` and `WriteSettles`
  are the two places that call it. `Subscribe` and `Unsubscribe` are
  `componentDidMount` and `componentWillUnmount`. Whether the form validates and
  which question a quiz is on is left out: any screen may log in or submit.
  A back press while a function is registered only shows an alert, so it is a
  stuttering step here and the action `HandleBackButton` in `QuizScreen`.

* **QuizApp.** Every action of `Navigation` with what it does to the file:
  `AppSubmit` calls `RNFS.writeFile`, `WriteAnswered` is the `then` callback,
  whose `replace` constructs a home screen that calls `checkFile`.
  `ExistsAnswered` and `ReadAnswered` continue the constructor and `readFile`. A
  score is named by the submission it belongs to, so that old and new can be told
  apart; what the score is, is the business of `QuizScreen`.
* **FlipperConnection.** The application thread calls `Start`, `Stop` and
  `StopEnds` (the assignment at the end of `stop`). The flipper thread runs its
  closures one at a time; `startSync` is cut where it waits for a connection, and
  where another thread can act between two of its assignments. `thread` says where
  it is. The events of a connection and the answers run on the connection thread.
  An event is cut where it calls back, for the client may have to wait for its
  lock: `OnConnected` and `OnClosed` change the flags, `ConnectedReturns` and
  `DisconnectedReturns` are what follows the callback, and `event` says which is
  under way. The future `startSync` waits for is fulfilled when `onConnected` has
  returned.
  The flipper thread is a Folly event base, which has two queues
  (`EventBase.cpp:623`): closures of other threads wait in one (`inbox`), those it
  adds itself in the other (`tasks`), and a turn of its loop takes from the first
  and then from the second. Each is in order, the two together are not. A message
  comes from another thread. A delayed `startSync` is a timer, then a closure of the
  timer's thread (`DelayOver`), then one of the event base's own (`SyncArrives`).
  `SendMessage` notes the connection that is open when the message is handed over;
  `MessageTask` sends it on what `client_` is then.
  `Requested` and `Generations` are what `getCertificateSigningRequest` can return:
  also an empty request, when the key file or the request file cannot be opened, for
  the result -1 is converted to `true`. `Stop` leaves the store alone: only a
  certificate provider can ask for a reset, and nothing in the repository sets one.
* **FlipperClient.** An operation changes the client while it holds `mutex_` and is
  one action. What it throws is reported when `mutex_` is released: `Catch` is the
  handler of `performAndReportError`, `HandleError` the look at `connected_` without
  the lock, `ReportSent` the message that follows. `onMessageReceived` has handlers
  of its own (`MessageThrows`). `RemovePluginFails` and the second half of
  `ClientOnDisconnected` are operations in which a plugin throws.
* **FlipperApp.** `Connected` and `Disconnected` are the callbacks of the events once
  the client has got `mutex_`, `PluginCall` an operation with the message it sends
  when `connected_`, and `DesktopCalls` a message of the desktop, which only secure
  connections have a responder for, with its answer. `PluginSends` has no guard but
  that some plugin was connected once: `FlipperConnectionImpl` checks nothing, a
  plugin may keep it, or a responder, and use it whenever it likes.
  `BecomeSteady` is left out; it takes steps away and adds none.

### External parts

React Native and its libraries, RSocket and the desktop are not in the repository.
They are modelled from how the code uses them, with these assumptions. Folly is
vendored, and its event base is modelled from its source (above).

* AsyncStorage and RNFS perform requests one at a time in request order and
  answer in that order. A request may fail. A failed file write may have
  truncated the file. `setItem` of `null` fails.
* `navigation.replace` of the stack navigator acts on the route on top when it
  is called, whichever screen calls it. The replaced screen stays mounted and
  touchable until the animation ends; another replace drops it at once.
  Components that leave run `componentWillUnmount` before the one that enters
  runs `componentDidMount`.
* BackHandler keeps a function at most once, compares functions by identity and
  exits the app when none is registered. `handleBackButton` is a class method
  that is never bound, so all quiz screens register the same function.
* A delay may be over at any time; nothing is said of how long two seconds are.
* An RSocket connection that was established closes once, when it is lost,
  disconnected or its client destroyed. `onDisconnected` and `onClosed`, which
  follow each other, are one event. A pending request of a connection that
  is lost gets an error. When another thread disconnects or destroys a client,
  an answer may still arrive until the connection has closed. Only a client that is
  destroyed makes room for another element of `Conn`.
* Two threads that use the `unique_ptr` `client_` at once race. Each access is
  taken as atomic; what the race does beyond that is not modelled.
* The desktop receives a signing request, signs it or not, writes the two
  certificate files together and answers in any order with that.
* An exception in an event handler ends a release build. An unhandled promise
  rejection does not.

## Runs

| Run | Bounds | Shows |
|---|---|---|
| `quiz` | the real bank, two submissions, fairness | seven invariants of the quiz screen; it implements `QuizContract`; a submitted quiz goes home |
| `home` | two visits, two logins, one failure or kill | storage holds a prefix, no earlier login is written over a later one, reads never mix logins, only a torn profile makes `validate()` throw |
| `home_saved` | two visits, three logins, nothing fails, fairness | every accepted login is stored as a whole, and all of storage is of the last one when no `setData` is under way |
| `app` | five screens, two presses on each, one failure of RNFS, fairness | the back button works outside of a quiz; as long as no button was pressed twice on a screen it is disabled in a quiz and a quiz is left only when submitted; the home screen shows the score of the quiz that opened it or a later one, in the end what is in the file and, unless its write failed, the last score submitted; the app implements `ScoreFile`; the last score submitted is shown |
| `flipper` | three connections, two key pairs, one message, one stop, any number of deaths | the retries never break off; one connection at a time; `isOpen()` tells the truth; `client_` is not null where it is used, and a message finds the client it was meant for, until `stop` is called; request and key belong together |
| `flipper_recovers` | two connections, two key pairs, one message, any number of deaths, fairness | whatever failed before, the secure connection is made and kept once nothing fails |
| `flipper_app` | two connections, one key pair, one message, one report, three plugins with two identifiers, any number of deaths, no stop | plugins are told the truth; the client knows of the connection; no plugin stays connected without it; the two implement `FlipperSession` |

Two submissions are enough for a second press to be graded, written and
answered in every order with the first, and for a navigation after the screen
has gone. Two visits let a `getData` meet the `setData` of the visit before, and of
two of its logins, for Login can be pressed twice; three logins are three `setData`
calls in flight. One fault suffices to tear a profile. Five screens with two
presses reach a quiz on top of a quiz, a late navigation that hits a later quiz,
and a home screen that reads while a write of a quiz before it is under way.
Three connections are one that closes, one that is open and one that is being
opened, which is more than a manager that was not stopped has at once. Two key
pairs let the certificate of an old request meet a new key. A single stop is
enough to break `OneConnection` and `OpenIsSecure`, which is why they are stated
until the first one. One message meets every startSync, exchange and callback;
messages among themselves keep their order. Plugins `layout` and `layout2` share
an identifier.

Deadlock is not checked: the user may stop, and a bound that is reached stops
the rest.

### Disagreements with what the code says of itself

Each of these runs ends in a counterexample.

| Run | The code says | What happens |
|---|---|---|
| `quiz_file` | `QuizScreen.js:54` "stores score in a file" | submit stays enabled while the write is pending; a second press stores more points than there are questions |
| `home_throws` | `HomeScreen.js:109` "validates the form" | a torn profile puts `null` into the form and the next Login throws |
| `home_stores` | `HomeScreen.js:74` "stores data in async storage" | `setData` reads `this.state` after each `await`, so an edit after Login is stored unvalidated |
| `nav_back` | `QuizScreen.js:40` "disables back button" | Login pressed twice: the first quiz screen takes the handler of the second with it |
| `flipper_stop` | `FlipperConnectionManager.h:30` "Closes an open connection to the ws server." | a connection that opens while `stop` runs is assigned to `client_` afterwards and stays open |

`SinglePressDisablesBack` and `SinglePressCompletesQuiz` show that `nav_back`
needs a second press on one screen. With a second press a quiz can also be left
before it was submitted (`QuizScreen.js:50` says "Please Complete Quiz").

More is plain in the definitions and has no run of its own:

* `IsNaN` and `Invalid` accept an age of blanks (`HomeScreen.js:211` asks to
  "enter valid age"), because `isNaN` converts a blank text to 0.
* `StorageRejects` shows no alert (`HomeScreen.js:83` and `:104` call one),
  because `Alert` is not imported.
* `GetDataResumes` fills the form and leaves the error flags of a Login that was
  refused meanwhile (`HomeScreen.js:196` " field cannot be empty ").
* `GenerationThrows` and `ExchangeThrows`: `ConnectionContextStore.cpp:63` throws
  a pointer, which the handlers of `startSync` do not catch, so nothing
  reconnects (`stranded`). `NeverStuck` and `Recovers` leave this case out. A key or
  request file that cannot be opened is reported as -1, which is converted to `true`,
  and the request is then empty.
* `SendRequestCrashes` and `FallbackCrashes`: `client_` is used without a check.
  `NullNeedsStop` says that it takes a `stop` for it to be null there.
* A message that is handed over while nothing is open, say an answer a plugin gives
  late or the report of an exception after `onDisconnected`, is sent on whatever
  `client_` is by then, an insecure connection included. `sendMessage` looks at
  nothing but null, and `MessageStays` speaks only of messages handed over while
  `isOpen()`.
* `RemovePlugin` with another object of the same identifier, and a plugin that throws
  in `onDisconnected`, leave a plugin that is not told (`astray`). `ToldTheTruth`,
  `PluginsNeedConnection` and `ImplementsSession` leave these cases out.
* After a `stop` and a `start` during an exchange, `connectionIsTrusted_` and
  `isOpen_` may be about different connections.
* `startSync` calls `step->complete()` after `step->fail()` when no desktop is
  found (`FlipperConnectionManagerImpl.cpp:153`); steps are not modelled.

## Fairness

Only the parts that run by themselves are fair: the native queue
(`Native`), the JavaScript event loop (`WriteFileSettles`, `Resume`) and the
animation driver (`TransitionEnd`), each weakly. Nothing is assumed of the user,
who may stop anywhere, and a write may fail every time. In `QuizApp` the queue of
RNFS and the event loop are weakly fair in the same way.

In `FairSpec` of `FlipperConnection` the two event bases, the timers and the
rest of a `stop` that has begun are weakly fair, each queue of the flipper thread
by itself, for every turn of its loop takes from both. A callback gets `mutex_` in
the end, since every operation releases it. So are the desktop's signing
and answering, but it may refuse, forget and lose connections as often as it
likes until `BecomeSteady`, which need never happen. `Recovers` only speaks of
behaviours in which it does, the manager stays started and is not stopped.

## Proofs

TLAPS proves the following for every value of the constants: every bank, any
number of submissions, visits, logins, screens, presses and failures, any sets of keys,
connections, plugins and identifiers, any number of messages, stops and deaths.
The assumptions are `BankAssumption` (the bank has a question, and options and
an answer for each), `MaxSubmitsAssumption`, `HomeAssumption` (`null`, blank texts,
words and numerals are different things), `NavigationAssumption`,
`AppAssumption`, `KeyAssumption`, `ConnAssumption` (`Conn` is finite) and
`PluginAssumption` (every plugin has an identifier).

* **QuizScreen**, all seven invariants and the refinement of `QuizContract`.
  * `TypeCorrect`, `SelectionCorrect`. The two are inductive only together
    (`CoreInv`): a recorded press has an option of the bank because the button
    is shown only while one is selected.
  * `ReplacesCorrect`. `OneReplacePerSubmit` is inductive.
  * `OrderCorrect`. `ProgressInv` adds that a submitted quiz stays on its last
    question.
  * `ScoreCorrect`. Each press adds its index, or nothing, to the set of right
    presses.
  * `SubmissionsCorrect`. `PointsInv` adds a bound on the running score and
    that the scores still to be written are at most the running score.
  * `FileCorrect`. `FileInv` says that writes are tried in the order of the
    submissions and that, unless one failed, the file holds the last one tried.
  * `ContractCorrect`. Initial states map to initial states, and every step maps
    to a step of the contract or a stutter; it uses `CoreInv` and `PointsInv`.
* **HomeScreen**, all six invariants and the action property. A `getData` or
  `setData` call has one request with AsyncStorage at a time. Put the answers not
  seen yet in front of the requests not performed yet and you have a queue: a
  call that is resumed leaves the front and, unless it is done, joins the end
  with its next item. So no call overtakes another, and `Inv` says what that
  means for any two of them. `HomeQueue_proofs` has the invariant and the queue,
  `HomeOrder_proofs` the order of the calls step by step, `HomeScreen_proofs` the
  theorems.
  * `StoredPrefixCorrect`, `NewestLoginCorrect`. `Written`: of two `setData` calls
    the later login is never ahead, neither by item nor, at the same item, by
    place; an item holds the latest login that got there.
  * `FirstNameCorrect`. `ReadEarlier`: a `getData` call that has read its first
    item stays ahead of every login it has read nothing of. If that item was
    missing, so are the others, and the form is not filled.
  * `ReadsOneLoginCorrect`, `ThrowNeedsFaultCorrect`. While nothing fails,
    `ReadLater`: the call also stays behind every login it has read something of,
    so it reads all four items of one; and `Saved`: no text is `null`.
  * `SettledIsSavedCorrect`. `Saved` also says that a login is in all four items, or
    a later one is, unless its `setData` is in the queue; with no `setData` there the
    last login is in all of them. This is the state `LoginIsSaved` leads to.
* **Navigation.**
  * `NavTypeCorrect` and `BackWorksCorrect`, for any number of presses. `NavType` adds that a screen
    number not given out yet is on no display.
  * `BackDisabledCorrect` and `CompletedCorrect`, as long as no screen has been
    pressed twice. `OnePress` is the argument: the screen below has had its
    press, so only the one on top can navigate, and the two kinds alternate.
* **QuizApp.**
  * `AppImplementsNavigation`. Every step of the app is a step of `Navigation` or
    leaves it alone, so its theorems carry over (`AppTypeCorrect`, `AppBackWorks`,
    `AppBackDisabled`, `AppCompleted`).
  * `ShownCorrect`. `CurrentInv` follows a submission along its way: writes are
    in the queue in the order of the submissions, behind everything already
    answered; a write that was answered was performed, so the file is at least
    as new as the quiz that opened any screen; hence so is every answer to a
    read.
  * `QuietCorrect`. `QuietInv` says of the home screen on top that one of four
    things is true: a write is under way whose quiz will replace the screen; its
    check or read is in the queue behind every write; it was answered with what
    is in the file and no write is left; or it shows the file, no write is left
    and nothing of it is under way. A screen has one check or read under way at
    most (`AsksOnce`), and as long as there is no file no screen shows one
    (`NeverShown`). With both queues empty only the last of the four remains.
  * `RecordCorrect`, the refinement of `ScoreFile`: each submission is tried on
    the file once, in order, none left out. `RecordInv` says that what is in the
    file or failed was performed, and that nothing newer was. The write at the
    front of the queue is then of the submission after the newest of these.
  * `QuietLastCorrect`, from the two before: with no write left the newest submission
    performed is the last one, and unless it failed it is the one in the file. This
    is the state `SubmittedIsShown` leads to.
* **FlipperConnection.**
  * `ConnTypeCorrect`, `RequestFitsKeyCorrect`. The second is inductive with the
    types.
  * `NeverStuckCorrect`. `Scheduled` is stronger: a started manager has a timer,
    a queued `startSync`, one that has not got its connection yet, an event that
    is about to call `reconnect()`, or `isOpen_`; `OpenIsLive` then gives the
    connection that will close.
  * `OneConnectionCorrect` and `OpenIsSecureCorrect`. `OneOf` says that until
    `stop` is called these exclude each other and each is there once; `OneLive`
    that the flags are about the only connection there is.
  * `NullNeedsStopCorrect`. `OneRequest` says where the one signing request is: not
    made, in `tasks` ahead of any `startSync`, or sent on the connection `client_`
    holds. No `startSync` gets ahead of it because none is due while a connection
    is being opened or is open.
  * `MessageStaysCorrect`. A message handed over while `isOpen()` is meant for the
    one secure connection, whose client is `client_` or about to become it
    (`SecureClient`). When that connection ends, the `startSync` that follows is
    behind the message in `inbox` (`InOrder`), and only a `startSync` replaces
    `client_`. Only an answer to a signing request sets it to null. `KeyLast` says
    that there is none: the request for the key on disk is the last one queued, so
    while any request is queued that key is unsigned and no secure connection can
    be made.
* **FlipperApp.**
  * `AppImplementsConnection`. The client does not disturb the connection.
  * `ToldTheTruthCorrect`. `PluginInv` adds that only plugins that are there are
    connected and that each is under its own identifier, so that taking one out
    of `connections_` takes no other out of `told`.
  * `ConnectedIsOpenCorrect` and `PluginsNeedConnectionCorrect`, inductive
    together with `PluginInv`, the invariants of the connection and that a
    connection is still open when `onConnected` gets `mutex_`: the connection thread
    runs one event at a time, and a connection starts to open only when none is open
    or closing, so `isOpen()` changes with the two events and nowhere else.
  * `ClientTypeCorrect`, a part of `PluginInv`.
  * `SessionImplemented`, the refinement of `FlipperSession`. A session is on while
    `isOpen()` and until `onDisconnected` has told the plugins, and its plugins are
    those that were told so; once `stop` was called or a plugin went astray the
    promise is void and stays so. With the invariants
    above, a secure connection that opens begins a session, its `onDisconnected`, a crash
    and a kill end it with all plugins told, `init` and `deinit` come only within it and
    change one plugin at most, and every other step leaves the session alone. TLC
    checks it with no `stop`; the proof has any number.

Every invariant, action property and refinement of the runs that pass is proved. Only
model-checked are the liveness properties `SubmitLeadsHome`, `LoginIsSaved`,
`SubmittedIsShown` and `Recovers`: liveness under fairness is out of the prover's
reach. What is proved next to each is that nothing is lost on the way: one
navigation per write that settles (`ReplacesCorrect`), the right contents once the
queues are empty (`SettledIsSavedCorrect`, `QuietLastCorrect`), and a retry that is
always due (`NeverStuckCorrect`).

## Not modelled

* `FlipperState` and `FlipperStep`, a log of steps that nothing in the client
  reads; the receivers of a plugin and the contents of messages and answers; the
  file with the device id; the crash-report entry of `connections_`, which is
  there for good under an identifier no plugin of this app has.
* The start-up of debug builds (`ReactNativeFlipper.java`), which adds plugins and
  starts the client once.
* A home screen put on top of a home screen by a late navigation has two forms
  over one profile; in `HomeScreen` a visit starts only when no other is on top.
* A kill of the process in `Navigation` and `QuizApp`: it would only start the
  stack afresh, with the file as it is. Leaving the app and opening it again is
  there.
* The other pods (libevent, CocoaAsyncSocket, DoubleConversion, and Folly but for the
  queues of its event base). They make up nearly all of the C and C++ lines of the
  repository and are general-purpose libraries of which the app uses little. The
  models therefore cover a small share of the native lines, and most of the app's own.
* Styles and layout, the wording of questions, the template code of the hosts,
  tests and build output.
