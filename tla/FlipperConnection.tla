-------------------------- MODULE FlipperConnection --------------------------
(***************************************************************************)
(* FlipperConnectionManagerImpl: the connection of a debug build to the    *)
(* Flipper desktop, its retries and the exchange of certificates.          *)
(*                                                                         *)
(* Three threads share the members of the manager without a lock.  The     *)
(* application thread calls start and stop.  The flipper thread runs       *)
(* startSync, which blocks until a connection attempt has an outcome, and  *)
(* the closures that send requests and messages.  The connection thread    *)
(* runs the connection events and the answers to requests.  The events     *)
(* carry no connection: whichever closes, onDisconnected acts on the one   *)
(* isOpen_.  An event that calls back waits for a lock of the client, and  *)
(* the connection thread does nothing else meanwhile.                      *)
(*                                                                         *)
(* The flipper thread is a Folly event base.  Closures of other threads    *)
(* wait in one queue, those it adds itself in another; each turn of its    *)
(* loop takes from the first and then from the second.                     *)
(*                                                                         *)
(* RSocket and the desktop are not part of the source.  A connection that  *)
(* was established closes once: when it is lost, disconnected or its       *)
(* client is destroyed; onClosed then runs on the connection thread.       *)
(***************************************************************************)
EXTENDS Integers, Sequences, FiniteSets, ConnectionContextStore

CONSTANTS
    Conn,            \* the RSocket clients that exist at one time
    NoConn,          \* a null client_
    MaxMessages,     \* bound: messages that wait for the flipper thread
    MaxStops         \* bound: calls of stop

ASSUME ConnAssumption ==
    /\ IsFiniteSet(Conn)
    /\ NoConn \notin Conn
    /\ MaxMessages \in Nat
    /\ MaxStops \in Nat

VARIABLES
    isStarted, isOpen,
    trusted,         \* connectionIsTrusted_
    client,          \* client_
    failed,          \* failedConnectionAttempts_, counted up to its limit
    timers,          \* calls of startSync that are delayed
    inbox,           \* closures of other threads for flipperEventBase_
    tasks,           \* closures it has added itself
    thread,          \* where the flipper thread is in startSync
    stopping,        \* the application thread is inside stop
    event,           \* where the connection thread is in a connection event
    conns,           \* the RSocket connections
    store,           \* contextStore_
    toSign,          \* the signing requests the desktop has received
    steady,          \* from now on no desktop, network or disk fails
    nullUsed,        \* history: a null client_ was dereferenced
    stranded,        \* history: an exception escaped from startSync
    stops            \* history: calls of stop

members == <<isStarted, isOpen, trusted, client, failed>>
queues == <<timers, tasks, thread, stopping>>
arrivals == <<inbox, event>>
outside == <<toSign, steady>>
history == <<nullUsed, stranded, stops>>
managerVars == <<members, queues, arrivals, conns, store, outside, history>>

-----------------------------------------------------------------------------
(* Connections and threads. *)

\* A signing request; NoKey when generating it has failed unnoticed.
Csr == Key \cup {NoKey}

\* A startSync whose turn has come, or the closure that sends a request.
Task == [run : {"startSync", "request"}, csr : Csr]
Sync == [run |-> "startSync", csr |-> NoKey]
Request(k) == [run |-> "request", csr |-> k]

\* A startSync whose delay is over, or the closure that sends a message; on: the
\* connection that was open when the message was handed over.
Arrival == [run : {"startSync", "message"}, on : Conn \cup {NoConn}]
Due == [run |-> "startSync", on |-> NoConn]
Message(c) == [run |-> "message", on |-> c]

\* asked: the signing requests sent on the connection and not yet answered.
Connection ==
    [life   : {"closed", "connecting", "open", "closing"},
     secure : BOOLEAN,
     asked  : SUBSET Csr]

Dead == [life |-> "closed", secure |-> FALSE, asked |-> {}]

Live(c) == conns[c].life \in {"open", "closing"}

\* Where startSync is, and the client it waits for or has got.
Thread ==
    [at   : {"idle", "exchange", "secure", "wait exchange", "wait secure",
             "got exchange", "got secure"},
     conn : Conn \cup {NoConn}]

Idle == [at |-> "idle", conn |-> NoConn]

\* The connection thread is in onConnected or onDisconnected, and those that call
\* back have yet to do so.
Event == {"none", "opened", "onConnected", "closed", "onDisconnected"}
Opening == event \in {"opened", "onConnected"}
Closing == event \in {"closed", "onDisconnected"}

\* A client that no longer exists, whose place a new one can take.
Unused(c) == conns[c].life = "closed" /\ client # c /\ thread.conn # c

\* A pair that nothing refers to any more, but for files about to be deleted.
Fresh(k) ==
    /\ k \notin toSign
    /\ \A i \in DOMAIN tasks : tasks[i].csr # k
    /\ \A c \in Conn : k \notin conns[c].asked

\* A connection closes on its own thread.  A request that waits for an answer gets
\* an error, which only ends a step of the log.
Close(cs, c) ==
    IF c \in Conn /\ cs[c].life = "open"
    THEN [cs EXCEPT ![c].life = "closing", ![c].asked = {}]
    ELSE cs

\* Another thread destroys or disconnects client c: until its connection has
\* closed, an answer may still arrive.
CloseLater(cs, c) ==
    IF c \in Conn /\ cs[c].life = "open" THEN [cs EXCEPT ![c].life = "closing"] ELSE cs

\* Two failed attempts throw the certificates away; more make no difference.
MaxFailed == 2
OneMoreFailure == IF failed < MaxFailed THEN failed + 1 ELSE failed

\* isOpen().
IsOpen == isOpen /\ trusted

\* reconnect(): startSync again in two seconds.
Delayed == IF isStarted THEN timers + 1 ELSE timers

-----------------------------------------------------------------------------
(* The application thread. *)

Start ==
    /\ ~stopping
    /\ ~isStarted
    /\ isStarted' = TRUE
    /\ timers' = timers + 1
    /\ UNCHANGED <<isOpen, trusted, client, failed, tasks, thread, stopping,
                   conns, store, arrivals, outside, history>>

\* stop(), up to client_->disconnect().  Only a certificate provider can ask it for
\* a reset of the store, and nothing sets one.
Stop ==
    /\ ~stopping
    /\ stops < MaxStops
    /\ stops' = stops + 1
    /\ isStarted' = FALSE
    /\ stopping' = isStarted
    /\ conns' = IF isStarted THEN CloseLater(conns, client) ELSE conns
    /\ UNCHANGED <<isOpen, trusted, client, failed, timers, tasks, thread, store,
                   arrivals, outside, nullUsed, stranded>>

\* stop() sets client_ to null, whatever it is by now.
StopEnds ==
    /\ stopping
    /\ stopping' = FALSE
    /\ client' = NoConn
    /\ conns' = CloseLater(conns, client)
    /\ UNCHANGED <<isStarted, isOpen, trusted, failed, timers, tasks, thread,
                   store, arrivals, outside, history>>

-----------------------------------------------------------------------------
(* The flipper thread: startSync. *)

\* Mutant: a delay can run out twice.
DelayOverAgain ==
    /\ timers' = timers - 1
    /\ inbox' = Append(inbox, Due)
    /\ UNCHANGED <<members, tasks, thread, stopping, event, conns, store, outside,
                   history>>

\* Mutant: a startSync overtakes the messages that wait.
DelayOverFirst ==
    /\ timers > 0
    /\ timers' = timers - 1
    /\ inbox' = <<Due>> \o inbox
    /\ UNCHANGED <<members, tasks, thread, stopping, event, conns, store, outside,
                   history>>

\* The delay of a scheduled startSync is over: the thread of the timer passes it to
\* the event base.
DelayOver ==
    /\ timers > 0
    /\ timers' = timers - 1
    /\ inbox' = Append(inbox, Due)
    /\ UNCHANGED <<members, tasks, thread, stopping, event, conns, store, outside,
                   history>>

\* The event base comes to it: the continuation that calls startSync is added on
\* the thread of the event base, behind what it has added already.
SyncArrives ==
    /\ thread = Idle
    /\ inbox # <<>>
    /\ Head(inbox) = Due
    /\ inbox' = Tail(inbox)
    /\ tasks' = Append(tasks, Sync)
    /\ UNCHANGED <<members, timers, thread, stopping, event, conns, store, outside,
                   history>>

\* Mutant: failed attempts never throw the certificates away.
ExchangeOnlyWithoutFiles == ~HasRequiredFiles(store)

ExchangeNeeded == failed >= MaxFailed \/ ~HasRequiredFiles(store)

\* A startSync whose turn it is starts and decides what to do.
StartSync ==
    /\ thread = Idle
    /\ tasks # <<>>
    /\ Head(tasks) = Sync
    /\ tasks' = Tail(tasks)
    /\ thread' =
         IF ~isStarted \/ IsOpen THEN Idle
         ELSE [Idle EXCEPT !.at = IF ExchangeNeeded THEN "exchange" ELSE "secure"]
    /\ UNCHANGED <<members, timers, stopping, conns, store, arrivals, outside, history>>

\* An attempt of startSync ends in a caught exception.
AttemptFails ==
    /\ failed' = OneMoreFailure
    /\ timers' = Delayed
    /\ thread' = Idle

\* Mutant: connectionIsTrusted_ is left as it was.
ConnectInsecurelyTrusted(c) ==
    /\ thread.at = "exchange"
    /\ Unused(c)
    /\ thread' = [at |-> "wait exchange", conn |-> c]
    /\ conns' = [conns EXCEPT ![c] = [Dead EXCEPT !.life = "connecting"]]
    /\ UNCHANGED <<members, timers, tasks, stopping, store, arrivals, outside, history>>

\* doCertificateExchange, up to the wait for the insecure connection c.
ConnectInsecurely(c) ==
    /\ thread.at = "exchange"
    /\ Unused(c)
    /\ trusted' = FALSE
    /\ thread' = [at |-> "wait exchange", conn |-> c]
    /\ conns' = [conns EXCEPT ![c] = [Dead EXCEPT !.life = "connecting", !.secure = FALSE]]
    /\ UNCHANGED <<isStarted, isOpen, client, failed, timers, tasks, stopping,
                   store, arrivals, outside, history>>

\* connectSecurely gets its signing request: the one in memory, the one on
\* disk, a new one k, or an empty string when a file cannot be opened: the result -1
\* of generateCertSigningRequest counts as success, before or after the key is there.
Requested(s, new) ==
    IF Loaded(s).csr # NoKey THEN {Loaded(s)} ELSE new

Ungenerated ==
    {ResetState(store)} \cup {HalfGenerated(store, k) : k \in {j \in Key : Fresh(j)}}

Generations ==
    {Generated(store, k) : k \in {j \in Key : Fresh(j)}}
      \cup IF steady THEN {} ELSE Ungenerated

\* connectSecurely, up to the wait for the secure connection c.
ConnectSecurely(c) ==
    /\ thread.at = "secure"
    /\ Unused(c)
    /\ store' \in Requested(store, Generations)
    /\ SSLContextLoads(store')
    /\ trusted' = TRUE
    /\ thread' = [at |-> "wait secure", conn |-> c]
    /\ conns' = [conns EXCEPT ![c] = [Dead EXCEPT !.life = "connecting", !.secure = TRUE]]
    /\ UNCHANGED <<isStarted, isOpen, client, failed, timers, tasks, stopping,
                   arrivals, outside, history>>

\* connectSecurely throws: the certificate is missing or belongs to another key.
NoSSLContext ==
    /\ thread.at = "secure"
    /\ store' \in Requested(store, Generations)
    /\ ~SSLContextLoads(store')
    /\ AttemptFails
    /\ UNCHANGED <<isStarted, isOpen, trusted, client, tasks, stopping, conns,
                   arrivals, outside, history>>

\* Generating the request fails: the exception is a pointer, which no handler
\* of startSync catches.
GenerationThrows ==
    /\ ~steady
    /\ thread.at = "secure"
    /\ Loaded(store).csr = NoKey
    /\ store' \in Ungenerated
    /\ thread' = Idle
    /\ stranded' = TRUE
    /\ UNCHANGED <<members, timers, tasks, stopping, conns, arrivals, outside,
                   nullUsed, stops>>

Waiting == thread.at \in {"wait exchange", "wait secure"}

\* Mutant: no reconnect() after a refused connection.
RefusedForGood ==
    /\ ~steady
    /\ Waiting
    /\ event = "none"
    /\ conns' = [conns EXCEPT ![thread.conn] = Dead]
    /\ thread' = Idle
    /\ UNCHANGED <<members, timers, tasks, stopping, store, arrivals, outside, history>>

\* No desktop: createConnectedClient gives a null client and startSync tries
\* again without counting a failure.
Refused ==
    /\ ~steady
    /\ Waiting
    /\ event = "none"
    /\ conns' = [conns EXCEPT ![thread.conn] = Dead]
    /\ timers' = Delayed
    /\ thread' = Idle
    /\ UNCHANGED <<members, tasks, stopping, store, arrivals, outside, history>>

\* Any other error of the connection is thrown.
ConnectThrows ==
    /\ ~steady
    /\ Waiting
    /\ event = "none"
    /\ conns' = [conns EXCEPT ![thread.conn] = Dead]
    /\ AttemptFails
    /\ UNCHANGED <<isStarted, isOpen, trusted, client, tasks, stopping, store,
                   arrivals, outside, history>>

\* Mutant: startSync calls reconnect() although the exchange has begun.
ExchangeConnectedRetrying ==
    /\ thread.at = "got exchange"
    /\ ~Opening
    /\ client' = thread.conn
    /\ conns' = CloseLater(conns, client)
    /\ store' \in Generations
    /\ tasks' = Append(tasks, Request(store'.csr))
    /\ failed' = 0
    /\ timers' = Delayed
    /\ thread' = Idle
    /\ UNCHANGED <<isStarted, isOpen, trusted, stopping, arrivals, outside, history>>

\* doCertificateExchange goes on with its connection: client_ is replaced, the
\* store reset, a new request generated and its closure queued.
ExchangeConnected ==
    /\ thread.at = "got exchange"
    /\ ~Opening
    /\ client' = thread.conn
    /\ conns' = CloseLater(conns, client)
    /\ store' \in Generations
    /\ tasks' = Append(tasks, Request(store'.csr))
    /\ failed' = 0
    /\ thread' = Idle
    /\ UNCHANGED <<isStarted, isOpen, trusted, timers, stopping, arrivals, outside,
                   history>>

\* The same with a request that cannot be generated: nothing is queued.
ExchangeThrows ==
    /\ ~steady
    /\ thread.at = "got exchange"
    /\ ~Opening
    /\ client' = thread.conn
    /\ conns' = CloseLater(conns, client)
    /\ store' \in Ungenerated
    /\ thread' = Idle
    /\ stranded' = TRUE
    /\ UNCHANGED <<isStarted, isOpen, trusted, failed, timers, tasks, stopping,
                   arrivals, outside, nullUsed, stops>>

\* connectSecurely ends with its connection.
SecureConnected ==
    /\ thread.at = "got secure"
    /\ ~Opening
    /\ client' = thread.conn
    /\ conns' = CloseLater(conns, client)
    /\ failed' = 0
    /\ thread' = Idle
    /\ UNCHANGED <<isStarted, isOpen, trusted, timers, tasks, stopping, store,
                   arrivals, outside, history>>

-----------------------------------------------------------------------------
(* Messages to the desktop. *)

Messages == {i \in DOMAIN inbox : inbox[i].run = "message"}

\* The connection that isOpen() is about.
Current ==
    IF IsOpen THEN {c \in Conn : Live(c) /\ conns[c].secure} ELSE {}

\* sendMessage, called on any thread but the flipper thread, and at any time.
SendMessage ==
    /\ Cardinality(Messages) < MaxMessages
    /\ \E c \in IF Current = {} THEN {NoConn} ELSE Current :
         inbox' = Append(inbox, Message(c))
    /\ UNCHANGED <<members, queues, event, conns, store, outside, history>>

\* Its closure sends the message on whatever client_ is now, if it is not null.
MessageTask ==
    /\ thread = Idle
    /\ inbox # <<>>
    /\ Head(inbox).run = "message"
    /\ inbox' = Tail(inbox)
    /\ UNCHANGED <<members, queues, event, conns, store, outside, history>>

-----------------------------------------------------------------------------
(* The signing request and its answer. *)

\* The process is gone and a new one starts: only the files are left.
Relaunched(s) ==
    /\ isStarted' = FALSE
    /\ isOpen' = FALSE
    /\ trusted' \in BOOLEAN
    /\ client' = NoConn
    /\ failed' = 0
    /\ timers' = 0
    /\ inbox' = <<>>
    /\ tasks' = <<>>
    /\ thread' = Idle
    /\ stopping' = FALSE
    /\ event' = "none"
    /\ conns' = [c \in Conn |-> Dead]
    /\ store' = Reopened(s)

\* The first closure sends its request on whatever client_ is now; the request
\* of a dead connection gets an error at once.
SendRequest ==
    /\ thread = Idle
    /\ tasks # <<>>
    /\ Head(tasks).run = "request"
    /\ client # NoConn
    /\ tasks' = Tail(tasks)
    /\ IF conns[client].life = "open"
       THEN /\ conns' = [conns EXCEPT ![client].asked = @ \cup {Head(tasks).csr}]
            /\ toSign' = toSign \cup {Head(tasks).csr}
       ELSE UNCHANGED <<conns, toSign>>
    /\ UNCHANGED <<members, timers, thread, stopping, store, arrivals, steady, history>>

\* client_ is null and the closure dereferences it.
SendRequestCrashes ==
    /\ thread = Idle
    /\ tasks # <<>>
    /\ Head(tasks).run = "request"
    /\ client = NoConn
    /\ nullUsed' = TRUE
    /\ Relaunched(store)
    /\ UNCHANGED <<outside, stranded, stops>>

\* The desktop writes the certificate for a request it has.
DesktopSigns ==
    \E k \in toSign \cap Key :
        /\ store' = [store EXCEPT !.cert = k]
        /\ toSign' = toSign \ {k}
        /\ UNCHANGED <<members, queues, conns, arrivals, steady, history>>

DesktopForgets ==
    \E k \in toSign :
        /\ ~steady \/ k = NoKey
        /\ toSign' = toSign \ {k}
        /\ UNCHANGED <<members, queues, conns, store, arrivals, steady, history>>

\* The answer to request k arrives on c, with or without a certificate: the
\* callback destroys whatever client_ is now.
Answered(c) ==
    \E k \in conns[c].asked \ toSign :
        /\ Live(c)
        /\ event = "none"
        /\ conns' = Close([conns EXCEPT ![c].asked = @ \ {k}], client)
        /\ client' = NoConn
        /\ UNCHANGED <<isStarted, isOpen, trusted, failed, queues, store, arrivals,
                       outside, history>>

\* An old desktop does not implement the request: it is sent again without an
\* answer, and client_ destroyed.
AnsweredNotImplemented(c) ==
    \E k \in conns[c].asked \cap toSign :
        /\ ~steady
        /\ Live(c)
        /\ event = "none"
        /\ client # NoConn
        /\ toSign' = IF conns[client].life = "open" THEN toSign ELSE toSign \ {k}
        /\ conns' = Close([conns EXCEPT ![c].asked = @ \ {k}], client)
        /\ client' = NoConn
        /\ UNCHANGED <<isStarted, isOpen, trusted, failed, queues, store, arrivals,
                       steady, history>>

\* The same when client_ is null: the fallback dereferences it.
FallbackCrashes(c) ==
    /\ ~steady
    /\ Live(c)
    /\ event = "none"
    /\ conns[c].asked \cap toSign # {}
    /\ client = NoConn
    /\ nullUsed' = TRUE
    /\ Relaunched(store)
    /\ UNCHANGED <<outside, stranded, stops>>

-----------------------------------------------------------------------------
(* The connection thread: events of connection c. *)

\* onConnected, up to the callback.
OnConnected(c) ==
    /\ event = "none"
    /\ Waiting
    /\ thread.conn = c
    /\ isOpen' = TRUE
    /\ event' = IF trusted THEN "onConnected" ELSE "opened"
    /\ conns' = [conns EXCEPT ![c].life = "open"]
    /\ thread' = [thread EXCEPT !.at =
                    IF @ = "wait secure" THEN "got secure" ELSE "got exchange"]
    /\ UNCHANGED <<isStarted, trusted, client, failed, timers, inbox, tasks,
                   stopping, store, outside, history>>

\* It returns, and the future startSync waits for is fulfilled.
ConnectedReturns ==
    /\ Opening
    /\ event' = "none"
    /\ UNCHANGED <<members, queues, inbox, conns, store, outside, history>>

\* The network or the desktop drops c.
Lost(c) ==
    /\ ~steady
    /\ conns[c].life = "open"
    /\ conns' = Close(conns, c)
    /\ UNCHANGED <<members, queues, store, arrivals, outside, history>>

\* onClosed, which is onDisconnected, up to the callback.
OnClosed(c) ==
    /\ event = "none"
    /\ conns[c].life = "closing"
    /\ conns' = [conns EXCEPT ![c] = Dead]
    /\ isOpen' = FALSE
    /\ trusted' = (trusted /\ ~isOpen)
    /\ event' = IF IsOpen THEN "onDisconnected" ELSE IF isOpen THEN "closed" ELSE "none"
    /\ UNCHANGED <<isStarted, client, failed, queues, inbox, store, outside, history>>

\* Mutant: onDisconnected also drops the client.
DisconnectedDropping ==
    /\ Closing
    /\ event' = "none"
    /\ client' = NoConn
    /\ timers' = Delayed
    /\ UNCHANGED <<isStarted, isOpen, trusted, failed, tasks, thread, stopping, inbox,
                   conns, store, outside, history>>

\* The end of onDisconnected: reconnect().
DisconnectedReturns ==
    /\ Closing
    /\ event' = "none"
    /\ timers' = Delayed
    /\ UNCHANGED <<members, tasks, thread, stopping, inbox, conns, store, outside,
                   history>>

-----------------------------------------------------------------------------
(* The environment. *)

BecomeSteady ==
    /\ ~steady
    /\ steady' = TRUE
    /\ UNCHANGED <<members, queues, conns, store, arrivals, toSign, history>>

\* The process dies, perhaps while it writes a new pair.
Kill ==
    /\ \/ Relaunched(store)
       \/ /\ \/ thread.at = "got exchange"
             \/ thread.at = "secure" /\ Loaded(store).csr = NoKey
          /\ \E k \in Key : Fresh(k) /\ Relaunched(HalfGenerated(store, k))
    /\ UNCHANGED <<outside, nullUsed, stranded, stops>>

Init ==
    /\ isStarted = FALSE
    /\ isOpen = FALSE
    /\ trusted \in BOOLEAN               \* the member is not initialized
    /\ client = NoConn
    /\ failed = 0
    /\ timers = 0
    /\ inbox = <<>>
    /\ tasks = <<>>
    /\ thread = Idle
    /\ stopping = FALSE
    /\ event = "none"
    /\ conns = [c \in Conn |-> Dead]
    /\ store = EmptyStore
    /\ toSign = {}
    /\ steady = FALSE
    /\ nullUsed = FALSE
    /\ stranded = FALSE
    /\ stops = 0

\* The steps of the flipper thread in startSync and for its own closures.
FlipperThread ==
    \/ StartSync
    \/ \E c \in Conn : ConnectInsecurely(c) \/ ConnectSecurely(c)
    \/ NoSSLContext
    \/ GenerationThrows
    \/ Refused
    \/ ConnectThrows
    \/ ExchangeConnected
    \/ ExchangeThrows
    \/ SecureConnected
    \/ SendRequest

\* The steps that neither call back nor end the process.
Quiet ==
    \/ Start
    \/ Stop
    \/ StopEnds
    \/ DelayOver
    \/ SyncArrives
    \/ FlipperThread
    \/ DesktopSigns
    \/ DesktopForgets
    \/ \E c \in Conn : Answered(c) \/ AnsweredNotImplemented(c) \/ Lost(c)

Crash == SendRequestCrashes \/ \E c \in Conn : FallbackCrashes(c)

Next ==
    \/ Quiet
    \/ SendMessage
    \/ MessageTask
    \/ \E c \in Conn : OnConnected(c) \/ OnClosed(c)
    \/ ConnectedReturns
    \/ DisconnectedReturns
    \/ Crash
    \/ Kill
    \/ BecomeSteady

Spec == Init /\ [][Next]_managerVars

-----------------------------------------------------------------------------
(* Fairness: the two event bases and the application thread keep running, each
   turn of the loop of the flipper thread takes from both of its queues, and a
   steady desktop accepts connections, signs and answers. *)

Fairness ==
    /\ WF_managerVars(SyncArrives \/ MessageTask)
    /\ WF_managerVars(FlipperThread \/ SendRequestCrashes)
    /\ WF_managerVars(DelayOver)
    /\ WF_managerVars(StopEnds)
    /\ WF_managerVars(DesktopSigns)
    /\ WF_managerVars(DesktopForgets)
    /\ WF_managerVars(ConnectedReturns \/ DisconnectedReturns)
    /\ \A c \in Conn : WF_managerVars(Answered(c) \/ OnConnected(c) \/ OnClosed(c))

FairSpec == Spec /\ Fairness

-----------------------------------------------------------------------------
(* Properties. *)

\* Every member of the manager has a value of its type.
TypeOK ==
    /\ isStarted \in BOOLEAN
    /\ isOpen \in BOOLEAN
    /\ trusted \in BOOLEAN
    /\ client \in Conn \cup {NoConn}
    /\ failed \in 0..MaxFailed
    /\ timers \in Nat
    /\ inbox \in Seq(Arrival)
    /\ tasks \in Seq(Task)
    /\ thread \in Thread
    /\ stopping \in BOOLEAN
    /\ event \in Event
    /\ conns \in [Conn -> Connection]
    /\ store \in ContextStore
    /\ toSign \subseteq Csr
    /\ steady \in BOOLEAN
    /\ nullUsed \in BOOLEAN
    /\ stranded \in BOOLEAN
    /\ stops \in 0..MaxStops

\* A manager that is started always has a reason to go on: a startSync is
\* scheduled or under way, or a connection whose end will schedule one is still
\* there or is just ending.  This is what makes the chain of reconnect() calls never
\* break, however start, stop and the events of old connections fall; only the
\* exception that escapes from startSync breaks it.
NeverStuck ==
    isStarted /\ ~stranded =>
        \/ timers > 0
        \/ \E i \in DOMAIN inbox : inbox[i] = Due
        \/ \E i \in DOMAIN tasks : tasks[i] = Sync
        \/ thread # Idle
        \/ Closing
        \/ isOpen /\ \E c \in Conn : Live(c)

\* Until stop is called there is one connection at a time: startSync never opens
\* one while another lives or is being opened.
OneConnection ==
    stops = 0 => \A c, d \in Conn :
        conns[c].life # "closed" /\ conns[d].life # "closed" => c = d

\* Until stop is called isOpen() tells whether the secure connection is there:
\* connectionIsTrusted_, set before a connection opens and read when it opens or
\* closes, always belongs to the connection that isOpen_ is about.
OpenIsSecure ==
    stops = 0 => (IsOpen <=> \E c \in Conn : Live(c) /\ conns[c].secure)

\* The closure that sends the signing request and the fallback dereference
\* client_ without a check; before the first stop it is never null there, although
\* answers set it to null on another thread.
NullNeedsStop == nullUsed => stops > 0

\* A message is handed over on one thread and sent on another, on whatever client_
\* is by then.  One that was handed over while isOpen() finds the client of the
\* connection that was open: whatever closes, reconnects or exchanges certificates
\* meanwhile, until the first stop client_ is not replaced or dropped before it is sent.
MessageStays ==
    stops = 0 => \A i \in DOMAIN inbox :
        inbox[i].on # NoConn => inbox[i].on \in {client, thread.conn}

\* The signing request in memory and the one on disk belong to the private key on
\* disk, across resets, failed generations and deaths of the process: a
\* certificate issued for the request fits the key.
RequestFitsKey ==
    /\ store.csr # NoKey => store.csr = store.csrFile
    /\ store.csrFile # NoKey => store.csrFile = store.key

\* Whatever failed before, once the desktop, the network and the disk are steady a
\* started manager that is not stopped gets its secure connection and keeps it:
\* late certificates, half-written keys and mismatches are all recovered from.
Recovers ==
    <>[](steady /\ isStarted /\ stops = 0 /\ ~stranded)
        => <>[](IsOpen /\ \E c \in Conn : conns[c].life = "open" /\ conns[c].secure)

\* "Closes an open connection to the ws server": a connection that is open when
\* stop is called ends, unless the manager is started again.
StopCloses == (IsOpen /\ stopping) ~> (~IsOpen \/ isStarted)
=============================================================================
