---------------------- MODULE FlipperConnection_proofs ----------------------
(***************************************************************************)
(* Proofs about FlipperConnection, for any sets of keys and connections    *)
(* and any number of messages, stops and deaths of the process.            *)
(***************************************************************************)
EXTENDS FlipperConnection, TLAPS

-----------------------------------------------------------------------------
(* The inductive invariants. *)

HasSync == \E i \in DOMAIN tasks : tasks[i] = Sync

HasDue == \E i \in DOMAIN inbox : inbox[i] = Due

\* startSync has not got its connection yet.
Busy == thread.at \in {"exchange", "secure", "wait exchange", "wait secure"}

\* The client startSync waits for is the one that is connecting.
ConnectingIsWaitedFor ==
    \A c \in Conn : conns[c].life = "connecting" <=> Waiting /\ thread.conn = c

Waits == Waiting => thread.conn \in Conn

\* A started manager has a startSync ahead of it, or isOpen_ or its end.
Ahead == timers > 0 \/ HasDue \/ HasSync \/ Busy \/ isOpen \/ Closing

Scheduled == isStarted /\ ~stranded => Ahead

OpenIsLive == isOpen => \E c \in Conn : Live(c)

\* A signing request is asked for on a connection that is there.
AskedIsLive == \A c \in Conn : conns[c].asked # {} => Live(c)

ConnInv == Waits /\ ConnectingIsWaitedFor /\ OpenIsLive /\ AskedIsLive

UniqueSync == \A i, j \in DOMAIN tasks : tasks[i] = Sync /\ tasks[j] = Sync => i = j

UniqueDue == \A i, j \in DOMAIN inbox : inbox[i] = Due /\ inbox[j] = Due => i = j

\* Until stop is called the manager has at most one of these: a delayed startSync,
\* one that has come to the event base, one whose turn it is, one that runs, a
\* connection that isOpen_ is about, an event that ends it.
OneOf ==
    /\ ~stopping
    /\ ~isStarted =>
          timers = 0 /\ ~HasDue /\ ~HasSync /\ thread = Idle /\ ~isOpen /\ ~Closing
    /\ timers <= 1
    /\ timers > 0 => ~HasDue /\ ~HasSync /\ ~Busy /\ ~isOpen /\ ~Closing
    /\ HasDue => ~HasSync /\ ~Busy /\ ~isOpen /\ ~Closing
    /\ HasSync => ~Busy /\ ~isOpen /\ ~Closing
    /\ Busy => ~isOpen /\ ~Closing
    /\ isOpen => ~Closing
    /\ UniqueSync /\ UniqueDue

\* That connection is the only one, and connectionIsTrusted_ is about it.
OneLive ==
    /\ \A c \in Conn : Live(c) => isOpen
    /\ \A c, d \in Conn : Live(c) /\ Live(d) => c = d
    /\ \A c \in Conn : conns[c].life # "closed" => (trusted <=> conns[c].secure)

Alone == stops = 0 => OneOf /\ OneLive

HasRequest == \E i \in DOMAIN tasks : tasks[i].run = "request"

\* One request at most is in the queue, ahead of startSync.
RequestFirst ==
    /\ \A i, j \in DOMAIN tasks : tasks[i] = Sync /\ tasks[j].run = "request" => j < i
    /\ \A i, j \in DOMAIN tasks :
          tasks[i].run = "request" /\ tasks[j].run = "request" => i = j

NothingAsked == \A c \in Conn : conns[c].asked = {}

\* Until stop is called there is one signing request at a time, in the queue or at
\* the desktop, and client_ is there.
OneRequest ==
    /\ RequestFirst
    /\ HasSync => thread = Idle
    /\ HasRequest => thread = Idle /\ client # NoConn /\ NothingAsked
    /\ \A c \in Conn : conns[c].asked # {} =>
          thread = Idle /\ client # NoConn /\ \E k \in Csr : conns[c].asked = {k}
    /\ thread.at = "got exchange" => thread.conn # NoConn
    /\ ~nullUsed

NoOverlap == stops = 0 => OneRequest

-----------------------------------------------------------------------------
(* The pieces of the state. *)

LEMMA TaskFacts ==
    /\ Sync \in Task /\ \A k \in Csr : Request(k) \in Task
    /\ Sync.run = "startSync"
    /\ \A k : Request(k) # Sync /\ Request(k).run = "request" /\ Request(k).csr = k
BY Zenon DEF Sync, Request, Task, Csr

LEMMA ArrivalFacts ==
    /\ Due \in Arrival /\ Due.run = "startSync" /\ Due.on = NoConn
    /\ \A c \in Conn \cup {NoConn} : Message(c) \in Arrival
    /\ \A c : Message(c) # Due /\ Message(c).run = "message" /\ Message(c).on = c
BY Zenon DEF Due, Message, Arrival

\* What sendMessage puts into the queue of the event base.
LEMMA SendFacts ==
    ASSUME SendMessage
    PROVE  \E c \in Conn \cup {NoConn} :
             /\ inbox' = Append(inbox, Message(c))
             /\ c # NoConn => IsOpen /\ c \in Conn /\ Live(c)
BY Zenon DEF SendMessage, Current

LEMMA TailTasks ==
    ASSUME TypeOK, tasks # <<>>, tasks' = Tail(tasks)
    PROVE  /\ tasks' \in Seq(Task)
           /\ 1 \in DOMAIN tasks /\ Head(tasks) = tasks[1] /\ tasks[1] \in Task
           /\ DOMAIN tasks \subseteq Nat \ {0} /\ DOMAIN tasks' \subseteq Nat \ {0}
           /\ \A i \in DOMAIN tasks' : i + 1 \in DOMAIN tasks /\ tasks'[i] = tasks[i + 1]
           /\ \A i \in DOMAIN tasks :
                 i # 1 => i - 1 \in DOMAIN tasks' /\ tasks'[i - 1] = tasks[i]
<1>1. tasks \in Seq(Task)
  BY Zenon DEF TypeOK
<1> QED
  BY <1>1

LEMMA AppendTasks ==
    ASSUME TypeOK, NEW x \in Task, tasks' = Append(tasks, x)
    PROVE  /\ tasks' \in Seq(Task)
           /\ Len(tasks) \in Nat /\ DOMAIN tasks = 1 .. Len(tasks)
           /\ DOMAIN tasks' = 1 .. Len(tasks) + 1
           /\ \A i \in DOMAIN tasks : i \in DOMAIN tasks' /\ tasks'[i] = tasks[i]
           /\ \A i \in DOMAIN tasks' :
                 \/ i \in DOMAIN tasks /\ tasks'[i] = tasks[i]
                 \/ i = Len(tasks) + 1
           /\ Len(tasks) + 1 \in DOMAIN tasks' /\ tasks'[Len(tasks) + 1] = x
<1>1. tasks \in Seq(Task)
  BY Zenon DEF TypeOK
<1> QED
  BY <1>1

LEMMA TailInbox ==
    ASSUME TypeOK, inbox # <<>>, inbox' = Tail(inbox)
    PROVE  /\ inbox' \in Seq(Arrival)
           /\ 1 \in DOMAIN inbox /\ Head(inbox) = inbox[1]
           /\ DOMAIN inbox \subseteq Nat \ {0} /\ DOMAIN inbox' \subseteq Nat \ {0}
           /\ \A i \in DOMAIN inbox' : i + 1 \in DOMAIN inbox /\ inbox'[i] = inbox[i + 1]
           /\ \A i \in DOMAIN inbox :
                 i # 1 => i - 1 \in DOMAIN inbox' /\ inbox'[i - 1] = inbox[i]
<1>1. inbox \in Seq(Arrival)
  BY Zenon DEF TypeOK
<1> QED
  BY <1>1

LEMMA AppendInbox ==
    ASSUME TypeOK, NEW x \in Arrival, inbox' = Append(inbox, x)
    PROVE  /\ inbox' \in Seq(Arrival)
           /\ Len(inbox) \in Nat /\ DOMAIN inbox = 1 .. Len(inbox)
           /\ DOMAIN inbox' = 1 .. Len(inbox) + 1
           /\ \A i \in DOMAIN inbox : i \in DOMAIN inbox' /\ inbox'[i] = inbox[i]
           /\ \A i \in DOMAIN inbox' :
                 \/ i \in DOMAIN inbox /\ inbox'[i] = inbox[i]
                 \/ i = Len(inbox) + 1
           /\ Len(inbox) + 1 \in DOMAIN inbox' /\ inbox'[Len(inbox) + 1] = x
<1>1. inbox \in Seq(Arrival)
  BY Zenon DEF TypeOK
<1> QED
  BY <1>1

LEMMA CloseFacts ==
    ASSUME NEW cs \in [Conn -> Connection], NEW c
    PROVE  /\ Close(cs, c) \in [Conn -> Connection]
           /\ \A d \in Conn :
                /\ Close(cs, c)[d].secure = cs[d].secure
                /\ \/ Close(cs, c)[d] = cs[d]
                   \/ /\ cs[d].life = "open" /\ d = c
                      /\ Close(cs, c)[d].life = "closing" /\ Close(cs, c)[d].asked = {}
           /\ c \in Conn => Close(cs, c)[c].life # "open"
<1>1. CASE c \in Conn /\ cs[c].life = "open"
  <2> DEFINE x == [cs[c] EXCEPT !.life = "closing", !.asked = {}]
  <2>1. Close(cs, c) = [cs EXCEPT ![c] = x]
    BY <1>1, Zenon DEF Close, Connection
  <2>2. x \in Connection /\ x.secure = cs[c].secure /\ x.life = "closing" /\ x.asked = {}
    BY <1>1, ZenonT(30) DEF Connection
  <2> HIDE DEF x
  <2> QED
    BY <1>1, <2>1, <2>2, Zenon
<1>2. CASE ~(c \in Conn /\ cs[c].life = "open")
  BY <1>2, Zenon DEF Close
<1> QED
  BY <1>1, <1>2, Zenon

LEMMA CloseLaterFacts ==
    ASSUME NEW cs \in [Conn -> Connection], NEW c
    PROVE  /\ CloseLater(cs, c) \in [Conn -> Connection]
           /\ \A d \in Conn :
                /\ CloseLater(cs, c)[d].secure = cs[d].secure
                /\ CloseLater(cs, c)[d].asked = cs[d].asked
                /\ \/ CloseLater(cs, c)[d] = cs[d]
                   \/ cs[d].life = "open" /\ CloseLater(cs, c)[d].life = "closing"
<1>1. CASE c \in Conn /\ cs[c].life = "open"
  <2> DEFINE x == [cs[c] EXCEPT !.life = "closing"]
  <2>1. CloseLater(cs, c) = [cs EXCEPT ![c] = x]
    BY <1>1, Zenon DEF CloseLater, Connection
  <2>2. /\ x \in Connection /\ x.secure = cs[c].secure /\ x.life = "closing"
        /\ x.asked = cs[c].asked
    BY <1>1, ZenonT(30) DEF Connection
  <2> HIDE DEF x
  <2> QED
    BY <1>1, <2>1, <2>2, Zenon
<1>2. CASE ~(c \in Conn /\ cs[c].life = "open")
  BY <1>2, Zenon DEF CloseLater
<1> QED
  BY <1>1, <1>2, Zenon

LEMMA DeadFacts ==
    /\ Dead \in Connection /\ Dead.life = "closed" /\ Dead.asked = {}
    /\ \A b \in BOOLEAN : LET d == [Dead EXCEPT !.life = "connecting", !.secure = b] IN
         d \in Connection /\ d.life = "connecting" /\ d.secure = b /\ d.asked = {}
BY Zenon DEF Dead, Connection

LEMMA DeadIsClosed == Dead.life = "closed" /\ Dead.asked = {}
BY Zenon DEF Dead

LEMMA StoreFacts ==
    ASSUME NEW s \in ContextStore, NEW k \in Key
    PROVE  /\ ResetState(s) \in ContextStore /\ Loaded(s) \in ContextStore
           /\ Generated(s, k) \in ContextStore /\ HalfGenerated(s, k) \in ContextStore
           /\ Reopened(s) \in ContextStore /\ [s EXCEPT !.cert = k] \in ContextStore
BY Zenon DEF ResetState, EmptyStore, Loaded, Generated, HalfGenerated, Reopened, ContextStore

LEMMA EmptyFacts == EmptyStore \in ContextStore
BY Zenon DEF EmptyStore, ContextStore

LEMMA ThreadFacts ==
    /\ Idle \in Thread /\ Idle.at = "idle" /\ Idle.conn = NoConn
    /\ [Idle EXCEPT !.at = "exchange"] \in Thread /\ [Idle EXCEPT !.at = "secure"] \in Thread
    /\ [Idle EXCEPT !.at = "exchange"].at = "exchange"
    /\ [Idle EXCEPT !.at = "secure"].at = "secure"
    /\ \A c \in Conn : /\ [at |-> "wait exchange", conn |-> c] \in Thread
                        /\ [at |-> "wait secure", conn |-> c] \in Thread
    /\ \A t \in Thread : t.conn \in Conn \cup {NoConn}
BY Zenon DEF Idle, Thread

LEMMA IdleAt == Idle.at = "idle"
BY Zenon DEF Idle

LEMMA RelaunchedType ==
    ASSUME TypeOK, NEW s \in ContextStore, Relaunched(s), UNCHANGED outside,
           nullUsed' \in BOOLEAN, UNCHANGED <<stranded, stops>>
    PROVE  TypeOK'
<1>1. store' \in ContextStore
  BY StoreFacts DEF Relaunched, Reopened, ContextStore
<1>2. conns' \in [Conn -> Connection]
  BY DeadFacts, Zenon DEF Relaunched
<1>3. UNCHANGED <<toSign, steady>>
  BY Zenon DEF outside
<1>4. /\ isStarted' = FALSE /\ isOpen' = FALSE /\ trusted' \in BOOLEAN /\ client' = NoConn
      /\ failed' = 0 /\ timers' = 0 /\ inbox' = <<>> /\ tasks' = <<>> /\ thread' = Idle
      /\ stopping' = FALSE /\ event' = "none"
  BY Zenon DEF Relaunched
<1>5. /\ failed' \in 0 .. MaxFailed /\ tasks' \in Seq(Task) /\ inbox' \in Seq(Arrival)
      /\ event' \in Event
  BY <1>4 DEF MaxFailed, Event
<1> QED
  BY <1>1, <1>2, <1>3, <1>4, <1>5, ThreadFacts, Zenon DEF TypeOK

LEMMA GenerationTypes ==
    ASSUME TypeOK
    PROVE  /\ Generations \subseteq ContextStore
           /\ Requested(store, Generations) \subseteq ContextStore
           /\ \A s \in Generations : s.csr \in Csr
           /\ Ungenerated \subseteq ContextStore
           /\ \A k \in Key : HalfGenerated(store, k) \in ContextStore
<1>1. store \in ContextStore
  BY Zenon DEF TypeOK
<1>2. /\ ResetState(store) \in ContextStore /\ Loaded(store) \in ContextStore
      /\ \A k \in Key : HalfGenerated(store, k) \in ContextStore
      /\ \A k \in Key : Generated(store, k) \in ContextStore
  BY <1>1, Zenon DEF ResetState, EmptyStore, Loaded, Generated, HalfGenerated, ContextStore
<1>3. Generations \subseteq ContextStore
  BY <1>2, Zenon DEF Generations, Ungenerated
<1>4. \A s \in ContextStore : s.csr \in Csr
  BY Zenon DEF ContextStore, Csr
<1> QED
  BY <1>2, <1>3, <1>4, Zenon DEF Requested, Ungenerated

LEMMA FailureTypes ==
    ASSUME TypeOK
    PROVE  OneMoreFailure \in 0 .. MaxFailed /\ Delayed \in Nat /\ Delayed >= timers
<1>1. failed \in 0 .. 2 /\ timers \in Nat
  BY Zenon DEF TypeOK, MaxFailed
<1> QED
  BY <1>1 DEF OneMoreFailure, MaxFailed, Delayed

\* One connection changes what it was asked, or its life.
LEMMA AskedChanges ==
    ASSUME TypeOK, NEW c \in Conn, NEW A, A \subseteq Csr
    PROVE  /\ [conns EXCEPT ![c].asked = A] \in [Conn -> Connection]
           /\ \A d \in Conn : d # c => [conns EXCEPT ![c].asked = A][d] = conns[d]
           /\ [conns EXCEPT ![c].asked = A][c].life = conns[c].life
           /\ [conns EXCEPT ![c].asked = A][c].secure = conns[c].secure
           /\ [conns EXCEPT ![c].asked = A][c].asked = A
<1>1. conns \in [Conn -> Connection]
  BY Zenon DEF TypeOK
<1> QED
  BY <1>1, Zenon DEF Connection

LEMMA Opens ==
    ASSUME TypeOK, NEW c \in Conn, conns' = [conns EXCEPT ![c].life = "open"]
    PROVE  /\ conns' \in [Conn -> Connection]
           /\ \A d \in Conn : d # c => conns'[d] = conns[d]
           /\ conns'[c].life = "open" /\ conns'[c].secure = conns[c].secure
           /\ conns'[c].asked = conns[c].asked
<1>1. conns \in [Conn -> Connection]
  BY Zenon DEF TypeOK
<1> QED
  BY <1>1, Zenon DEF Connection

LEMMA TypeInit == Init => TypeOK
<1> SUFFICES ASSUME Init PROVE TypeOK
  BY Zenon
<1>1. conns \in [Conn -> Connection] /\ store \in ContextStore /\ thread = Idle
  BY DeadFacts, EmptyFacts, Zenon DEF Init
<1>2. /\ tasks \in Seq(Task) /\ inbox \in Seq(Arrival) /\ failed \in 0 .. MaxFailed
      /\ stops \in 0 .. MaxStops /\ event \in Event
  BY ConnAssumption DEF Init, MaxFailed, ConnAssumption, Event
<1> QED
  BY <1>1, <1>2, ThreadFacts, Zenon DEF Init, TypeOK

LEMMA TypeStep == TypeOK /\ [Next]_managerVars => TypeOK'
<1> SUFFICES ASSUME TypeOK, [Next]_managerVars PROVE TypeOK'
  BY Zenon
<1> USE DEF members, queues, arrivals, outside, history
<1>0. /\ stops \in Nat /\ MaxStops \in Nat
      /\ timers \in Nat /\ store \in ContextStore /\ conns \in [Conn -> Connection]
  BY ConnAssumption DEF TypeOK, ConnAssumption
<1>1. CASE Start
  BY <1>0, <1>1 DEF Start, TypeOK
<1>2. CASE Stop
  <2>1. conns' \in [Conn -> Connection]
    BY <1>0, <1>2, CloseLaterFacts, Zenon DEF Stop
  <2>2. stops' \in 0 .. MaxStops
    BY <1>0, <1>2 DEF Stop
  <2> QED
    BY <1>2, <2>1, <2>2, ThreadFacts, Zenon DEF Stop, TypeOK
<1>3. CASE StopEnds
  <2>1. conns' \in [Conn -> Connection]
    BY <1>0, <1>3, CloseLaterFacts, Zenon DEF StopEnds
  <2> QED
    BY <1>3, <2>1, ThreadFacts, Zenon DEF StopEnds, TypeOK
<1>4. CASE DelayOver
  <2>1. inbox' \in Seq(Arrival)
    BY <1>4, AppendInbox, ArrivalFacts, Zenon DEF DelayOver
  <2>2. timers' \in Nat
    BY <1>0, <1>4 DEF DelayOver
  <2> QED
    BY <1>4, <2>1, <2>2, ThreadFacts, Zenon DEF DelayOver, TypeOK
<1>27. CASE SyncArrives
  <2>1. inbox' \in Seq(Arrival) /\ tasks' \in Seq(Task)
    BY <1>27, TailInbox, AppendTasks, TaskFacts, Zenon DEF SyncArrives
  <2> QED
    BY <1>27, <2>1, ThreadFacts, Zenon DEF SyncArrives, TypeOK
<1>5. CASE StartSync
  <2>1. tasks' \in Seq(Task)
    BY <1>5, TailTasks, Zenon DEF StartSync
  <2>2. thread' \in {Idle, [Idle EXCEPT !.at = "exchange"], [Idle EXCEPT !.at = "secure"]}
    BY <1>5, Zenon DEF StartSync
  <2> QED
    BY <1>5, <2>1, <2>2, ThreadFacts, ZenonT(30) DEF StartSync, TypeOK
<1>6. ASSUME NEW c \in Conn, ConnectInsecurely(c) PROVE TypeOK'
  <2>1. conns' \in [Conn -> Connection]
    BY <1>0, <1>6, DeadFacts, Zenon DEF ConnectInsecurely
  <2> QED
    BY <1>6, <2>1, ThreadFacts, Zenon DEF ConnectInsecurely, TypeOK
<1>7. ASSUME NEW c \in Conn, ConnectSecurely(c) PROVE TypeOK'
  <2>1. conns' \in [Conn -> Connection]
    BY <1>0, <1>7, DeadFacts, Zenon DEF ConnectSecurely
  <2>2. store' \in ContextStore
    BY <1>7, GenerationTypes, Zenon DEF ConnectSecurely
  <2> QED
    BY <1>7, <2>1, <2>2, ThreadFacts, ZenonT(30) DEF ConnectSecurely, TypeOK
<1>8. CASE NoSSLContext
  <2>1. store' \in ContextStore
    BY <1>8, GenerationTypes, Zenon DEF NoSSLContext
  <2> QED
    BY <1>8, <2>1, FailureTypes, ThreadFacts, ZenonT(30) DEF NoSSLContext, AttemptFails, TypeOK
<1>9. CASE GenerationThrows
  <2>1. store' \in ContextStore
    BY <1>9, GenerationTypes, Zenon DEF GenerationThrows
  <2> QED
    BY <1>9, <2>1, ThreadFacts, Zenon DEF GenerationThrows, TypeOK
<1>10. CASE Refused
  <2>1. conns' \in [Conn -> Connection]
    BY <1>0, <1>10, DeadFacts, Zenon DEF Refused
  <2> QED
    BY <1>10, <2>1, FailureTypes, ThreadFacts, ZenonT(30) DEF Refused, TypeOK
<1>11. CASE ConnectThrows
  <2>1. conns' \in [Conn -> Connection]
    BY <1>0, <1>11, DeadFacts, Zenon DEF ConnectThrows
  <2> QED
    BY <1>11, <2>1, FailureTypes, ThreadFacts, ZenonT(30) DEF ConnectThrows, AttemptFails, TypeOK
<1>12. thread.conn \in Conn \cup {NoConn}
  BY ThreadFacts, Zenon DEF TypeOK
<1>13. CASE ExchangeConnected
  <2>1. conns' \in [Conn -> Connection]
    BY <1>0, <1>13, CloseLaterFacts, Zenon DEF ExchangeConnected
  <2>2. store' \in ContextStore /\ store'.csr \in Csr
    BY <1>13, GenerationTypes, Zenon DEF ExchangeConnected
  <2>3. tasks' \in Seq(Task)
    BY <1>13, <2>2, AppendTasks, TaskFacts, Zenon DEF ExchangeConnected
  <2>4. failed' \in 0 .. MaxFailed
    <3>1. failed' = 0
      BY <1>13, Zenon DEF ExchangeConnected
    <3> QED
      BY <3>1 DEF MaxFailed
  <2> QED
    BY <1>12, <1>13, <2>1, <2>2, <2>3, <2>4, ThreadFacts, Zenon DEF ExchangeConnected, TypeOK
<1>14. CASE ExchangeThrows
  <2>1. conns' \in [Conn -> Connection]
    BY <1>0, <1>14, CloseLaterFacts, Zenon DEF ExchangeThrows
  <2>2. store' \in ContextStore
    BY <1>14, GenerationTypes, Zenon DEF ExchangeThrows
  <2> QED
    BY <1>12, <1>14, <2>1, <2>2, ThreadFacts, Zenon DEF ExchangeThrows, TypeOK
<1>15. CASE SecureConnected
  <2>1. conns' \in [Conn -> Connection]
    BY <1>0, <1>15, CloseLaterFacts, Zenon DEF SecureConnected
  <2>2. failed' \in 0 .. MaxFailed
    <3>1. failed' = 0
      BY <1>15, Zenon DEF SecureConnected
    <3> QED
      BY <3>1 DEF MaxFailed
  <2> QED
    BY <1>12, <1>15, <2>1, <2>2, ThreadFacts, Zenon DEF SecureConnected, TypeOK
<1>16. CASE SendRequest
  <2>1. tasks' \in Seq(Task) /\ Head(tasks).csr \in Csr
    BY <1>16, TailTasks, Zenon DEF SendRequest, Task
  <2>2. client \in Conn /\ conns[client].asked \subseteq Csr /\ toSign \subseteq Csr
    BY <1>16, Zenon DEF SendRequest, TypeOK, Connection
  <2>3. conns' \in [Conn -> Connection] /\ toSign' \subseteq Csr
    <3>1. CASE conns[client].life = "open"
      <4> DEFINE A == conns[client].asked \cup {Head(tasks).csr}
      <4>1. conns' = [conns EXCEPT ![client].asked = A] /\ A \subseteq Csr
        BY <1>16, <2>1, <2>2, <3>1, Zenon DEF SendRequest
      <4>2. toSign' \subseteq Csr
        BY <1>16, <2>1, <2>2, <3>1, Zenon DEF SendRequest
      <4> HIDE DEF A
      <4> QED
        BY <2>2, <4>1, <4>2, AskedChanges, Zenon
    <3> QED
      BY <1>0, <1>16, <2>2, <3>1, Zenon DEF SendRequest
  <2> QED
    BY <1>16, <2>1, <2>3, ThreadFacts, Zenon DEF SendRequest, TypeOK
<1>17. CASE SendMessage \/ MessageTask
  <2>1. inbox' \in Seq(Arrival)
    BY <1>17, SendFacts, TailInbox, AppendInbox, ArrivalFacts, Zenon DEF MessageTask
  <2> QED
    BY <1>17, <2>1, ThreadFacts, ZenonT(30) DEF SendMessage, MessageTask, TypeOK
<1>18. CASE DesktopSigns
  <2>1. store' \in ContextStore /\ toSign' \subseteq Csr
    BY <1>0, <1>18, StoreFacts, Zenon DEF DesktopSigns, TypeOK
  <2> QED
    BY <1>18, <2>1, ThreadFacts, Zenon DEF DesktopSigns, TypeOK
<1>19. CASE DesktopForgets \/ BecomeSteady
  BY <1>19, ZenonT(30) DEF DesktopForgets, BecomeSteady, TypeOK
<1>20. ASSUME NEW c \in Conn, Answered(c) \/ AnsweredNotImplemented(c) PROVE TypeOK'
  <2>1. PICK k \in Csr : conns' = Close([conns EXCEPT ![c].asked = conns[c].asked \ {k}], client)
    <3>1. conns[c].asked \subseteq Csr
      BY Zenon DEF TypeOK, Connection
    <3> QED
      BY <1>20, <3>1, Zenon DEF Answered, AnsweredNotImplemented
  <2>2. conns[c].asked \ {k} \subseteq Csr
    BY Zenon DEF TypeOK, Connection
  <2>3. [conns EXCEPT ![c].asked = conns[c].asked \ {k}] \in [Conn -> Connection]
    BY <2>2, AskedChanges, Zenon
  <2>4. conns' \in [Conn -> Connection]
    BY <2>1, <2>3, CloseFacts, ZenonT(30)
  <2>5. toSign' \subseteq toSign
    BY <1>20, Zenon DEF Answered, AnsweredNotImplemented
  <2> QED
    BY <1>20, <2>4, <2>5, ThreadFacts, ZenonT(30) DEF Answered, AnsweredNotImplemented, TypeOK
<1>21. ASSUME NEW c \in Conn, Lost(c) PROVE TypeOK'
  <2>1. conns' \in [Conn -> Connection]
    BY <1>0, <1>21, CloseFacts, Zenon DEF Lost
  <2> QED
    BY <1>21, <2>1, ThreadFacts, Zenon DEF Lost, TypeOK
<1>22. ASSUME NEW c \in Conn, OnConnected(c) PROVE TypeOK'
  <2>1. conns' \in [Conn -> Connection]
    BY <1>22, Opens, Zenon DEF OnConnected
  <2>2. thread' \in Thread
    BY <1>22, Zenon DEF OnConnected, TypeOK, Thread
  <2>3. event' \in Event
    BY <1>22, Zenon DEF OnConnected, Event
  <2> QED
    BY <1>22, <2>1, <2>2, <2>3, ThreadFacts, Zenon DEF OnConnected, TypeOK
<1>23. ASSUME NEW c \in Conn, OnClosed(c) PROVE TypeOK'
  <2>1. conns' \in [Conn -> Connection]
    BY <1>0, <1>23, DeadFacts, Zenon DEF OnClosed
  <2>2. event' \in Event
    BY <1>23, Zenon DEF OnClosed, Event
  <2>3. trusted' \in BOOLEAN
    BY <1>23, Zenon DEF OnClosed
  <2> QED
    BY <1>23, <2>1, <2>2, <2>3, ThreadFacts, ZenonT(30) DEF OnClosed, TypeOK
<1>24. CASE Crash
  <2>1. /\ Relaunched(store) /\ UNCHANGED <<outside, stranded, stops>>
        /\ nullUsed' = TRUE
    BY <1>24, Zenon DEF Crash, SendRequestCrashes, FallbackCrashes
  <2> QED
    BY <1>0, <2>1, RelaunchedType, Zenon
<1>25. CASE Kill
  <2>1. PICK s \in ContextStore : Relaunched(s)
    BY <1>0, <1>25, GenerationTypes, Zenon DEF Kill
  <2>2. nullUsed' \in BOOLEAN
    BY <1>25, Zenon DEF Kill, TypeOK
  <2> QED
    BY <1>25, <2>1, <2>2, RelaunchedType, Zenon DEF Kill
<1>26. CASE UNCHANGED managerVars
  BY <1>26 DEF managerVars, TypeOK
<1>28. CASE ConnectedReturns \/ DisconnectedReturns
  <2>1. event' \in Event /\ timers' \in Nat
    BY <1>0, <1>28, FailureTypes, Zenon DEF ConnectedReturns, DisconnectedReturns, Event
  <2> QED
    BY <1>28, <2>1, ThreadFacts, ZenonT(30) DEF ConnectedReturns, DisconnectedReturns, TypeOK
<1> QED
  BY <1>1, <1>2, <1>3, <1>4, <1>5, <1>6, <1>7, <1>8, <1>9, <1>10, <1>11, <1>13, <1>14,
     <1>15, <1>16, <1>17, <1>18, <1>19, <1>20, <1>21, <1>22, <1>23, <1>24, <1>25, <1>26,
     <1>27, <1>28, Zenon
     DEF Next, Quiet, FlipperThread

-----------------------------------------------------------------------------
(* The signing request and the key. *)

LEMMA FitsStep ==
    TypeOK /\ RequestFitsKey /\ [Next]_managerVars => RequestFitsKey'
<1> SUFFICES ASSUME TypeOK, RequestFitsKey, [Next]_managerVars PROVE RequestFitsKey'
  BY Zenon
<1> DEFINE Fits(s) == /\ s.csr # NoKey => s.csr = s.csrFile
                      /\ s.csrFile # NoKey => s.csrFile = s.key
<1>1. store \in ContextStore /\ Fits(store)
  BY Zenon DEF TypeOK, RequestFitsKey
<1>2. /\ Fits(ResetState(store)) /\ Fits(Loaded(store)) /\ Fits(Reopened(store))
      /\ \A k \in Key : /\ Fits(Generated(store, k)) /\ Fits(HalfGenerated(store, k))
                         /\ Fits(Reopened(HalfGenerated(store, k)))
                         /\ Fits([store EXCEPT !.cert = k])
  BY <1>1, Zenon
     DEF ContextStore, ResetState, EmptyStore, Loaded, Generated, HalfGenerated, Reopened
<1>3. SUFFICES Fits(store')
  BY Zenon DEF RequestFitsKey
<1> HIDE DEF Fits
<1>4. \A s \in Generations : Fits(s)
  BY <1>2, Zenon DEF Generations, Ungenerated
<1>5. \A s \in Requested(store, Generations) : Fits(s)
  BY <1>2, <1>4, Zenon DEF Requested
<1>7. CASE (\E c \in Conn : ConnectSecurely(c)) \/ NoSSLContext
  BY <1>5, <1>7, Zenon DEF ConnectSecurely, NoSSLContext
<1>8. CASE GenerationThrows \/ ExchangeThrows
  BY <1>2, <1>8, Zenon DEF GenerationThrows, ExchangeThrows, Ungenerated
<1>9. CASE ExchangeConnected
  BY <1>4, <1>9, Zenon DEF ExchangeConnected
<1>10. CASE DesktopSigns
  BY <1>2, <1>10, Zenon DEF DesktopSigns
<1>11. CASE Crash \/ Kill
  BY <1>2, <1>11, Zenon DEF Crash, SendRequestCrashes, FallbackCrashes, Kill, Relaunched
<1>6. CASE Stop \/ SyncArrives \/ ConnectedReturns \/ DisconnectedReturns
  BY <1>1, <1>6, Zenon DEF Stop, SyncArrives, ConnectedReturns, DisconnectedReturns
<1>12. CASE \/ Start \/ StopEnds \/ DelayOver \/ StartSync \/ SendRequest \/ DesktopForgets
            \/ BecomeSteady \/ SendMessage \/ MessageTask \/ Refused \/ ConnectThrows
            \/ SecureConnected \/ UNCHANGED managerVars
  BY <1>1, <1>12, Zenon
     DEF Start, StopEnds, DelayOver, StartSync, SendRequest, DesktopForgets, BecomeSteady,
         SendMessage, MessageTask, Refused, ConnectThrows, SecureConnected, managerVars
<1>13. ASSUME NEW c \in Conn,
              \/ ConnectInsecurely(c) \/ Answered(c) \/ AnsweredNotImplemented(c) \/ Lost(c)
              \/ OnConnected(c) \/ OnClosed(c)
       PROVE  Fits(store')
  BY <1>1, <1>13, Zenon
     DEF ConnectInsecurely, Answered, AnsweredNotImplemented, Lost, OnConnected, OnClosed
<1> QED
  BY <1>6, <1>7, <1>8, <1>9, <1>10, <1>11, <1>12, <1>13, Zenon DEF Next, Quiet, FlipperThread

\* Every step of the three threads, of the desktop and of the process keeps the types of
\* the members, for any sets of keys and connections.
THEOREM ConnTypeCorrect == Spec => []TypeOK
BY TypeInit, TypeStep, PTL DEF Spec

\* A certificate issued for the request that is in memory or on disk fits the private
\* key on disk, whatever fails or dies while the store is written and reset.
THEOREM RequestFitsKeyCorrect == Spec => []RequestFitsKey
<1>1. Init => RequestFitsKey
  BY DEF Init, RequestFitsKey, EmptyStore
<1> QED
  BY <1>1, ConnTypeCorrect, FitsStep, PTL DEF Spec

-----------------------------------------------------------------------------
(* Connections.  Most steps are gentle: they at most let open connections close. *)

Gentle ==
    /\ isOpen' = isOpen
    /\ trusted' = trusted
    /\ thread' = thread \/ (~Waiting /\ ~Waiting')
    /\ \A c \in Conn :
         /\ conns'[c].secure = conns[c].secure
         /\ \/ conns'[c].life = conns[c].life
            \/ conns[c].life = "open" /\ conns'[c].life = "closing"
         /\ conns'[c].asked # {} => conns'[c].life \in {"open", "closing"}

LEMMA ClosingIsGentle ==
    ASSUME TypeOK, AskedIsLive, NEW c,
           conns' \in {conns, Close(conns, c), CloseLater(conns, c)}
    PROVE  \A d \in Conn :
             /\ conns'[d].secure = conns[d].secure
             /\ \/ conns'[d].life = conns[d].life
                \/ conns[d].life = "open" /\ conns'[d].life = "closing"
             /\ conns'[d].asked # {} => conns'[d].life \in {"open", "closing"}
<1>1. conns \in [Conn -> Connection]
  BY Zenon DEF TypeOK
<1>2. \A d \in Conn : conns[d].asked # {} => conns[d].life \in {"open", "closing"}
  BY Zenon DEF AskedIsLive, Live
<1>3. CASE conns' = conns
  BY <1>2, <1>3, Zenon
<1>4. CASE conns' = Close(conns, c)
  BY <1>1, <1>2, <1>4, CloseFacts
<1>5. CASE conns' = CloseLater(conns, c)
  BY <1>1, <1>2, <1>5, CloseLaterFacts
<1> QED
  BY <1>3, <1>4, <1>5, Zenon

\* An answer arrives on c and client_ is destroyed.
LEMMA AnswerFacts ==
    ASSUME TypeOK, AskedIsLive, NEW c \in Conn, Answered(c) \/ AnsweredNotImplemented(c)
    PROVE  /\ Live(c) /\ conns[c].asked # {} /\ client' = NoConn
           /\ \E k \in conns[c].asked : conns'[c].asked \subseteq conns[c].asked \ {k}
           /\ \A d \in Conn :
                /\ conns'[d].secure = conns[d].secure
                /\ \/ conns'[d].life = conns[d].life
                   \/ conns[d].life = "open" /\ conns'[d].life = "closing"
                /\ conns'[d].asked # {} => conns'[d].life \in {"open", "closing"}
                /\ conns'[d].asked \subseteq conns[d].asked
<1>1. PICK k \in conns[c].asked :
        /\ Live(c) /\ client' = NoConn
        /\ conns' = Close([conns EXCEPT ![c].asked = conns[c].asked \ {k}], client)
  BY Zenon DEF Answered, AnsweredNotImplemented
<1> DEFINE cs == [conns EXCEPT ![c].asked = conns[c].asked \ {k}]
<1>2. conns[c].asked \ {k} \subseteq Csr
  BY Zenon DEF TypeOK, Connection
<1>3. /\ cs \in [Conn -> Connection]
      /\ \A d \in Conn : d # c => cs[d] = conns[d]
      /\ cs[c].life = conns[c].life /\ cs[c].secure = conns[c].secure
      /\ cs[c].asked = conns[c].asked \ {k}
  BY <1>2, AskedChanges, ZenonT(30)
<1>4. \A d \in Conn : conns[d].asked # {} => conns[d].life \in {"open", "closing"}
  BY Zenon DEF AskedIsLive, Live
<1>5. conns' = Close(cs, client)
  BY <1>1, Zenon
<1> HIDE DEF cs
<1>6. \A d \in Conn :
        /\ conns'[d].secure = cs[d].secure
        /\ \/ conns'[d] = cs[d]
           \/ /\ cs[d].life = "open"
              /\ conns'[d].life = "closing" /\ conns'[d].asked = {}
  <2>1. cs \in [Conn -> Connection]
    BY <1>3, Zenon
  <2> QED
    BY <1>5, <2>1, CloseFacts
<1>7. \A d \in Conn :
        /\ cs[d].secure = conns[d].secure /\ cs[d].life = conns[d].life
        /\ cs[d].asked \subseteq conns[d].asked
  BY <1>3, Zenon
<1>8. conns'[c].asked \subseteq conns[c].asked \ {k}
  BY <1>3, <1>6, Zenon
<1>9. \A d \in Conn :
        /\ conns'[d].secure = conns[d].secure
        /\ \/ conns'[d].life = conns[d].life
           \/ conns[d].life = "open" /\ conns'[d].life = "closing"
        /\ conns'[d].asked # {} => conns'[d].life \in {"open", "closing"}
        /\ conns'[d].asked \subseteq conns[d].asked
  BY <1>4, <1>6, <1>7
<1> QED
  BY <1>1, <1>8, <1>9, Zenon

LEMMA GentleSteps ==
    ASSUME TypeOK, AskedIsLive,
           \/ Start \/ Stop \/ StopEnds \/ DelayOver \/ SyncArrives \/ StartSync
           \/ NoSSLContext \/ GenerationThrows \/ ConnectedReturns \/ DisconnectedReturns
           \/ ExchangeConnected \/ ExchangeThrows \/ SecureConnected \/ SendRequest
           \/ SendMessage \/ MessageTask \/ DesktopSigns \/ DesktopForgets \/ BecomeSteady
           \/ \E c \in Conn : Answered(c) \/ AnsweredNotImplemented(c) \/ Lost(c)
           \/ UNCHANGED managerVars
    PROVE  Gentle
<1> USE DEF members, queues, arrivals, outside, history
<1>1. CASE \/ Start \/ DelayOver \/ SyncArrives \/ SendMessage \/ MessageTask
           \/ ConnectedReturns \/ DisconnectedReturns \/ DesktopSigns \/ DesktopForgets
           \/ BecomeSteady \/ UNCHANGED managerVars
  <2>1. UNCHANGED <<isOpen, trusted, thread, conns>>
    BY <1>1, ZenonT(30)
       DEF Start, DelayOver, SyncArrives, SendMessage, MessageTask, ConnectedReturns,
           DisconnectedReturns, DesktopSigns, DesktopForgets, BecomeSteady, managerVars
  <2> QED
    BY <2>1, ClosingIsGentle, Zenon DEF Gentle
<1>2. CASE Stop \/ StopEnds
  <2>1. UNCHANGED <<isOpen, trusted, thread>> /\ conns' \in {conns, CloseLater(conns, client)}
    BY <1>2, Zenon DEF Stop, StopEnds
  <2> QED
    BY <2>1, ClosingIsGentle DEF Gentle
<1>3. CASE StartSync \/ NoSSLContext \/ GenerationThrows
  <2>1. UNCHANGED <<isOpen, trusted, conns>>
    BY <1>3, Zenon DEF StartSync, NoSSLContext, GenerationThrows
  <2>2. ~Waiting
    BY <1>3, ThreadFacts, Zenon DEF StartSync, NoSSLContext, GenerationThrows, Waiting
  <2>3. thread' \in {Idle, [Idle EXCEPT !.at = "exchange"], [Idle EXCEPT !.at = "secure"]}
    BY <1>3, Zenon DEF StartSync, NoSSLContext, AttemptFails, GenerationThrows
  <2>4. ~Waiting'
    <3>1. thread'.at \in {"idle", "exchange", "secure"}
      BY <2>3, ThreadFacts, ZenonT(30)
    <3> QED
      BY <3>1, Zenon DEF Waiting
  <2> QED
    BY <2>1, <2>2, <2>4, ClosingIsGentle, Zenon DEF Gentle
<1>4. CASE ExchangeConnected \/ ExchangeThrows \/ SecureConnected
  <2>1. UNCHANGED <<isOpen, trusted>> /\ conns' = CloseLater(conns, client) /\ thread' = Idle
    BY <1>4, Zenon DEF ExchangeConnected, ExchangeThrows, SecureConnected
  <2>2. ~Waiting /\ ~Waiting'
    BY <1>4, <2>1, ThreadFacts, Zenon
       DEF ExchangeConnected, ExchangeThrows, SecureConnected, Waiting
  <2> QED
    BY <2>1, <2>2, ClosingIsGentle DEF Gentle
<1>5. CASE SendRequest
  <2>1. UNCHANGED <<isOpen, trusted, thread>>
    BY <1>5, Zenon DEF SendRequest
  <2>2. CASE conns' = conns
    BY <2>1, <2>2, ClosingIsGentle, Zenon DEF Gentle
  <2>3. CASE conns' # conns
    <3> DEFINE A == conns[client].asked \cup {Head(tasks).csr}
    <3>1. /\ client \in Conn /\ conns[client].life = "open"
          /\ conns' = [conns EXCEPT ![client].asked = A]
      BY <1>5, <2>3, Zenon DEF SendRequest, TypeOK
    <3>2. Head(tasks).csr \in Csr
      BY <1>5, TailTasks, Zenon DEF SendRequest, Task
    <3>3. A \subseteq Csr
      BY <3>1, <3>2, Zenon DEF TypeOK, Connection
    <3> HIDE DEF A
    <3>4. /\ \A d \in Conn : d # client => conns'[d] = conns[d]
          /\ conns'[client].life = "open" /\ conns'[client].secure = conns[client].secure
      BY <3>1, <3>3, AskedChanges, Zenon
    <3> QED
      BY <2>1, <3>1, <3>4, Zenon DEF Gentle, AskedIsLive, Live
  <2> QED
    BY <2>2, <2>3, Zenon
<1>6. ASSUME NEW c \in Conn, Answered(c) \/ AnsweredNotImplemented(c) PROVE Gentle
  <2>1. UNCHANGED <<isOpen, trusted, thread>>
    BY <1>6, Zenon DEF Answered, AnsweredNotImplemented
  <2> QED
    BY <1>6, <2>1, AnswerFacts, Zenon DEF Gentle
<1>7. ASSUME NEW c \in Conn, Lost(c) PROVE Gentle
  <2>1. UNCHANGED <<isOpen, trusted, thread>> /\ conns' = Close(conns, c)
    BY <1>7, Zenon DEF Lost
  <2> QED
    BY <2>1, ClosingIsGentle DEF Gentle
<1> QED
  BY <1>1, <1>2, <1>3, <1>4, <1>5, <1>6, <1>7, Zenon

\* The steps that are not gentle.
LEMMA ConnectFacts ==
    ASSUME TypeOK, NEW c \in Conn, ConnectInsecurely(c) \/ ConnectSecurely(c)
    PROVE  /\ ~Waiting /\ Busy /\ conns[c].life = "closed" /\ client # c /\ client' = client
           /\ Waiting' /\ Busy' /\ thread'.conn = c /\ thread' # Idle /\ thread # Idle
           /\ conns'[c].life = "connecting" /\ conns'[c].asked = {}
           /\ trusted' \in BOOLEAN /\ (trusted' <=> conns'[c].secure)
           /\ \A d \in Conn : d # c => conns'[d] = conns[d]
           /\ UNCHANGED <<isStarted, isOpen, timers, inbox, tasks, stopping, event>>
           /\ UNCHANGED <<stranded, nullUsed, stops>>
<1> USE DEF members, queues, arrivals, outside, history
<1>1. conns \in [Conn -> Connection]
  BY Zenon DEF TypeOK
<1>2. CASE ConnectInsecurely(c)
  <2>1. conns' = [conns EXCEPT ![c] = [Dead EXCEPT !.life = "connecting", !.secure = FALSE]]
    BY <1>2, Zenon DEF ConnectInsecurely
  <2>2. /\ conns'[c].life = "connecting" /\ conns'[c].asked = {} /\ conns'[c].secure = FALSE
        /\ \A d \in Conn : d # c => conns'[d] = conns[d]
    BY <1>1, <2>1, DeadFacts, Zenon
  <2>3. thread.at = "exchange" /\ thread' = [at |-> "wait exchange", conn |-> c] /\ trusted' = FALSE
    BY <1>2, Zenon DEF ConnectInsecurely
  <2>4. /\ ~Waiting /\ Busy /\ Waiting' /\ Busy' /\ thread'.conn = c
        /\ thread' # Idle /\ thread # Idle
    <3>1. thread'.at \in {"wait exchange", "wait secure"} /\ thread'.conn = c
      BY <2>3, Zenon
    <3> QED
      BY <2>3, <3>1, IdleAt, Zenon DEF Waiting, Busy
  <2> QED
    BY <1>2, <2>2, <2>3, <2>4, Zenon DEF ConnectInsecurely, Unused
<1>3. CASE ConnectSecurely(c)
  <2>1. conns' = [conns EXCEPT ![c] = [Dead EXCEPT !.life = "connecting", !.secure = TRUE]]
    BY <1>3, ZenonT(30) DEF ConnectSecurely
  <2>2. /\ conns'[c].life = "connecting" /\ conns'[c].asked = {} /\ conns'[c].secure = TRUE
        /\ \A d \in Conn : d # c => conns'[d] = conns[d]
    BY <1>1, <2>1, DeadFacts, Zenon
  <2>3. thread.at = "secure" /\ thread' = [at |-> "wait secure", conn |-> c] /\ trusted' = TRUE
    BY <1>3, Zenon DEF ConnectSecurely
  <2>4. /\ ~Waiting /\ Busy /\ Waiting' /\ Busy' /\ thread'.conn = c
        /\ thread' # Idle /\ thread # Idle
    <3>1. thread'.at \in {"wait exchange", "wait secure"} /\ thread'.conn = c
      BY <2>3, Zenon
    <3> QED
      BY <2>3, <3>1, IdleAt, Zenon DEF Waiting, Busy
  <2> QED
    BY <1>3, <2>2, <2>3, <2>4, Zenon DEF ConnectSecurely, Unused
<1> QED
  BY <1>2, <1>3, Zenon

LEMMA RefusedFacts ==
    ASSUME TypeOK, Refused \/ ConnectThrows
    PROVE  /\ Waiting /\ Busy /\ ~Waiting' /\ ~Busy' /\ thread' = Idle /\ thread # Idle
           /\ thread.conn \in Conn => conns'[thread.conn] = Dead
           /\ \A d \in Conn : d # thread.conn => conns'[d] = conns[d]
           /\ timers' = Delayed
           /\ UNCHANGED <<isStarted, isOpen, trusted, client, inbox, tasks, stopping, event>>
           /\ UNCHANGED <<stranded, nullUsed, stops>>
<1> USE DEF members, queues, arrivals, outside, history
<1>1. Waiting /\ thread' = Idle /\ conns' = [conns EXCEPT ![thread.conn] = Dead]
  BY Zenon DEF Refused, ConnectThrows, AttemptFails
<1>2. Waiting /\ Busy /\ ~Waiting' /\ ~Busy' /\ thread # Idle
  BY <1>1, ThreadFacts, Zenon DEF Waiting, Busy
<1>3. /\ thread.conn \in Conn => conns'[thread.conn] = Dead
      /\ \A d \in Conn : d # thread.conn => conns'[d] = conns[d]
  BY <1>1, Zenon DEF TypeOK
<1> QED
  BY <1>1, <1>2, <1>3, Zenon DEF Refused, ConnectThrows, AttemptFails

LEMMA OnConnectedFacts ==
    ASSUME TypeOK, NEW c \in Conn, OnConnected(c)
    PROVE  /\ Waiting /\ Busy /\ thread.conn = c /\ ~Waiting' /\ ~Busy'
           /\ thread # Idle /\ thread' # Idle /\ thread'.conn = c
           /\ isOpen' = TRUE /\ conns'[c].life = "open"
           /\ conns'[c].secure = conns[c].secure /\ conns'[c].asked = conns[c].asked
           /\ \A d \in Conn : d # c => conns'[d] = conns[d]
           /\ event = "none" /\ event' = (IF trusted THEN "onConnected" ELSE "opened")
           /\ UNCHANGED <<isStarted, trusted, client, timers, inbox, tasks, stopping>>
           /\ UNCHANGED <<stranded, nullUsed, stops>>
<1> USE DEF members, queues, arrivals, outside, history
<1>1. conns' = [conns EXCEPT ![c].life = "open"]
  BY Zenon DEF OnConnected
<1>2. /\ conns'[c].life = "open"
      /\ conns'[c].secure = conns[c].secure /\ conns'[c].asked = conns[c].asked
      /\ \A d \in Conn : d # c => conns'[d] = conns[d]
  BY <1>1, Opens, Zenon
<1>3. /\ thread.at \in {"wait exchange", "wait secure"} /\ thread.conn = c
      /\ thread' = [thread EXCEPT !.at =
                      IF thread.at = "wait secure" THEN "got secure" ELSE "got exchange"]
  BY Zenon DEF OnConnected, Waiting
<1>4. thread'.at \in {"got secure", "got exchange"} /\ thread'.conn = c
  BY <1>3, Zenon DEF TypeOK, Thread
<1>5. Waiting /\ Busy /\ ~Waiting' /\ ~Busy' /\ thread # Idle /\ thread' # Idle
  BY <1>3, <1>4, ThreadFacts, Zenon DEF Waiting, Busy
<1> QED
  BY <1>2, <1>3, <1>4, <1>5, Zenon DEF OnConnected

LEMMA OnClosedFacts ==
    ASSUME TypeOK, NEW c \in Conn, OnClosed(c)
    PROVE  /\ conns[c].life = "closing" /\ conns'[c] = Dead
           /\ \A d \in Conn : d # c => conns'[d] = conns[d]
           /\ isOpen' = FALSE /\ trusted' = (trusted /\ ~isOpen)
           /\ event = "none"
           /\ event' = (IF IsOpen THEN "onDisconnected" ELSE IF isOpen THEN "closed" ELSE "none")
           /\ UNCHANGED <<isStarted, client, timers, inbox, tasks, thread, stopping>>
           /\ UNCHANGED <<stranded, nullUsed, stops>>
<1> USE DEF members, queues, arrivals, outside, history
<1>1. conns' = [conns EXCEPT ![c] = Dead]
  BY Zenon DEF OnClosed
<1>2. conns'[c] = Dead /\ \A d \in Conn : d # c => conns'[d] = conns[d]
  BY <1>1, Zenon DEF TypeOK
<1> QED
  BY <1>2, Zenon DEF OnClosed

LEMMA RelaunchFacts ==
    ASSUME Crash \/ Kill
    PROVE  /\ isStarted' = FALSE /\ isOpen' = FALSE /\ client' = NoConn /\ timers' = 0
           /\ inbox' = <<>> /\ tasks' = <<>> /\ thread' = Idle /\ stopping' = FALSE
           /\ event' = "none"
           /\ \A c \in Conn : conns'[c] = Dead
           /\ ~Waiting' /\ ~Busy' /\ ~HasSync' /\ DOMAIN tasks' = {}
           /\ ~HasDue' /\ DOMAIN inbox' = {} /\ ~Closing'
           /\ UNCHANGED <<stranded, stops>>
<1> USE DEF members, queues, arrivals, outside, history
<1>1. (\E s : Relaunched(s)) /\ UNCHANGED <<stranded, stops>>
  BY Zenon DEF Crash, SendRequestCrashes, FallbackCrashes, Kill
<1>2. /\ isStarted' = FALSE /\ isOpen' = FALSE /\ client' = NoConn /\ timers' = 0
      /\ inbox' = <<>> /\ tasks' = <<>> /\ thread' = Idle /\ stopping' = FALSE
      /\ event' = "none" /\ conns' = [c \in Conn |-> Dead]
  BY <1>1, Zenon DEF Relaunched
<1>3. ~Waiting' /\ ~Busy' /\ DOMAIN tasks' = {} /\ DOMAIN inbox' = {} /\ ~Closing'
  <2>1. DOMAIN tasks' = {} /\ DOMAIN inbox' = {}
    BY <1>2
  <2> QED
    BY <1>2, <2>1, IdleAt, Zenon DEF Waiting, Busy, Closing
<1>4. ~HasSync' /\ ~HasDue'
  BY <1>3, Zenon DEF HasSync, HasDue
<1> QED
  BY <1>1, <1>2, <1>3, <1>4, Zenon

\* Every step is gentle or one of these.
LEMMA StepKinds ==
    ASSUME TypeOK, AskedIsLive, [Next]_managerVars
    PROVE  \/ Gentle
           \/ \E c \in Conn : ConnectInsecurely(c) \/ ConnectSecurely(c)
           \/ Refused \/ ConnectThrows
           \/ \E c \in Conn : OnConnected(c) \/ OnClosed(c)
           \/ Crash \/ Kill
BY GentleSteps, Zenon DEF Next, Quiet, FlipperThread

LEMMA ConnStep == TypeOK /\ ConnInv /\ [Next]_managerVars => ConnInv'
<1> SUFFICES ASSUME TypeOK, ConnInv, [Next]_managerVars PROVE ConnInv'
  BY Zenon
<1>0. /\ Waiting => thread.conn \in Conn
      /\ \A c \in Conn : conns[c].life = "connecting" <=> Waiting /\ thread.conn = c
      /\ isOpen => \E c \in Conn : conns[c].life \in {"open", "closing"}
      /\ \A c \in Conn : conns[c].asked # {} => conns[c].life \in {"open", "closing"}
  BY Zenon DEF ConnInv, Waits, ConnectingIsWaitedFor, OpenIsLive, Live, AskedIsLive
<1>1. SUFFICES /\ Waiting' => thread'.conn \in Conn
               /\ \A c \in Conn : conns'[c].life = "connecting" <=> Waiting' /\ thread'.conn = c
               /\ isOpen' => \E c \in Conn : conns'[c].life \in {"open", "closing"}
               /\ \A c \in Conn : conns'[c].asked # {} => conns'[c].life \in {"open", "closing"}
  BY Zenon DEF ConnInv, Waits, ConnectingIsWaitedFor, OpenIsLive, Live, AskedIsLive
<1>2. CASE Gentle
  <2>1. (Waiting' <=> Waiting) /\ (Waiting' => thread' = thread)
    BY <1>2, Zenon DEF Gentle, Waiting
  <2>2. \A c \in Conn : conns'[c].life = "connecting" <=> conns[c].life = "connecting"
    BY <1>2, Zenon DEF Gentle
  <2>3. isOpen' => \E c \in Conn : conns'[c].life \in {"open", "closing"}
    BY <1>0, <1>2, Zenon DEF Gentle
  <2> QED
    BY <1>0, <1>2, <2>1, <2>2, <2>3 DEF Gentle
<1>3. ASSUME NEW c \in Conn, ConnectInsecurely(c) \/ ConnectSecurely(c) PROVE ConnInv'
  <2>1. /\ ~Waiting /\ Waiting' /\ thread'.conn = c /\ conns[c].life = "closed"
        /\ conns'[c].life = "connecting" /\ conns'[c].asked = {} /\ isOpen' = isOpen
        /\ \A d \in Conn : d # c => conns'[d] = conns[d]
    BY <1>3, ConnectFacts, Zenon
  <2>2. isOpen' => \E d \in Conn : conns'[d].life \in {"open", "closing"}
    BY <1>0, <2>1, Zenon
  <2> QED
    BY <1>0, <2>1, <2>2, Zenon
       DEF ConnInv, Waits, ConnectingIsWaitedFor, OpenIsLive, Live, AskedIsLive
<1>4. CASE Refused \/ ConnectThrows
  <2>1. /\ Waiting /\ ~Waiting' /\ conns'[thread.conn] = Dead /\ isOpen' = isOpen
        /\ \A d \in Conn : d # thread.conn => conns'[d] = conns[d]
    BY <1>0, <1>4, RefusedFacts, Zenon
  <2>2. \A c \in Conn : conns'[c].life = "closed" \/ (conns'[c] = conns[c] /\ c # thread.conn)
    BY <2>1, DeadIsClosed, Zenon
  <2>3. \A c \in Conn : conns'[c].life # "connecting"
    BY <1>0, <2>2
  <2>4. isOpen' => \E c \in Conn : conns'[c].life \in {"open", "closing"}
    BY <1>0, <2>1, Zenon
  <2>5. \A c \in Conn : conns'[c].asked # {} => conns'[c].life \in {"open", "closing"}
    BY <1>0, <2>1, DeadIsClosed, Zenon
  <2> QED
    BY <2>1, <2>3, <2>4, <2>5, Zenon
<1>5. ASSUME NEW c \in Conn, OnConnected(c) PROVE ConnInv'
  <2>1. /\ Waiting /\ thread.conn = c /\ ~Waiting' /\ conns'[c].life = "open"
        /\ \A d \in Conn : d # c => conns'[d] = conns[d]
    BY <1>5, OnConnectedFacts, Zenon
  <2> QED
    BY <1>0, <2>1, SMTT(30) DEF ConnInv, Waits, ConnectingIsWaitedFor, OpenIsLive, Live, AskedIsLive
<1>6. ASSUME NEW c \in Conn, OnClosed(c) PROVE ConnInv'
  <2>1. /\ conns[c].life = "closing" /\ conns'[c] = Dead /\ thread' = thread /\ isOpen' = FALSE
        /\ \A d \in Conn : d # c => conns'[d] = conns[d]
    BY <1>6, OnClosedFacts, Zenon
  <2>2. Waiting' <=> Waiting
    BY <2>1, Zenon DEF Waiting
  <2>3. \A d \in Conn : conns'[d].life = "connecting" <=> Waiting' /\ thread'.conn = d
    BY <1>0, <2>1, <2>2, DeadIsClosed
  <2>4. \A d \in Conn : conns'[d].asked # {} => conns'[d].life \in {"open", "closing"}
    BY <1>0, <2>1, DeadIsClosed, Zenon
  <2> QED
    BY <1>0, <2>1, <2>2, <2>3, <2>4, Zenon
       DEF ConnInv, Waits, ConnectingIsWaitedFor, OpenIsLive, AskedIsLive, Live
<1>7. CASE Crash \/ Kill
  BY <1>7, RelaunchFacts, DeadFacts, Zenon
<1>8. AskedIsLive
  BY Zenon DEF ConnInv
<1> QED
  BY <1>2, <1>3, <1>4, <1>5, <1>6, <1>7, <1>8, StepKinds, Zenon
     DEF ConnInv, Waits, ConnectingIsWaitedFor, OpenIsLive, Live, AskedIsLive

-----------------------------------------------------------------------------
(* The queue and the chain of reconnect() calls. *)

LEMMA SyncAppended ==
    ASSUME TypeOK, tasks' = Append(tasks, Sync)
    PROVE  HasSync'
BY AppendTasks, TaskFacts, Zenon DEF HasSync

LEMMA OtherAppended ==
    ASSUME TypeOK, NEW x \in Task, x # Sync, tasks' = Append(tasks, x)
    PROVE  HasSync' <=> HasSync
BY AppendTasks, Zenon DEF HasSync

LEMMA OtherRemoved ==
    ASSUME TypeOK, tasks # <<>>, Head(tasks) # Sync, tasks' = Tail(tasks)
    PROVE  HasSync' <=> HasSync
<1>1. /\ Head(tasks) = tasks[1]
      /\ \A i \in DOMAIN tasks' : i + 1 \in DOMAIN tasks /\ tasks'[i] = tasks[i + 1]
      /\ \A i \in DOMAIN tasks :
            i # 1 => i - 1 \in DOMAIN tasks' /\ tasks'[i - 1] = tasks[i]
  BY TailTasks, Zenon
<1>2. ASSUME HasSync PROVE HasSync'
  <2>1. PICK i \in DOMAIN tasks : tasks[i] = Sync
    BY <1>2, Zenon DEF HasSync
  <2>2. i # 1
    BY <1>1, <2>1, Zenon
  <2> QED
    BY <1>1, <2>1, <2>2, Zenon DEF HasSync
<1>3. ASSUME HasSync' PROVE HasSync
  BY <1>1, <1>3 DEF HasSync
<1> QED
  BY <1>2, <1>3, Zenon

LEMMA DueAppended ==
    ASSUME TypeOK, inbox' = Append(inbox, Due)
    PROVE  HasDue' /\ (UniqueDue /\ ~HasDue => UniqueDue')
<1>1. HasDue'
  BY AppendInbox, ArrivalFacts, Zenon DEF HasDue
<1>2. UniqueDue /\ ~HasDue => UniqueDue'
  BY AppendInbox, ArrivalFacts, Zenon DEF UniqueDue, HasDue
<1> QED
  BY <1>1, <1>2, Zenon

LEMMA MessageAppended ==
    ASSUME TypeOK, SendMessage
    PROVE  (HasDue' <=> HasDue) /\ (UniqueDue => UniqueDue')
<1>1. PICK c \in Conn \cup {NoConn} : inbox' = Append(inbox, Message(c))
  BY SendFacts, Zenon
<1>2. /\ \A i \in DOMAIN inbox : i \in DOMAIN inbox' /\ inbox'[i] = inbox[i]
      /\ \A i \in DOMAIN inbox' : inbox'[i] = Due => i \in DOMAIN inbox /\ inbox[i] = Due
  BY <1>1, AppendInbox, ArrivalFacts
<1> QED
  BY <1>2, Zenon DEF HasDue, UniqueDue

LEMMA ArrivalTaken ==
    ASSUME TypeOK, inbox # <<>>, inbox' = Tail(inbox)
    PROVE  /\ Head(inbox) # Due => (HasDue' <=> HasDue)
           /\ UniqueDue => UniqueDue' /\ (Head(inbox) = Due => HasDue /\ ~HasDue')
<1>1. /\ 1 \in DOMAIN inbox /\ Head(inbox) = inbox[1]
      /\ DOMAIN inbox' \subseteq Nat \ {0}
      /\ \A i \in DOMAIN inbox' : i + 1 \in DOMAIN inbox /\ inbox'[i] = inbox[i + 1]
      /\ \A i \in DOMAIN inbox :
            i # 1 => i - 1 \in DOMAIN inbox' /\ inbox'[i - 1] = inbox[i]
  BY TailInbox, Zenon
<1>2. /\ \A i \in DOMAIN inbox' : i + 1 # 1
      /\ \A i, j \in DOMAIN inbox' : i + 1 = j + 1 => i = j
  BY <1>1
<1>3. ASSUME Head(inbox) # Due PROVE HasDue' <=> HasDue
  <2>1. ASSUME HasDue PROVE HasDue'
    <3>1. PICK i \in DOMAIN inbox : inbox[i] = Due
      BY <2>1, Zenon DEF HasDue
    <3>2. i # 1
      BY <1>1, <1>3, <3>1, Zenon
    <3> QED
      BY <1>1, <3>1, <3>2, Zenon DEF HasDue
  <2>2. ASSUME HasDue' PROVE HasDue
    BY <1>1, <2>2 DEF HasDue
  <2> QED
    BY <2>1, <2>2, Zenon
<1>4. UniqueDue => UniqueDue'
  BY <1>1, <1>2 DEF UniqueDue
<1>5. UniqueDue /\ Head(inbox) = Due => HasDue /\ ~HasDue'
  BY <1>1, <1>2 DEF UniqueDue, HasDue
<1> QED
  BY <1>3, <1>4, <1>5, Zenon

LEMMA ScheduledStep == TypeOK /\ Scheduled /\ [Next]_managerVars => Scheduled'
<1> SUFFICES ASSUME TypeOK, Scheduled, [Next]_managerVars, isStarted', ~stranded'
             PROVE  Ahead'
  BY Zenon DEF Scheduled
<1> USE DEF members, queues, arrivals, outside, history
<1>0. (isStarted /\ ~stranded => Ahead) /\ timers \in Nat
  BY Zenon DEF Scheduled, TypeOK
<1>a. ASSUME isStarted, ~stranded, UNCHANGED <<isOpen, timers, event>>,
             Busy => Busy', HasSync => HasSync', HasDue => HasDue'
      PROVE  Ahead'
  BY <1>0, <1>a, Zenon DEF Ahead, Closing
<1>b. ASSUME timers' > 0 PROVE Ahead'
  BY <1>b, Zenon DEF Ahead
<1>c. ASSUME HasSync' \/ HasDue' \/ Busy' \/ isOpen' PROVE Ahead'
  BY <1>c, Zenon DEF Ahead
<1>1. CASE Start
  <2>1. timers' > 0
    BY <1>0, <1>1 DEF Start
  <2> QED
    BY <1>b, <2>1, Zenon
<1>2. CASE Stop
  BY <1>2, Zenon DEF Stop
<1>3. CASE DelayOver
  BY <1>3, <1>c, DueAppended, Zenon DEF DelayOver
<1>17. CASE SyncArrives
  BY <1>17, <1>c, SyncAppended, Zenon DEF SyncArrives
<1>4. CASE StartSync
  <2>1. isStarted /\ ~stranded /\ isOpen' = isOpen
    BY <1>4, Zenon DEF StartSync
  <2>2. CASE IsOpen
    BY <1>c, <2>1, <2>2, Zenon DEF IsOpen
  <2>3. CASE ~IsOpen
    <3>1. thread'.at \in {"exchange", "secure"}
      BY <1>4, <2>1, <2>3, ThreadFacts, Zenon DEF StartSync
    <3> QED
      BY <1>c, <3>1, Zenon DEF Busy
  <2> QED
    BY <2>2, <2>3, Zenon
<1>5. ASSUME NEW c \in Conn, ConnectInsecurely(c) \/ ConnectSecurely(c) PROVE Ahead'
  BY <1>5, <1>c, ConnectFacts, Zenon
<1>6. CASE NoSSLContext \/ Refused \/ ConnectThrows
  <2>1. timers' = Delayed /\ isStarted' = isStarted
    BY <1>6, Zenon DEF NoSSLContext, Refused, ConnectThrows, AttemptFails
  <2>2. timers' > 0
    BY <1>0, <2>1 DEF Delayed
  <2> QED
    BY <1>b, <2>2, Zenon
<1>7. CASE GenerationThrows \/ ExchangeThrows
  BY <1>7, Zenon DEF GenerationThrows, ExchangeThrows
<1>8. CASE ExchangeConnected
  <2>1. HasSync => HasSync'
    <3>1. store'.csr \in Csr /\ tasks' = Append(tasks, Request(store'.csr))
      BY <1>8, GenerationTypes, Zenon DEF ExchangeConnected
    <3> QED
      BY <3>1, OtherAppended, TaskFacts, Zenon
  <2>2. ~Busy /\ UNCHANGED <<isStarted, isOpen, timers, inbox, event, stranded>>
    BY <1>8, Zenon DEF ExchangeConnected, Busy
  <2>3. HasDue => HasDue'
    BY <2>2, Zenon DEF HasDue
  <2> QED
    BY <1>a, <2>1, <2>2, <2>3, Zenon
<1>9. CASE SecureConnected
  <2>1. ~Busy /\ UNCHANGED <<isStarted, isOpen, timers, inbox, tasks, event, stranded>>
    BY <1>9, Zenon DEF SecureConnected, Busy
  <2>2. (HasDue => HasDue') /\ (HasSync => HasSync')
    BY <2>1, Zenon DEF HasDue, HasSync
  <2> QED
    BY <1>a, <2>1, <2>2, Zenon
<1>10. CASE SendRequest
  <2>1. /\ tasks # <<>> /\ Head(tasks).run # "startSync" /\ tasks' = Tail(tasks)
        /\ UNCHANGED <<isStarted, isOpen, timers, inbox, thread, event, stranded>>
    BY <1>10, Zenon DEF SendRequest
  <2>2. HasSync' <=> HasSync
    BY <2>1, OtherRemoved, TaskFacts, Zenon
  <2>3. (HasDue => HasDue') /\ (Busy => Busy')
    BY <2>1, Zenon DEF HasDue, Busy
  <2> QED
    BY <1>a, <2>1, <2>2, <2>3, Zenon
<1>11. CASE SendMessage \/ MessageTask
  <2>1. HasDue' <=> HasDue
    BY <1>11, MessageAppended, ArrivalTaken, ArrivalFacts, Zenon DEF MessageTask
  <2>2. UNCHANGED <<isStarted, isOpen, timers, tasks, thread, event, stranded>>
    BY <1>11, Zenon DEF SendMessage, MessageTask
  <2>3. (HasSync => HasSync') /\ (Busy => Busy')
    BY <2>2, Zenon DEF HasSync, Busy
  <2> QED
    BY <1>a, <2>1, <2>2, <2>3, Zenon
<1>12. ASSUME UNCHANGED <<isStarted, isOpen, timers, inbox, tasks, thread, event, stranded>>
       PROVE  Ahead'
  <2>1. (HasDue => HasDue') /\ (HasSync => HasSync') /\ (Busy => Busy')
    BY <1>12, Zenon DEF HasDue, HasSync, Busy
  <2> QED
    BY <1>a, <1>12, <2>1, Zenon
<1>13. CASE StopEnds \/ DesktopSigns \/ DesktopForgets \/ BecomeSteady \/ UNCHANGED managerVars
  BY <1>12, <1>13, Zenon DEF StopEnds, DesktopSigns, DesktopForgets, BecomeSteady, managerVars
<1>14. ASSUME NEW c \in Conn, Answered(c) \/ AnsweredNotImplemented(c) \/ Lost(c) PROVE Ahead'
  BY <1>12, <1>14, Zenon DEF Answered, AnsweredNotImplemented, Lost
<1>15. ASSUME NEW c \in Conn, OnConnected(c) PROVE Ahead'
  BY <1>15, <1>c, OnConnectedFacts, Zenon
<1>16. ASSUME NEW c \in Conn, OnClosed(c) PROVE Ahead'
  <2>1. /\ UNCHANGED <<isStarted, timers, inbox, tasks, thread, stranded>> /\ isOpen' = FALSE
        /\ event = "none"
        /\ event' = (IF IsOpen THEN "onDisconnected" ELSE IF isOpen THEN "closed" ELSE "none")
    BY <1>16, OnClosedFacts, ZenonT(30)
  <2>2. CASE isOpen
    BY <2>1, <2>2, Zenon DEF Ahead, Closing
  <2>3. CASE ~isOpen
    <3>1. event' = event /\ isOpen' = isOpen
      BY <2>1, <2>3, Zenon DEF IsOpen, TypeOK
    <3> QED
      BY <1>12, <2>1, <3>1, Zenon
  <2> QED
    BY <2>2, <2>3, Zenon
<1>18. CASE ConnectedReturns
  <2>1. /\ event \in {"opened", "onConnected"}
        /\ UNCHANGED <<isStarted, isOpen, timers, inbox, tasks, thread, stranded>>
    BY <1>18, Zenon DEF ConnectedReturns, Opening
  <2>2. ~Closing
    BY <2>1, Zenon DEF Closing
  <2> QED
    BY <1>0, <2>1, <2>2, Zenon DEF Ahead, HasDue, HasSync, Busy
<1>19. CASE DisconnectedReturns
  <2>1. timers' > 0
    BY <1>0, <1>19 DEF DisconnectedReturns, Delayed
  <2> QED
    BY <1>b, <2>1, Zenon
<1>20. CASE Crash \/ Kill
  BY <1>20, RelaunchFacts, Zenon
<1> QED
  BY <1>1, <1>2, <1>3, <1>4, <1>5, <1>6, <1>7, <1>8, <1>9, <1>10, <1>11, <1>13, <1>14,
     <1>15, <1>16, <1>17, <1>18, <1>19, <1>20, Zenon DEF Next, Quiet, FlipperThread

LEMMA ConnInit == Init => ConnInv /\ Scheduled
<1> SUFFICES ASSUME Init PROVE ConnInv /\ Scheduled
  BY Zenon
<1>1. ~Waiting /\ ~isOpen /\ ~isStarted /\ \A c \in Conn : conns[c] = Dead
  BY IdleAt, Zenon DEF Init, Waiting
<1> QED
  BY <1>1, DeadFacts, Zenon
     DEF ConnInv, Waits, ConnectingIsWaitedFor, OpenIsLive, AskedIsLive, Scheduled

LEMMA ConnCorrect == Spec => [](TypeOK /\ ConnInv /\ Scheduled)
<1>1. TypeOK /\ ConnInv /\ Scheduled /\ [Next]_managerVars => (ConnInv /\ Scheduled)'
  BY ConnStep, ScheduledStep, Zenon
<1> QED
  BY <1>1, ConnInit, ConnTypeCorrect, PTL DEF Spec

\* The chain of reconnect() calls never breaks, for any number of connections, stops and
\* deaths of the process: a started manager always has a startSync ahead of it or a
\* connection whose end will schedule one.
THEOREM NeverStuckCorrect == Spec => []NeverStuck
<1>1. TypeOK /\ ConnInv /\ Scheduled => NeverStuck
  <2> SUFFICES ASSUME ConnInv, Scheduled PROVE NeverStuck
    BY Zenon
  <2>1. Busy => thread # Idle
    BY IdleAt, Zenon DEF Busy
  <2> QED
    BY <2>1, Zenon DEF ConnInv, OpenIsLive, Scheduled, Ahead, HasDue, HasSync, NeverStuck
<1> QED
  BY <1>1, ConnCorrect, PTL

-----------------------------------------------------------------------------
(* One connection at a time. *)

LEMMA UniqueAppended ==
    ASSUME TypeOK, UniqueSync, NEW x \in Task, x # Sync \/ ~HasSync, tasks' = Append(tasks, x)
    PROVE  UniqueSync'
BY AppendTasks DEF UniqueSync, HasSync

LEMMA UniqueTail ==
    ASSUME TypeOK, UniqueSync, tasks # <<>>, tasks' = Tail(tasks)
    PROVE  UniqueSync' /\ (Head(tasks) = Sync => ~HasSync')
<1>1. /\ 1 \in DOMAIN tasks /\ Head(tasks) = tasks[1]
      /\ DOMAIN tasks' \subseteq Nat \ {0}
      /\ \A i \in DOMAIN tasks' : i + 1 \in DOMAIN tasks /\ tasks'[i] = tasks[i + 1]
  BY TailTasks, Zenon
<1>2. \A i \in DOMAIN tasks' : i + 1 # 1
  BY <1>1
<1>3. \A i, j \in DOMAIN tasks' : i + 1 = j + 1 => i = j
  BY <1>1
<1> QED
  BY <1>1, <1>2, <1>3 DEF UniqueSync, HasSync

LEMMA StopsBefore ==
    ASSUME TypeOK, [Next]_managerVars, stops' = 0
    PROVE  stops = 0 /\ ~Stop
<1> USE DEF members, queues, arrivals, outside, history
<1>0. stops \in Nat
  BY ConnAssumption DEF ConnAssumption, TypeOK
<1>1. ~Stop
  BY <1>0 DEF Stop
<1>2. stops' = stops
  <2>6. CASE SyncArrives \/ ConnectedReturns \/ DisconnectedReturns
    BY <2>6, Zenon DEF SyncArrives, ConnectedReturns, DisconnectedReturns
  <2>1. CASE \/ Start \/ StopEnds \/ DelayOver \/ StartSync \/ SendRequest \/ DesktopForgets
             \/ BecomeSteady \/ SendMessage \/ MessageTask \/ Refused \/ ConnectThrows
             \/ SecureConnected \/ UNCHANGED managerVars
    BY <2>1, Zenon
       DEF Start, StopEnds, DelayOver, StartSync, SendRequest, DesktopForgets, BecomeSteady,
           SendMessage, MessageTask, Refused, ConnectThrows, SecureConnected, managerVars
  <2>2. CASE \/ NoSSLContext \/ GenerationThrows \/ ExchangeThrows \/ ExchangeConnected
             \/ DesktopSigns
    BY <2>2, Zenon
       DEF NoSSLContext, GenerationThrows, ExchangeThrows, ExchangeConnected, DesktopSigns
  <2>3. ASSUME NEW c \in Conn,
               \/ ConnectInsecurely(c) \/ ConnectSecurely(c) \/ OnConnected(c) \/ OnClosed(c)
        PROVE  stops' = stops
    BY <2>3, Zenon DEF ConnectInsecurely, ConnectSecurely, OnConnected, OnClosed
  <2>4. ASSUME NEW c \in Conn, Answered(c) \/ AnsweredNotImplemented(c) \/ Lost(c)
        PROVE  stops' = stops
    BY <2>4, Zenon DEF Answered, AnsweredNotImplemented, Lost
  <2>5. CASE Crash \/ Kill
    BY <2>5, RelaunchFacts, Zenon
  <2> QED
    BY <1>1, <2>1, <2>2, <2>3, <2>4, <2>5, <2>6, Zenon DEF Next, Quiet, FlipperThread
<1> QED
  BY <1>1, <1>2, Zenon

\* One of the things OneOf tells apart gives way to another.
LEMMA OneOfStep ==
    ASSUME TypeOK, OneOf, [Next]_managerVars, ~Stop
    PROVE  OneOf'
<1> USE DEF members, queues, arrivals, outside, history
<1>0. timers \in Nat
  BY Zenon DEF TypeOK
<1>1. /\ ~stopping
      /\ ~isStarted =>
            timers = 0 /\ ~HasDue /\ ~HasSync /\ thread = Idle /\ ~isOpen /\ ~Closing
      /\ timers <= 1
      /\ timers > 0 => ~HasDue /\ ~HasSync /\ ~Busy /\ ~isOpen /\ ~Closing
      /\ HasDue => ~HasSync /\ ~Busy /\ ~isOpen /\ ~Closing
      /\ HasSync => ~Busy /\ ~isOpen /\ ~Closing
      /\ Busy => ~isOpen /\ ~Closing
      /\ isOpen => ~Closing
      /\ UniqueSync /\ UniqueDue
  BY Zenon DEF OneOf
<1>2. ~Busy \/ thread # Idle
  BY IdleAt, Zenon DEF Busy
<1>a. HasDue \/ HasSync \/ Busy \/ isOpen \/ Closing => timers = 0 /\ isStarted
  BY <1>0, <1>1, <1>2
<1>b. ASSUME UNCHANGED <<tasks, inbox>>
      PROVE  (HasDue' <=> HasDue) /\ (HasSync' <=> HasSync) /\ UniqueSync' /\ UniqueDue'
  BY <1>1, <1>b, Zenon DEF HasDue, HasSync, UniqueSync, UniqueDue
<1>c. ASSUME UNCHANGED <<isStarted, isOpen, timers, thread, event, stopping>>,
             HasDue' <=> HasDue, HasSync' <=> HasSync, UniqueSync', UniqueDue'
      PROVE  OneOf'
  BY <1>1, <1>c, Zenon DEF OneOf, Busy, Closing
<1>d. ASSUME ~stopping', isStarted', timers' = 1, ~HasDue', ~HasSync', ~Busy', ~isOpen',
             ~Closing', UniqueSync', UniqueDue'
      PROVE  OneOf'
  BY <1>d DEF OneOf
<1>e. ASSUME ~stopping', isStarted', timers' = 0, UniqueSync', UniqueDue',
             HasDue' => ~HasSync' /\ ~Busy' /\ ~isOpen' /\ ~Closing',
             HasSync' => ~Busy' /\ ~isOpen' /\ ~Closing',
             Busy' => ~isOpen' /\ ~Closing',
             isOpen' => ~Closing'
      PROVE  OneOf'
  BY <1>e DEF OneOf
<1>3. CASE Start
  <2>1. /\ ~isStarted /\ isStarted' = TRUE /\ timers' = timers + 1
        /\ UNCHANGED <<isOpen, inbox, tasks, thread, event, stopping>>
    BY <1>3, Zenon DEF Start
  <2>2. timers' = 1
    BY <1>1, <2>1
  <2>3. ~Busy' /\ ~isOpen' /\ ~Closing' /\ ~stopping'
    BY <1>1, <1>2, <2>1, Zenon DEF Busy, Closing
  <2> QED
    BY <1>1, <1>b, <1>d, <2>1, <2>2, <2>3, Zenon
<1>4. CASE StopEnds
  BY <1>1, <1>4, Zenon DEF StopEnds
<1>5. CASE DelayOver
  <2>1. /\ timers > 0 /\ timers' = timers - 1 /\ inbox' = Append(inbox, Due)
        /\ UNCHANGED <<isStarted, isOpen, tasks, thread, event, stopping>>
    BY <1>5, Zenon DEF DelayOver
  <2>2. timers' = 0 /\ isStarted
    BY <1>0, <1>1, <2>1
  <2>3. /\ ~HasDue /\ ~HasSync' /\ UniqueSync' /\ ~Busy' /\ ~isOpen' /\ ~Closing'
    BY <1>1, <2>1, Zenon DEF HasSync, UniqueSync, Busy, Closing
  <2>4. UniqueDue'
    BY <1>1, <2>1, <2>3, DueAppended, Zenon
  <2> QED
    BY <1>1, <1>e, <2>1, <2>2, <2>3, <2>4, Zenon
<1>18. CASE SyncArrives
  <2>1. /\ inbox # <<>> /\ Head(inbox) = Due /\ inbox' = Tail(inbox)
        /\ tasks' = Append(tasks, Sync)
        /\ UNCHANGED <<isStarted, isOpen, timers, thread, event, stopping>>
    BY <1>18, Zenon DEF SyncArrives
  <2>2. HasDue /\ ~HasDue' /\ UniqueDue'
    BY <1>1, <2>1, ArrivalTaken, Zenon
  <2>3. ~Busy' /\ ~isOpen' /\ ~Closing' /\ ~HasSync
    BY <1>1, <2>1, <2>2, Zenon DEF Busy, Closing
  <2>4. UniqueSync'
    BY <1>1, <2>1, <2>3, UniqueAppended, TaskFacts, Zenon
  <2> QED
    BY <1>1, <1>a, <1>e, <2>1, <2>2, <2>3, <2>4, Zenon
<1>6. CASE StartSync
  <2>1. /\ tasks # <<>> /\ Head(tasks) = Sync /\ tasks' = Tail(tasks)
        /\ UNCHANGED <<isStarted, isOpen, timers, inbox, event, stopping>>
    BY <1>6, Zenon DEF StartSync
  <2>2. HasSync
    BY <2>1, TailTasks, Zenon DEF HasSync
  <2>3. UniqueSync' /\ ~HasSync'
    BY <1>1, <2>1, UniqueTail, Zenon
  <2>4. ~HasDue' /\ UniqueDue' /\ ~isOpen' /\ ~Closing'
    BY <1>1, <2>1, <2>2, Zenon DEF HasDue, UniqueDue, Closing
  <2> QED
    BY <1>1, <1>a, <1>e, <2>1, <2>2, <2>3, <2>4, Zenon
<1>7. ASSUME NEW c \in Conn, ConnectInsecurely(c) \/ ConnectSecurely(c) PROVE OneOf'
  <2>1. /\ Busy /\ UNCHANGED <<isStarted, isOpen, timers, inbox, tasks, stopping, event>>
    BY <1>7, ConnectFacts, Zenon
  <2>2. ~isOpen' /\ ~Closing' /\ ~HasDue' /\ ~HasSync' /\ UniqueSync' /\ UniqueDue'
    BY <1>1, <1>b, <2>1, Zenon DEF Closing
  <2> QED
    BY <1>1, <1>a, <1>e, <2>1, <2>2, Zenon
<1>8. CASE NoSSLContext \/ Refused \/ ConnectThrows
  <2>1. /\ Busy /\ thread' = Idle /\ timers' = Delayed
        /\ UNCHANGED <<isStarted, isOpen, inbox, tasks, event, stopping>>
    BY <1>8, Zenon DEF NoSSLContext, Refused, ConnectThrows, AttemptFails, Busy, Waiting
  <2>2. timers' = 1 /\ isStarted
    BY <1>a, <2>1 DEF Delayed
  <2>3. ~Busy' /\ ~isOpen' /\ ~Closing' /\ ~HasDue' /\ ~HasSync' /\ UniqueSync' /\ UniqueDue'
    BY <1>1, <1>b, <2>1, IdleAt, Zenon DEF Closing, Busy
  <2> QED
    BY <1>1, <1>d, <2>1, <2>2, <2>3, Zenon
<1>9. CASE GenerationThrows \/ ExchangeThrows \/ SecureConnected
  <2>1. /\ thread' = Idle
        /\ UNCHANGED <<isStarted, isOpen, timers, inbox, tasks, event, stopping>>
    BY <1>9, Zenon DEF GenerationThrows, ExchangeThrows, SecureConnected
  <2>2. ~Busy' /\ (Closing' <=> Closing)
    BY <2>1, IdleAt, Zenon DEF Busy, Closing
  <2> QED
    BY <1>1, <1>b, <2>1, <2>2, Zenon DEF OneOf
<1>10. CASE ExchangeConnected
  <2>1. /\ thread' = Idle /\ UNCHANGED <<isStarted, isOpen, timers, inbox, event, stopping>>
        /\ tasks' = Append(tasks, Request(store'.csr)) /\ store'.csr \in Csr
    BY <1>10, GenerationTypes, Zenon DEF ExchangeConnected
  <2>2. (HasSync' <=> HasSync) /\ UniqueSync'
    BY <1>1, <2>1, OtherAppended, UniqueAppended, TaskFacts, Zenon
  <2>3. ~Busy' /\ (Closing' <=> Closing) /\ (HasDue' <=> HasDue) /\ UniqueDue'
    BY <1>1, <2>1, IdleAt, Zenon DEF Busy, Closing, HasDue, UniqueDue
  <2> QED
    BY <1>1, <2>1, <2>2, <2>3, Zenon DEF OneOf
<1>11. CASE SendRequest
  <2>1. /\ tasks # <<>> /\ Head(tasks).run # "startSync" /\ tasks' = Tail(tasks)
        /\ UNCHANGED <<isStarted, isOpen, timers, inbox, thread, event, stopping>>
    BY <1>11, Zenon DEF SendRequest
  <2>2. (HasSync' <=> HasSync) /\ UniqueSync'
    BY <1>1, <2>1, OtherRemoved, UniqueTail, TaskFacts, Zenon
  <2>3. (HasDue' <=> HasDue) /\ UniqueDue'
    BY <1>1, <2>1, Zenon DEF HasDue, UniqueDue
  <2> QED
    BY <1>c, <2>1, <2>2, <2>3, Zenon
<1>12. CASE SendMessage \/ MessageTask
  <2>1. (HasDue' <=> HasDue) /\ UniqueDue'
    BY <1>1, <1>12, MessageAppended, ArrivalTaken, ArrivalFacts, Zenon DEF MessageTask
  <2>2. UNCHANGED <<isStarted, isOpen, timers, tasks, thread, event, stopping>>
    BY <1>12, Zenon DEF SendMessage, MessageTask
  <2>3. (HasSync' <=> HasSync) /\ UniqueSync'
    BY <1>1, <2>2, Zenon DEF HasSync, UniqueSync
  <2> QED
    BY <1>c, <2>1, <2>2, <2>3, Zenon
<1>13. CASE DesktopSigns \/ DesktopForgets \/ BecomeSteady \/ UNCHANGED managerVars
  <2>1. UNCHANGED <<isStarted, isOpen, timers, inbox, thread, tasks, event, stopping>>
    BY <1>13, Zenon DEF DesktopSigns, DesktopForgets, BecomeSteady, managerVars
  <2> QED
    BY <1>b, <1>c, <2>1, Zenon
<1>14. ASSUME NEW c \in Conn, Answered(c) \/ AnsweredNotImplemented(c) \/ Lost(c)
       PROVE  OneOf'
  <2>1. UNCHANGED <<isStarted, isOpen, timers, inbox, thread, tasks, event, stopping>>
    BY <1>14, Zenon DEF Answered, AnsweredNotImplemented, Lost
  <2> QED
    BY <1>b, <1>c, <2>1, Zenon
<1>15. ASSUME NEW c \in Conn, OnConnected(c) PROVE OneOf'
  <2>1. /\ Busy /\ ~Busy' /\ UNCHANGED <<isStarted, timers, inbox, tasks, stopping>>
        /\ event' = (IF trusted THEN "onConnected" ELSE "opened")
    BY <1>15, OnConnectedFacts, Zenon
  <2>2. ~Closing'
    BY <2>1, Zenon DEF Closing
  <2> QED
    BY <1>1, <1>a, <1>b, <1>e, <2>1, <2>2, Zenon
<1>16. ASSUME NEW c \in Conn, OnClosed(c) PROVE OneOf'
  <2>1. /\ UNCHANGED <<isStarted, timers, inbox, tasks, thread, stopping>> /\ isOpen' = FALSE
        /\ event = "none"
        /\ event' = (IF IsOpen THEN "onDisconnected" ELSE IF isOpen THEN "closed" ELSE "none")
    BY <1>16, OnClosedFacts, ZenonT(30)
  <2>2. CASE isOpen
    <3>1. ~HasDue' /\ ~HasSync' /\ ~Busy' /\ UniqueSync' /\ UniqueDue'
      BY <1>1, <1>b, <2>1, <2>2, Zenon DEF Busy
    <3> QED
      BY <1>1, <1>a, <1>e, <2>1, <2>2, <3>1, Zenon
  <2>3. CASE ~isOpen
    <3>1. event' = event /\ isOpen' = isOpen
      BY <2>1, <2>3, Zenon DEF IsOpen, TypeOK
    <3> QED
      BY <1>b, <1>c, <2>1, <3>1, Zenon
  <2> QED
    BY <2>2, <2>3, Zenon
<1>19. CASE ConnectedReturns
  <2>1. /\ event \in {"opened", "onConnected"} /\ event' = "none"
        /\ UNCHANGED <<isStarted, isOpen, timers, inbox, tasks, thread, stopping>>
    BY <1>19, Zenon DEF ConnectedReturns, Opening
  <2>2. ~Closing' /\ (Busy' <=> Busy)
    BY <2>1, Zenon DEF Closing, Busy
  <2> QED
    BY <1>1, <1>b, <2>1, <2>2, Zenon DEF OneOf
<1>20. CASE DisconnectedReturns
  <2>1. /\ Closing /\ event' = "none" /\ timers' = Delayed
        /\ UNCHANGED <<isStarted, isOpen, inbox, tasks, thread, stopping>>
    BY <1>20, Zenon DEF DisconnectedReturns
  <2>2. timers' = 1 /\ isStarted
    BY <1>a, <2>1 DEF Delayed
  <2>3. ~Busy' /\ ~isOpen' /\ ~Closing' /\ ~HasDue' /\ ~HasSync' /\ UniqueSync' /\ UniqueDue'
    BY <1>1, <1>b, <2>1, Zenon DEF Closing, Busy
  <2> QED
    BY <1>1, <1>d, <2>1, <2>2, <2>3, Zenon
<1>17. CASE Crash \/ Kill
  <2>1. /\ isStarted' = FALSE /\ isOpen' = FALSE /\ timers' = 0 /\ DOMAIN tasks' = {}
        /\ thread' = Idle /\ stopping' = FALSE /\ ~Busy' /\ ~HasSync'
        /\ ~HasDue' /\ DOMAIN inbox' = {} /\ ~Closing'
    BY <1>17, RelaunchFacts, Zenon
  <2>2. UniqueSync' /\ UniqueDue'
    BY <2>1, Zenon DEF UniqueSync, UniqueDue
  <2> QED
    BY <2>1, <2>2 DEF OneOf
<1> QED
  BY <1>3, <1>4, <1>5, <1>6, <1>7, <1>8, <1>9, <1>10, <1>11, <1>12, <1>13, <1>14, <1>15,
     <1>16, <1>17, <1>18, <1>19, <1>20, Zenon DEF Next, Quiet, FlipperThread

LEMMA OneLiveStep ==
    ASSUME TypeOK, ConnInv, OneOf, OneLive, [Next]_managerVars
    PROVE  OneLive'
<1>0. /\ \A c \in Conn : conns[c].life \in {"open", "closing"} => isOpen
      /\ \A c, d \in Conn : conns[c].life \in {"open", "closing"}
                            /\ conns[d].life \in {"open", "closing"} => c = d
      /\ \A c \in Conn : conns[c].life # "closed" => (trusted <=> conns[c].secure)
  BY Zenon DEF OneLive, Live
<1>1. SUFFICES /\ \A c \in Conn : conns'[c].life \in {"open", "closing"} => isOpen'
               /\ \A c, d \in Conn : conns'[c].life \in {"open", "closing"}
                                     /\ conns'[d].life \in {"open", "closing"} => c = d
               /\ \A c \in Conn : conns'[c].life # "closed" => (trusted' <=> conns'[c].secure)
  BY Zenon DEF OneLive, Live
<1>2. /\ \A c \in Conn : conns[c].life \in {"closed", "connecting", "open", "closing"}
      /\ \A c \in Conn : conns[c].life = "connecting" <=> Waiting /\ thread.conn = c
      /\ Waiting => Busy
      /\ Busy => ~isOpen
  BY Zenon DEF TypeOK, Connection, ConnInv, ConnectingIsWaitedFor, Waiting, Busy, OneOf
<1>3. CASE Gentle
  BY <1>0, <1>3 DEF Gentle
<1>4. ASSUME NEW c \in Conn, ConnectInsecurely(c) \/ ConnectSecurely(c) PROVE OneLive'
  <2>1. /\ ~Waiting /\ Busy /\ conns'[c].life = "connecting" /\ (trusted' <=> conns'[c].secure)
        /\ \A d \in Conn : d # c => conns'[d] = conns[d]
    BY <1>4, ConnectFacts, Zenon
  <2>2. \A d \in Conn : conns[d].life = "closed"
    BY <1>0, <1>2, <2>1, Zenon
  <2> QED
    BY <2>1, <2>2, Zenon DEF OneLive, Live
<1>5. CASE Refused \/ ConnectThrows
  <2>1. /\ thread.conn \in Conn => conns'[thread.conn] = Dead
        /\ \A d \in Conn : d # thread.conn => conns'[d] = conns[d]
        /\ UNCHANGED <<isOpen, trusted>>
    BY <1>5, RefusedFacts, Zenon
  <2>2. \A d \in Conn : conns'[d].life = "closed" \/ conns'[d] = conns[d]
    BY <2>1, DeadIsClosed, Zenon
  <2> QED
    BY <1>0, <2>1, <2>2, Zenon
<1>6. ASSUME NEW c \in Conn, OnConnected(c) PROVE OneLive'
  <2>1. /\ Waiting /\ Busy /\ thread.conn = c /\ isOpen' = TRUE /\ trusted' = trusted
        /\ conns'[c].life = "open" /\ conns'[c].secure = conns[c].secure
        /\ \A d \in Conn : d # c => conns'[d] = conns[d]
    BY <1>6, OnConnectedFacts, Zenon
  <2>2. \A d \in Conn : d # c => conns[d].life = "closed"
    BY <1>0, <1>2, <2>1
  <2>3. trusted <=> conns[c].secure
    BY <1>0, <1>2, <2>1, Zenon
  <2> QED
    BY <2>1, <2>2, <2>3 DEF OneLive, Live
<1>7. ASSUME NEW c \in Conn, OnClosed(c) PROVE OneLive'
  <2>1. /\ conns[c].life = "closing" /\ conns'[c] = Dead
        /\ \A d \in Conn : d # c => conns'[d] = conns[d]
    BY <1>7, OnClosedFacts, Zenon
  <2>2. isOpen /\ ~Waiting
    BY <1>0, <1>2, <2>1, Zenon
  <2>3. \A d \in Conn : d # c => conns[d].life = "closed"
    BY <1>0, <1>2, <2>1, <2>2, Zenon
  <2>4. \A d \in Conn : conns'[d].life = "closed"
    BY <2>1, <2>3, DeadIsClosed, Zenon
  <2> QED
    BY <2>4, Zenon DEF OneLive, Live
<1>8. CASE Crash \/ Kill
  BY <1>8, RelaunchFacts, DeadIsClosed, Zenon
<1>9. AskedIsLive
  BY Zenon DEF ConnInv
<1> QED
  BY <1>3, <1>4, <1>5, <1>6, <1>7, <1>8, <1>9, StepKinds, ZenonT(30) DEF OneLive, Live

LEMMA AloneStep == TypeOK /\ ConnInv /\ Alone /\ [Next]_managerVars => Alone'
BY StopsBefore, OneOfStep, OneLiveStep, Zenon DEF Alone

LEMMA AloneInit == Init => Alone
<1> SUFFICES ASSUME Init PROVE OneOf /\ OneLive
  BY Zenon DEF Alone
<1>1. /\ ~isStarted /\ ~isOpen /\ timers = 0 /\ thread = Idle /\ ~stopping
      /\ DOMAIN tasks = {} /\ DOMAIN inbox = {} /\ ~Closing
      /\ \A c \in Conn : conns[c] = Dead
  BY DEF Init, Closing
<1>2. ~Busy /\ ~HasSync /\ ~HasDue /\ UniqueSync /\ UniqueDue
  BY <1>1, IdleAt, Zenon DEF Busy, HasSync, HasDue, UniqueSync, UniqueDue
<1> QED
  BY <1>1, <1>2, DeadIsClosed DEF OneOf, OneLive, Live

LEMMA AloneCorrect == Spec => [](TypeOK /\ ConnInv /\ Alone)
BY ConnCorrect, AloneInit, AloneStep, PTL DEF Spec

\* startSync never opens a connection while another one lives, is being opened or is
\* being closed, until stop is called: the guards that are spread over start, reconnect,
\* startSync and onDisconnected let one of them through at a time.
THEOREM OneConnectionCorrect == Spec => []OneConnection
<1>1. TypeOK /\ ConnInv /\ Alone => OneConnection
  <2> SUFFICES ASSUME TypeOK, ConnInv, OneOf, OneLive,
                      NEW c \in Conn, NEW d \in Conn,
                      conns[c].life # "closed", conns[d].life # "closed"
               PROVE  c = d
    BY Zenon DEF Alone, OneConnection
  <2>1. /\ conns[c].life \in {"connecting", "open", "closing"}
        /\ conns[d].life \in {"connecting", "open", "closing"}
    BY Zenon DEF TypeOK, Connection
  <2>2. Waiting => Busy
    BY Zenon DEF Waiting, Busy
  <2> QED
    BY <2>1, <2>2, Zenon DEF ConnInv, ConnectingIsWaitedFor, OneOf, OneLive, Live
<1> QED
  BY <1>1, AloneCorrect, PTL

\* isOpen() is true exactly while the secure connection is there, until stop is called,
\* although the two flags it reads are written by different threads at different times.
THEOREM OpenIsSecureCorrect == Spec => []OpenIsSecure
<1>1. TypeOK /\ ConnInv /\ Alone => OpenIsSecure
  <2> SUFFICES ASSUME TypeOK, ConnInv, OneLive
               PROVE  IsOpen <=> \E c \in Conn : Live(c) /\ conns[c].secure
    BY Zenon DEF Alone, OpenIsSecure
  <2>1. \A c \in Conn : Live(c) => isOpen /\ (trusted <=> conns[c].secure)
    BY Zenon DEF OneLive, Live
  <2>2. isOpen => \E c \in Conn : Live(c)
    BY Zenon DEF ConnInv, OpenIsLive
  <2> QED
    BY <2>1, <2>2, Zenon DEF IsOpen
<1> QED
  BY <1>1, AloneCorrect, PTL

-----------------------------------------------------------------------------
(* One signing request at a time. *)

LEMMA RequestTail ==
    ASSUME TypeOK, RequestFirst, tasks # <<>>, tasks' = Tail(tasks)
    PROVE  /\ RequestFirst'
           /\ HasRequest' => HasRequest
           /\ Head(tasks).run = "request" => ~HasRequest'
           /\ Head(tasks) = Sync => ~HasRequest
<1>1. /\ 1 \in DOMAIN tasks /\ Head(tasks) = tasks[1]
      /\ DOMAIN tasks' \subseteq Nat \ {0} /\ DOMAIN tasks \subseteq Nat \ {0}
      /\ \A i \in DOMAIN tasks' : i + 1 \in DOMAIN tasks /\ tasks'[i] = tasks[i + 1]
  BY TailTasks, Zenon
<1>2. /\ \A i \in DOMAIN tasks' : i + 1 # 1
      /\ \A i, j \in DOMAIN tasks' : (i + 1 = j + 1 => i = j) /\ (i + 1 < j + 1 => i < j)
      /\ \A j \in DOMAIN tasks : ~(j < 1)
  BY <1>1
<1>3. HasRequest' => HasRequest
  BY <1>1, Zenon DEF HasRequest
<1>4. RequestFirst'
  BY <1>1, <1>2 DEF RequestFirst
<1>5. Head(tasks).run = "request" => ~HasRequest'
  BY <1>1, <1>2 DEF RequestFirst, HasRequest
<1>6. Head(tasks) = Sync => ~HasRequest
  BY <1>1, <1>2, Zenon DEF RequestFirst, HasRequest
<1> QED
  BY <1>3, <1>4, <1>5, <1>6, Zenon

LEMMA RequestAppended ==
    ASSUME TypeOK, RequestFirst, NEW x \in Task, tasks' = Append(tasks, x),
           x.run = "request" => ~HasRequest /\ ~HasSync
    PROVE  /\ RequestFirst'
           /\ x.run # "request" => (HasRequest' => HasRequest)
<1>1. /\ Len(tasks) \in Nat /\ DOMAIN tasks = 1 .. Len(tasks)
      /\ DOMAIN tasks' = 1 .. Len(tasks) + 1
      /\ \A i \in DOMAIN tasks : i \in DOMAIN tasks' /\ tasks'[i] = tasks[i]
      /\ \A i \in DOMAIN tasks' :
            \/ i \in DOMAIN tasks /\ tasks'[i] = tasks[i]
            \/ i = Len(tasks) + 1
      /\ tasks'[Len(tasks) + 1] = x
  BY AppendTasks, Zenon
<1>2. x.run # "request" => (HasRequest' => HasRequest)
  BY <1>1, Zenon DEF HasRequest
<1>3. x.run = "request" => x # Sync
  BY TaskFacts, Zenon
<1>4. ASSUME NEW i \in DOMAIN tasks', NEW j \in DOMAIN tasks',
             tasks'[i] = Sync, tasks'[j].run = "request"
      PROVE  j < i
  <2>1. CASE x.run = "request"
    <3>1. i \in DOMAIN tasks /\ tasks[i] = Sync
      BY <1>1, <1>3, <1>4, <2>1, Zenon
    <3> QED
      BY <2>1, <3>1, Zenon DEF HasSync
  <2>2. CASE x.run # "request"
    <3>1. j \in DOMAIN tasks /\ tasks[j].run = "request"
      BY <1>1, <1>4, <2>2, Zenon
    <3>2. CASE i \in DOMAIN tasks /\ tasks'[i] = tasks[i]
      BY <1>4, <3>1, <3>2, Zenon DEF RequestFirst
    <3>3. CASE i = Len(tasks) + 1
      BY <1>1, <3>1, <3>3
    <3> QED
      BY <1>1, <3>2, <3>3, Zenon
  <2> QED
    BY <2>1, <2>2, Zenon
<1>5. ASSUME NEW i \in DOMAIN tasks', NEW j \in DOMAIN tasks',
             tasks'[i].run = "request", tasks'[j].run = "request"
      PROVE  i = j
  <2>1. CASE x.run = "request"
    BY <1>1, <1>5, <2>1, Zenon DEF HasRequest
  <2>2. CASE x.run # "request"
    BY <1>1, <1>5, <2>2, Zenon DEF RequestFirst
  <2> QED
    BY <2>1, <2>2, Zenon
<1> QED
  BY <1>2, <1>4, <1>5, Zenon DEF RequestFirst

LEMMA ClosingAsks ==
    ASSUME TypeOK, NEW c,
           conns' = conns \/ conns' = Close(conns, c) \/ conns' = CloseLater(conns, c)
    PROVE  \A d \in Conn : conns'[d].asked = conns[d].asked \/ conns'[d].asked = {}
<1>1. conns \in [Conn -> Connection]
  BY Zenon DEF TypeOK
<1>2. \A d \in Conn : Close(conns, c)[d].asked = conns[d].asked \/ Close(conns, c)[d].asked = {}
  BY <1>1, CloseFacts, SMTT(30)
<1>3. \A d \in Conn : CloseLater(conns, c)[d].asked = conns[d].asked
  BY <1>1, CloseLaterFacts, Zenon
<1> QED
  BY <1>2, <1>3, Zenon

LEMMA ClosingLives ==
    ASSUME TypeOK, NEW c, conns' = Close(conns, c) \/ conns' = CloseLater(conns, c)
    PROVE  \A d \in Conn : Live(d)' => Live(d)
<1>1. conns \in [Conn -> Connection]
  BY Zenon DEF TypeOK
<1>2. ASSUME NEW d \in Conn, conns'[d] = conns[d] \/ conns[d].life = "open"
      PROVE  Live(d)' => Live(d)
  BY <1>2, Zenon DEF Live
<1>3. CASE conns' = Close(conns, c)
  <2>1. \A d \in Conn : conns'[d] = conns[d] \/ conns[d].life = "open"
    BY <1>1, <1>3, CloseFacts
  <2> QED
    BY <1>2, <2>1, Zenon
<1>4. CASE conns' = CloseLater(conns, c)
  <2>1. \A d \in Conn : conns'[d] = conns[d] \/ conns[d].life = "open"
    BY <1>1, <1>4, CloseLaterFacts
  <2> QED
    BY <1>2, <2>1, Zenon
<1> QED
  BY <1>3, <1>4, Zenon

\* Steps that leave the queue, the thread and the client alone.
LEMMA RequestKept ==
    ASSUME OneRequest, UNCHANGED <<tasks, thread, client, nullUsed>>,
           \A d \in Conn : conns'[d].asked = conns[d].asked \/ conns'[d].asked = {}
    PROVE  OneRequest'
<1>1. (HasSync' <=> HasSync) /\ (HasRequest' <=> HasRequest) /\ (RequestFirst' <=> RequestFirst)
  BY Zenon DEF HasSync, HasRequest, RequestFirst
<1>2. NothingAsked => NothingAsked'
  BY Zenon DEF NothingAsked
<1> QED
  BY <1>1, <1>2, Zenon DEF OneRequest

\* Steps of startSync, during which there is no request.
LEMMA NoRequestKept ==
    ASSUME OneRequest, thread # Idle, UNCHANGED <<tasks, nullUsed>>,
           \A d \in Conn : conns'[d].asked = conns[d].asked \/ conns'[d].asked = {},
           thread'.at = "got exchange" => thread'.conn # NoConn
    PROVE  OneRequest'
<1>1. ~HasSync /\ ~HasRequest /\ RequestFirst /\ NothingAsked /\ ~nullUsed
  BY Zenon DEF OneRequest, NothingAsked
<1>2. ~HasSync' /\ ~HasRequest' /\ RequestFirst'
  BY <1>1, Zenon DEF HasSync, HasRequest, RequestFirst
<1>3. NothingAsked'
  BY <1>1, Zenon DEF NothingAsked
<1> QED
  BY <1>1, <1>2, <1>3, Zenon DEF OneRequest, NothingAsked

LEMMA OneRequestStep ==
    ASSUME TypeOK, ConnInv, OneOf, OneLive, OneRequest, [Next]_managerVars, ~Stop
    PROVE  OneRequest'
<1> USE DEF members, queues, arrivals, outside, history
<1>1. /\ RequestFirst /\ ~nullUsed
      /\ HasSync => thread = Idle
      /\ HasRequest => thread = Idle /\ client # NoConn /\ NothingAsked
      /\ \A c \in Conn : conns[c].asked # {} =>
            thread = Idle /\ client # NoConn /\ \E k \in Csr : conns[c].asked = {k}
      /\ thread.at = "got exchange" => thread.conn # NoConn
  BY Zenon DEF OneRequest
<1>2. \A c \in Conn : conns[c].asked # {} => Live(c) /\ isOpen
  BY Zenon DEF ConnInv, AskedIsLive, OneLive, Live
<1>3. CASE Start \/ DesktopSigns \/ DesktopForgets \/ BecomeSteady \/ UNCHANGED managerVars
  <2>1. UNCHANGED <<tasks, thread, client, nullUsed, conns>>
    BY <1>3, Zenon DEF Start, DesktopSigns, DesktopForgets, BecomeSteady, managerVars
  <2> QED
    BY <2>1, RequestKept, Zenon
<1>4. CASE StopEnds
  BY <1>4, Zenon DEF StopEnds, OneOf
<1>5. CASE SyncArrives
  <2>1. /\ thread = Idle /\ tasks' = Append(tasks, Sync)
        /\ UNCHANGED <<thread, client, nullUsed, conns>>
    BY <1>5, Zenon DEF SyncArrives
  <2>2. RequestFirst' /\ (HasRequest' => HasRequest)
    BY <1>1, <2>1, RequestAppended, TaskFacts, Zenon
  <2> QED
    BY <1>1, <2>1, <2>2, Zenon DEF OneRequest, NothingAsked
<1>6. CASE StartSync
  <2>1. /\ thread = Idle /\ tasks # <<>> /\ Head(tasks) = Sync /\ tasks' = Tail(tasks)
        /\ thread' \in {Idle, [Idle EXCEPT !.at = "exchange"], [Idle EXCEPT !.at = "secure"]}
        /\ UNCHANGED <<client, nullUsed, conns>>
    BY <1>6, Zenon DEF StartSync
  <2>2. RequestFirst' /\ ~HasRequest'
    BY <1>1, <2>1, RequestTail, Zenon
  <2>3. HasSync
    BY <2>1, TailTasks, Zenon DEF HasSync
  <2>4. ~HasSync'
    BY <2>1, UniqueTail, Zenon DEF OneOf
  <2>5. NothingAsked
    BY <1>2, <2>3, Zenon DEF OneOf, NothingAsked
  <2>6. thread'.at # "got exchange"
    BY <2>1, ThreadFacts, Zenon
  <2> QED
    BY <1>1, <2>1, <2>2, <2>4, <2>5, <2>6, Zenon DEF OneRequest, NothingAsked
<1>7. ASSUME NEW c \in Conn, ConnectInsecurely(c) \/ ConnectSecurely(c) PROVE OneRequest'
  <2>1. /\ thread # Idle /\ UNCHANGED <<tasks, nullUsed>> /\ Waiting'
        /\ conns'[c].asked = {} /\ \A d \in Conn : d # c => conns'[d] = conns[d]
    BY <1>7, ConnectFacts, Zenon
  <2>2. thread'.at # "got exchange"
    BY <2>1, Zenon DEF Waiting
  <2>3. \A d \in Conn : conns'[d].asked = conns[d].asked \/ conns'[d].asked = {}
    BY <2>1, Zenon
  <2> QED
    BY <2>1, <2>2, <2>3, NoRequestKept, ZenonT(30)
<1>8. CASE NoSSLContext \/ GenerationThrows \/ ExchangeThrows \/ SecureConnected
  <2>1. /\ thread' = Idle /\ UNCHANGED <<tasks, nullUsed>>
        /\ conns' = conns \/ conns' = CloseLater(conns, client)
        /\ thread.at \in {"secure", "got exchange", "got secure"}
    BY <1>8, Zenon
       DEF NoSSLContext, AttemptFails, GenerationThrows, ExchangeThrows, SecureConnected
  <2>2. thread # Idle /\ thread'.at # "got exchange"
    BY <2>1, IdleAt, ZenonT(30)
  <2>3. \A d \in Conn : conns'[d].asked = conns[d].asked \/ conns'[d].asked = {}
    BY <2>1, ClosingAsks, ZenonT(30)
  <2> QED
    BY <2>1, <2>2, <2>3, NoRequestKept, ZenonT(30)
<1>9. CASE Refused \/ ConnectThrows
  <2>1. /\ thread # Idle /\ thread' = Idle /\ UNCHANGED <<tasks, nullUsed>>
        /\ thread.conn \in Conn => conns'[thread.conn] = Dead
        /\ \A d \in Conn : d # thread.conn => conns'[d] = conns[d]
    BY <1>9, RefusedFacts, Zenon
  <2>2. \A d \in Conn : conns'[d].asked = conns[d].asked \/ conns'[d].asked = {}
    BY <2>1, DeadIsClosed, Zenon
  <2> QED
    BY <2>1, <2>2, IdleAt, NoRequestKept, ZenonT(30)
<1>10. CASE ExchangeConnected
  <2>1. /\ thread.at = "got exchange" /\ thread' = Idle /\ client' = thread.conn
        /\ tasks' = Append(tasks, Request(store'.csr)) /\ store'.csr \in Csr
        /\ conns' = CloseLater(conns, client) /\ nullUsed' = nullUsed
    BY <1>10, GenerationTypes, Zenon DEF ExchangeConnected
  <2>2. thread # Idle
    BY <2>1, IdleAt, Zenon
  <2>3. ~HasSync /\ ~HasRequest /\ NothingAsked
    BY <1>1, <2>2, ZenonT(30) DEF NothingAsked
  <2>4. NothingAsked'
    BY <2>1, <2>3, ClosingAsks, ZenonT(30) DEF NothingAsked
  <2>5. RequestFirst'
    BY <1>1, <2>1, <2>3, RequestAppended, TaskFacts, ZenonT(30)
  <2> QED
    BY <1>1, <2>1, <2>4, <2>5, IdleAt, Zenon DEF OneRequest, NothingAsked
<1>11. CASE SendRequest
  <2>1. /\ thread = Idle /\ tasks # <<>> /\ Head(tasks).run = "request"
        /\ tasks' = Tail(tasks) /\ client # NoConn
        /\ UNCHANGED <<thread, client, nullUsed>>
    BY <1>11, Zenon DEF SendRequest
  <2>2. RequestFirst' /\ ~HasRequest'
    BY <1>1, <2>1, RequestTail, Zenon
  <2>3. HasRequest
    BY <2>1, TailTasks, Zenon DEF HasRequest
  <2>4. \A c \in Conn : conns'[c].asked # {} => \E k \in Csr : conns'[c].asked = {k}
    <3>1. CASE conns' = conns
      BY <1>1, <3>1, Zenon
    <3>2. CASE conns' # conns
      <4> DEFINE A == conns[client].asked \cup {Head(tasks).csr}
      <4>1. client \in Conn /\ conns' = [conns EXCEPT ![client].asked = A]
        BY <1>11, <3>2, Zenon DEF SendRequest, TypeOK
      <4>2. Head(tasks).csr \in Csr
        BY <2>1, TailTasks, Zenon DEF Task
      <4>3. A = {Head(tasks).csr} /\ A \subseteq Csr
        BY <1>1, <2>3, <4>1, <4>2, Zenon DEF NothingAsked
      <4> HIDE DEF A
      <4>4. /\ conns'[client].asked = A
            /\ \A d \in Conn : d # client => conns'[d] = conns[d]
        <5>1. A \subseteq Csr
          BY <4>3, Zenon
        <5>2. /\ [conns EXCEPT ![client].asked = A][client].asked = A
              /\ \A d \in Conn : d # client => [conns EXCEPT ![client].asked = A][d] = conns[d]
          BY <4>1, <5>1, AskedChanges, ZenonT(30)
        <5> QED
          BY <4>1, <5>2, Zenon
      <4> QED
        BY <1>1, <4>2, <4>3, <4>4, ZenonT(30)
    <3> QED
      BY <3>1, <3>2, Zenon
  <2> QED
    BY <1>1, <2>1, <2>2, <2>4, IdleAt, Zenon DEF OneRequest
<1>12. CASE DelayOver \/ SendMessage \/ MessageTask \/ ConnectedReturns \/ DisconnectedReturns
  <2>1. UNCHANGED <<tasks, thread, client, nullUsed, conns>>
    BY <1>12, Zenon
       DEF DelayOver, SendMessage, MessageTask, ConnectedReturns, DisconnectedReturns
  <2> QED
    BY <2>1, RequestKept, Zenon
<1>14. ASSUME NEW c \in Conn, Answered(c) \/ AnsweredNotImplemented(c) PROVE OneRequest'
  <2>1. UNCHANGED <<tasks, thread, nullUsed>>
    BY <1>14, ZenonT(30) DEF Answered, AnsweredNotImplemented
  <2>2. /\ conns[c].asked # {}
        /\ \E k \in conns[c].asked : conns'[c].asked \subseteq conns[c].asked \ {k}
        /\ \A d \in Conn : conns'[d].asked \subseteq conns[d].asked
    BY <1>14, AnswerFacts, Zenon DEF ConnInv
  <2>3. conns'[c].asked = {}
    BY <1>1, <2>2, ZenonT(30)
  <2>4. \A d \in Conn : d # c => conns[d].asked = {}
    BY <1>2, <2>2, Zenon DEF OneLive
  <2>5. NothingAsked'
    BY <2>2, <2>3, <2>4, Zenon DEF NothingAsked
  <2>6. ~HasRequest /\ thread = Idle
    BY <1>1, <2>2, ZenonT(30) DEF NothingAsked
  <2>7. (HasSync' <=> HasSync) /\ ~HasRequest' /\ RequestFirst'
    BY <1>1, <2>1, <2>6, Zenon DEF HasSync, HasRequest, RequestFirst
  <2> QED
    BY <1>1, <2>1, <2>5, <2>6, <2>7, IdleAt, Zenon DEF OneRequest, NothingAsked
<1>15. ASSUME NEW c \in Conn, Lost(c) PROVE OneRequest'
  <2>1. UNCHANGED <<tasks, thread, client, nullUsed>> /\ conns' = Close(conns, c)
    BY <1>15, Zenon DEF Lost
  <2> QED
    BY <2>1, ClosingAsks, RequestKept, Zenon
<1>16. ASSUME NEW c \in Conn, OnConnected(c) PROVE OneRequest'
  <2>1. /\ thread # Idle /\ UNCHANGED <<tasks, nullUsed>> /\ thread'.conn = c
        /\ conns'[c].asked = conns[c].asked /\ \A d \in Conn : d # c => conns'[d] = conns[d]
    BY <1>16, OnConnectedFacts, Zenon
  <2>2. \A d \in Conn : conns'[d].asked = conns[d].asked
    BY <2>1, Zenon
  <2>3. c # NoConn
    BY ConnAssumption, Zenon DEF ConnAssumption
  <2> QED
    BY <2>1, <2>2, <2>3, NoRequestKept, ZenonT(30)
<1>17. ASSUME NEW c \in Conn, OnClosed(c) PROVE OneRequest'
  <2>1. /\ UNCHANGED <<tasks, thread, client, nullUsed>> /\ conns'[c] = Dead
        /\ \A d \in Conn : d # c => conns'[d] = conns[d]
    BY <1>17, OnClosedFacts, Zenon
  <2>2. \A d \in Conn : conns'[d].asked = conns[d].asked \/ conns'[d].asked = {}
    BY <2>1, DeadIsClosed, Zenon
  <2> QED
    BY <2>1, <2>2, RequestKept, Zenon
<1>18. ~SendRequestCrashes
  <2> SUFFICES ASSUME SendRequestCrashes PROVE FALSE
    BY Zenon
  <2>1. tasks # <<>> /\ Head(tasks).run = "request" /\ client = NoConn
    BY Zenon DEF SendRequestCrashes
  <2>2. 1 \in DOMAIN tasks /\ Head(tasks) = tasks[1]
    BY <2>1, SMTT(30) DEF TypeOK
  <2> QED
    BY <1>1, <2>1, <2>2, Zenon DEF HasRequest
<1>19. ASSUME NEW c \in Conn, FallbackCrashes(c) PROVE FALSE
  BY <1>1, <1>19, ZenonT(30) DEF FallbackCrashes
<1>20. CASE Kill
  <2>1. /\ DOMAIN tasks' = {} /\ thread' = Idle /\ \A c \in Conn : conns'[c] = Dead
    BY <1>20, RelaunchFacts, Zenon
  <2>2. nullUsed' = nullUsed
    BY <1>20, Zenon DEF Kill
  <2>3. ~HasSync' /\ ~HasRequest' /\ RequestFirst'
    BY <2>1, Zenon DEF HasSync, HasRequest, RequestFirst
  <2> QED
    BY <1>1, <2>1, <2>2, <2>3, IdleAt, DeadIsClosed, Zenon DEF OneRequest
<1> QED
  BY <1>3, <1>4, <1>5, <1>6, <1>7, <1>8, <1>9, <1>10, <1>11, <1>12, <1>14, <1>15,
     <1>16, <1>17, <1>18, <1>19, <1>20, Zenon DEF Next, Quiet, FlipperThread, Crash

LEMMA NoOverlapStep ==
    TypeOK /\ ConnInv /\ Alone /\ NoOverlap /\ [Next]_managerVars => NoOverlap'
BY StopsBefore, OneRequestStep, Zenon DEF Alone, NoOverlap

LEMMA NoOverlapInit == Init => NoOverlap
<1> SUFFICES ASSUME Init PROVE OneRequest
  BY Zenon DEF NoOverlap
<1>1. /\ DOMAIN tasks = {} /\ thread = Idle /\ ~nullUsed /\ \A c \in Conn : conns[c] = Dead
  BY DEF Init
<1>2. ~HasSync /\ ~HasRequest /\ RequestFirst
  BY <1>1, Zenon DEF HasSync, HasRequest, RequestFirst
<1> QED
  BY <1>1, <1>2, IdleAt, DeadIsClosed, Zenon DEF OneRequest

\* The null client_ that two closures dereference without a check takes a stop: until
\* then there is one signing request at a time, and client_ is there until it is
\* answered.
THEOREM NullNeedsStopCorrect == Spec => []NullNeedsStop
<1>1. TypeOK /\ NoOverlap => NullNeedsStop
  <2>1. TypeOK => stops \in Nat
    BY ConnAssumption DEF ConnAssumption, TypeOK
  <2> QED
    BY <2>1 DEF NoOverlap, OneRequest, NullNeedsStop
<1> QED
  BY <1>1, AloneCorrect, NoOverlapInit, NoOverlapStep, PTL DEF Spec

-----------------------------------------------------------------------------
(* While the secure connection is open, no signing request is on its way. *)

\* The desktop has signed the key that is on disk, or was asked to.
Signed == store.key # NoKey /\ (store.cert = store.key \/ store.key \in toSign)

\* The request for the key on disk is the last one in the queue: until it is sent
\* the key cannot be signed.
KeyLast ==
    /\ Signed => ~HasRequest
    /\ \A i, j \in DOMAIN tasks :
          /\ tasks[i].run = "request" /\ tasks[j].run = "request"
          /\ store.key # NoKey /\ tasks[i].csr = store.key
          => j <= i

\* Every request that is not for the key on disk, when this one is thrown away or new.
LEMMA NewKey ==
    ASSUME TypeOK,
           \/ store'.key = NoKey
           \/ store'.key \in Key /\ Fresh(store'.key) /\ store'.cert = NoKey,
           UNCHANGED <<tasks, toSign>>
    PROVE  KeyLast'
<1>1. CASE store'.key = NoKey
  BY <1>1, Zenon DEF KeyLast, Signed
<1>2. CASE store'.key \in Key /\ Fresh(store'.key) /\ store'.cert = NoKey
  <2>1. store'.key # NoKey /\ store'.key \notin toSign
        /\ \A i \in DOMAIN tasks : tasks[i].csr # store'.key
    BY <1>2, KeyAssumption, Zenon DEF KeyAssumption, Fresh
  <2> QED
    BY <1>2, <2>1, Zenon DEF KeyLast, Signed
<1> QED
  BY <1>1, <1>2, Zenon

\* What the store can become: its keys are new or none, or stay what they are.
LEMMA NewStores ==
    ASSUME TypeOK
    PROVE  /\ ResetState(store).key = NoKey
           /\ \A k \in Key : /\ HalfGenerated(store, k).key = k
                             /\ HalfGenerated(store, k).cert = NoKey
                             /\ Generated(store, k).key = k
                             /\ Generated(store, k).csr = k
                             /\ Generated(store, k).cert = NoKey
           /\ ResetState(store).csr = NoKey
           /\ Loaded(store).key = store.key /\ Loaded(store).cert = store.cert
           /\ \A k : [store EXCEPT !.cert = k].key = store.key
           /\ Reopened(store).key = store.key /\ Reopened(store).cert = store.cert
<1>1. store \in ContextStore
  BY Zenon DEF TypeOK
<1> QED
  BY <1>1, Zenon
     DEF ResetState, EmptyStore, HalfGenerated, Generated, Loaded, Reopened, ContextStore

LEMMA GenerationKeys ==
    ASSUME TypeOK, NEW s \in Generations
    PROVE  \/ s.key = NoKey
           \/ s.key \in Key /\ Fresh(s.key) /\ s.cert = NoKey
<1>1. CASE s = ResetState(store)
  BY <1>1, NewStores, Zenon
<1>2. ASSUME NEW k \in Key, Fresh(k), s \in {Generated(store, k), HalfGenerated(store, k)}
      PROVE  s.key \in Key /\ Fresh(s.key) /\ s.cert = NoKey
  <2>1. s.key = k /\ s.cert = NoKey
    BY <1>2, NewStores, Zenon
  <2> QED
    BY <1>2, <2>1, Zenon
<1> QED
  BY <1>1, <1>2, Zenon DEF Generations, Ungenerated

\* A request leaves the queue.
LEMMA KeyTail ==
    ASSUME TypeOK, KeyLast, tasks # <<>>, tasks' = Tail(tasks), UNCHANGED store,
           Signed' => Signed \/ (Head(tasks).run = "request" /\ Head(tasks).csr = store.key)
    PROVE  KeyLast'
<1>1. /\ 1 \in DOMAIN tasks /\ Head(tasks) = tasks[1]
      /\ DOMAIN tasks' \subseteq Nat \ {0} /\ DOMAIN tasks \subseteq Nat \ {0}
      /\ \A i \in DOMAIN tasks' : i + 1 \in DOMAIN tasks /\ tasks'[i] = tasks[i + 1]
  BY TailTasks, Zenon
<1>2. HasRequest' => HasRequest
  BY <1>1, Zenon DEF HasRequest
<1>3. ASSUME NEW i \in DOMAIN tasks', NEW j \in DOMAIN tasks',
             tasks'[i].run = "request", tasks'[j].run = "request",
             store'.key # NoKey, tasks'[i].csr = store'.key
      PROVE  j <= i
  <2>1. j + 1 <= i + 1
    BY <1>1, <1>3 DEF KeyLast
  <2> QED
    BY <1>1, <2>1
<1>4. ASSUME Signed', HasRequest' PROVE FALSE
  <2>1. ~Signed /\ Head(tasks).run = "request" /\ Head(tasks).csr = store.key
    BY <1>2, <1>4, Zenon DEF KeyLast
  <2>2. PICK j \in DOMAIN tasks' : tasks'[j].run = "request"
    BY <1>4, Zenon DEF HasRequest
  <2>3. store.key # NoKey
    BY <1>4, Zenon DEF Signed
  <2>4. j + 1 <= 1
    BY <1>1, <2>1, <2>2, <2>3, Zenon DEF KeyLast
  <2> QED
    BY <1>1, <2>4
<1> QED
  BY <1>3, <1>4, Zenon DEF KeyLast

\* A task that is not a request joins the queue.
LEMMA KeyAppended ==
    ASSUME TypeOK, KeyLast, NEW x \in Task, x.run # "request", tasks' = Append(tasks, x),
           UNCHANGED <<store, toSign>>
    PROVE  KeyLast'
<1>1. /\ \A i \in DOMAIN tasks' :
            \/ i \in DOMAIN tasks /\ tasks'[i] = tasks[i]
            \/ i = Len(tasks) + 1
      /\ tasks'[Len(tasks) + 1] = x
  BY AppendTasks, Zenon
<1>2. \A i \in DOMAIN tasks' :
        tasks'[i].run = "request" => i \in DOMAIN tasks /\ tasks'[i] = tasks[i]
  BY <1>1, Zenon
<1>3. HasRequest' => HasRequest
  BY <1>2, Zenon DEF HasRequest
<1> QED
  BY <1>2, <1>3 DEF KeyLast, Signed

LEMMA KeyLastStep == TypeOK /\ KeyLast /\ [Next]_managerVars => KeyLast'
<1> SUFFICES ASSUME TypeOK, KeyLast, [Next]_managerVars PROVE KeyLast'
  BY Zenon
<1> USE DEF members, queues, arrivals, outside, history
<1>1. ASSUME UNCHANGED tasks, store'.key = store.key, store'.cert = store.cert,
             toSign' \subseteq toSign
      PROVE  KeyLast'
  BY <1>1, Zenon DEF KeyLast, Signed, HasRequest
<1>2. CASE \/ Stop \/ DelayOver \/ SendMessage \/ MessageTask
           \/ ConnectedReturns \/ DisconnectedReturns
  <2>1. UNCHANGED <<tasks, store, toSign>>
    BY <1>2, Zenon
       DEF Stop, DelayOver, SendMessage, MessageTask, ConnectedReturns, DisconnectedReturns
  <2> QED
    BY <1>1, <2>1, Zenon
<1>3. CASE (\E c \in Conn : ConnectSecurely(c)) \/ NoSSLContext
  <2>1. store' \in Requested(store, Generations) /\ UNCHANGED <<tasks, toSign>>
    BY <1>3, Zenon DEF ConnectSecurely, NoSSLContext
  <2>2. store' = Loaded(store) \/ store' \in Generations
    BY <2>1, Zenon DEF Requested
  <2>3. CASE store' = Loaded(store)
    BY <1>1, <2>1, <2>3, NewStores, Zenon
  <2>4. CASE store' \in Generations
    <3>1. \/ store'.key = NoKey
          \/ store'.key \in Key /\ Fresh(store'.key) /\ store'.cert = NoKey
      BY <2>4, GenerationKeys, Zenon
    <3> QED
      BY <2>1, <3>1, NewKey, Zenon
  <2> QED
    BY <2>2, <2>3, <2>4, Zenon
<1>4. CASE GenerationThrows \/ ExchangeThrows
  <2>1. /\ store' \in {ResetState(store)} \cup
                      {HalfGenerated(store, k) : k \in {j \in Key : Fresh(j)}}
        /\ UNCHANGED <<tasks, toSign>>
    BY <1>4, Zenon DEF GenerationThrows, ExchangeThrows, Ungenerated
  <2>2. CASE store' = ResetState(store)
    BY <2>1, <2>2, NewKey, NewStores, Zenon
  <2>3. ASSUME NEW k \in Key, Fresh(k), store' = HalfGenerated(store, k) PROVE KeyLast'
    <3>1. store'.key = k /\ store'.cert = NoKey
      BY <2>3, NewStores, Zenon
    <3> QED
      BY <2>1, <2>3, <3>1, NewKey, Zenon
  <2> QED
    BY <2>1, <2>2, <2>3, Zenon
<1>5. CASE ExchangeConnected
  <2>1. /\ store' \in Generations /\ tasks' = Append(tasks, Request(store'.csr))
        /\ store'.csr \in Csr /\ toSign' = toSign
    BY <1>5, GenerationTypes, Zenon DEF ExchangeConnected
  <2>2. \/ store'.key = NoKey
        \/ store'.key \in Key /\ Fresh(store'.key) /\ store'.cert = NoKey
    BY <2>1, GenerationKeys, Zenon
  <2>3. CASE store'.key = NoKey
    BY <2>3, Zenon DEF KeyLast, Signed
  <2>4. CASE store'.key # NoKey
    <3> DEFINE n == Len(tasks) + 1
    <3>1. /\ Len(tasks) \in Nat /\ DOMAIN tasks = 1 .. Len(tasks)
          /\ DOMAIN tasks' = 1 .. n
          /\ \A i \in DOMAIN tasks' :
                \/ i \in DOMAIN tasks /\ tasks'[i] = tasks[i]
                \/ i = n
      BY <2>1, AppendTasks, TaskFacts, Zenon
    <3>2. /\ store'.key \notin toSign' /\ store'.cert # store'.key
          /\ \A i \in DOMAIN tasks : tasks[i].csr # store'.key
      BY <2>1, <2>2, <2>4, Zenon DEF Fresh
    <3>3. \A i, j \in DOMAIN tasks' : tasks'[i].csr = store'.key => j <= i
      BY <3>1, <3>2
    <3> QED
      BY <3>2, <3>3, Zenon DEF KeyLast, Signed
  <2> QED
    BY <2>3, <2>4, Zenon
<1>6. CASE DesktopSigns
  <2>1. PICK k \in toSign \cap Key :
          /\ store' = [store EXCEPT !.cert = k] /\ toSign' = toSign \ {k}
          /\ UNCHANGED tasks
    BY <1>6, Zenon DEF DesktopSigns
  <2>2. store'.key = store.key /\ store'.cert = k
    <3>1. store \in ContextStore
      BY Zenon DEF TypeOK
    <3> QED
      BY <2>1, <3>1, Zenon DEF ContextStore
  <2>3. Signed' => Signed
    BY <2>1, <2>2 DEF Signed
  <2> QED
    BY <2>1, <2>2, <2>3, Zenon DEF KeyLast, HasRequest
<1>7. CASE Crash \/ Kill
  <2>1. DOMAIN tasks' = {}
    BY <1>7, RelaunchFacts, Zenon
  <2> QED
    BY <2>1, Zenon DEF KeyLast, HasRequest
<1>8. CASE SendRequest
  <2>1. /\ tasks # <<>> /\ tasks' = Tail(tasks) /\ Head(tasks).run = "request"
        /\ UNCHANGED store /\ toSign' \in {toSign, toSign \cup {Head(tasks).csr}}
    BY <1>8, Zenon DEF SendRequest
  <2>2. Signed' => Signed \/ Head(tasks).csr = store.key
    BY <2>1, Zenon DEF Signed
  <2> QED
    BY <2>1, <2>2, KeyTail, Zenon
<1>9. CASE StartSync
  <2>1. tasks # <<>> /\ tasks' = Tail(tasks) /\ UNCHANGED <<store, toSign>>
    BY <1>9, Zenon DEF StartSync
  <2>2. Signed' => Signed
    BY <2>1, Zenon DEF Signed
  <2> QED
    BY <2>1, <2>2, KeyTail, Zenon
<1>10. CASE SyncArrives
  BY <1>10, KeyAppended, TaskFacts, Zenon DEF SyncArrives
<1>11. CASE \/ Start \/ StopEnds \/ DesktopForgets \/ BecomeSteady \/ Refused \/ ConnectThrows
            \/ SecureConnected \/ UNCHANGED managerVars
  <2>1. UNCHANGED <<tasks, store>> /\ toSign' \subseteq toSign
    BY <1>11, ZenonT(30)
       DEF Start, StopEnds, DesktopForgets, BecomeSteady, Refused, ConnectThrows,
           SecureConnected, managerVars
  <2> QED
    BY <1>1, <2>1, Zenon
<1>12. ASSUME NEW c \in Conn,
              \/ ConnectInsecurely(c) \/ Answered(c) \/ AnsweredNotImplemented(c) \/ Lost(c)
              \/ OnConnected(c) \/ OnClosed(c)
       PROVE  KeyLast'
  <2>1. UNCHANGED <<tasks, store>>
    BY <1>12, ZenonT(30)
       DEF ConnectInsecurely, Answered, AnsweredNotImplemented, Lost, OnConnected, OnClosed
  <2>2. toSign' \subseteq toSign
    <3>1. CASE ConnectInsecurely(c) \/ Answered(c) \/ Lost(c) \/ OnConnected(c) \/ OnClosed(c)
      BY <3>1, ZenonT(30) DEF ConnectInsecurely, Answered, Lost, OnConnected, OnClosed
    <3>2. CASE AnsweredNotImplemented(c)
      BY <3>2, Zenon DEF AnsweredNotImplemented
    <3> QED
      BY <1>12, <3>1, <3>2, Zenon
  <2> QED
    BY <1>1, <2>1, <2>2, Zenon
<1> QED
  BY <1>2, <1>3, <1>4, <1>5, <1>6, <1>7, <1>8, <1>9, <1>10, <1>11, <1>12, Zenon
     DEF Next, Quiet, FlipperThread

LEMMA KeyLastInit == Init => KeyLast
BY DEF Init, KeyLast, HasRequest

\* The connection that client_ is, or becomes when startSync ends.
Target == IF thread.at = "got secure" THEN thread.conn ELSE client

\* A secure connection is opened when no request is left, and client_ is this connection
\* as long as it is open, or becomes it.
SecureClient ==
    /\ thread.at \in {"wait secure", "got secure"} => ~HasRequest
    /\ thread.at \in {"wait exchange", "got exchange"} => ~trusted
    /\ thread.at = "got secure" => thread.conn \in Conn
    /\ IsOpen => ~HasRequest /\ NothingAsked
    /\ IsOpen => \A c \in Conn : Live(c) => c = Target

\* Steps that neither open a connection nor ask, answer or run startSync.
LEMMA SecureKept ==
    ASSUME SecureClient, UNCHANGED <<thread, client>>, HasRequest' => HasRequest,
           IsOpen' => IsOpen, trusted' => trusted,
           \A d \in Conn : conns'[d].asked = conns[d].asked \/ conns'[d].asked = {},
           IsOpen' => \A d \in Conn : Live(d)' => Live(d)
    PROVE  SecureClient'
<1>1. NothingAsked => NothingAsked'
  BY Zenon DEF NothingAsked
<1>2. Target' = Target
  BY Zenon DEF Target
<1> QED
  BY <1>1, <1>2, Zenon DEF SecureClient

\* startSync ends, or has not opened its connection.
LEMMA SecureIdle ==
    ASSUME SecureClient, ~IsOpen',
           thread'.at \notin {"wait exchange", "got exchange", "wait secure", "got secure"}
    PROVE  SecureClient'
BY Zenon DEF SecureClient

LEMMA RequestsKept ==
    ASSUME TypeOK,
           \/ tasks' = tasks
           \/ tasks # <<>> /\ tasks' = Tail(tasks)
           \/ \E x \in Task : x.run # "request" /\ tasks' = Append(tasks, x)
    PROVE  HasRequest' => HasRequest
<1>1. CASE tasks' = tasks
  BY <1>1, Zenon DEF HasRequest
<1>2. CASE tasks # <<>> /\ tasks' = Tail(tasks)
  BY <1>2, TailTasks DEF HasRequest
<1>3. ASSUME NEW x \in Task, x.run # "request", tasks' = Append(tasks, x)
      PROVE  HasRequest' => HasRequest
  <2>1. \A i \in DOMAIN tasks' :
          (i \in DOMAIN tasks /\ tasks'[i] = tasks[i]) \/ tasks'[i] = x
    BY <1>3, AppendTasks, Zenon
  <2> QED
    BY <1>3, <2>1, Zenon DEF HasRequest
<1> QED
  BY <1>1, <1>2, <1>3, Zenon

LEMMA SecureStep ==
    ASSUME TypeOK, ConnInv, OneOf, OneLive, KeyLast, SecureClient, [Next]_managerVars, ~Stop
    PROVE  SecureClient'
<1> USE DEF members, queues, arrivals, outside, history
<1>1. /\ thread.at \in {"wait secure", "got secure"} => ~HasRequest
      /\ thread.at \in {"wait exchange", "got exchange"} => ~trusted
      /\ thread.at = "got secure" => thread.conn \in Conn
      /\ IsOpen => ~HasRequest /\ NothingAsked
      /\ IsOpen => \A c \in Conn : Live(c) => c = Target
  BY Zenon DEF SecureClient
<1>2. Busy => ~isOpen
  BY Zenon DEF OneOf
<1>3. CASE Start \/ DesktopSigns \/ DesktopForgets \/ BecomeSteady \/ UNCHANGED managerVars
  <2>1. UNCHANGED <<tasks, thread, client, conns, isOpen, trusted>>
    BY <1>3, Zenon DEF Start, DesktopSigns, DesktopForgets, BecomeSteady, managerVars
  <2>2. (HasRequest' => HasRequest) /\ (IsOpen' => IsOpen)
    BY <2>1, Zenon DEF HasRequest, IsOpen
  <2>3. \A d \in Conn : Live(d)' => Live(d)
    BY <2>1, Zenon DEF Live
  <2> QED
    BY <2>1, <2>2, <2>3, SecureKept, Zenon
<1>4. CASE StopEnds
  BY <1>4, Zenon DEF StopEnds, OneOf
<1>5. CASE \/ DelayOver \/ SyncArrives \/ SendMessage \/ MessageTask
           \/ ConnectedReturns \/ DisconnectedReturns
  <2>1. UNCHANGED <<thread, client, conns, isOpen, trusted>>
    BY <1>5, Zenon
       DEF DelayOver, SyncArrives, SendMessage, MessageTask, ConnectedReturns,
           DisconnectedReturns
  <2>4. \A d \in Conn : Live(d)' => Live(d)
    BY <2>1, Zenon DEF Live
  <2>2. tasks' = tasks \/ tasks' = Append(tasks, Sync)
    BY <1>5, Zenon
       DEF DelayOver, SyncArrives, SendMessage, MessageTask, ConnectedReturns,
           DisconnectedReturns
  <2>3. (HasRequest' => HasRequest) /\ (IsOpen' => IsOpen)
    BY <2>1, <2>2, RequestsKept, TaskFacts, Zenon DEF IsOpen
  <2> QED
    BY <2>1, <2>3, <2>4, SecureKept, Zenon
<1>6. CASE StartSync
  <2>1. /\ tasks # <<>> /\ Head(tasks) = Sync /\ tasks' = Tail(tasks)
        /\ thread' \in {Idle, [Idle EXCEPT !.at = "exchange"], [Idle EXCEPT !.at = "secure"]}
        /\ isOpen' = isOpen
    BY <1>6, Zenon DEF StartSync
  <2>2. ~isOpen'
    BY <2>1, TailTasks, Zenon DEF OneOf, HasSync
  <2>3. thread'.at \in {"idle", "exchange", "secure"}
    BY <2>1, ThreadFacts, ZenonT(30)
  <2>4. thread'.at \notin {"wait exchange", "got exchange", "wait secure", "got secure"}
    BY <2>3, Zenon
  <2> QED
    BY <2>2, <2>4, SecureIdle, Zenon DEF IsOpen
<1>7. ASSUME NEW c \in Conn, ConnectInsecurely(c) PROVE SecureClient'
  <2>1. /\ thread.at = "exchange" /\ thread' = [at |-> "wait exchange", conn |-> c]
        /\ trusted' = FALSE
    BY <1>7, Zenon DEF ConnectInsecurely
  <2>2. thread'.at = "wait exchange"
    BY <2>1, Zenon
  <2>3. ~IsOpen'
    BY <2>1, Zenon DEF IsOpen
  <2> QED
    BY <2>1, <2>2, <2>3, Zenon DEF SecureClient
<1>8. ASSUME NEW c \in Conn, ConnectSecurely(c) PROVE SecureClient'
  <2>1. /\ thread.at = "secure" /\ thread' = [at |-> "wait secure", conn |-> c]
        /\ SSLContextLoads(store') /\ UNCHANGED <<isOpen, tasks>>
    BY <1>8, Zenon DEF ConnectSecurely
  <2>2. Signed' /\ KeyLast'
    BY <2>1, KeyLastStep, Zenon DEF Signed, SSLContextLoads, HasRequiredFiles
  <2>3. ~HasRequest'
    BY <2>2, Zenon DEF KeyLast
  <2>4. ~IsOpen'
    BY <1>2, <2>1, Zenon DEF Busy, IsOpen
  <2>5. thread'.at = "wait secure"
    BY <2>1, Zenon
  <2> QED
    BY <2>3, <2>4, <2>5, Zenon DEF SecureClient
<1>9. CASE NoSSLContext \/ GenerationThrows \/ Refused \/ ConnectThrows
  <2>1. thread' = Idle /\ isOpen' = isOpen /\ Busy
    BY <1>9, Zenon
       DEF NoSSLContext, GenerationThrows, Refused, ConnectThrows, AttemptFails, Busy, Waiting
  <2>2. ~IsOpen'
    BY <1>2, <2>1, Zenon DEF IsOpen
  <2> QED
    BY <2>1, <2>2, IdleAt, SecureIdle, Zenon
<1>10. CASE ExchangeConnected \/ ExchangeThrows
  <2>1. thread.at = "got exchange" /\ thread' = Idle /\ UNCHANGED <<isOpen, trusted>>
    BY <1>10, Zenon DEF ExchangeConnected, ExchangeThrows
  <2>2. ~IsOpen'
    BY <1>1, <2>1, Zenon DEF IsOpen
  <2> QED
    BY <2>1, <2>2, IdleAt, SecureIdle, Zenon
<1>11. CASE SecureConnected
  <2>1. /\ thread.at = "got secure" /\ client' = thread.conn /\ thread' = Idle
        /\ conns' = CloseLater(conns, client) /\ UNCHANGED <<isOpen, trusted, tasks>>
    BY <1>11, Zenon DEF SecureConnected
  <2>2. ~HasRequest'
    BY <1>1, <2>1, Zenon DEF HasRequest
  <2>4. Target' = Target
    BY <2>1, IdleAt, Zenon DEF Target
  <2>5. IsOpen' => \A c \in Conn : Live(c)' => c = Target'
    <3>1. \A d \in Conn : Live(d)' => Live(d)
      BY <2>1, ClosingLives, Zenon
    <3> QED
      BY <1>1, <2>1, <2>4, <3>1, Zenon DEF IsOpen
  <2>3. IsOpen' => NothingAsked'
    BY <1>1, <2>1, ClosingAsks, Zenon DEF IsOpen, NothingAsked
  <2> QED
    BY <2>1, <2>2, <2>3, <2>5, IdleAt, Zenon DEF SecureClient
<1>12. CASE SendRequest
  <2>1. /\ tasks # <<>> /\ Head(tasks).run = "request" /\ thread = Idle
        /\ UNCHANGED <<thread, isOpen, trusted>>
    BY <1>12, Zenon DEF SendRequest
  <2>2. HasRequest
    <3>1. 1 \in DOMAIN tasks /\ Head(tasks) = tasks[1]
      BY <2>1, SMTT(30) DEF TypeOK
    <3> QED
      BY <2>1, <3>1, Zenon DEF HasRequest
  <2>3. ~IsOpen'
    BY <1>1, <2>1, <2>2, Zenon DEF IsOpen
  <2> QED
    BY <2>1, <2>3, IdleAt, SecureIdle, Zenon
<1>13. ASSUME NEW c \in Conn, Answered(c) \/ AnsweredNotImplemented(c) PROVE SecureClient'
  <2>1. UNCHANGED <<tasks, thread, isOpen, trusted>>
    BY <1>13, ZenonT(30) DEF Answered, AnsweredNotImplemented
  <2>2. conns[c].asked # {}
    BY <1>13, AnswerFacts, Zenon DEF ConnInv
  <2>3. ~IsOpen'
    BY <1>1, <2>1, <2>2, Zenon DEF IsOpen, NothingAsked
  <2> QED
    BY <1>1, <2>1, <2>3, Zenon DEF SecureClient, HasRequest
<1>14. ASSUME NEW c \in Conn, Lost(c) PROVE SecureClient'
  <2>1. UNCHANGED <<tasks, thread, client, isOpen, trusted>> /\ conns' = Close(conns, c)
    BY <1>14, Zenon DEF Lost
  <2>2. \A d \in Conn : conns'[d].asked = conns[d].asked \/ conns'[d].asked = {}
    BY <2>1, ClosingAsks, Zenon
  <2>3. (HasRequest' => HasRequest) /\ (IsOpen' => IsOpen)
    BY <2>1, Zenon DEF HasRequest, IsOpen
  <2>4. \A d \in Conn : Live(d)' => Live(d)
    BY <2>1, ClosingLives, Zenon
  <2> QED
    BY <2>1, <2>2, <2>3, <2>4, SecureKept, Zenon
<1>15. ASSUME NEW c \in Conn, OnConnected(c) PROVE SecureClient'
  <2>1. /\ Busy /\ thread' # Idle /\ thread'.conn = c /\ UNCHANGED <<trusted, tasks>>
        /\ conns'[c].asked = conns[c].asked /\ \A d \in Conn : d # c => conns'[d] = conns[d]
    BY <1>15, OnConnectedFacts, Zenon
  <2>2. \/ thread.at = "wait secure" /\ thread'.at = "got secure"
        \/ thread.at = "wait exchange" /\ thread'.at = "got exchange"
    <3>1. /\ thread.at \in {"wait exchange", "wait secure"}
          /\ thread' = [thread EXCEPT !.at =
                          IF thread.at = "wait secure" THEN "got secure" ELSE "got exchange"]
      BY <1>15, Zenon DEF OnConnected, Waiting
    <3> QED
      BY <3>1, Zenon DEF TypeOK, Thread
  <2>3. NothingAsked
    BY <1>2, <2>1, Zenon DEF ConnInv, AskedIsLive, OneLive, NothingAsked
  <2>4. NothingAsked'
    BY <2>1, <2>3, Zenon DEF NothingAsked
  <2>5. CASE thread.at = "wait secure" /\ thread'.at = "got secure"
    <3>1. ~HasRequest'
      BY <1>1, <2>1, <2>5, Zenon DEF HasRequest
    <3>2. \A d \in Conn : Live(d)' => d = c
      <4>1. \A d \in Conn : ~Live(d)
        BY <1>2, <2>1, Zenon DEF OneLive
      <4> QED
        BY <2>1, <4>1, Zenon DEF Live
    <3>3. Target' = c
      BY <2>1, <2>5, Zenon DEF Target
    <3> QED
      BY <2>1, <2>4, <2>5, <3>1, <3>2, <3>3, Zenon DEF SecureClient
  <2>6. CASE thread.at = "wait exchange" /\ thread'.at = "got exchange"
    <3>1. ~trusted' /\ ~IsOpen'
      BY <1>1, <2>1, <2>6, Zenon DEF IsOpen
    <3> QED
      BY <2>6, <3>1, Zenon DEF SecureClient
  <2> QED
    BY <2>2, <2>5, <2>6, Zenon
<1>16. ASSUME NEW c \in Conn, OnClosed(c) PROVE SecureClient'
  <2>1. /\ UNCHANGED <<tasks, thread, client>> /\ conns'[c] = Dead /\ isOpen' = FALSE
        /\ trusted' = (trusted /\ ~isOpen) /\ \A d \in Conn : d # c => conns'[d] = conns[d]
    BY <1>16, OnClosedFacts, Zenon
  <2>2. \A d \in Conn : conns'[d].asked = conns[d].asked \/ conns'[d].asked = {}
    BY <2>1, DeadIsClosed, Zenon
  <2>3. (HasRequest' => HasRequest) /\ ~IsOpen'
    BY <2>1, Zenon DEF HasRequest, IsOpen
  <2>4. trusted' => trusted
    BY <2>1, Zenon
  <2> QED
    BY <2>1, <2>2, <2>3, <2>4, SecureKept, Zenon
<1>17. CASE Crash \/ Kill
  <2>1. thread' = Idle /\ isOpen' = FALSE
    BY <1>17, RelaunchFacts, Zenon
  <2> QED
    BY <2>1, IdleAt, SecureIdle, Zenon DEF IsOpen
<1> QED
  BY <1>3, <1>4, <1>5, <1>6, <1>7, <1>8, <1>9, <1>10, <1>11, <1>12, <1>13, <1>14, <1>15,
     <1>16, <1>17, SMTT(30) DEF Next, Quiet, FlipperThread

SecureInv == stops = 0 => SecureClient

LEMMA SecureInvStep ==
    TypeOK /\ ConnInv /\ Alone /\ KeyLast /\ SecureInv /\ [Next]_managerVars => SecureInv'
BY StopsBefore, SecureStep, Zenon DEF Alone, SecureInv

LEMMA SecureInit == Init => SecureInv
BY IdleAt, Zenon DEF Init, SecureInv, SecureClient, IsOpen

LEMMA SecureCorrect == Spec => [](KeyLast /\ SecureInv)
BY AloneCorrect, KeyLastInit, KeyLastStep, SecureInit, SecureInvStep, PTL DEF Spec

-----------------------------------------------------------------------------
(* The messages of a connection are out of the queue before the next one is opened. *)

Addressed == \E i \in DOMAIN inbox : inbox[i].on # NoConn

\* Messages for a connection wait only for that connection, and no startSync that could
\* replace it is ahead of them.
InOrder ==
    /\ Addressed => /\ ~HasSync /\ ~HasRequest /\ NothingAsked
                    /\ thread.at \in {"idle", "got secure"}
    /\ \A i \in DOMAIN inbox : inbox[i].on # NoConn => inbox[i].on = Target
    /\ \A i, j \in DOMAIN inbox : inbox[i].on # NoConn /\ inbox[j] = Due => i < j

\* No message for a connection waits.
LEMMA NotAddressed ==
    ASSUME ~Addressed'
    PROVE  InOrder'
BY Zenon DEF Addressed, InOrder

\* Steps that leave the queue of the event base, the thread and the client alone.
LEMMA InOrderKept ==
    ASSUME InOrder, UNCHANGED <<inbox, thread, client>>,
           HasSync' => HasSync, HasRequest' => HasRequest, NothingAsked => NothingAsked'
    PROVE  InOrder'
<1>1. (Addressed' <=> Addressed) /\ Target' = Target
  BY Zenon DEF Addressed, Target
<1> QED
  BY <1>1, Zenon DEF InOrder

LEMMA InOrderTail ==
    ASSUME TypeOK, InOrder, inbox # <<>>, inbox' = Tail(inbox)
    PROVE  /\ Addressed' => Addressed
           /\ \A i \in DOMAIN inbox' : inbox'[i].on # NoConn => inbox'[i].on = Target
           /\ \A i, j \in DOMAIN inbox' : inbox'[i].on # NoConn /\ inbox'[j] = Due => i < j
           /\ Head(inbox) = Due => ~Addressed
<1>1. /\ 1 \in DOMAIN inbox /\ Head(inbox) = inbox[1] /\ DOMAIN inbox \subseteq Nat \ {0}
      /\ DOMAIN inbox' \subseteq Nat \ {0}
      /\ \A i \in DOMAIN inbox' : i + 1 \in DOMAIN inbox /\ inbox'[i] = inbox[i + 1]
  BY TailInbox, Zenon
<1>2. /\ \A i \in DOMAIN inbox : inbox[i].on # NoConn => inbox[i].on = Target
      /\ \A i, j \in DOMAIN inbox : inbox[i].on # NoConn /\ inbox[j] = Due => i < j
  BY Zenon DEF InOrder
<1>3. ASSUME NEW i \in DOMAIN inbox', NEW j \in DOMAIN inbox',
             inbox'[i].on # NoConn, inbox'[j] = Due
      PROVE  i < j
  <2>1. i + 1 < j + 1
    BY <1>1, <1>2, <1>3
  <2> QED
    BY <1>1, <2>1
<1>4. Addressed' => Addressed
  BY <1>1 DEF Addressed
<1>5. ASSUME Head(inbox) = Due, NEW i \in DOMAIN inbox, inbox[i].on # NoConn PROVE FALSE
  <2>1. i < 1
    BY <1>1, <1>2, <1>5
  <2> QED
    BY <1>1, <2>1
<1>6. \A i \in DOMAIN inbox' : inbox'[i].on # NoConn => inbox'[i].on = Target
  BY <1>1, <1>2
<1> QED
  BY <1>3, <1>4, <1>5, <1>6, Zenon DEF Addressed

LEMMA InOrderSend ==
    ASSUME TypeOK, OneOf, SecureClient, InOrder, SendMessage
    PROVE  InOrder'
<1> USE DEF members, queues, arrivals, outside, history
<1>1. PICK c \in Conn \cup {NoConn} :
        /\ inbox' = Append(inbox, Message(c))
        /\ c # NoConn => IsOpen /\ c \in Conn /\ Live(c)
  BY SendFacts, Zenon
<1>2. Message(c) \in Arrival /\ Message(c) # Due /\ Message(c).on = c
  BY ArrivalFacts, Zenon
<1>3. UNCHANGED <<client, thread, tasks, conns>>
  BY Zenon DEF SendMessage
<1>4. Target' = Target /\ (HasSync' <=> HasSync) /\ (HasRequest' <=> HasRequest)
      /\ (NothingAsked' <=> NothingAsked)
  BY <1>3, Zenon DEF Target, HasSync, HasRequest, NothingAsked
<1>5. /\ DOMAIN inbox = 1 .. Len(inbox) /\ Len(inbox) \in Nat
      /\ \A i \in DOMAIN inbox' :
            (i \in DOMAIN inbox /\ inbox'[i] = inbox[i]) \/ (i = Len(inbox) + 1 /\ inbox'[i] = Message(c))
  BY <1>1, <1>2, AppendInbox, Zenon
<1>6. CASE c = NoConn
  <2>1. \A i \in DOMAIN inbox' :
          inbox'[i].on # NoConn \/ inbox'[i] = Due => i \in DOMAIN inbox /\ inbox'[i] = inbox[i]
    BY <1>2, <1>5, <1>6, Zenon
  <2>2. Addressed' => Addressed
    BY <2>1, Zenon DEF Addressed
  <2>3. \A i \in DOMAIN inbox' : inbox'[i].on # NoConn => inbox'[i].on = Target'
    BY <1>4, <2>1, Zenon DEF InOrder
  <2>4. \A i, j \in DOMAIN inbox' : inbox'[i].on # NoConn /\ inbox'[j] = Due => i < j
    BY <2>1, Zenon DEF InOrder
  <2> QED
    BY <1>3, <1>4, <2>2, <2>3, <2>4, Zenon DEF InOrder
<1>7. CASE c # NoConn
  <2>1. IsOpen /\ c = Target /\ ~HasRequest /\ NothingAsked
    BY <1>1, <1>7, Zenon DEF SecureClient
  <2>2. ~HasSync /\ ~HasDue /\ ~Busy
    BY <2>1, Zenon DEF OneOf, IsOpen
  <2>3. thread.at # "got exchange"
    BY <2>1, Zenon DEF SecureClient, IsOpen
  <2>4. thread.at \in {"idle", "got secure"}
    BY <2>2, <2>3, Zenon DEF Busy, TypeOK, Thread
  <2>5. \A j \in DOMAIN inbox' : inbox'[j] # Due
    BY <1>2, <1>5, <2>2, Zenon DEF HasDue
  <2>6. \A i \in DOMAIN inbox' : inbox'[i].on # NoConn => inbox'[i].on = Target'
    BY <1>2, <1>4, <1>5, <2>1, Zenon DEF InOrder
  <2> QED
    BY <1>3, <1>4, <2>1, <2>2, <2>4, <2>5, <2>6, Zenon DEF InOrder
<1> QED
  BY <1>6, <1>7, Zenon

LEMMA InOrderStep ==
    ASSUME TypeOK, ConnInv, OneOf, SecureClient, InOrder, [Next]_managerVars, ~Stop
    PROVE  InOrder'
<1> USE DEF members, queues, arrivals, outside, history
<1>1. ASSUME UNCHANGED inbox PROVE Addressed' <=> Addressed
  BY <1>1, Zenon DEF Addressed
<1>2. ASSUME UNCHANGED inbox, ~Addressed PROVE InOrder'
  BY <1>1, <1>2, NotAddressed, Zenon
<1>3. /\ HasSync => ~Addressed
      /\ HasRequest => ~Addressed
      /\ ~NothingAsked => ~Addressed
      /\ thread.at \notin {"idle", "got secure"} => ~Addressed
  BY Zenon DEF InOrder
<1>4. CASE \/ Start \/ DesktopSigns \/ DesktopForgets \/ BecomeSteady
           \/ ConnectedReturns \/ DisconnectedReturns \/ UNCHANGED managerVars
  <2>1. UNCHANGED <<inbox, tasks, thread, client, conns>>
    BY <1>4, Zenon DEF Start, DesktopSigns, DesktopForgets, BecomeSteady, ConnectedReturns,
       DisconnectedReturns, managerVars
  <2> QED
    BY <2>1, InOrderKept, Zenon DEF HasSync, HasRequest, NothingAsked
<1>5. CASE StopEnds
  BY <1>5, Zenon DEF StopEnds, OneOf
<1>6. CASE DelayOver
  <2>1. inbox' = Append(inbox, Due) /\ UNCHANGED <<client, tasks, thread, conns>>
    BY <1>6, Zenon DEF DelayOver
  <2>2. /\ DOMAIN inbox = 1 .. Len(inbox) /\ Len(inbox) \in Nat
        /\ \A i \in DOMAIN inbox' :
              \/ i \in DOMAIN inbox /\ inbox'[i] = inbox[i]
              \/ i = Len(inbox) + 1 /\ inbox'[i] = Due
    BY <2>1, AppendInbox, ArrivalFacts, Zenon
  <2>3. \A i \in DOMAIN inbox' :
          inbox'[i].on # NoConn => i \in DOMAIN inbox /\ inbox'[i] = inbox[i]
    BY <2>2, ArrivalFacts, Zenon
  <2>4. ASSUME NEW i \in DOMAIN inbox', NEW j \in DOMAIN inbox',
               inbox'[i].on # NoConn, inbox'[j] = Due
        PROVE  i < j
    <3>1. i \in DOMAIN inbox /\ inbox[i].on # NoConn
      BY <2>3, <2>4, Zenon
    <3>2. CASE j \in DOMAIN inbox /\ inbox'[j] = inbox[j]
      BY <2>4, <3>1, <3>2, Zenon DEF InOrder
    <3>3. CASE j = Len(inbox) + 1
      BY <2>2, <3>1, <3>3
    <3> QED
      BY <2>2, <3>2, <3>3, Zenon
  <2>5. Target' = Target /\ (Addressed' => Addressed)
    BY <2>1, <2>3, Zenon DEF Target, Addressed
  <2>6. (HasSync' => HasSync) /\ (HasRequest' => HasRequest) /\ (NothingAsked => NothingAsked')
    BY <2>1, Zenon DEF HasSync, HasRequest, NothingAsked
  <2>7. \A i \in DOMAIN inbox' : inbox'[i].on # NoConn => inbox'[i].on = Target'
    BY <2>3, <2>5, Zenon DEF InOrder
  <2> QED
    BY <2>1, <2>4, <2>5, <2>6, <2>7, Zenon DEF InOrder
<1>7. CASE SyncArrives
  <2>1. inbox # <<>> /\ Head(inbox) = Due /\ inbox' = Tail(inbox)
    BY <1>7, Zenon DEF SyncArrives
  <2> QED
    BY <2>1, InOrderTail, NotAddressed, Zenon
<1>8. CASE SendMessage
  BY <1>8, InOrderSend, Zenon
<1>9. CASE MessageTask
  <2>1. inbox # <<>> /\ inbox' = Tail(inbox) /\ UNCHANGED <<client, tasks, thread, conns>>
    BY <1>9, Zenon DEF MessageTask
  <2>2. /\ Target' = Target /\ (HasSync' => HasSync) /\ (HasRequest' => HasRequest)
        /\ NothingAsked => NothingAsked'
    BY <2>1, Zenon DEF Target, HasSync, HasRequest, NothingAsked
  <2> QED
    BY <2>1, <2>2, InOrderTail, Zenon DEF InOrder
<1>10. CASE StartSync
  <2>1. tasks # <<>> /\ Head(tasks) = Sync /\ tasks' = Tail(tasks) /\ UNCHANGED inbox
    BY <1>10, Zenon DEF StartSync
  <2>2. HasSync
    BY <2>1, TailTasks, Zenon DEF HasSync
  <2> QED
    BY <1>2, <1>3, <2>1, <2>2, Zenon
<1>11. ASSUME NEW c \in Conn, ConnectInsecurely(c) \/ ConnectSecurely(c) PROVE InOrder'
  BY <1>2, <1>3, <1>11, Zenon DEF ConnectInsecurely, ConnectSecurely
<1>12. CASE NoSSLContext \/ GenerationThrows \/ Refused \/ ConnectThrows
  <2>1. thread.at \notin {"idle", "got secure"} /\ UNCHANGED inbox
    BY <1>12, Zenon
       DEF NoSSLContext, GenerationThrows, Refused, ConnectThrows, AttemptFails, Waiting
  <2> QED
    BY <1>2, <1>3, <2>1, Zenon
<1>13. CASE ExchangeConnected \/ ExchangeThrows
  BY <1>2, <1>3, <1>13, Zenon DEF ExchangeConnected, ExchangeThrows
<1>14. CASE SecureConnected
  <2>1. /\ thread.at = "got secure" /\ client' = thread.conn /\ thread' = Idle
        /\ conns' = CloseLater(conns, client) /\ UNCHANGED <<inbox, tasks>>
    BY <1>14, Zenon DEF SecureConnected
  <2>2. thread'.at = "idle"
    BY <2>1, IdleAt, Zenon
  <2>3. Target' = Target
    BY <2>1, <2>2, Zenon DEF Target
  <2>4. NothingAsked => NothingAsked'
    BY <2>1, ClosingAsks, Zenon DEF NothingAsked
  <2>5. (HasSync' <=> HasSync) /\ (HasRequest' <=> HasRequest)
    BY <2>1, Zenon DEF HasSync, HasRequest
  <2>6. Addressed' <=> Addressed
    BY <1>1, <2>1, Zenon
  <2>7. UNCHANGED inbox
    BY <2>1, Zenon
  <2> QED
    BY <2>2, <2>3, <2>4, <2>5, <2>6, <2>7, Zenon DEF InOrder
<1>15. CASE SendRequest
  <2>1. tasks # <<>> /\ Head(tasks).run = "request" /\ tasks' = Tail(tasks) /\ UNCHANGED inbox
    BY <1>15, Zenon DEF SendRequest
  <2>2. HasRequest
    BY <2>1, TailTasks, Zenon DEF HasRequest
  <2> QED
    BY <1>2, <1>3, <2>1, <2>2, Zenon
<1>16. ASSUME NEW c \in Conn, Answered(c) \/ AnsweredNotImplemented(c) PROVE InOrder'
  <2>1. UNCHANGED inbox
    BY <1>16, ZenonT(30) DEF Answered, AnsweredNotImplemented
  <2>2. ~NothingAsked
    BY <1>16, AnswerFacts, Zenon DEF ConnInv, NothingAsked
  <2> QED
    BY <1>2, <1>3, <2>1, <2>2, Zenon
<1>17. ASSUME NEW c \in Conn, Lost(c) PROVE InOrder'
  <2>1. UNCHANGED <<inbox, tasks, thread, client>> /\ conns' = Close(conns, c)
    BY <1>17, Zenon DEF Lost
  <2>2. NothingAsked => NothingAsked'
    BY <2>1, ClosingAsks, Zenon DEF NothingAsked
  <2> QED
    BY <2>1, <2>2, InOrderKept, Zenon DEF HasSync, HasRequest
<1>18. ASSUME NEW c \in Conn, OnConnected(c) PROVE InOrder'
  <2>1. thread.at \notin {"idle", "got secure"} /\ UNCHANGED inbox
    BY <1>18, Zenon DEF OnConnected, Waiting
  <2> QED
    BY <1>2, <1>3, <2>1, Zenon
<1>19. ASSUME NEW c \in Conn, OnClosed(c) PROVE InOrder'
  <2>1. /\ UNCHANGED <<inbox, tasks, thread, client>> /\ conns'[c] = Dead
        /\ \A d \in Conn : d # c => conns'[d] = conns[d]
    BY <1>19, OnClosedFacts, Zenon
  <2>2. NothingAsked => NothingAsked'
    BY <2>1, DeadIsClosed, Zenon DEF NothingAsked
  <2> QED
    BY <2>1, <2>2, InOrderKept, Zenon DEF HasSync, HasRequest
<1>20. CASE Crash \/ Kill
  <2>1. DOMAIN inbox' = {}
    BY <1>20, RelaunchFacts, Zenon
  <2> QED
    BY <2>1, NotAddressed, Zenon DEF Addressed
<1> QED
  BY <1>4, <1>5, <1>6, <1>7, <1>8, <1>9, <1>10, <1>11, <1>12, <1>13, <1>14, <1>15, <1>16,
     <1>17, <1>18, <1>19, <1>20, Zenon DEF Next, Quiet, FlipperThread

MessageInv == stops = 0 => InOrder

\* A message that sendMessage has handed to the event base for the open connection is
\* never sent on a later one, until stop is called: startSync, which alone replaces
\* client_, comes to the event base through the same queue as the message, and behind it,
\* and no answer to a signing request is left that could take client_ away.
THEOREM MessageStaysCorrect == Spec => []MessageStays
<1>1. Init => MessageInv
  <2> SUFFICES ASSUME Init PROVE InOrder
    BY Zenon DEF MessageInv
  <2>1. DOMAIN inbox = {}
    BY DEF Init
  <2> QED
    BY <2>1, Zenon DEF InOrder, Addressed
<1>2. /\ TypeOK /\ ConnInv /\ Alone /\ KeyLast /\ SecureInv /\ MessageInv
      /\ [Next]_managerVars
      => MessageInv'
  BY StopsBefore, InOrderStep, Zenon DEF Alone, SecureInv, MessageInv
<1>3. MessageInv => MessageStays
  BY Zenon DEF MessageInv, InOrder, Target, MessageStays
<1> QED
  BY <1>1, <1>2, <1>3, AloneCorrect, SecureCorrect, PTL DEF Spec
=============================================================================
