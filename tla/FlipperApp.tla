------------------------------ MODULE FlipperApp ------------------------------
(***************************************************************************)
(* The client and its connection together: FlipperClient is the Callbacks  *)
(* of the FlipperConnectionManagerImpl it owns, and sends its messages     *)
(* through it.                                                             *)
(*                                                                         *)
(* The connection thread calls the client when a connection opens or       *)
(* closes while connectionIsTrusted_, and hands it the messages of the     *)
(* desktop; only a connection made by connectSecurely has a responder that *)
(* takes messages.                                                         *)
(***************************************************************************)
EXTENDS FlipperConnection, FlipperClient

appVars == <<managerVars, clientVars>>

-----------------------------------------------------------------------------
AppInit == Init /\ ClientInit

\* refreshPlugins, when the client is connected.
Refresh ==
    IF connected THEN SendMessage ELSE UNCHANGED managerVars

\* The operations of the client an application calls.
PluginCall ==
    \E p \in Plugin :
        \/ (AddPlugin(p) \/ RemovePlugin(p)) /\ Refresh
        \/ /\ AddPluginThrows(p) \/ RemovePluginFails(p) \/ RemovePluginThrows(p)
           /\ UNCHANGED managerVars

\* A plugin sends on the FlipperConnection it was handed, or answers a call on the
\* responder it was handed: nothing makes it stop when the connection ends.
PluginSends ==
    /\ handed
    /\ SendMessage
    /\ UNCHANGED clientVars

\* handleError, and the error answers of onMessageReceived.
ErrorReport ==
    \/ HandleError /\ UNCHANGED managerVars
    \/ ReportSent /\ SendMessage

\* Mutant: the insecure connection takes messages too.
DesktopCallsInsecurely ==
    /\ event = "none"
    /\ \E c \in Conn : Live(c)
    /\ (\E i \in Identifier : InitPlugin(i) \/ DeinitPlugin(i)) \/ OtherMessage
    /\ \/ UNCHANGED <<caught, reporting>> /\ (SendMessage \/ UNCHANGED managerVars)
       \/ MessageThrows /\ UNCHANGED managerVars

\* onMessageReceived, on the connection thread: a message of the desktop, which may
\* be answered with a message.
DesktopCalls ==
    /\ event = "none"
    /\ \E c \in Conn : Live(c) /\ conns[c].secure
    /\ (\E i \in Identifier : InitPlugin(i) \/ DeinitPlugin(i)) \/ OtherMessage
    /\ \/ UNCHANGED <<caught, reporting>> /\ (SendMessage \/ UNCHANGED managerVars)
       \/ MessageThrows /\ UNCHANGED managerVars

\* Mutant: the client is told of insecure connections too.
ConnectedUntrusted == ConnectedReturns /\ ClientOnConnected

\* The callbacks of a connection that opens or closes: when the client has got
\* mutex_, it acts and the event of the connection ends.
Connected ==
    /\ ConnectedReturns
    /\ IF event = "onConnected" THEN ClientOnConnected ELSE UNCHANGED clientVars

Disconnected ==
    /\ DisconnectedReturns
    /\ IF event = "onDisconnected" THEN ClientOnDisconnected ELSE UNCHANGED clientVars

\* BecomeSteady is left out: what can happen to a steady manager can happen before.
AppNext ==
    \/ (Quiet \/ MessageTask) /\ UNCHANGED clientVars
    \/ (\E c \in Conn : OnConnected(c) \/ OnClosed(c)) /\ UNCHANGED clientVars
    \/ PluginCall
    \/ PluginSends
    \/ ErrorReport
    \/ DesktopCalls
    \/ Connected
    \/ Disconnected
    \/ (Crash \/ Kill) /\ ClientRestarts

AppSpec == AppInit /\ [][AppNext]_appVars

-----------------------------------------------------------------------------
(* Properties. *)

\* The client believes it is connected while isOpen(), but for the moment in which
\* its callback waits for mutex_: onConnected and onDisconnected, which carry no
\* connection, come in pairs and in order, and none is left out.
ConnectedIsOpen ==
    stops = 0 => (connected <=> \/ IsOpen /\ event # "onConnected"
                                \/ event = "onDisconnected")

\* No plugin stays connected when the connection is gone and its end was called back:
\* the next init would find it in connections_ and never call didConnect again.
PluginsNeedConnection ==
    stops = 0 /\ ~astray => (connections # {} => IsOpen \/ event = "onDisconnected")

\* stop was called, or a plugin was not told that its connection ended.
Void == stops > 0 \/ astray

Session == INSTANCE FlipperSession WITH
    up <- ~Void /\ (IsOpen \/ event = "onDisconnected"),
    attached <- IF Void THEN {} ELSE told,
    void <- Void

\* To its plugins the client is a sequence of sessions: didConnect and didDisconnect
\* alternate within a session, each reaches the plugin in a step of its own or in the
\* one that ends the session, and none is connected between two sessions, whatever
\* connections, certificate exchanges, retries and crashes of the process go on below.
ImplementsSession == Session!SSpec
=============================================================================
