-------------------------- MODULE FlipperApp_proofs --------------------------
(***************************************************************************)
(* Proofs about FlipperClient and FlipperApp, for any plugins and all that *)
(* FlipperConnection_proofs allows.                                        *)
(***************************************************************************)
EXTENDS FlipperApp, FlipperConnection_proofs

-----------------------------------------------------------------------------
(* The connection is not disturbed by the client. *)

LEMMA AppStepIsStep == [AppNext]_appVars => [Next]_managerVars
<1> SUFFICES ASSUME [AppNext]_appVars PROVE [Next]_managerVars
  BY Zenon
<1>1. CASE (Quiet \/ MessageTask) /\ UNCHANGED clientVars
  BY <1>1, Zenon DEF Next
<1>2. CASE PluginCall
  BY <1>2, Zenon DEF PluginCall, Refresh, Next
<1>3. CASE PluginSends \/ ErrorReport
  BY <1>3, Zenon DEF PluginSends, ErrorReport, Next
<1>4. CASE DesktopCalls
  BY <1>4, Zenon DEF DesktopCalls, Next
<1>5. CASE Connected \/ Disconnected
  BY <1>5, Zenon DEF Connected, Disconnected, Next
<1>8. CASE (\E c \in Conn : OnConnected(c) \/ OnClosed(c)) /\ UNCHANGED clientVars
  BY <1>8, Zenon DEF Next
<1>6. CASE (Crash \/ Kill) /\ ClientRestarts
  BY <1>6, Zenon DEF Next
<1>7. CASE UNCHANGED appVars
  BY <1>7, Zenon DEF appVars
<1> QED
  BY <1>1, <1>2, <1>3, <1>4, <1>5, <1>6, <1>7, <1>8, Zenon DEF AppNext

\* Every step of the client and its connection is a step of the connection alone or
\* leaves it as it is, so what is proved of the connection holds of both.
THEOREM AppImplementsConnection == AppSpec => Spec
<1>1. AppInit => Init
  BY Zenon DEF AppInit
<1> QED
  BY <1>1, AppStepIsStep, PTL DEF AppSpec, Spec

LEMMA AppConnection == AppSpec => [](TypeOK /\ ConnInv /\ Alone)
BY AppImplementsConnection, AloneCorrect, PTL

-----------------------------------------------------------------------------
(* The plugins. *)

\* Only plugins that are there are connected.
PluginInv == ClientTypeOK /\ connections \subseteq Registered /\ ToldTheTruth

\* Two identifiers never have the same plugin.
LEMMA PluginsDiffer ==
    ASSUME ClientTypeOK
    PROVE  \A i, j \in Registered : plugins[i] = plugins[j] => i = j
BY Zenon DEF ClientTypeOK, Registered

\* The exceptions that are still to be reported, and whether a plugin can send.
ReportsOK == handed \in BOOLEAN /\ caught \in Nat /\ reporting \in Nat

LEMMA ReportStep ==
    ASSUME ReportsOK, [AppNext]_appVars
    PROVE  ReportsOK'
<1>0. handed \in BOOLEAN /\ caught \in Nat /\ reporting \in Nat
  BY Zenon DEF ReportsOK
<1>1. CASE UNCHANGED reports
  BY <1>1, Zenon DEF reports, ReportsOK
<1>2. CASE Catch
  BY <1>0, <1>2 DEF Catch, ReportsOK
<1>3. CASE HandleError \/ ReportSent
  BY <1>0, <1>3 DEF HandleError, ReportSent, ReportsOK
<1>4. CASE DesktopCalls
  <2>1. handed' = handed \/ handed' = TRUE
    BY <1>4, Zenon DEF DesktopCalls, InitPlugin, DeinitPlugin, OtherMessage
  <2>2. UNCHANGED <<caught, reporting>> \/ (reporting' = reporting + 1 /\ UNCHANGED caught)
    BY <1>4, Zenon DEF DesktopCalls, MessageThrows
  <2>3. handed' \in BOOLEAN
    BY <1>0, <2>1, Zenon
  <2>4. caught' \in Nat /\ reporting' \in Nat
    BY <1>0, <2>2
  <2> QED
    BY <2>3, <2>4, Zenon DEF ReportsOK
<1>5. CASE ClientRestarts
  <2>1. caught' \in Nat /\ reporting' \in Nat
    BY <1>5 DEF ClientRestarts
  <2> QED
    BY <1>5, <2>1, Zenon DEF ClientRestarts, ReportsOK
<1>6. CASE PluginCall
  <2>1. PICK p \in Plugin :
          \/ AddPlugin(p) \/ AddPluginThrows(p)
          \/ RemovePlugin(p) \/ RemovePluginFails(p) \/ RemovePluginThrows(p)
    BY <1>6, Zenon DEF PluginCall
  <2>2. Catch \/ UNCHANGED reports
    BY <2>1, Zenon
       DEF AddPlugin, AddPluginThrows, RemovePlugin, RemovePluginFails, RemovePluginThrows,
           CatchOther, reports
  <2> QED
    BY <1>1, <1>2, <2>2, Zenon
<1>7. CASE Connected \/ Disconnected
  BY <1>1, <1>7, Zenon
     DEF Connected, Disconnected, ClientOnConnected, ClientOnDisconnected, clientVars, reports
<1>8. CASE UNCHANGED clientVars
  BY <1>1, <1>8, Zenon DEF clientVars, reports
<1> QED
  BY <1>3, <1>4, <1>5, <1>6, <1>7, <1>8, Zenon DEF AppNext, PluginSends, ErrorReport, appVars

LEMMA DisconnectKeeps ==
    ASSUME PluginInv, NEW S, S \subseteq Registered, Disconnect(S), plugins' = plugins,
           connected' \in BOOLEAN, astray' \in BOOLEAN, astray => astray', ReportsOK'
    PROVE  PluginInv'
<1>1. /\ connections' = connections \ S
      /\ told' = told \ {plugins[i] : i \in S \cap connections}
  BY Zenon DEF Disconnect
<1>2. ClientTypeOK'
  BY <1>1, Zenon DEF PluginInv, ClientTypeOK, ReportsOK
<1>3. connections' \subseteq Registered'
  BY <1>1, Zenon DEF PluginInv, Registered
<1>4. ToldTheTruth'
  <2> SUFFICES ASSUME ~astray' PROVE told' = {plugins[i] : i \in connections \ S}
    BY <1>1, Zenon DEF ToldTheTruth
  <2>1. told = {plugins[i] : i \in connections}
    BY Zenon DEF PluginInv, ToldTheTruth
  <2>2. \A i, j \in connections : plugins[i] = plugins[j] => i = j
    BY PluginsDiffer, Zenon DEF PluginInv
  <2> QED
    BY <1>1, <2>1, <2>2, Zenon
<1> QED
  BY <1>2, <1>3, <1>4, Zenon DEF PluginInv

LEMMA PluginStep == PluginInv /\ [AppNext]_appVars => PluginInv'
<1> SUFFICES ASSUME PluginInv, [AppNext]_appVars PROVE PluginInv'
  BY Zenon
<1>0. /\ plugins \in [Identifier -> Plugin \cup {NoPlugin}]
      /\ \A i \in Identifier : plugins[i] # NoPlugin => identifier[plugins[i]] = i
      /\ connections \subseteq Identifier /\ connections \subseteq Registered
      /\ connected \in BOOLEAN /\ told \subseteq Plugin /\ astray \in BOOLEAN
      /\ NoPlugin \notin Plugin /\ identifier \in [Plugin -> Identifier]
      /\ ~astray => told = {plugins[i] : i \in connections}
  BY PluginAssumption, Zenon DEF PluginAssumption, PluginInv, ClientTypeOK, ToldTheTruth
<1>r. ReportsOK'
  BY ReportStep, Zenon DEF PluginInv, ClientTypeOK, ReportsOK
<1>1. CASE UNCHANGED <<plugins, connections, connected, told, astray>>
  <2>1. ClientTypeOK'
    BY <1>0, <1>1, <1>r, Zenon DEF ClientTypeOK, ReportsOK
  <2>2. connections' \subseteq Registered'
    BY <1>0, <1>1, Zenon DEF Registered
  <2>3. ToldTheTruth'
    BY <1>1, Zenon DEF PluginInv, ToldTheTruth
  <2> QED
    BY <2>1, <2>2, <2>3, Zenon DEF PluginInv
<1>2. ASSUME NEW p \in Plugin, AddPlugin(p) PROVE PluginInv'
  <2> DEFINE n == identifier[p]
  <2>1. /\ n \in Identifier /\ plugins[n] = NoPlugin
        /\ plugins' = [plugins EXCEPT ![n] = p]
        /\ UNCHANGED <<connections, connected, told, astray>>
    BY <1>0, <1>2, Zenon DEF AddPlugin
  <2>2. /\ plugins' \in [Identifier -> Plugin \cup {NoPlugin}] /\ plugins'[n] = p
        /\ \A i \in Identifier : i # n => plugins'[i] = plugins[i]
    BY <1>0, <2>1, Zenon
  <2>3. n \notin connections
    BY <1>0, <2>1, Zenon DEF Registered
  <2>4. ClientTypeOK'
    BY <1>0, <1>r, <2>1, <2>2, Zenon DEF ClientTypeOK, ReportsOK
  <2>5. connections' \subseteq Registered'
    BY <1>0, <2>1, <2>2, Zenon DEF Registered
  <2>6. \A i \in connections : plugins'[i] = plugins[i]
    BY <1>0, <2>2, <2>3, Zenon
  <2>7. ToldTheTruth'
    BY <1>0, <2>1, <2>6 DEF ToldTheTruth
  <2> QED
    BY <2>4, <2>5, <2>7, Zenon DEF PluginInv
<1>3. ASSUME NEW p \in Plugin, RemovePlugin(p) PROVE PluginInv'
  <2> DEFINE n == identifier[p]
  <2>1. /\ n \in Identifier /\ plugins[n] # NoPlugin
        /\ plugins' = [plugins EXCEPT ![n] = NoPlugin]
        /\ connections' = connections \ {n}
        /\ told' = told \ {p}
        /\ astray' = (astray \/ (n \in connections /\ plugins[n] # p))
        /\ connected' = connected
    BY <1>0, <1>3, Zenon DEF RemovePlugin
  <2>2. /\ plugins' \in [Identifier -> Plugin \cup {NoPlugin}] /\ plugins'[n] = NoPlugin
        /\ \A i \in Identifier : i # n => plugins'[i] = plugins[i]
    BY <1>0, <2>1, Zenon
  <2>3. astray' \in BOOLEAN
    BY <2>1, Zenon
  <2>4. ClientTypeOK'
    BY <1>0, <1>r, <2>1, <2>2, <2>3, Zenon DEF ClientTypeOK, ReportsOK
  <2>5. connections' \subseteq Registered'
    BY <1>0, <2>1, <2>2, Zenon DEF Registered
  <2>6. ToldTheTruth'
    <3> SUFFICES ASSUME ~astray' PROVE told' = {plugins'[i] : i \in connections'}
      BY Zenon DEF ToldTheTruth
    <3>1. told = {plugins[i] : i \in connections} /\ (n \in connections => plugins[n] = p)
      BY <1>0, <2>1, Zenon
    <3>2. \A i \in connections : plugins[i] = p => i = n
      BY <1>0, Zenon DEF Registered
    <3>3. \A i \in connections \ {n} : plugins'[i] = plugins[i]
      BY <1>0, <2>2, Zenon
    <3>4. told \ {p} = {plugins[i] : i \in connections \ {n}}
      BY <3>1, <3>2, Zenon
    <3> QED
      BY <2>1, <3>3, <3>4
  <2> QED
    BY <2>4, <2>5, <2>6, Zenon DEF PluginInv
<1>4. ASSUME NEW i \in Identifier, InitPlugin(i) PROVE PluginInv'
  <2>1. /\ plugins[i] # NoPlugin /\ connections' = connections \cup {i}
        /\ told' = IF i \in connections THEN told ELSE told \cup {plugins[i]}
        /\ UNCHANGED <<plugins, connected, astray>>
    BY <1>4, Zenon DEF InitPlugin
  <2>2. plugins[i] \in Plugin
    BY <1>0, <2>1, Zenon
  <2>3. ClientTypeOK'
    BY <1>0, <1>r, <2>1, <2>2, Zenon DEF ClientTypeOK, ReportsOK
  <2>4. connections' \subseteq Registered'
    BY <1>0, <2>1, Zenon DEF Registered
  <2>5. ToldTheTruth'
    BY <1>0, <2>1 DEF ToldTheTruth
  <2> QED
    BY <2>3, <2>4, <2>5, Zenon DEF PluginInv
<1>5. ASSUME NEW i \in Identifier, DeinitPlugin(i) PROVE PluginInv'
  <2>1. {i} \subseteq Registered
    BY <1>5, Zenon DEF DeinitPlugin, Registered
  <2> QED
    BY <1>0, <1>5, <1>r, <2>1, DisconnectKeeps, Zenon DEF DeinitPlugin
<1>6. CASE ClientOnConnected
  <2>1. ClientTypeOK'
    BY <1>0, <1>6, <1>r, Zenon DEF ClientOnConnected, ClientTypeOK, ReportsOK
  <2>2. connections' \subseteq Registered'
    BY <1>0, <1>6, Zenon DEF ClientOnConnected, Registered
  <2>3. ToldTheTruth'
    BY <1>6, Zenon DEF ClientOnConnected, PluginInv, ToldTheTruth
  <2> QED
    BY <2>1, <2>2, <2>3, Zenon DEF PluginInv
<1>7. CASE ClientOnDisconnected
  <2>1. PICK S \in SUBSET Registered :
          Disconnect(S) /\ connected' = FALSE /\ plugins' = plugins /\ astray' \in {astray, TRUE}
    BY <1>7, Zenon DEF ClientOnDisconnected
  <2>2. astray' = astray \/ astray' = TRUE
    BY <2>1, Zenon
  <2>3. astray' \in BOOLEAN /\ (astray => astray')
    BY <1>0, <2>2, Zenon
  <2> QED
    BY <1>r, <2>1, <2>3, DisconnectKeeps, Zenon
<1>8. CASE ClientRestarts
  <2>1. /\ plugins' = [i \in Identifier |-> NoPlugin] /\ connections' = {} /\ connected' = FALSE
        /\ told' = {} /\ astray' = astray
    BY <1>8, Zenon DEF ClientRestarts
  <2> QED
    BY <1>0, <1>r, <2>1, Zenon DEF PluginInv, ClientTypeOK, ToldTheTruth, ReportsOK
<1>9. ASSUME NEW p \in Plugin, RemovePluginFails(p) PROVE PluginInv'
  <2> DEFINE n == identifier[p]
  <2>1. /\ n \in connections /\ plugins[n] # NoPlugin
        /\ connections' = connections \ {n} /\ told' = told \ {p}
        /\ astray' = (astray \/ plugins[n] # p)
        /\ connected' = connected /\ plugins' = plugins
    BY <1>9, Zenon DEF RemovePluginFails
  <2>2. astray' \in BOOLEAN /\ (astray => astray')
    BY <2>1, Zenon
  <2>3. CASE plugins[n] = p
    <3>1. {n} \cap connections = {n}
      BY <2>1, Zenon
    <3>2. {plugins[i] : i \in {n} \cap connections} = {p}
      BY <2>3, <3>1
    <3>3. Disconnect({n})
      BY <2>1, <3>2, Zenon DEF Disconnect
    <3> QED
      BY <1>0, <1>r, <2>1, <2>2, <3>3, DisconnectKeeps, Zenon
  <2>4. CASE plugins[n] # p
    <3>1. astray'
      BY <2>1, <2>4, Zenon
    <3> QED
      BY <1>0, <1>r, <2>1, <2>2, <3>1, Zenon
         DEF PluginInv, ClientTypeOK, Registered, ToldTheTruth, ReportsOK
  <2> QED
    BY <2>3, <2>4, Zenon
<1>10. CASE PluginCall
  BY <1>1, <1>2, <1>3, <1>9, <1>10, Zenon
     DEF PluginCall, AddPluginThrows, RemovePluginThrows
<1>11. CASE PluginSends \/ ErrorReport
  BY <1>1, <1>11, Zenon DEF PluginSends, ErrorReport, HandleError, ReportSent, clientVars
<1>12. CASE DesktopCalls
  BY <1>1, <1>4, <1>5, <1>12, Zenon DEF DesktopCalls, OtherMessage
<1>13. CASE UNCHANGED clientVars
  BY <1>1, <1>13, Zenon DEF clientVars
<1>14. CASE Connected \/ Disconnected
  BY <1>6, <1>7, <1>13, <1>14, Zenon DEF Connected, Disconnected
<1> QED
  BY <1>8, <1>10, <1>11, <1>12, <1>13, <1>14, Zenon DEF AppNext, appVars

LEMMA PluginInit == AppInit => PluginInv
<1> SUFFICES ASSUME AppInit PROVE PluginInv
  BY Zenon
<1>1. caught \in Nat /\ reporting \in Nat
  BY DEF AppInit, ClientInit
<1> QED
  BY <1>1, Zenon DEF AppInit, ClientInit, PluginInv, ClientTypeOK, ToldTheTruth

LEMMA PluginCorrect == AppSpec => []PluginInv
BY PluginInit, PluginStep, PTL DEF AppSpec

\* didConnect and didDisconnect tell each plugin what connections_ says of it, for any
\* plugins and identifiers, however the calls of the application, the messages of the
\* desktop and the ends of connections fall.
THEOREM ToldTheTruthCorrect == AppSpec => []ToldTheTruth
<1>1. PluginInv => ToldTheTruth
  BY Zenon DEF PluginInv
<1> QED
  BY <1>1, PluginCorrect, PTL
-----------------------------------------------------------------------------
(* The client and the connection. *)

\* Only the events of a connection and the end of the process are called back.
LEMMA EventKept ==
    ASSUME TypeOK, Quiet \/ SendMessage \/ MessageTask \/ UNCHANGED managerVars
    PROVE  event' = event
<1> USE DEF members, queues, arrivals, outside, history
<1>1. CASE \/ Start \/ Stop \/ StopEnds \/ DelayOver \/ SyncArrives \/ SendMessage
           \/ MessageTask \/ UNCHANGED managerVars
  BY <1>1, Zenon
     DEF Start, Stop, StopEnds, DelayOver, SyncArrives, SendMessage, MessageTask, managerVars
<1>2. CASE DesktopSigns \/ DesktopForgets \/ BecomeSteady \/ StartSync \/ SendRequest
  BY <1>2, Zenon DEF DesktopSigns, DesktopForgets, BecomeSteady, StartSync, SendRequest
<1>3. ASSUME NEW c \in Conn, Answered(c) \/ AnsweredNotImplemented(c) \/ Lost(c)
      PROVE  event' = event
  BY <1>3, Zenon DEF Answered, AnsweredNotImplemented, Lost
<1>4. ASSUME NEW c \in Conn, ConnectInsecurely(c) \/ ConnectSecurely(c)
      PROVE  event' = event
  BY <1>4, ConnectFacts, Zenon
<1>5. CASE Refused \/ ConnectThrows
  BY <1>5, RefusedFacts, Zenon
<1>6. CASE \/ NoSSLContext \/ GenerationThrows \/ ExchangeConnected \/ ExchangeThrows
           \/ SecureConnected
  BY <1>6, Zenon
     DEF NoSSLContext, AttemptFails, GenerationThrows, ExchangeConnected, ExchangeThrows,
         SecureConnected
<1> QED
  BY <1>1, <1>2, <1>3, <1>4, <1>5, <1>6, Zenon DEF Quiet, FlipperThread

LEMMA OpenKept ==
    ASSUME TypeOK, ConnInv, OneOf, Quiet \/ SendMessage \/ MessageTask \/ UNCHANGED managerVars
    PROVE  (IsOpen' <=> IsOpen) /\ event' = event
<1>1. ASSUME Gentle PROVE IsOpen' <=> IsOpen
  BY <1>1, Zenon DEF Gentle, IsOpen
<1>2. ASSUME NEW c \in Conn, ConnectInsecurely(c) \/ ConnectSecurely(c) PROVE IsOpen' <=> IsOpen
  <2>1. Busy /\ isOpen' = isOpen
    BY <1>2, ConnectFacts, Zenon
  <2> QED
    BY <2>1, Zenon DEF OneOf, IsOpen
<1>3. ASSUME Refused \/ ConnectThrows PROVE IsOpen' <=> IsOpen
  <2>1. isOpen' = isOpen /\ trusted' = trusted
    BY <1>3, RefusedFacts, Zenon
  <2> QED
    BY <2>1, Zenon DEF IsOpen
<1>4. IsOpen' <=> IsOpen
  BY <1>1, <1>2, <1>3, GentleSteps, Zenon DEF ConnInv, Quiet, FlipperThread
<1> QED
  BY <1>4, EventKept, Zenon

\* What a call of the application does to the connections of the plugins.
LEMMA PluginCallFacts ==
    ASSUME PluginCall
    PROVE  connected' = connected /\ connections' \subseteq connections /\ (astray => astray')
<1>1. PICK p \in Plugin :
        \/ AddPlugin(p) \/ AddPluginThrows(p)
        \/ RemovePlugin(p) \/ RemovePluginFails(p) \/ RemovePluginThrows(p)
  BY Zenon DEF PluginCall
<1>2. CASE AddPlugin(p) \/ AddPluginThrows(p) \/ RemovePluginThrows(p)
  <2>1. connected' = connected /\ connections' = connections /\ astray' = astray
    BY <1>2, Zenon DEF AddPlugin, AddPluginThrows, RemovePluginThrows
  <2>2. astray => astray'
    BY <2>1, Zenon
  <2> QED
    BY <2>1, <2>2, Zenon
<1>3. CASE RemovePlugin(p)
  <2>1. /\ connected' = connected
        /\ connections' = connections \ {identifier[p]}
        /\ astray' = (astray \/ (identifier[p] \in connections /\ plugins[identifier[p]] # p))
    BY <1>3, Zenon DEF RemovePlugin
  <2> QED
    BY <2>1, Zenon
<1>4. CASE RemovePluginFails(p)
  <2>1. /\ connected' = connected
        /\ connections' = connections \ {identifier[p]}
        /\ astray' = (astray \/ plugins[identifier[p]] # p)
    BY <1>4, Zenon DEF RemovePluginFails
  <2> QED
    BY <2>1, Zenon
<1> QED
  BY <1>1, <1>2, <1>3, <1>4, Zenon

\* The client is told of a secure connection that opens, and of one that closes, and a
\* connection does not close before its onConnected has returned.
SessionInv ==
    /\ ConnectedIsOpen
    /\ PluginsNeedConnection
    /\ stops = 0 /\ event = "onConnected" => IsOpen

LEMMA SessionStep ==
    ASSUME TypeOK, ConnInv, Alone, PluginInv, SessionInv, [AppNext]_appVars
    PROVE  SessionInv'
<1> DEFINE Goal == /\ connected' <=> \/ IsOpen' /\ event' # "onConnected"
                                     \/ event' = "onDisconnected"
                   /\ ~astray' /\ connections' # {} => IsOpen' \/ event' = "onDisconnected"
                   /\ event' = "onConnected" => IsOpen'
<1> SUFFICES ASSUME stops' = 0 PROVE Goal
  BY Zenon DEF SessionInv, ConnectedIsOpen, PluginsNeedConnection
<1>1. [Next]_managerVars
  BY AppStepIsStep, Zenon
<1>2. stops = 0 /\ OneOf /\ OneLive
  BY <1>1, StopsBefore, Zenon DEF Alone
<1>3. /\ connected <=> \/ IsOpen /\ event # "onConnected"
                       \/ event = "onDisconnected"
      /\ ~astray /\ connections # {} => IsOpen \/ event = "onDisconnected"
      /\ event = "onConnected" => IsOpen
  BY <1>2, Zenon DEF SessionInv, ConnectedIsOpen, PluginsNeedConnection
<1>a. ASSUME IsOpen' <=> IsOpen, event' = event, connected' = connected,
             connections' \subseteq connections, astray => astray'
      PROVE  Goal
  BY <1>3, <1>a, Zenon
<1>4. ASSUME Quiet \/ MessageTask \/ SendMessage \/ UNCHANGED managerVars,
             UNCHANGED <<connected, connections, astray>>
      PROVE  Goal
  BY <1>2, <1>4, <1>a, OpenKept, Zenon
<1>5. ASSUME PluginCall PROVE Goal
  <2>1. SendMessage \/ UNCHANGED managerVars
    BY <1>5, Zenon DEF PluginCall, Refresh
  <2> QED
    BY <1>2, <1>5, <1>a, <2>1, OpenKept, PluginCallFacts, Zenon
<1>6. ASSUME DesktopCalls PROVE Goal
  <2>1. /\ \E c \in Conn : Live(c) /\ conns[c].secure
        /\ SendMessage \/ UNCHANGED managerVars
        /\ connected' = connected /\ event = "none"
    BY <1>6, Zenon DEF DesktopCalls, InitPlugin, DeinitPlugin, OtherMessage
  <2>2. IsOpen
    BY <1>2, <2>1, Zenon DEF OneLive, Live, IsOpen
  <2>3. (IsOpen' <=> IsOpen) /\ event' = event
    BY <1>2, <2>1, OpenKept, Zenon
  <2> QED
    BY <1>3, <2>1, <2>2, <2>3, Zenon
<1>7. ASSUME Connected PROVE Goal
  <2>1. /\ event \in {"opened", "onConnected"} /\ event' = "none"
        /\ UNCHANGED <<isOpen, trusted>>
    BY <1>7, Zenon DEF Connected, ConnectedReturns, Opening, members
  <2>2. (IsOpen' <=> IsOpen) /\ event # "onDisconnected"
    BY <2>1, Zenon DEF IsOpen
  <2>3. /\ event = "onConnected" => connected' = TRUE
        /\ event # "onConnected" => connected' = connected
        /\ connections' = connections /\ astray' = astray
    BY <1>7, Zenon DEF Connected, ClientOnConnected, clientVars
  <2>4. event' # "onConnected" /\ event' # "onDisconnected"
    BY <2>1
  <2>5. connected' <=> IsOpen
    <3>1. CASE event = "onConnected"
      BY <1>3, <2>3, <3>1, Zenon
    <3>2. CASE event # "onConnected"
      <4>1. connected <=> IsOpen
        BY <1>3, <2>2, <3>2, Zenon
      <4>2. connected' = connected
        BY <2>3, <3>2, Zenon
      <4> QED
        BY <4>1, <4>2, Zenon
    <3> QED
      BY <3>1, <3>2, Zenon
  <2> QED
    BY <1>3, <2>2, <2>3, <2>4, <2>5, Zenon
<1>8. ASSUME Disconnected PROVE Goal
  <2>1. Closing /\ event' = "none" /\ UNCHANGED <<isOpen, trusted>>
    BY <1>8, Zenon DEF Disconnected, DisconnectedReturns, members
  <2>2. ~IsOpen /\ ~IsOpen'
    BY <1>2, <2>1, Zenon DEF OneOf, IsOpen
  <2>3. CASE event = "onDisconnected"
    <3>1. ClientOnDisconnected
      BY <1>8, <2>3, Zenon DEF Disconnected
    <3>2. connected' = FALSE /\ (connections' = connections \ Registered \/ astray' = TRUE)
      BY <3>1, Zenon DEF ClientOnDisconnected, Disconnect
    <3> QED
      BY <2>1, <2>2, <3>2, Zenon DEF PluginInv
  <2>4. CASE event # "onDisconnected"
    <3>1. UNCHANGED <<connected, connections, astray>>
      BY <1>8, <2>4, Zenon DEF Disconnected, clientVars
    <3> QED
      BY <1>3, <2>1, <2>2, <2>4, <3>1, Zenon
  <2> QED
    BY <2>3, <2>4, Zenon
<1>9. ASSUME (Crash \/ Kill) /\ ClientRestarts PROVE Goal
  <2>1. isOpen' = FALSE /\ event' = "none"
    BY <1>9, RelaunchFacts, Zenon
  <2>2. connected' = FALSE /\ connections' = {} /\ ~IsOpen'
    BY <1>9, <2>1, Zenon DEF ClientRestarts, IsOpen
  <2> QED
    BY <2>1, <2>2, Zenon
<1>10. ASSUME PluginSends \/ ErrorReport PROVE Goal
  BY <1>4, <1>10, Zenon DEF PluginSends, ErrorReport, HandleError, ReportSent, clientVars
<1>11. ASSUME NEW c \in Conn, OnConnected(c), UNCHANGED clientVars PROVE Goal
  <2>1. /\ Busy /\ isOpen' = TRUE /\ trusted' = trusted
        /\ event = "none" /\ event' = (IF trusted THEN "onConnected" ELSE "opened")
    BY <1>11, OnConnectedFacts, Zenon
  <2>2. ~IsOpen /\ (IsOpen' <=> trusted)
    BY <1>2, <2>1, Zenon DEF OneOf, IsOpen
  <2>3. UNCHANGED <<connected, connections, astray>>
    BY <1>11, Zenon DEF clientVars
  <2> QED
    BY <1>3, <2>1, <2>2, <2>3, Zenon
<1>12. ASSUME NEW c \in Conn, OnClosed(c), UNCHANGED clientVars PROVE Goal
  <2>1. /\ isOpen' = FALSE /\ event = "none"
        /\ event' = (IF IsOpen THEN "onDisconnected" ELSE IF isOpen THEN "closed" ELSE "none")
    BY <1>12, OnClosedFacts, Zenon
  <2>2. ~IsOpen'
    BY <2>1, Zenon DEF IsOpen
  <2>3. UNCHANGED <<connected, connections, astray>>
    BY <1>12, Zenon DEF clientVars
  <2> QED
    BY <1>3, <2>1, <2>2, <2>3, Zenon
<1> HIDE DEF Goal
<1>13. ASSUME Quiet \/ MessageTask \/ UNCHANGED managerVars, UNCHANGED clientVars PROVE Goal
  BY <1>4, <1>13, Zenon DEF clientVars
<1> QED
  BY <1>5, <1>6, <1>7, <1>8, <1>9, <1>10, <1>11, <1>12, <1>13, Zenon DEF AppNext, appVars

LEMMA SessionInit == AppInit => SessionInv
BY Zenon DEF AppInit, Init, ClientInit, IsOpen, SessionInv, ConnectedIsOpen, PluginsNeedConnection

LEMMA SessionCorrect == AppSpec => []SessionInv
BY SessionInit, SessionStep, AppConnection, PluginCorrect, PTL DEF AppSpec

\* connected_ of the client is isOpen() of the manager until stop is called, but for the
\* moment in which a callback waits for mutex_: the two callbacks, which are guarded by
\* members another thread writes, come in pairs.
THEOREM ConnectedIsOpenCorrect == AppSpec => []ConnectedIsOpen
<1>1. SessionInv => ConnectedIsOpen
  BY Zenon DEF SessionInv
<1> QED
  BY <1>1, SessionCorrect, PTL

\* A plugin that stays connected has a connection, until stop is called and unless
\* a plugin threw in didDisconnect or was removed through another object.
THEOREM PluginsNeedConnectionCorrect == AppSpec => []PluginsNeedConnection
<1>1. SessionInv => PluginsNeedConnection
  BY Zenon DEF SessionInv
<1> QED
  BY <1>1, SessionCorrect, PTL

\* plugins_, connections_ and what the plugins were told keep their types, and each
\* plugin stays under its own identifier, for any plugins and identifiers.
THEOREM ClientTypeCorrect == AppSpec => []ClientTypeOK
<1>1. PluginInv => ClientTypeOK
  BY Zenon DEF PluginInv
<1> QED
  BY <1>1, PluginCorrect, PTL

-----------------------------------------------------------------------------
(* The client as a sequence of sessions. *)

\* No step makes up for a plugin that was not told.
LEMMA AstrayStays ==
    ASSUME PluginInv, [AppNext]_appVars
    PROVE  astray => astray'
<1>1. CASE UNCHANGED clientVars
  BY <1>1, Zenon DEF clientVars
<1>2. CASE PluginCall
  BY <1>2, PluginCallFacts, Zenon
<1>3. CASE DesktopCalls
  BY <1>3, Zenon DEF DesktopCalls, InitPlugin, DeinitPlugin, OtherMessage
<1>6. CASE ErrorReport
  BY <1>6, Zenon DEF ErrorReport, HandleError, ReportSent
<1>4. CASE ClientOnConnected \/ ClientRestarts
  BY <1>4, Zenon DEF ClientOnConnected, ClientRestarts
<1>5. CASE ClientOnDisconnected
  <2>1. astray' = astray \/ astray' = TRUE
    BY <1>5, Zenon DEF ClientOnDisconnected
  <2> QED
    BY <2>1, Zenon
<1> QED
  BY <1>1, <1>2, <1>3, <1>4, <1>5, <1>6, Zenon
     DEF AppNext, PluginSends, Connected, Disconnected, appVars

Up == IsOpen \/ event = "onDisconnected"

LEMMA SessionStutters ==
    ASSUME Void' <=> Void, ~Void => (Up' <=> Up) /\ told' = told
    PROVE  UNCHANGED Session!svars
<1>1. Void' = Void /\ (~Void' /\ Up') = (~Void /\ Up)
  BY Zenon
<1>2. (IF Void' THEN {} ELSE told') = (IF Void THEN {} ELSE told)
  BY Zenon
<1> QED
  BY <1>1, <1>2, Zenon DEF Session!svars, Up

LEMMA SessionGivesUp ==
    ASSUME ~Void, Void'
    PROVE  Session!GiveUp
BY Zenon DEF Session!GiveUp

LEMMA SessionBegins ==
    ASSUME ~Void, ~Void', ~Up, Up', told' = told
    PROVE  Session!Begin
<1>0. Void' <=> Void
  BY Zenon
<1>1. Void' = Void /\ (~Void' /\ Up') = TRUE
  BY <1>0, Zenon
<1>2. (IF Void' THEN {} ELSE told') = (IF Void THEN {} ELSE told)
  BY Zenon
<1> QED
  BY <1>1, <1>2, Zenon DEF Session!Begin, Up

LEMMA SessionEnds ==
    ASSUME ~Void, ~Void', Up, ~Up', told' = {}
    PROVE  Session!End
<1>0. Void' <=> Void
  BY Zenon
<1>1. Void' = Void /\ (~Void' /\ Up') = FALSE
  BY <1>0, Zenon
<1>2. (IF Void' THEN {} ELSE told') = {}
  BY Zenon
<1> QED
  BY <1>1, <1>2, Zenon DEF Session!End, Up

LEMMA SessionChanges ==
    ASSUME ~Void, ~Void', Up, Up', NEW p
    PROVE  /\ p \notin told /\ told' = told \cup {p} => Session!Attach(p)
           /\ p \in told /\ told' = told \ {p} => Session!Detach(p)
<1>0. Void' <=> Void
  BY Zenon
<1>1. Void' = Void /\ (~Void' /\ Up') = (~Void /\ Up)
  BY <1>0, Zenon
<1>2. (IF Void THEN {} ELSE told) = told /\ (IF Void' THEN {} ELSE told') = told'
  BY Zenon
<1> QED
  BY <1>1, <1>2, Zenon DEF Session!Attach, Session!Detach, Up

\* What the client does to the plugins it has told, unless one goes astray.
LEMMA ToldFacts ==
    ASSUME PluginInv, ~astray, ~astray'
    PROVE  /\ PluginCall => \/ told' = told
                            \/ \E p \in Plugin : p \in told /\ told' = told \ {p}
           /\ DesktopCalls => \/ told' = told
                              \/ \E p \in Plugin : p \notin told /\ told' = told \cup {p}
                              \/ \E p \in Plugin : p \in told /\ told' = told \ {p}
           /\ ClientOnDisconnected => told' = {}
           /\ connections = {} => told = {}
<1>1. /\ told = {plugins[i] : i \in connections} /\ connections \subseteq Registered
      /\ \A i \in Registered : i \in Identifier /\ plugins[i] \in Plugin
      /\ \A i, j \in Registered : plugins[i] = plugins[j] => i = j
  BY PluginsDiffer, Zenon DEF PluginInv, ToldTheTruth, ClientTypeOK, Registered
<1>2. ASSUME NEW p \in Plugin, told' = told \ {p}
      PROVE  told' = told \/ (p \in told /\ told' = told \ {p})
  BY <1>2, Zenon
<1>3. ASSUME PluginCall
      PROVE  told' = told \/ \E p \in Plugin : p \in told /\ told' = told \ {p}
  <2>1. PICK p \in Plugin : told' = told \/ told' = told \ {p}
    BY <1>3, Zenon DEF PluginCall, AddPlugin, AddPluginThrows, RemovePlugin, RemovePluginFails,
                       RemovePluginThrows, clientVars
  <2> QED
    BY <1>2, <2>1, Zenon
<1>4. ASSUME NEW i \in Identifier, InitPlugin(i)
      PROVE  told' = told \/ \E p \in Plugin : p \notin told /\ told' = told \cup {p}
  <2>1. i \in Registered /\ (told' = told \/ (i \notin connections /\ told' = told \cup {plugins[i]}))
    BY <1>4, Zenon DEF InitPlugin, Registered
  <2>2. i \notin connections => plugins[i] \notin told
    BY <1>1, <2>1, Zenon
  <2> QED
    BY <1>1, <2>1, <2>2, Zenon
<1>5. ASSUME NEW i \in Identifier, DeinitPlugin(i)
      PROVE  told' = told \/ \E p \in Plugin : p \in told /\ told' = told \ {p}
  <2>1. i \in Registered /\ told' = told \ {plugins[j] : j \in {i} \cap connections}
    BY <1>5, Zenon DEF DeinitPlugin, Disconnect, Registered
  <2>2. told' = told \/ told' = told \ {plugins[i]}
    BY <2>1, Zenon
  <2> QED
    BY <1>1, <1>2, <2>1, <2>2, Zenon
<1>6. ASSUME ClientOnDisconnected PROVE told' = {}
  <2>1. Disconnect(Registered)
    BY <1>6, Zenon DEF ClientOnDisconnected
  <2>2. told' = told \ {plugins[i] : i \in Registered \cap connections}
    BY <2>1, Zenon DEF Disconnect
  <2> QED
    BY <1>1, <2>2, Zenon
<1>7. connections = {} => told = {}
  BY <1>1, Zenon
<1> QED
  BY <1>3, <1>4, <1>5, <1>6, <1>7, Zenon DEF DesktopCalls, OtherMessage

LEMMA SessionRefined ==
    ASSUME TypeOK, TypeOK', ConnInv, Alone, PluginInv, SessionInv, [AppNext]_appVars
    PROVE  [Session!SNext]_(Session!svars)
<1>1. [Next]_managerVars
  BY AppStepIsStep, Zenon
<1>2. stops' = 0 => stops = 0
  BY <1>1, StopsBefore, Zenon
<1>3. (Void <=> stops # 0 \/ astray) /\ (Void' <=> stops' # 0 \/ astray')
  BY ConnAssumption DEF ConnAssumption, Void, TypeOK
<1>4. CASE Void
  <2>1. Void'
    BY <1>2, <1>3, <1>4, AstrayStays, Zenon
  <2> QED
    BY <1>4, <2>1, SessionStutters, Zenon
<1>5. CASE ~Void /\ Void'
  BY <1>5, SessionGivesUp, Zenon DEF Session!SNext
<1>6. CASE ~Void /\ ~Void'
  <2> DEFINE Goal == [Session!SNext]_(Session!svars)
  <2>1. stops = 0 /\ ~astray /\ ~astray' /\ OneOf /\ OneLive
    BY <1>3, <1>6, Zenon DEF Alone
  <2>2. ~Up => told = {}
    BY <2>1, ToldFacts, Zenon DEF SessionInv, PluginsNeedConnection, Up
  <2>3. ASSUME Up' <=> Up,
               \/ told' = told
               \/ Up /\ \E p \in Plugin : p \notin told /\ told' = told \cup {p}
               \/ \E p \in Plugin : p \in told /\ told' = told \ {p}
        PROVE  Goal
    <3>1. CASE told' = told
      BY <1>6, <2>3, <3>1, SessionStutters, Zenon
    <3>2. ASSUME NEW p \in Plugin, Up, p \notin told, told' = told \cup {p} PROVE Goal
      BY <1>6, <2>3, <3>2, SessionChanges, Zenon DEF Session!SNext
    <3>3. ASSUME NEW p \in Plugin, p \in told, told' = told \ {p} PROVE Goal
      BY <1>6, <2>2, <2>3, <3>3, SessionChanges, Zenon DEF Session!SNext
    <3> QED
      BY <2>3, <3>1, <3>2, <3>3, Zenon
  <2>4. ASSUME Quiet \/ MessageTask \/ SendMessage \/ UNCHANGED managerVars
        PROVE  Up' <=> Up
    BY <2>1, <2>4, OpenKept, Zenon DEF Up
  <2>5. ASSUME PluginCall PROVE Goal
    <3>1. SendMessage \/ UNCHANGED managerVars
      BY <2>5, Zenon DEF PluginCall, Refresh
    <3> QED
      BY <2>1, <2>3, <2>4, <2>5, <3>1, ToldFacts, Zenon
  <2>6. ASSUME DesktopCalls PROVE Goal
    <3>1. /\ \E c \in Conn : Live(c) /\ conns[c].secure
          /\ SendMessage \/ UNCHANGED managerVars
      BY <2>6, Zenon DEF DesktopCalls
    <3>2. Up
      BY <2>1, <3>1, Zenon DEF OneLive, Live, IsOpen, Up
    <3>3. Up' <=> Up
      BY <2>4, <3>1, Zenon
    <3> QED
      BY <2>1, <2>3, <2>6, <3>2, <3>3, ToldFacts, Zenon
  <2>7. ASSUME NEW c \in Conn, OnConnected(c), told' = told PROVE Goal
    <3>1. /\ Busy /\ isOpen' = TRUE /\ trusted' = trusted
          /\ event = "none" /\ event' = (IF trusted THEN "onConnected" ELSE "opened")
      BY <2>7, OnConnectedFacts, Zenon
    <3>2. ~Up /\ (Up' <=> trusted)
      BY <2>1, <3>1, Zenon DEF OneOf, IsOpen, Up
    <3>3. CASE trusted
      BY <1>6, <2>7, <3>2, <3>3, SessionBegins, Zenon DEF Session!SNext
    <3> QED
      BY <2>3, <2>7, <3>2, <3>3, Zenon
  <2>8. ASSUME NEW c \in Conn, OnClosed(c), told' = told PROVE Goal
    <3>1. /\ isOpen' = FALSE /\ event = "none"
          /\ event' = (IF IsOpen THEN "onDisconnected" ELSE IF isOpen THEN "closed" ELSE "none")
      BY <2>8, OnClosedFacts, Zenon
    <3>2. Up' <=> Up
      BY <3>1, Zenon DEF IsOpen, Up
    <3> QED
      BY <2>3, <2>8, <3>2, Zenon
  <2>9. ASSUME ~Up', told' = {} PROVE Goal
    <3>1. CASE Up
      BY <1>6, <2>9, <3>1, SessionEnds, Zenon DEF Session!SNext
    <3>2. CASE ~Up
      BY <2>2, <2>3, <2>9, <3>2, Zenon
    <3> QED
      BY <3>1, <3>2, Zenon
  <2>10. ASSUME Connected PROVE Goal
    <3>1. /\ event \in {"opened", "onConnected"} /\ event' = "none"
          /\ UNCHANGED <<isOpen, trusted>>
      BY <2>10, Zenon DEF Connected, ConnectedReturns, Opening, members
    <3>2. Up' <=> Up
      BY <3>1, Zenon DEF IsOpen, Up
    <3>3. told' = told
      BY <2>10, Zenon DEF Connected, ClientOnConnected, clientVars
    <3> QED
      BY <2>3, <3>2, <3>3, Zenon
  <2>11. ASSUME Disconnected PROVE Goal
    <3>1. Closing /\ event' = "none" /\ UNCHANGED <<isOpen, trusted>>
      BY <2>11, Zenon DEF Disconnected, DisconnectedReturns, members
    <3>2. ~IsOpen /\ ~Up'
      BY <2>1, <3>1, Zenon DEF OneOf, IsOpen, Up
    <3>3. CASE event = "onDisconnected"
      BY <2>1, <2>9, <2>11, <3>2, <3>3, ToldFacts, Zenon DEF Disconnected
    <3>4. CASE event # "onDisconnected"
      BY <2>2, <2>9, <2>11, <3>2, <3>4, Zenon DEF Disconnected, clientVars, Up
    <3> QED
      BY <3>3, <3>4, Zenon
  <2>12. ASSUME (Crash \/ Kill) /\ ClientRestarts PROVE Goal
    <3>1. isOpen' = FALSE /\ event' = "none" /\ told' = {}
      BY <2>12, RelaunchFacts, Zenon DEF ClientRestarts
    <3>2. ~Up'
      BY <3>1, Zenon DEF Up, IsOpen
    <3> QED
      BY <2>9, <3>1, <3>2, Zenon
  <2>13. ASSUME Quiet \/ MessageTask \/ SendMessage \/ UNCHANGED managerVars, told' = told
         PROVE  Goal
    BY <2>3, <2>4, <2>13, Zenon
  <2> HIDE DEF Goal
  <2>14. ASSUME PluginSends \/ ErrorReport \/ UNCHANGED appVars PROVE Goal
    BY <2>13, <2>14, Zenon
       DEF PluginSends, ErrorReport, HandleError, ReportSent, appVars, clientVars
  <2>15. ASSUME UNCHANGED clientVars PROVE told' = told
    BY <2>15, Zenon DEF clientVars
  <2>16. Goal
    BY <2>5, <2>6, <2>7, <2>8, <2>10, <2>11, <2>12, <2>13, <2>14, <2>15, Zenon DEF AppNext
  <2> QED
    BY <2>16, Zenon DEF Goal
<1> QED
  BY <1>4, <1>5, <1>6, Zenon

LEMMA SessionStarts == AppInit => Session!SInit
<1> SUFFICES ASSUME AppInit PROVE Session!SInit
  BY Zenon
<1>1. stops = 0 /\ astray = FALSE /\ isOpen = FALSE /\ event = "none" /\ told = {}
  BY Zenon DEF AppInit, Init, ClientInit
<1>2. ~Void /\ ~Up
  BY <1>1 DEF Void, IsOpen, Up
<1>3. Void <=> FALSE
  BY <1>2, Zenon
<1>4. Void = FALSE /\ (~Void /\ Up) = FALSE
  BY <1>2, <1>3, Zenon
<1> QED
  BY <1>1, <1>4, Zenon DEF Session!SInit, Up

\* To its plugins the client is a sequence of sessions, for any plugins, identifiers,
\* connections and messages: didConnect comes within a session and not twice in a row,
\* didDisconnect answers it, and when onDisconnected, a crash or the end of the process
\* ends the session no plugin stays connected.
THEOREM SessionImplemented == AppSpec => ImplementsSession
<1>1. TypeOK /\ TypeOK' /\ ConnInv /\ Alone /\ PluginInv /\ SessionInv /\ [AppNext]_appVars
      => [Session!SNext]_(Session!svars)
  BY SessionRefined, Zenon
<1> QED
  BY <1>1, SessionStarts, AppConnection, PluginCorrect, SessionCorrect, PTL
     DEF AppSpec, ImplementsSession, Session!SSpec
=============================================================================
