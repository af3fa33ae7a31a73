---------------------------- MODULE FlipperClient ----------------------------
(***************************************************************************)
(* FlipperClient: the plugins of a debug build and which of them the       *)
(* desktop has connected.  An operation changes the client while it holds  *)
(* mutex_, and is one action.  An exception is reported when mutex_ is     *)
(* released: handleError first looks at connected_ and sends later, which  *)
(* are actions of their own.                                               *)
(*                                                                         *)
(* Plugins are objects with an identifier; two objects may share one.  The *)
(* client keeps plugins_ and connections_ by identifier.  A plugin is told *)
(* of its connection by didConnect and didDisconnect, which may throw.     *)
(* The entry of connections_ for crash reports, which the constructor puts *)
(* there for good under an identifier of its own, is left out.             *)
(***************************************************************************)
EXTENDS Integers

CONSTANTS
    Plugin,              \* plugin objects
    NoPlugin,            \* no object under an identifier
    Identifier,          \* the identifiers of the plugins
    identifier,          \* the identifier of each plugin
    MaxReports           \* bound: exceptions whose report is under way

ASSUME PluginAssumption ==
    /\ NoPlugin \notin Plugin
    /\ identifier \in [Plugin -> Identifier]
    /\ MaxReports \in Nat

VARIABLES
    plugins,         \* plugins_
    connections,     \* the keys of connections_
    connected,       \* connected_
    told,            \* the plugins that were told they are connected
    handed,          \* a plugin was handed a FlipperConnection
    caught,          \* exceptions that handleError has not looked at
    reporting,       \* messages about exceptions that are still to be sent
    astray           \* history: a plugin was not told that its connection ended

reports == <<handed, caught, reporting>>
clientVars == <<plugins, connections, connected, told, reports, astray>>

-----------------------------------------------------------------------------
ClientInit ==
    /\ plugins = [i \in Identifier |-> NoPlugin]
    /\ connections = {}
    /\ connected = FALSE
    /\ told = {}
    /\ handed = FALSE
    /\ caught = 0
    /\ reporting = 0
    /\ astray = FALSE

\* An operation throws a std::exception, or one of another type.
Catch ==
    /\ caught + reporting < MaxReports
    /\ caught' = caught + 1
    /\ UNCHANGED <<handed, reporting>>

CatchOther == UNCHANGED reports

\* handleError looks at connected_, without mutex_: the error is sent or logged.
HandleError ==
    /\ caught > 0
    /\ caught' = caught - 1
    /\ reporting' = IF connected THEN reporting + 1 ELSE reporting
    /\ UNCHANGED <<plugins, connections, connected, told, handed, astray>>

\* The message about an exception is handed over.
ReportSent ==
    /\ reporting > 0
    /\ reporting' = reporting - 1
    /\ UNCHANGED <<plugins, connections, connected, told, handed, caught, astray>>

\* addPlugin; an identifier in use throws.
AddPlugin(p) ==
    /\ plugins[identifier[p]] = NoPlugin
    /\ plugins' = [plugins EXCEPT ![identifier[p]] = p]
    /\ UNCHANGED <<connections, connected, told, reports, astray>>

AddPluginThrows(p) ==
    /\ plugins[identifier[p]] # NoPlugin
    /\ Catch
    /\ UNCHANGED <<plugins, connections, connected, told, astray>>

\* Mutant: the plugin is erased but stays connected.
RemovePluginConnected(p) ==
    /\ plugins[identifier[p]] # NoPlugin
    /\ plugins' = [plugins EXCEPT ![identifier[p]] = NoPlugin]
    /\ UNCHANGED <<connections, connected, told, reports, astray>>

\* removePlugin finds the plugin by its identifier, and tells the object it was
\* given, which may be another one.
RemovePlugin(p) ==
    LET i == identifier[p] IN
    /\ plugins[i] # NoPlugin
    /\ plugins' = [plugins EXCEPT ![i] = NoPlugin]
    /\ connections' = connections \ {i}
    /\ told' = told \ {p}
    /\ astray' = (astray \/ (i \in connections /\ plugins[i] # p))
    /\ UNCHANGED <<connected, reports>>

\* The same when didDisconnect throws: the plugin stays in plugins_.
RemovePluginFails(p) ==
    LET i == identifier[p] IN
    /\ plugins[i] # NoPlugin
    /\ i \in connections
    /\ connections' = connections \ {i}
    /\ told' = told \ {p}
    /\ astray' = (astray \/ plugins[i] # p)
    /\ Catch \/ CatchOther
    /\ UNCHANGED <<plugins, connected>>

RemovePluginThrows(p) ==
    /\ plugins[identifier[p]] = NoPlugin
    /\ Catch
    /\ UNCHANGED <<plugins, connections, connected, told, astray>>

\* The callback onConnected.
ClientOnConnected ==
    /\ connected' = TRUE
    /\ UNCHANGED <<plugins, connections, told, reports, astray>>

Registered == {i \in Identifier : plugins[i] # NoPlugin}

\* The plugins of identifiers S are disconnected.
Disconnect(S) ==
    /\ connections' = connections \ S
    /\ told' = told \ {plugins[i] : i \in S \cap connections}

\* Mutant: the plugins are not disconnected.
ClientOnlyDisconnected ==
    /\ connected' = FALSE
    /\ UNCHANGED <<plugins, connections, told, reports, astray>>

\* The callback onDisconnected: every plugin is disconnected.  When one throws in
\* didDisconnect, the ones behind it are not reached; the exception is only logged,
\* for connected_ is false.
ClientOnDisconnected ==
    /\ connected' = FALSE
    /\ \/ Disconnect(Registered) /\ UNCHANGED astray
       \/ \E S \in SUBSET Registered :
            /\ S \cap connections # {}
            /\ connections \cap (Registered \ S) # {}
            /\ Disconnect(S)
            /\ astray' = TRUE
    /\ UNCHANGED <<plugins, reports>>

\* Mutant: init does not look whether the plugin is there.
InitAnyPlugin(i) ==
    /\ connections' = connections \cup {i}
    /\ told' = IF i \in connections THEN told ELSE told \cup {plugins[i]}
    /\ handed' = TRUE
    /\ UNCHANGED <<plugins, connected, astray>>

\* The message init: connect, unless the plugin is connected already.
InitPlugin(i) ==
    /\ plugins[i] # NoPlugin
    /\ connections' = connections \cup {i}
    /\ told' = IF i \in connections THEN told ELSE told \cup {plugins[i]}
    /\ handed' = TRUE
    /\ UNCHANGED <<plugins, connected, astray>>

\* The message deinit.
DeinitPlugin(i) ==
    /\ plugins[i] # NoPlugin
    /\ Disconnect({i})
    /\ UNCHANGED <<plugins, connected, handed, astray>>

\* The other messages, and init and deinit of a plugin that is not there, change
\* nothing.
OtherMessage == UNCHANGED <<plugins, connections, connected, told, handed, astray>>

\* onMessageReceived catches an exception of the plugin or of the message, and
\* answers with it when mutex_ is released; an answer to a request goes its own way.
MessageThrows ==
    /\ caught + reporting < MaxReports
    /\ reporting' = reporting + 1
    /\ UNCHANGED caught

\* The client of a new process.
ClientRestarts ==
    /\ plugins' = [i \in Identifier |-> NoPlugin]
    /\ connections' = {}
    /\ connected' = FALSE
    /\ told' = {}
    /\ handed' = FALSE
    /\ caught' = 0
    /\ reporting' = 0
    /\ UNCHANGED astray

-----------------------------------------------------------------------------
(* The properties of the client that need nothing of the connection. *)

\* plugins_ holds each plugin under its own identifier, and what addPlugin,
\* removePlugin, init and deinit leave in the other members has their types.
ClientTypeOK ==
    /\ plugins \in [Identifier -> Plugin \cup {NoPlugin}]
    /\ \A i \in Identifier : plugins[i] # NoPlugin => identifier[plugins[i]] = i
    /\ connections \subseteq Identifier
    /\ connected \in BOOLEAN
    /\ told \subseteq Plugin
    /\ handed \in BOOLEAN
    /\ caught \in Nat
    /\ reporting \in Nat
    /\ astray \in BOOLEAN

\* What a plugin was last told is what connections_ says: didConnect and
\* didDisconnect alternate and reach the object that plugins_ holds, unless one
\* threw in onDisconnected or was removed through another object of its identifier.
ToldTheTruth ==
    ~astray => told = {plugins[i] : i \in connections}
=============================================================================
