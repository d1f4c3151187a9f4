----------------------------- MODULE RemoteServer -----------------------------
(***************************************************************************)
(* The life of the remote: RemoteServer.start, stop and update_config      *)
(* (extension/python/local_server.py, 371-463 and 788-1164), the commands  *)
(* and the shutdown of the component (component.py, 294-504), the settings *)
(* dialog (office_ui.py, 1430-1508), and the life of the relay client's    *)
(* threads (relay_client.py, 193-377).                                     *)
(*                                                                         *)
(* Commands and dialogs run on the office's thread.  When the desktop      *)
(* terminates, a thread of its own stops the remote.  Every start of a     *)
(* relay client makes a new client with a new thread; stop() waits for it  *)
(* two seconds only, so threads of former clients may still be running,    *)
(* and may still be connecting.  The relay itself is reduced to what it    *)
(* does to plugins: the last one that connects takes the session's slot.   *)
(***************************************************************************)
EXTENDS Settings, FiniteSets

CONSTANTS
  Office,       \* the office's thread
  Shutdowns,    \* the threads shutdown_for_termination may start
  Clients,      \* relay clients, in the order they are made
  NoClient,
  EphemeralPort,\* what the system picks when the wanted port is taken
  NoPort,
  NoListener,
  Nowhere,      \* no URL
  PortTexts,    \* what a user types as a port
  UrlTexts,     \* what a user types as a relay
  MaxCommands,  \* bound of the model: commands of the user
  MaxSaves,     \* bound of the model: those of them that save settings
  MaxMishaps    \* bound of the model: network failures, busy offices and ends of the process

Threads == {Office} \cup Shutdowns

ASSUME RemoteAssumption ==
  /\ Office \notin Shutdowns
  /\ NoClient \notin Clients /\ NoPort \notin Ports \cup {EphemeralPort}
  /\ EphemeralPort \notin Ports
  /\ UrlTexts \subseteq RelayTexts
  /\ MaxCommands \in Nat /\ MaxSaves \in Nat /\ MaxMishaps \in Nat

VARIABLES
  active,        \* _active_network_settings
  requested,     \* _runtime_requested
  pending,       \* pending_restart
  listener,      \* the one of http_servers
  urls,          \* the ports in local_urls and direct_urls
  tunnel_client, \* the local port of the tunnel client
  relay_client,  \* the relay client of the server
  clients,       \* every relay client with its thread
  plugin,        \* the client in the plugin's slot of the session, at each relay
  pc,            \* where each thread is
  back,          \* where _stop_relay_client returns to
  snapshot,      \* locals of _save_settings
  terminating,   \* _termination_shutdown_started
  commands, saves, mishaps

serverVars == <<active, requested, pending, listener, urls, tunnel_client>>
relayVars == <<relay_client, clients, plugin>>
threadVars == <<pc, back, snapshot, terminating>>
bounds == <<commands, saves, mishaps>>
vars == <<registry, file, config, serverVars, relayVars, threadVars, bounds>>

NoUrls == [local |-> NoPort, ipv6 |-> NoPort]

NetworkSettings(c) == <<c.localPort, c.preferredRoute>>

Fresh == [url |-> NoUrl, at |-> "none", stop |-> FALSE, known |-> FALSE]

FreshClients == [c \in Clients |-> Fresh]
FreshSlots == [u \in RelayUrls |-> NoClient]
FreshThreads == [t \in Threads |-> IF t = Office THEN "idle" ELSE "new"]
FreshReturns == [t \in Threads |-> "close"]

NoSnapshot == [running |-> FALSE, stop |-> FALSE]

Init ==
  /\ SettingsInit
  /\ active = NetworkSettings(config)
  /\ requested = FALSE
  /\ pending = FALSE
  /\ listener = NoListener
  /\ urls = NoUrls
  /\ tunnel_client = NoPort
  /\ relay_client = NoClient
  /\ clients = FreshClients
  /\ plugin = FreshSlots
  /\ pc = FreshThreads
  /\ back = FreshReturns
  /\ snapshot = NoSnapshot
  /\ terminating = FALSE
  /\ commands = 0 /\ saves = 0 /\ mishaps = 0

-----------------------------------------------------------------------------
(* What the server says of itself.                                         *)

Alive(c) == clients[c].at \notin {"none", "done"}

IsRunning ==
  \/ listener # NoListener
  \/ relay_client # NoClient /\ Alive(relay_client) /\ ~clients[relay_client].stop
  \/ tunnel_client # NoPort

Url(route, to) == [route |-> route, to |-> to]

ListenersMatch(c) == NetworkSettings(c) = active

\* The URL of the route that c selects.
RouteUrl(c) ==
  LET route == c.preferredRoute IN
  IF ~IsRunning THEN Nowhere
  ELSE IF route = "relay" /\ c.relayUrl # NoUrl THEN Url(route, c.relayUrl)
  ELSE IF ~ListenersMatch(c) THEN Nowhere
  ELSE IF route = "local" /\ urls.local # NoPort THEN Url(route, urls.local)
  ELSE IF route = "tunnel" /\ tunnel_client # NoPort THEN Url(route, tunnel_client)
  ELSE IF route = "ipv6" /\ urls.ipv6 # NoPort THEN Url(route, urls.ipv6)
  ELSE Nowhere

\* ready: the address answered the probe of _refresh_direct_ipv6_status.
RefreshedUrls(ready) ==
  IF listener = NoListener THEN NoUrls
  ELSE [local |-> IF listener.family = "ipv4" THEN listener.port ELSE NoPort,
        ipv6 |-> IF listener.family = "ipv6" /\ ready THEN listener.port ELSE NoPort]

\* The listeners a start may end up with; relay mode has none.
Binds(c) ==
  LET on(family) == [family : {family}, port : {c.localPort, EphemeralPort}] IN
  IF c.preferredRoute \in {"local", "tunnel"} THEN on("ipv4")
  ELSE IF c.preferredRoute = "ipv6" THEN on("ipv6") ELSE {NoListener}

\* What _sync_tunnel_client leaves in tunnel_client.
SyncedTunnel(req, c, l) ==
  IF req /\ c.preferredRoute = "tunnel" /\ l # NoListener THEN l.port ELSE NoPort

RelayWantedBySettings == config.preferredRoute = "relay" /\ config.relayUrl # NoUrl

RelayWanted == requested /\ config.preferredRoute = "relay" /\ config.relayUrl # NoUrl

Unused == {c \in Clients : clients[c].at = "none"}

-----------------------------------------------------------------------------
(* The user, on the office's thread.                                       *)

Goes(t, there) == pc' = [pc EXCEPT ![t] = there]

Fails == mishaps < MaxMishaps /\ mishaps' = mishaps + 1

\* The office's thread is free, and a bound is not reached.
Command ==
  /\ pc[Office] = "idle"
  /\ ~terminating
  /\ commands < MaxCommands
  /\ commands' = commands + 1

Start ==
  /\ Command
  /\ ~IsRunning
  /\ Unused # {}
  /\ requested' = TRUE
  /\ \E l \in Binds(config) :
       /\ listener' = l
       /\ active' = NetworkSettings(config)
       /\ pending' = FALSE
       /\ tunnel_client' = SyncedTunnel(TRUE, config, l)
  /\ Goes(Office, "sync start")
  /\ UNCHANGED <<registry, file, config, urls, relayVars, back, snapshot, terminating, saves, mishaps>>

\* No port can be bound: the exception handler stops what was started.
StartFails ==
  /\ Command
  /\ ~IsRunning
  /\ Binds(config) # {NoListener}
  /\ requested' = TRUE
  /\ Goes(Office, "stop")
  /\ UNCHANGED <<registry, file, config, active, pending, listener, urls, tunnel_client, relayVars,
                 back, snapshot, terminating, saves, mishaps>>

\* On a server that has nothing it changes nothing.
Stop ==
  /\ Command
  /\ IsRunning \/ requested \/ relay_client # NoClient
  /\ Goes(Office, "stop")
  /\ UNCHANGED <<registry, file, config, serverVars, relayVars, back, snapshot, terminating, saves, mishaps>>

SettingsChangedByRoute(payload) ==
  payload.preferredRoute # config.preferredRoute

SettingsChanged(payload) ==
  \E k \in DOMAIN payload : payload[k] # config[k]

\* The relay's field is hidden, and left out, unless the relay is chosen.
Payloads ==
  [preferredRoute : Routes \ {"relay"}, localPort : PortTexts] \cup
  [preferredRoute : {"relay"}, localPort : PortTexts, relayUrl : UrlTexts]

\* A text that is no URL, or two stores that both refuse, end in a message
\* and change nothing.
SaveSettings ==
  /\ Command
  /\ saves < MaxSaves
  /\ saves' = saves + 1
  /\ Unused # {}
  /\ \E payload \in Payloads :
       LET updated == Merged(config, payload) IN
       /\ Save(updated)
       /\ config' = updated
       /\ pending' = (IsRunning /\ NetworkSettings(updated) # active)
       /\ tunnel_client' = SyncedTunnel(requested, updated, listener)
       /\ snapshot' = [running |-> IsRunning, stop |-> IsRunning /\ SettingsChanged(payload)]
  /\ Goes(Office, "sync save")
  /\ UNCHANGED <<active, requested, listener, urls, relayVars, back, terminating, mishaps>>

NewClient ==
  LET c == CHOOSE c \in Unused : TRUE IN
  /\ clients' = [clients EXCEPT ![c] = [Fresh EXCEPT !.url = config.relayUrl, !.at = "connect"]]
  /\ relay_client' = c
  /\ UNCHANGED plugin

Finishing(at) == IF at = "sync start" THEN "finish start" ELSE "finish save"

Kept == relay_client # NoClient /\ clients[relay_client].url = config.relayUrl

SyncRelayAtOnce ==
  LET at == pc[Office] IN
  /\ at \in {"sync start", "sync save"}
  /\ IF RelayWanted /\ ~Kept THEN NewClient ELSE UNCHANGED relayVars
  /\ Goes(Office, Finishing(at))
  /\ UNCHANGED <<registry, file, config, serverVars, back, snapshot, terminating, bounds>>

SyncRelay ==
  LET at == pc[Office] IN
  /\ at \in {"sync start", "sync save"}
  /\ \/ /\ RelayWanted /\ Kept
        /\ Goes(Office, Finishing(at))
        /\ UNCHANGED <<relayVars, back>>
     \/ /\ relay_client # NoClient /\ ~(RelayWanted /\ Kept)
        /\ Goes(Office, "check")
        /\ back' = [back EXCEPT ![Office] = at]
        /\ UNCHANGED relayVars
     \/ /\ relay_client = NoClient
        /\ IF RelayWanted THEN NewClient ELSE UNCHANGED relayVars
        /\ Goes(Office, Finishing(at))
        /\ UNCHANGED back
  /\ UNCHANGED <<registry, file, config, serverVars, snapshot, terminating, bounds>>

\* The tail of start, update_config and _save_settings.
Finish ==
  LET at == pc[Office] IN
  /\ at \in {"finish start", "finish save"}
  /\ \E ready \in BOOLEAN : urls' = RefreshedUrls(ready)
  /\ Goes(Office, IF \/ at = "finish start" /\ ~IsRunning
                     \/ at = "finish save" /\ snapshot.stop
                    THEN "stop" ELSE "idle")
  /\ snapshot' = NoSnapshot
  /\ UNCHANGED <<registry, file, config, active, requested, pending, listener, tunnel_client,
                 relayVars, back, terminating, bounds>>

-----------------------------------------------------------------------------
(* RemoteServer.stop, on thread t.  _stop_relay_client looks at            *)
(* relay_client, uses it, and forgets it two seconds later.                *)

Halt(t) ==
  /\ pc[t] = "stop"
  /\ requested' = FALSE
  /\ tunnel_client' = NoPort
  /\ back' = [back EXCEPT ![t] = "close"]
  /\ Goes(t, "check")
  /\ UNCHANGED <<registry, file, config, active, pending, listener, urls, relayVars, snapshot,
                 terminating, bounds>>

CheckRelay(t) ==
  /\ pc[t] = "check"
  /\ Goes(t, IF relay_client # NoClient THEN "signal" ELSE back[t])
  /\ UNCHANGED <<registry, file, config, serverVars, relayVars, back, snapshot, terminating, bounds>>

SignalClosing(c) ==
  /\ UNCHANGED clients
  /\ plugin' = [u \in RelayUrls |->
                  IF plugin[u] = c /\ clients[c].known THEN NoClient ELSE plugin[u]]

\* SecureRelayClient.stop: a socket that the thread has not stored yet, or
\* is still connecting, is left alone.
Signal(c) ==
  /\ clients' = [clients EXCEPT ![c].stop = TRUE]
  /\ plugin' = [u \in RelayUrls |->
                  IF plugin[u] = c /\ clients[c].known THEN NoClient ELSE plugin[u]]

SignalRelay(t) ==
  /\ pc[t] = "signal"
  /\ IF relay_client = NoClient
       THEN Goes(t, "crashed") /\ UNCHANGED <<clients, plugin>>
       ELSE Goes(t, "join") /\ Signal(relay_client)
  /\ UNCHANGED <<registry, file, config, serverVars, relay_client, back, snapshot, terminating, bounds>>

\* The thread has ended, or the two seconds are over.
JoinRelay(t) ==
  /\ pc[t] = "join"
  /\ relay_client' = NoClient
  /\ Goes(t, back[t])
  /\ UNCHANGED <<registry, file, config, serverVars, clients, plugin, back, snapshot, terminating, bounds>>

Close(t) ==
  /\ pc[t] = "close"
  /\ listener' = NoListener
  /\ urls' = NoUrls
  /\ pending' = FALSE
  /\ Goes(t, IF t = Office THEN "idle" ELSE "over")
  /\ UNCHANGED <<registry, file, config, active, requested, tunnel_client, relayVars, back, snapshot,
                 terminating, bounds>>

NotifyEachTime(t) ==
  /\ t \in Shutdowns
  /\ pc[Office] = "idle"
  /\ pc[t] = "new"
  /\ terminating' = TRUE
  /\ Goes(t, "stop")
  /\ UNCHANGED <<registry, file, config, serverVars, relayVars, back, snapshot, bounds>>

\* notifyTermination and disposing both end here.  The desktop calls them on
\* the office's thread, while it runs no command.
Notify(t) ==
  /\ t \in Shutdowns
  /\ pc[Office] = "idle"
  /\ ~terminating
  /\ pc[t] = "new"
  /\ terminating' = TRUE
  /\ Goes(t, "stop")
  /\ UNCHANGED <<registry, file, config, serverVars, relayVars, back, snapshot, bounds>>

\* The process ends, in good order or not, and LibreOffice starts again.
Restart ==
  /\ Fails
  /\ Load
  /\ active' = NetworkSettings(config')
  /\ requested' = FALSE
  /\ pending' = FALSE
  /\ listener' = NoListener
  /\ urls' = NoUrls
  /\ tunnel_client' = NoPort
  /\ relay_client' = NoClient
  /\ clients' = FreshClients
  /\ plugin' = FreshSlots
  /\ pc' = FreshThreads
  /\ back' = FreshReturns
  /\ snapshot' = NoSnapshot
  /\ terminating' = FALSE
  /\ UNCHANGED <<commands, saves>>

-----------------------------------------------------------------------------
(* The thread of relay client c.  The event is looked at only between      *)
(* connections and between messages.                                       *)

Moves(c, there) == clients' = [clients EXCEPT ![c].at = there]

\* _preflight_relay and connect; the relay closes the plugin that was in the
\* slot.
Connect(c) ==
  /\ clients[c].at = "connect"
  /\ \/ /\ Moves(c, "greet")
        /\ plugin' = [plugin EXCEPT ![clients[c].url] = c]
        /\ UNCHANGED mishaps
     \/ Moves(c, "closing") /\ Fails /\ UNCHANGED plugin

Connected(c) == plugin[clients[c].url] = c

Greet(c) ==
  /\ clients[c].at = "greet"
  /\ clients' = [clients EXCEPT ![c].known = TRUE,
                                ![c].at = IF Connected(c) THEN "serve" ELSE "closing"]
  /\ UNCHANGED <<plugin, mishaps>>

\* One turn of the receive loop; the state is asked of the office.
Serve(c) ==
  /\ clients[c].at = "serve"
  /\ Moves(c, IF clients[c].stop \/ ~Connected(c) THEN "closing" ELSE "office")
  /\ UNCHANGED <<plugin, mishaps>>

\* A call on the office's thread is answered when that thread is free, and
\* given up when it is not, or not soon enough.
OfficeAnswers(c) ==
  /\ clients[c].at = "office"
  /\ \/ pc[Office] = "idle" /\ Moves(c, "serve") /\ UNCHANGED mishaps
     \/ pc[Office] # "idle" /\ Moves(c, "closing") /\ UNCHANGED mishaps
     \/ pc[Office] = "idle" /\ Moves(c, "closing") /\ Fails
  /\ UNCHANGED plugin

ClosingToRetry(c) ==
  /\ clients[c].at = "closing"
  /\ clients' = [clients EXCEPT ![c].known = FALSE, ![c].at = "connect"]
  /\ plugin' = [u \in RelayUrls |-> IF plugin[u] = c THEN NoClient ELSE plugin[u]]
  /\ UNCHANGED mishaps

\* The finally block, after the wait of two seconds that stop() cuts short.
Closing(c) ==
  /\ clients[c].at = "closing"
  /\ clients' = [clients EXCEPT ![c].known = FALSE,
                                ![c].at = IF clients[c].stop THEN "done" ELSE "connect"]
  /\ plugin' = [u \in RelayUrls |-> IF plugin[u] = c THEN NoClient ELSE plugin[u]]
  /\ UNCHANGED mishaps

Drop(u) ==
  /\ plugin[u] # NoClient
  /\ Fails
  /\ plugin' = [plugin EXCEPT ![u] = NoClient]
  /\ UNCHANGED clients

ClientTurn(c) ==
  \/ Connect(c) \/ Greet(c)
  \/ Serve(c) \/ OfficeAnswers(c) \/ Closing(c)

NotOfClients ==
  UNCHANGED <<registry, file, config, serverVars, relay_client, threadVars, commands, saves>>

ClientStep(c) == ClientTurn(c) /\ NotOfClients

-----------------------------------------------------------------------------
StopStep(t) == Halt(t) \/ CheckRelay(t) \/ SignalRelay(t) \/ JoinRelay(t) \/ Close(t)

OfficeStep == SyncRelay \/ Finish \/ StopStep(Office)

Next ==
  \/ Start \/ StartFails \/ Stop \/ SaveSettings
  \/ SyncRelay \/ Finish
  \/ \E t \in Threads : StopStep(t) \/ Notify(t)
  \/ Restart
  \/ \E c \in Clients : ClientStep(c)
  \/ \E u \in RelayUrls : Drop(u) /\ NotOfClients

\* The office's thread ends what it has begun, and so do the threads of the
\* shutdown and of the relay clients.
Fairness ==
  /\ WF_vars(OfficeStep)
  /\ \A t \in Shutdowns : WF_vars(StopStep(t))
  /\ \A c \in Clients : WF_vars(ClientStep(c))

RemoteSpec == Init /\ [][Next]_vars /\ Fairness

-----------------------------------------------------------------------------
(* Properties.                                                             *)

ClientRecord ==
  [url : RelayUrls \cup {NoUrl},
   at : {"none", "connect", "greet", "serve", "office", "closing", "done"},
   stop : BOOLEAN, known : BOOLEAN]

\* Types.  No thread is "crashed": the relay client a thread has found in
\* relay_client is still there when it stops it, since only one thread ever
\* stops the remote at a time (component.py, 414-423).
RemoteTypeOK ==
  /\ config \in Config
  /\ active \in Ports \X Routes
  /\ requested \in BOOLEAN /\ pending \in BOOLEAN /\ terminating \in BOOLEAN
  /\ listener \in [family : {"ipv4", "ipv6"}, port : Ports \cup {EphemeralPort}] \cup {NoListener}
  /\ urls \in [local : Ports \cup {EphemeralPort, NoPort}, ipv6 : Ports \cup {EphemeralPort, NoPort}]
  /\ tunnel_client \in Ports \cup {EphemeralPort, NoPort}
  /\ relay_client \in Clients \cup {NoClient}
  /\ clients \in [Clients -> ClientRecord]
  /\ plugin \in [RelayUrls -> Clients \cup {NoClient}]
  /\ pc \in [Threads -> {"new", "idle", "sync start", "sync save", "finish start", "finish save",
                         "stop", "check", "signal", "join", "close", "over"}]
  /\ back \in [Threads -> {"sync start", "sync save", "close"}]
  /\ snapshot \in [running : BOOLEAN, stop : BOOLEAN]

Idle == pc[Office] = "idle" /\ \A t \in Shutdowns : pc[t] \in {"new", "over"}

\* A relay thread that nobody has told to stop is that of the server's relay
\* client, and there is one only while the remote is wanted: threads of
\* former clients are on their way out (local_server.py, 1082-1116).
TransportsAreOwned ==
  /\ \A c \in Clients : Alive(c) /\ ~clients[c].stop => c = relay_client
  /\ Idle /\ ~requested => ~IsRunning

\* The remote runs with the settings that are saved, never with those of
\* before (user-guide.md, 80), and a URL that the pairing dialog may offer
\* leads to a transport that is up.
Backed(url) ==
  \/ /\ url.route \in {"local", "tunnel"}
     /\ listener = [family |-> "ipv4", port |-> url.to]
     /\ url.route = "tunnel" => tunnel_client = url.to
  \/ url.route = "ipv6" /\ listener = [family |-> "ipv6", port |-> url.to]
  \/ /\ url.route = "relay" /\ relay_client # NoClient
     /\ clients[relay_client].url = url.to /\ ~clients[relay_client].stop

OfferedUrlIsBacked ==
  Idle /\ IsRunning =>
    /\ active = NetworkSettings(config) /\ ~pending
    /\ RouteUrl(config) # Nowhere => Backed(RouteUrl(config))

\* Saving settings never starts a remote that was not running, and leaves
\* none running with settings that were changed (CHANGELOG.md, 640).
SavingNeverStarts ==
  [][pc[Office] = "finish save" /\ pc'[Office] = "idle" =>
       (IsRunning' => snapshot.running /\ ~snapshot.stop)]_vars

\* Whatever threads of former clients still do, in the end the current
\* relay client is the one the relay has in the session's slot.
CurrentClientConnects ==
  <>[](Idle /\ relay_client # NoClient =>
         /\ plugin[clients[relay_client].url] = relay_client
         /\ clients[relay_client].at \in {"serve", "office"})

Quiet ==
  /\ ~IsRunning /\ relay_client = NoClient
  /\ \A c \in Clients : ~Alive(c)
  /\ \A u \in RelayUrls : plugin[u] = NoClient

\* When the desktop terminates, listeners, tunnel and relay threads end and
\* the relay's slot is given back (component.py, 411-423).
TerminationCleansUp == terminating ~> (Quiet \/ ~terminating)
=============================================================================
