------------------------- MODULE RemoteServerProofs -------------------------
(***************************************************************************)
(* What RemoteServer's run checks of types, of the settings, of who owns   *)
(* the transports, of the URLs on offer and of saving settings, for every  *)
(* number of relay clients, threads of the shutdown, ports, relays and     *)
(* commands.                                                               *)
(***************************************************************************)
EXTENDS RemoteServer, TLAPS

\* What is in the stores can be loaded.
StoreInv ==
  /\ FromDict(registry) \in Config
  /\ FromDict(file) \in Config
  /\ SettingsComeBack

\* The office's thread has ended its command when the desktop terminates,
\* and one thread only stops the remote then.
ExclusiveInv ==
  /\ terminating => pc[Office] = "idle"
  /\ ~terminating => \A t \in Shutdowns : pc[t] = "new"
  /\ \A s, t \in Shutdowns : pc[s] # "new" /\ pc[t] # "new" => s = t

\* A thread in the middle of _stop_relay_client has the client to stop.
ClientInv ==
  /\ \A t \in Threads :
       /\ pc[t] \in {"signal", "join"} => relay_client # NoClient
       /\ pc[t] = "join" => clients[relay_client].stop
  /\ \A c \in Clients : Alive(c) /\ ~clients[c].stop => c = relay_client

\* While the relay client is synchronised there is one to make.
Synchronising ==
  \/ pc[Office] \in {"sync start", "sync save"}
  \/ pc[Office] \in {"check", "signal", "join"} /\ back[Office] # "close"

SupplyInv == Synchronising => Unused # {}

\* What a remote that is not wanted still has, a thread is about to take.
WantedInv ==
  ~requested =>
    /\ tunnel_client = NoPort
    /\ relay_client # NoClient =>
         \E t \in Threads : pc[t] \in {"check", "signal", "join"}
    /\ listener # NoListener =>
         \E t \in Threads : \/ pc[t] \in {"check", "signal", "join"} /\ back[t] = "close"
                            \/ pc[t] = "close"

Places ==
  {"new", "idle", "sync start", "sync save", "finish start", "finish save",
   "stop", "check", "signal", "join", "close", "over"}

IInv == RemoteTypeOK /\ StoreInv /\ ExclusiveInv /\ ClientInv /\ SupplyInv /\ WantedInv

-----------------------------------------------------------------------------
(* What normalisation does to settings.                                    *)

\* Normalised settings are left alone.
LEMMA FromDictKeeps ==
  ASSUME NEW c \in Config
  PROVE  FromDict(c) = c
<1>1. NormalizeRoute(c.preferredRoute) = c.preferredRoute
  BY DEF Config, NormalizeRoute
<1>2. CoercePort(c.localPort) = c.localPort
  BY DEF Config, CoercePort
<1>3. NormalizeRelayUrl(c.relayUrl) = c.relayUrl
  BY SettingsAssumption DEF Config, NormalizeRelayUrl
<1> QED BY <1>1, <1>2, <1>3 DEF FromDict, Config

\* Whatever a store or a dialog has for route and port becomes one of those
\* there are.
LEMMA FromDictNormalises ==
  ASSUME NEW d, NormalizeRelayUrl(d.relayUrl) \in RelayUrls \cup {NoUrl}
  PROVE  FromDict(d) \in Config
<1>1. NormalizeRoute(d.preferredRoute) \in Routes
  BY DEF NormalizeRoute, Routes, Aliases
<1>2. CoercePort(d.localPort) \in Ports
  BY SettingsAssumption DEF CoercePort
<1> QED BY <1>1, <1>2 DEF FromDict, Config

\* What the dialog's fields are merged to is a configuration.
LEMMA MergedIsConfig ==
  ASSUME NEW c \in Config, NEW payload \in Payloads
  PROVE  Merged(c, payload) \in Config
<1> DEFINE d == [k \in DOMAIN c |-> IF k \in DOMAIN payload THEN payload[k] ELSE c[k]]
<1>1. DOMAIN c = {"preferredRoute", "localPort", "relayUrl"} /\ c.relayUrl \in RelayUrls \cup {NoUrl}
  BY DEF Config
<1>2. "relayUrl" \in DOMAIN payload => payload.relayUrl \in RelayTexts
  BY RemoteAssumption DEF Payloads
<1>3. d.relayUrl \in RelayTexts
  BY <1>1, <1>2 DEF RelayTexts
<1>4. NormalizeRelayUrl(d.relayUrl) \in RelayUrls \cup {NoUrl}
  BY <1>3, SettingsAssumption DEF RelayTexts, NormalizeRelayUrl
<1> QED BY <1>4, FromDictNormalises DEF Merged

\* The configuration of a first start is one.
LEMMA DefaultIsConfig == Default \in Config
BY SettingsAssumption DEF Default, Config, Routes

-----------------------------------------------------------------------------
(* The stores.                                                             *)

\* Saving makes the file and the registry agree with the configuration.
LEMMA SaveKeepsStoreInv ==
  ASSUME StoreInv, NEW c \in Config, Save(c), config' = c
  PROVE  StoreInv'
<1>1. FromDict(c) = c
  BY FromDictKeeps
<1>2. CASE SaveToOffice(c)
  BY <1>1, <1>2 DEF SaveToOffice, StoreInv, SettingsComeBack, Reloaded
<1>3. CASE SaveToFile(c)
  BY <1>1, <1>3 DEF SaveToFile, StoreInv, SettingsComeBack
<1> QED BY <1>2, <1>3 DEF Save

\* Loading returns the configuration that was saved last.
LEMMA LoadKeepsStoreInv ==
  ASSUME StoreInv, Load
  PROVE  StoreInv' /\ config' \in Config
<1>1. CASE LoadFile
  BY <1>1 DEF LoadFile, StoreInv, SettingsComeBack, stores
<1>2. CASE LoadOffice /\ UNCHANGED stores
  BY <1>2 DEF LoadOffice, StoreInv, SettingsComeBack, Reloaded, stores
<1>3. CASE LoadOffice /\ FromDict(registry) = Default /\ Save(FromDict(file))
  <2>1. config' = FromDict(file) /\ FromDict(file) \in Config
    BY <1>3 DEF LoadOffice, Reloaded, StoreInv
  <2> QED BY <1>3, <2>1, SaveKeepsStoreInv
<1> QED BY <1>1, <1>2, <1>3 DEF Load, LoadOffice

\* What does not touch the stores keeps what they hold.
LEMMA OthersKeepStoreInv ==
  ASSUME StoreInv, UNCHANGED <<registry, file, config>>
  PROVE  StoreInv'
BY DEF StoreInv, SettingsComeBack, Reloaded

-----------------------------------------------------------------------------
(* Two lemmas about types.                                                 *)

\* A thread that goes on is at a place of the program.
LEMMA GoesTypes ==
  ASSUME RemoteTypeOK, NEW t \in Threads, NEW there \in Places, Goes(t, there)
  PROVE  pc' \in [Threads -> Places]
<1>1. pc \in [Threads -> Places]
  BY DEF RemoteTypeOK, Places
<1> QED BY <1>1 DEF Goes

\* A step that leaves the settings and the server alone.
LEMMA UnchangedTypes ==
  ASSUME RemoteTypeOK, UNCHANGED <<config, serverVars, snapshot>>,
         back' \in [Threads -> {"sync start", "sync save", "close"}], terminating' \in BOOLEAN,
         relay_client' \in Clients \cup {NoClient}, clients' \in [Clients -> ClientRecord],
         plugin' \in [RelayUrls -> Clients \cup {NoClient}], pc' \in [Threads -> Places]
  PROVE  RemoteTypeOK'
<1>1. /\ config' = config /\ active' = active /\ requested' = requested /\ pending' = pending
      /\ listener' = listener /\ urls' = urls /\ tunnel_client' = tunnel_client
      /\ snapshot' = snapshot
  BY DEF serverVars
<1>2. config' \in Config /\ active' \in Ports \X Routes
  BY <1>1 DEF RemoteTypeOK
<1>3. requested' \in BOOLEAN /\ pending' \in BOOLEAN
  BY <1>1 DEF RemoteTypeOK
<1>4. /\ listener' \in [family : {"ipv4", "ipv6"}, port : Ports \cup {EphemeralPort}] \cup {NoListener}
      /\ urls' \in [local : Ports \cup {EphemeralPort, NoPort}, ipv6 : Ports \cup {EphemeralPort, NoPort}]
      /\ tunnel_client' \in Ports \cup {EphemeralPort, NoPort}
  BY <1>1 DEF RemoteTypeOK
<1>5. snapshot' \in [running : BOOLEAN, stop : BOOLEAN]
  BY <1>1 DEF RemoteTypeOK
<1> QED BY <1>2, <1>3, <1>4, <1>5 DEF RemoteTypeOK, Places

-----------------------------------------------------------------------------
(* The threads.                                                            *)

\* No two threads are inside the controller at once.
LEMMA OneAtATime ==
  ASSUME ExclusiveInv,
         NEW s \in Threads, pc[s] \notin {"new", "idle", "over"},
         NEW t \in Threads, pc[t] \notin {"new", "idle", "over"}
  PROVE  s = t
BY RemoteAssumption DEF ExclusiveInv, Threads

\* A step of thread u that neither starts it nor lets it begin a command.
LEMMA GoesKeepsExclusiveInv ==
  ASSUME RemoteTypeOK, ExclusiveInv, NEW u \in Threads, NEW there,
         pc[u] \notin {"new", "idle", "over"}, Goes(u, there), there # "new", UNCHANGED terminating
  PROVE  ExclusiveInv'
BY RemoteAssumption DEF RemoteTypeOK, ExclusiveInv, Goes, Threads

\* A command is begun by an idle office, which is then the one thread at
\* work.
LEMMA CommandKeepsExclusiveInv ==
  ASSUME RemoteTypeOK, ExclusiveInv, Command, NEW there, Goes(Office, there), UNCHANGED terminating
  PROVE  ExclusiveInv'
BY RemoteAssumption DEF RemoteTypeOK, ExclusiveInv, Command, Goes, Threads

\* The thread that a termination starts works while the office waits.
LEMMA NotifyKeepsExclusiveInv ==
  ASSUME RemoteTypeOK, ExclusiveInv, NEW u \in Threads, Notify(u)
  PROVE  ExclusiveInv'
BY RemoteAssumption DEF RemoteTypeOK, ExclusiveInv, Notify, Goes, Threads

\* After a restart no thread is at work.
LEMMA RestartKeepsExclusiveInv ==
  ASSUME Restart
  PROVE  ExclusiveInv'
BY RemoteAssumption DEF ExclusiveInv, Restart, FreshThreads, Threads

\* Every step keeps one thread at most at work.
LEMMA StepKeepsExclusiveInv ==
  ASSUME RemoteTypeOK, ExclusiveInv, [Next]_vars
  PROVE  ExclusiveInv'
<1>1. CASE Start \/ StartFails \/ Stop \/ SaveSettings
  BY <1>1, CommandKeepsExclusiveInv DEF Start, StartFails, Stop, SaveSettings
<1>2. CASE SyncRelay
  BY <1>2, GoesKeepsExclusiveInv DEF SyncRelay, Finishing, Threads
<1>3. CASE Finish
  BY <1>3, GoesKeepsExclusiveInv DEF Finish, Threads
<1>4. ASSUME NEW t \in Threads, StopStep(t)
      PROVE  ExclusiveInv'
  <2>1. back[t] # "new"
    BY DEF RemoteTypeOK
  <2> QED BY <1>4, <2>1, GoesKeepsExclusiveInv
        DEF StopStep, Halt, CheckRelay, SignalRelay, JoinRelay, Close
<1>5. CASE \E t \in Threads : Notify(t)
  BY <1>5, NotifyKeepsExclusiveInv
<1>6. CASE Restart
  BY <1>6, RestartKeepsExclusiveInv
<1>7. CASE \/ \E c \in Clients : ClientStep(c)
           \/ \E u \in RelayUrls : Drop(u) /\ NotOfClients
           \/ UNCHANGED vars
  <2>1. UNCHANGED threadVars
    BY <1>7 DEF ClientStep, NotOfClients, vars
  <2> QED BY <2>1 DEF threadVars, ExclusiveInv
<1> QED BY <1>1, <1>2, <1>3, <1>4, <1>5, <1>6, <1>7 DEF Next

-----------------------------------------------------------------------------
(* The relay clients.                                                      *)

\* A thread that is neither new nor done becomes r.
LEMMA OneClientMoves ==
  ASSUME RemoteTypeOK, NEW c \in Clients, Alive(c),
         NEW r \in ClientRecord, clients' = [clients EXCEPT ![c] = r],
         r.stop = clients[c].stop, r.url = clients[c].url, r.at # "none", r.at = "done" => r.stop
  PROVE  /\ clients' \in [Clients -> ClientRecord]
         /\ \A d \in Clients : clients'[d].stop = clients[d].stop /\ clients'[d].url = clients[d].url
         /\ \A d \in Clients : ~clients[d].stop => (Alive(d)' <=> Alive(d))
         /\ Unused' = Unused
<1>1. clients \in [Clients -> ClientRecord]
  BY DEF RemoteTypeOK
<1>2. clients' \in [Clients -> ClientRecord]
  BY <1>1
<1>3. ASSUME NEW d \in Clients
      PROVE  /\ clients'[d].stop = clients[d].stop /\ clients'[d].url = clients[d].url
             /\ ~clients[d].stop => (Alive(d)' <=> Alive(d))
  <2>1. CASE d = c
    BY <1>1, <2>1 DEF Alive
  <2>2. CASE d # c
    BY <1>1, <2>2 DEF Alive
  <2> QED BY <2>1, <2>2
<1>4. \A d \in Clients : clients'[d].at = "none" <=> clients[d].at = "none"
  BY <1>1 DEF Alive
<1> QED BY <1>2, <1>3, <1>4 DEF Unused

\* A relay client that goes on to another place keeps its URL and its stop
\* flag.
LEMMA MovesKeeps ==
  ASSUME RemoteTypeOK, NEW c \in Clients, Alive(c),
         NEW there \in {"greet", "serve", "office", "closing"}, Moves(c, there)
  PROVE  /\ clients' \in [Clients -> ClientRecord]
         /\ \A d \in Clients : clients'[d].stop = clients[d].stop /\ clients'[d].url = clients[d].url
         /\ \A d \in Clients : ~clients[d].stop => (Alive(d)' <=> Alive(d))
         /\ Unused' = Unused
<1> DEFINE r == [clients[c] EXCEPT !.at = there]
<1>1. clients[c] \in ClientRecord
  BY DEF RemoteTypeOK
<1>2. r \in ClientRecord /\ r.stop = clients[c].stop /\ r.url = clients[c].url /\ r.at = there
  BY <1>1 DEF ClientRecord
<1>3. clients' = [clients EXCEPT ![c] = r]
  BY DEF Moves
<1> HIDE DEF r
<1> QED BY <1>2, <1>3, OneClientMoves

\* What the thread of a client does neither starts nor ends a client that
\* was not told to stop.
LEMMA ClientTurnKeeps ==
  ASSUME RemoteTypeOK, NEW c \in Clients, ClientTurn(c)
  PROVE  /\ clients' \in [Clients -> ClientRecord]
         /\ plugin' \in [RelayUrls -> Clients \cup {NoClient}]
         /\ \A d \in Clients : clients'[d].stop = clients[d].stop /\ clients'[d].url = clients[d].url
         /\ \A d \in Clients : ~clients[d].stop => (Alive(d)' <=> Alive(d))
         /\ Unused' = Unused
<1>1. plugin \in [RelayUrls -> Clients \cup {NoClient}] /\ clients[c] \in ClientRecord
  BY DEF RemoteTypeOK
<1>2. plugin' \in [RelayUrls -> Clients \cup {NoClient}]
  BY <1>1 DEF ClientTurn, Connect, Greet, Serve, OfficeAnswers, Closing
<1>3. CASE Connect(c) \/ Serve(c) \/ OfficeAnswers(c)
  <2>1. Alive(c)
    BY <1>3 DEF Connect, Serve, OfficeAnswers, Alive
  <2>2. \E there \in {"greet", "serve", "office", "closing"} : Moves(c, there)
    BY <1>3 DEF Connect, Serve, OfficeAnswers
  <2> QED BY <1>2, <2>1, <2>2, MovesKeeps
<1>4. CASE Greet(c)
  <2> DEFINE r == [clients[c] EXCEPT !.known = TRUE,
                                     !.at = IF Connected(c) THEN "serve" ELSE "closing"]
  <2>1. r \in ClientRecord /\ r.stop = clients[c].stop /\ r.url = clients[c].url /\ r.at \in {"serve", "closing"}
    BY <1>1 DEF ClientRecord
  <2>2. clients' = [clients EXCEPT ![c] = r] /\ Alive(c)
    BY <1>4 DEF Greet, Alive
  <2> HIDE DEF r
  <2> QED BY <1>2, <2>1, <2>2, OneClientMoves
<1>5. CASE Closing(c)
  <2> DEFINE r == [clients[c] EXCEPT !.known = FALSE,
                                     !.at = IF clients[c].stop THEN "done" ELSE "connect"]
  <2>1. r \in ClientRecord /\ r.stop = clients[c].stop /\ r.url = clients[c].url /\ r.at # "none" /\ (r.at = "done" => r.stop)
    BY <1>1 DEF ClientRecord
  <2>2. clients' = [clients EXCEPT ![c] = r] /\ Alive(c)
    BY <1>5 DEF Closing, Alive
  <2> HIDE DEF r
  <2> QED BY <1>2, <2>1, <2>2, OneClientMoves
<1> QED BY <1>3, <1>4, <1>5 DEF ClientTurn

\* Starting a client where there is none leaves one that nobody has stopped.
LEMMA NewClientKeeps ==
  ASSUME RemoteTypeOK, ClientInv, NewClient, relay_client = NoClient, Unused # {}, RelayWanted,
         \A t \in Threads : pc'[t] \notin {"signal", "join"}
  PROVE  /\ clients' \in [Clients -> ClientRecord]
         /\ relay_client' \in Clients
         /\ ClientInv'
<1> DEFINE c == CHOOSE d \in Unused : TRUE
<1>1. c \in Clients
  BY DEF Unused
<1>2. config.relayUrl \in RelayUrls \cup {NoUrl}
  BY DEF RemoteTypeOK, Config
<1>3. clients' = [clients EXCEPT ![c] = [Fresh EXCEPT !.url = config.relayUrl, !.at = "connect"]]
      /\ relay_client' = c
  BY DEF NewClient
<1>4. clients' \in [Clients -> ClientRecord]
  BY <1>1, <1>2, <1>3 DEF RemoteTypeOK, ClientRecord, Fresh
<1>5. \A d \in Clients : Alive(d)' /\ ~clients'[d].stop => d = c
  BY <1>1, <1>3, RemoteAssumption, ZenonT(30) DEF RemoteTypeOK, ClientInv, Alive
<1> QED BY <1>1, <1>3, <1>4, <1>5 DEF ClientInv

\* Setting the stop flag of the client leaves it the only one that may be
\* stopped.
LEMMA SignalRelayKeeps ==
  ASSUME RemoteTypeOK, ClientInv, NEW t \in Threads, SignalRelay(t)
  PROVE  RemoteTypeOK' /\ ClientInv'
<1> DEFINE r == [clients[relay_client] EXCEPT !.stop = TRUE]
<1>1. relay_client \in Clients /\ relay_client # NoClient
  BY DEF SignalRelay, ClientInv, RemoteTypeOK
<1>2. clients \in [Clients -> ClientRecord] /\ r \in ClientRecord /\ r.stop
      /\ r.at = clients[relay_client].at
  BY <1>1, ZenonT(30) DEF RemoteTypeOK, ClientRecord
<1>3. clients' = [clients EXCEPT ![relay_client] = r] /\ UNCHANGED relay_client
  BY <1>1 DEF SignalRelay, Signal
<1> HIDE DEF r
<1>4. pc' = [pc EXCEPT ![t] = "join"]
  BY <1>1 DEF SignalRelay, Goes
<1>5. RemoteTypeOK'
  <2>1. plugin' \in [RelayUrls -> Clients \cup {NoClient}]
    BY <1>1 DEF SignalRelay, Signal, RemoteTypeOK
  <2>2. clients' \in [Clients -> ClientRecord]
    BY <1>2, <1>3
  <2>3. UNCHANGED <<config, serverVars, back, snapshot, terminating>>
    BY DEF SignalRelay
  <2>4. pc' \in [Threads -> Places]
    BY GoesTypes, <1>1 DEF SignalRelay, Places
  <2>5. relay_client' \in Clients \cup {NoClient}
    BY <1>1, <1>3
  <2> QED BY <2>1, <2>2, <2>3, <2>4, <2>5, UnchangedTypes DEF RemoteTypeOK
<1>6. \A s \in Threads : pc'[s] = "join" => clients'[relay_client'].stop
  BY <1>1, <1>2, <1>3
<1>7. ASSUME NEW c \in Clients, Alive(c)', ~clients'[c].stop
      PROVE  c = relay_client'
  <2>1. c # relay_client => clients'[c] = clients[c]
    BY <1>2, <1>3
  <2> QED BY <1>1, <1>2, <1>3, <1>7, <2>1 DEF ClientInv, Alive
<1> QED BY <1>1, <1>3, <1>5, <1>6, <1>7 DEF ClientInv

\* Joining the client, or giving up on it, forgets a client that was stopped.
LEMMA JoinRelayKeeps ==
  ASSUME RemoteTypeOK, ExclusiveInv, ClientInv, NEW t \in Threads, JoinRelay(t)
  PROVE  ClientInv'
<1>1. pc[t] = "join" /\ clients[relay_client].stop /\ relay_client' = NoClient
      /\ pc' = [pc EXCEPT ![t] = back[t]] /\ UNCHANGED clients
  BY DEF JoinRelay, ClientInv, Goes
<1>2. ASSUME NEW s \in Threads
      PROVE  pc'[s] \notin {"signal", "join"}
  <2>1. CASE s = t
    BY <1>1, <2>1 DEF RemoteTypeOK
  <2>2. CASE s # t
    BY <1>1, <2>2, OneAtATime DEF RemoteTypeOK
  <2> QED BY <2>1, <2>2
<1>3. ASSUME NEW c \in Clients
      PROVE  ~(Alive(c)' /\ ~clients'[c].stop)
  BY <1>1 DEF ClientInv, Alive
<1> QED BY <1>2, <1>3 DEF ClientInv

\* A step that leaves the relay clients alone, and no thread about to stop one.
LEMMA GoesKeepsClientInv ==
  ASSUME RemoteTypeOK, ClientInv, NEW u \in Threads, NEW there, Goes(u, there),
         there = "signal" => relay_client # NoClient, there # "join",
         UNCHANGED <<relay_client, clients>>
  PROVE  ClientInv'
BY DEF RemoteTypeOK, ClientInv, Goes, Alive

\* After a restart there is no client.
LEMMA RestartKeepsClientInv ==
  ASSUME Restart
  PROVE  ClientInv'
BY DEF Restart, ClientInv, Alive, FreshThreads, FreshClients, Fresh

-----------------------------------------------------------------------------
(* Types.                                                                  *)

\* The program starts in a state of the type invariant.
LEMMA InitTypes == Init => RemoteTypeOK /\ StoreInv
<1> SUFFICES ASSUME Init PROVE RemoteTypeOK /\ StoreInv
  OBVIOUS
<1>1. /\ FromDict(registry) \in Config /\ FromDict(file) \in Config
      /\ config \in {FromDict(registry), FromDict(file)}
  BY SettingsAssumption DEF Init, SettingsInit
<1>2. StoreInv
  BY <1>1 DEF StoreInv, SettingsComeBack, Init, SettingsInit, Reloaded
<1>3. active \in Ports \X Routes
  BY <1>1 DEF Init, NetworkSettings, Config
<1>4. pc \in [Threads -> {"new", "idle"}] /\ back \in [Threads -> {"close"}]
  BY DEF Init, FreshThreads, FreshReturns
<1>5. clients \in [Clients -> ClientRecord] /\ plugin \in [RelayUrls -> Clients \cup {NoClient}]
  BY DEF Init, FreshClients, FreshSlots, Fresh, ClientRecord
<1>6. RemoteTypeOK
  BY <1>1, <1>3, <1>4, <1>5 DEF RemoteTypeOK, Init, NoUrls, NoSnapshot
<1> QED BY <1>2, <1>6

\* A listener that binds, and the tunnel made for it, have ports of the
\* configuration.
LEMMA BindsTypes ==
  ASSUME NEW c \in Config, NEW l \in Binds(c)
  PROVE  /\ l \in [family : {"ipv4", "ipv6"}, port : Ports \cup {EphemeralPort}] \cup {NoListener}
         /\ SyncedTunnel(TRUE, c, l) \in Ports \cup {EphemeralPort, NoPort}
         /\ NetworkSettings(c) \in Ports \X Routes
BY DEF Binds, SyncedTunnel, NetworkSettings, Config

\* The tunnel that fits the configuration has a port of it.
LEMMA SyncedTunnelType ==
  ASSUME RemoteTypeOK, NEW c \in Config
  PROVE  SyncedTunnel(requested, c, listener) \in Ports \cup {EphemeralPort, NoPort}
BY DEF RemoteTypeOK, SyncedTunnel

\* The user's commands keep the type invariant.
LEMMA CommandTypes ==
  ASSUME RemoteTypeOK, Start \/ StartFails \/ Stop \/ SaveSettings
  PROVE  RemoteTypeOK'
<1>1. pc' \in [Threads -> Places]
  BY GoesTypes DEF Start, StartFails, Stop, SaveSettings, Places, Threads
<1>2. UNCHANGED <<relay_client, clients, plugin, back, terminating, urls>>
  BY DEF Start, StartFails, Stop, SaveSettings, relayVars, serverVars
<1>3. CASE Start
  <2>1. PICK l \in Binds(config) :
          /\ listener' = l /\ active' = NetworkSettings(config) /\ pending' = FALSE
          /\ tunnel_client' = SyncedTunnel(TRUE, config, l)
    BY <1>3 DEF Start
  <2>2. /\ listener' \in [family : {"ipv4", "ipv6"}, port : Ports \cup {EphemeralPort}] \cup {NoListener}
        /\ tunnel_client' \in Ports \cup {EphemeralPort, NoPort}
        /\ active' \in Ports \X Routes
    BY <2>1, BindsTypes DEF RemoteTypeOK
  <2> QED BY <1>1, <1>2, <1>3, <2>1, <2>2 DEF RemoteTypeOK, Start, Places
<1>4. CASE StartFails
  BY <1>1, <1>2, <1>4, ZenonT(30) DEF RemoteTypeOK, StartFails, Places
<1>5. CASE Stop
  BY <1>1, <1>2, <1>5, ZenonT(30) DEF RemoteTypeOK, Stop, serverVars, Places
<1>6. CASE SaveSettings
  <2>1. PICK payload \in Payloads :
          /\ config' = Merged(config, payload)
          /\ pending' = (IsRunning /\ NetworkSettings(config') # active)
          /\ tunnel_client' = SyncedTunnel(requested, config', listener)
          /\ snapshot' = [running |-> IsRunning, stop |-> IsRunning /\ SettingsChanged(payload)]
    BY <1>6 DEF SaveSettings
  <2>2. config' \in Config
    BY <2>1, MergedIsConfig DEF RemoteTypeOK
  <2>3. tunnel_client' \in Ports \cup {EphemeralPort, NoPort}
    BY <2>1, <2>2, SyncedTunnelType
  <2>4. snapshot' \in [running : BOOLEAN, stop : BOOLEAN] /\ pending' \in BOOLEAN
    BY <2>1 DEF IsRunning, SettingsChanged
  <2>5. UNCHANGED <<active, requested, listener>>
    BY <1>6 DEF SaveSettings
  <2> QED BY <1>1, <1>2, <2>2, <2>3, <2>4, <2>5 DEF RemoteTypeOK, Places
<1> QED BY <1>3, <1>4, <1>5, <1>6

\* The end of a command keeps the type invariant.
LEMMA FinishTypes ==
  ASSUME RemoteTypeOK, Finish
  PROVE  RemoteTypeOK'
<1>1. PICK ready \in BOOLEAN : urls' = RefreshedUrls(ready)
  BY DEF Finish
<1>2. listener # NoListener => listener.port \in Ports \cup {EphemeralPort}
  BY DEF RemoteTypeOK
<1>3. urls' \in [local : Ports \cup {EphemeralPort, NoPort}, ipv6 : Ports \cup {EphemeralPort, NoPort}]
  BY <1>1, <1>2 DEF RefreshedUrls, NoUrls
<1>4. pc' \in [Threads -> Places]
  BY GoesTypes DEF Finish, Places, Threads
<1> QED BY <1>3, <1>4 DEF RemoteTypeOK, Finish, relayVars, NoSnapshot, Places

\* The steps of stopping keep the type invariant.
LEMMA StopStepTypes ==
  ASSUME RemoteTypeOK, ClientInv, NEW t \in Threads, StopStep(t)
  PROVE  RemoteTypeOK'
<1>1. back[t] \in Places
  BY DEF RemoteTypeOK, Places
<1>2. CASE Halt(t)
  <2>1. pc' \in [Threads -> Places]
    BY <1>2, GoesTypes DEF Halt, Places
  <2> QED BY <1>2, <2>1, ZenonT(30) DEF RemoteTypeOK, Halt, relayVars, Places
<1>3. CASE CheckRelay(t)
  <2>1. pc' \in [Threads -> Places]
    BY <1>1, <1>3, GoesTypes DEF CheckRelay, Places
  <2>2. UNCHANGED <<config, serverVars, relayVars, back, snapshot, terminating>>
    BY <1>3 DEF CheckRelay
  <2> QED BY <2>1, <2>2, UnchangedTypes DEF RemoteTypeOK, relayVars
<1>4. CASE SignalRelay(t)
  BY <1>4, SignalRelayKeeps
<1>5. CASE JoinRelay(t)
  <2>1. pc' \in [Threads -> Places]
    BY <1>1, <1>5, GoesTypes DEF JoinRelay
  <2>2. /\ UNCHANGED <<config, serverVars, clients, plugin, back, snapshot, terminating>>
        /\ relay_client' = NoClient
    BY <1>5 DEF JoinRelay
  <2> QED BY <2>1, <2>2, UnchangedTypes DEF RemoteTypeOK
<1>6. CASE Close(t)
  <2>1. pc' \in [Threads -> Places]
    BY <1>6, GoesTypes DEF Close, Places
  <2> QED BY <1>6, <2>1 DEF RemoteTypeOK, Close, relayVars, NoUrls, Places
<1> QED BY <1>2, <1>3, <1>4, <1>5, <1>6 DEF StopStep

\* A restart reads the stores, so that it finds a configuration.
LEMMA RestartTypes ==
  ASSUME StoreInv, Restart
  PROVE  RemoteTypeOK' /\ StoreInv'
<1>1. StoreInv' /\ config' \in Config
  BY LoadKeepsStoreInv DEF Restart
<1>2. active' \in Ports \X Routes
  BY <1>1 DEF Restart, NetworkSettings, Config
<1>3. clients' \in [Clients -> ClientRecord] /\ plugin' \in [RelayUrls -> Clients \cup {NoClient}]
  BY DEF Restart, FreshClients, FreshSlots, Fresh, ClientRecord
<1>4. pc' \in [Threads -> {"new", "idle"}] /\ back' \in [Threads -> {"close"}]
  BY DEF Restart, FreshThreads, FreshReturns
<1> QED BY <1>1, <1>2, <1>3, <1>4 DEF RemoteTypeOK, Restart, NoUrls, NoSnapshot
\* A termination keeps the type invariant.
LEMMA NotifyTypes ==
  ASSUME RemoteTypeOK, NEW t \in Threads, Notify(t)
  PROVE  RemoteTypeOK'
<1>1. pc' \in [Threads -> Places]
  BY GoesTypes DEF Notify, Places
<1>2. terminating' \in BOOLEAN /\ UNCHANGED <<config, serverVars, relayVars, back, snapshot>>
  BY DEF Notify
<1> QED BY <1>1, <1>2, UnchangedTypes DEF RemoteTypeOK, relayVars

\* _sync_relay_client: a new client only when there is none.
LEMMA SyncRelayKeeps ==
  ASSUME RemoteTypeOK, ClientInv, SupplyInv, SyncRelay
  PROVE  RemoteTypeOK' /\ ClientInv'
<1>1. Office \in Threads /\ pc[Office] \in {"sync start", "sync save"}
  BY DEF Threads, SyncRelay
<1>2. Finishing(pc[Office]) \in {"finish start", "finish save"}
  BY DEF Finishing
<1>3. pc' \in [Threads -> Places] /\ UNCHANGED <<config, serverVars, snapshot, terminating>>
  BY <1>1, <1>2, GoesTypes DEF SyncRelay, Places
<1>4. CASE UNCHANGED <<relayVars, back>>
  <2>1. RemoteTypeOK'
    BY <1>3, <1>4, UnchangedTypes DEF RemoteTypeOK, relayVars
  <2>2. \/ Goes(Office, "check") \/ Goes(Office, "finish start") \/ Goes(Office, "finish save")
    BY <1>2 DEF SyncRelay
  <2>3. ClientInv'
    BY <1>1, <1>4, <2>2, GoesKeepsClientInv DEF relayVars
  <2> QED BY <2>1, <2>3
<1>5. CASE relay_client # NoClient /\ Goes(Office, "check") /\ UNCHANGED relayVars
           /\ back' = [back EXCEPT ![Office] = pc[Office]]
  <2>1. ClientInv'
    BY <1>1, <1>5, GoesKeepsClientInv DEF relayVars
  <2>2. back' \in [Threads -> {"sync start", "sync save", "close"}]
    BY <1>1, <1>5 DEF RemoteTypeOK
  <2>3. RemoteTypeOK'
    BY <1>3, <1>5, <2>2, UnchangedTypes DEF RemoteTypeOK, relayVars
  <2> QED BY <2>1, <2>3
<1>6. CASE relay_client = NoClient /\ RelayWanted /\ NewClient /\ Goes(Office, Finishing(pc[Office]))
           /\ UNCHANGED back
  <2>1. Unused # {} /\ plugin' = plugin
    BY <1>1, <1>6 DEF SupplyInv, Synchronising, NewClient
  <2>2. ASSUME NEW t \in Threads
        PROVE  pc'[t] \notin {"signal", "join"}
    <3>1. pc[t] \notin {"signal", "join"}
      BY <1>6 DEF ClientInv
    <3> QED BY <1>2, <1>6, <3>1 DEF Goes, RemoteTypeOK
  <2>3. clients' \in [Clients -> ClientRecord] /\ relay_client' \in Clients /\ ClientInv'
    BY <1>6, <2>1, <2>2, NewClientKeeps
  <2>4. RemoteTypeOK'
    BY <1>3, <1>6, <2>1, <2>3, UnchangedTypes DEF RemoteTypeOK
  <2> QED BY <2>3, <2>4
<1> QED BY <1>4, <1>5, <1>6 DEF SyncRelay

-----------------------------------------------------------------------------
(* Every step keeps every part.                                            *)

\* Steps of the network and of the relay clients' threads.
Outside ==
  \/ \E c \in Clients : ClientStep(c)
  \/ \E u \in RelayUrls : Drop(u) /\ NotOfClients

UserCommand == Start \/ StartFails \/ Stop \/ SaveSettings

\* The steps there are, grouped as the lemmas treat them.
LEMMA NextCases ==
  ASSUME [Next]_vars
  PROVE  \/ UserCommand \/ SyncRelay \/ Finish \/ Restart \/ Outside \/ UNCHANGED vars
         \/ \E t \in Threads : StopStep(t) \/ Notify(t)
BY DEF Next, Outside, UserCommand

\* What the relay, the network and the clients' threads do changes no
\* decision of the controller.
LEMMA OutsideKeeps ==
  ASSUME RemoteTypeOK, ClientInv, Outside
  PROVE  /\ RemoteTypeOK' /\ ClientInv' /\ Unused' = Unused
         /\ \A d \in Clients : clients'[d].stop = clients[d].stop /\ clients'[d].url = clients[d].url
         /\ \A d \in Clients : ~clients[d].stop => (Alive(d)' <=> Alive(d))
         /\ UNCHANGED <<config, serverVars, relay_client, threadVars>>
<1>1. UNCHANGED <<config, serverVars, relay_client, pc, back, snapshot, terminating>>
  BY DEF Outside, ClientStep, NotOfClients, threadVars
<1>2. /\ clients' \in [Clients -> ClientRecord]
      /\ plugin' \in [RelayUrls -> Clients \cup {NoClient}]
      /\ \A d \in Clients : clients'[d].stop = clients[d].stop /\ clients'[d].url = clients[d].url
      /\ \A d \in Clients : ~clients[d].stop => (Alive(d)' <=> Alive(d))
      /\ Unused' = Unused
  <2>1. CASE \E c \in Clients : ClientStep(c)
    BY <2>1, ClientTurnKeeps DEF ClientStep
  <2>2. CASE \E u \in RelayUrls : Drop(u)
    BY <2>2, ZenonT(30) DEF Drop, RemoteTypeOK, Alive, Unused
  <2> QED BY <2>1, <2>2 DEF Outside
<1>3. RemoteTypeOK'
  BY <1>1, <1>2, UnchangedTypes DEF RemoteTypeOK, Places
<1>4. ClientInv'
  <2>1. \A t \in Threads :
          /\ pc'[t] \in {"signal", "join"} => relay_client' # NoClient
          /\ pc'[t] = "join" => clients'[relay_client'].stop
    BY <1>1, <1>2 DEF ClientInv, RemoteTypeOK
  <2>2. \A c \in Clients : Alive(c)' /\ ~clients'[c].stop => c = relay_client'
    BY <1>1, <1>2 DEF ClientInv
  <2> QED BY <2>1, <2>2 DEF ClientInv
<1> QED BY <1>1, <1>2, <1>3, <1>4 DEF threadVars

\* Every step keeps the type invariant and what the stores hold.
LEMMA StepKeepsTypes ==
  ASSUME RemoteTypeOK, StoreInv, ClientInv, SupplyInv, [Next]_vars
  PROVE  RemoteTypeOK' /\ StoreInv'
<1>1. CASE UserCommand
  <2>1. RemoteTypeOK'
    BY <1>1, CommandTypes DEF UserCommand
  <2>2. CASE SaveSettings
    <3>1. PICK payload \in Payloads :
            Save(Merged(config, payload)) /\ config' = Merged(config, payload)
      BY <2>2 DEF SaveSettings
    <3> QED BY <2>1, <3>1, MergedIsConfig, SaveKeepsStoreInv DEF RemoteTypeOK
  <2>3. CASE Start \/ StartFails \/ Stop
    BY <2>1, <2>3, OthersKeepStoreInv DEF Start, StartFails, Stop
  <2> QED BY <1>1, <2>2, <2>3 DEF UserCommand
<1>2. CASE SyncRelay
  BY <1>2, SyncRelayKeeps, OthersKeepStoreInv DEF SyncRelay
<1>3. CASE Finish
  BY <1>3, FinishTypes, OthersKeepStoreInv DEF Finish
<1>4. CASE Restart
  BY <1>4, RestartTypes
<1>5. CASE Outside
  BY <1>5, OutsideKeeps, OthersKeepStoreInv DEF Outside, ClientStep, NotOfClients
<1>6. CASE UNCHANGED vars
  <2>1. UNCHANGED <<config, serverVars, relayVars, threadVars>> /\ UNCHANGED <<registry, file, config>>
    BY <1>6 DEF vars
  <2> QED BY <2>1, UnchangedTypes, OthersKeepStoreInv DEF RemoteTypeOK, relayVars, threadVars, Places
<1>7. ASSUME NEW t \in Threads, StopStep(t)
      PROVE  RemoteTypeOK' /\ StoreInv'
  BY <1>7, StopStepTypes, OthersKeepStoreInv
     DEF StopStep, Halt, CheckRelay, SignalRelay, JoinRelay, Close
<1>8. ASSUME NEW t \in Threads, Notify(t)
      PROVE  RemoteTypeOK' /\ StoreInv'
  BY <1>8, NotifyTypes, OthersKeepStoreInv DEF Notify
<1> QED BY <1>1, <1>2, <1>3, <1>4, <1>5, <1>6, <1>7, <1>8, NextCases

\* Every step keeps what is known of the relay clients.
LEMMA StepKeepsClientInv ==
  ASSUME RemoteTypeOK, ExclusiveInv, ClientInv, SupplyInv, [Next]_vars
  PROVE  ClientInv'
<1> USE DEF Threads
<1>1. CASE UserCommand
  <2>1. UNCHANGED <<relay_client, clients>>
    BY <1>1 DEF UserCommand, Start, StartFails, Stop, SaveSettings, relayVars
  <2>2. Goes(Office, "sync start") \/ Goes(Office, "sync save") \/ Goes(Office, "stop")
    BY <1>1 DEF UserCommand, Start, StartFails, Stop, SaveSettings
  <2> QED BY <2>1, <2>2, GoesKeepsClientInv
<1>2. CASE SyncRelay
  BY <1>2, SyncRelayKeeps
<1>3. CASE Finish
  BY <1>3, GoesKeepsClientInv DEF Finish, relayVars
<1>4. CASE Restart
  BY <1>4, RestartKeepsClientInv
<1>5. CASE Outside
  BY <1>5, OutsideKeeps
<1>6. CASE UNCHANGED vars
  BY <1>6 DEF vars, relayVars, threadVars, ClientInv, Alive
<1>7. ASSUME NEW t \in Threads, StopStep(t)
      PROVE  ClientInv'
  <2>1. back[t] \notin {"signal", "join"}
    BY DEF RemoteTypeOK
  <2>2. CASE Halt(t) \/ CheckRelay(t) \/ Close(t)
    BY <2>1, <2>2, GoesKeepsClientInv DEF Halt, CheckRelay, Close, relayVars
  <2>3. CASE SignalRelay(t)
    BY <2>3, SignalRelayKeeps
  <2>4. CASE JoinRelay(t)
    BY <2>4, JoinRelayKeeps
  <2> QED BY <1>7, <2>2, <2>3, <2>4 DEF StopStep
<1>8. ASSUME NEW t \in Threads, Notify(t)
      PROVE  ClientInv'
  BY <1>8, GoesKeepsClientInv DEF Notify, relayVars
<1> QED BY <1>1, <1>2, <1>3, <1>4, <1>5, <1>6, <1>7, <1>8, NextCases

\* Every step keeps a client in reserve wherever one may still be started.
LEMMA StepKeepsSupplyInv ==
  ASSUME RemoteTypeOK, ExclusiveInv, ClientInv, SupplyInv, [Next]_vars
  PROVE  SupplyInv'
<1> USE DEF SupplyInv, Synchronising
<1>1. Office \in Threads /\ pc \in [Threads -> Places] /\ DOMAIN back = Threads
  BY DEF Threads, RemoteTypeOK, Places
<1>2. CASE UserCommand
  <2>1. Unused' = Unused
    BY <1>2 DEF UserCommand, Start, StartFails, Stop, SaveSettings, relayVars, Unused
  <2>2. CASE Start \/ SaveSettings
    BY <2>1, <2>2 DEF Start, SaveSettings
  <2>3. CASE StartFails \/ Stop
    BY <1>1, <2>3 DEF StartFails, Stop, Goes
  <2> QED BY <1>2, <2>2, <2>3 DEF UserCommand
<1>3. CASE SyncRelay
  <2>1. CASE Goes(Office, Finishing(pc[Office]))
    BY <1>1, <2>1 DEF Goes, Finishing
  <2>2. CASE UNCHANGED relayVars
    BY <1>3, <2>2 DEF SyncRelay, relayVars, Unused
  <2> QED BY <1>3, <2>1, <2>2 DEF SyncRelay
<1>4. CASE Finish
  BY <1>1, <1>4 DEF Finish, Goes
<1>5. CASE Restart
  BY <1>5 DEF Restart, FreshThreads, Threads
<1>6. CASE Outside
  <2>1. UNCHANGED <<pc, back>>
    BY <1>6 DEF Outside, ClientStep, NotOfClients, threadVars
  <2> QED BY <1>6, <2>1, OutsideKeeps
<1>7. CASE UNCHANGED vars
  BY <1>7 DEF vars, relayVars, threadVars, Unused
<1>8. ASSUME NEW t \in Threads, StopStep(t)
      PROVE  SupplyInv'
  <2>1. Unused' = Unused
    <3>1. CASE SignalRelay(t)
      <4>1. relay_client \in Clients /\ relay_client # NoClient
        BY <3>1 DEF SignalRelay, ClientInv, RemoteTypeOK
      <4>2. clients' = [clients EXCEPT ![relay_client].stop = TRUE]
        BY <3>1, <4>1 DEF SignalRelay, Signal
      <4>3. clients \in [Clients -> ClientRecord]
        BY DEF RemoteTypeOK
      <4>4. \A d \in Clients : clients'[d].at = clients[d].at
        BY <4>1, <4>2, <4>3 DEF ClientRecord
      <4> QED BY <4>4 DEF Unused
    <3> QED BY <1>8, <3>1 DEF StopStep, Halt, CheckRelay, JoinRelay, Close, relayVars, Unused
  <2>2. CASE t # Office
    <3>1. pc'[Office] = pc[Office] /\ back'[Office] = back[Office]
      BY <1>1, <1>8, <2>2 DEF StopStep, Halt, CheckRelay, SignalRelay, JoinRelay, Close, Goes
    <3> QED BY <2>1, <3>1
  <2>3. CASE t = Office
    BY <1>1, <1>8, <2>1, <2>3
       DEF StopStep, Halt, CheckRelay, SignalRelay, JoinRelay, Close, Goes, RemoteTypeOK
  <2> QED BY <2>2, <2>3
<1>9. ASSUME NEW t \in Threads, Notify(t)
      PROVE  SupplyInv'
  BY <1>1, <1>9, RemoteAssumption DEF Notify, Goes
<1> QED BY <1>2, <1>3, <1>4, <1>5, <1>6, <1>7, <1>8, <1>9, NextCases

\* The office's thread in the middle of a command: nobody stops the remote.
LEMMA NobodyStops ==
  ASSUME RemoteTypeOK, ExclusiveInv, WantedInv,
         ~terminating \/ pc[Office] # "idle",
         pc[Office] \notin {"check", "signal", "join", "close"}
  PROVE  ~requested =>
           tunnel_client = NoPort /\ relay_client = NoClient /\ listener = NoListener
BY DEF ExclusiveInv, WantedInv, Threads

\* Every step keeps transports only where the server was asked for, or is
\* being stopped.
LEMMA StepKeepsWantedInv ==
  ASSUME RemoteTypeOK, ExclusiveInv, ClientInv, WantedInv, [Next]_vars
  PROVE  WantedInv'
<1>1. Office \in Threads /\ pc \in [Threads -> Places] /\ DOMAIN back = Threads
  BY DEF Threads, RemoteTypeOK, Places
<1>2. CASE UserCommand
  <2>1. CASE Start \/ StartFails
    BY <2>1 DEF Start, StartFails, WantedInv
  <2>2. CASE Stop \/ SaveSettings
    <3>1. ~requested =>
            tunnel_client = NoPort /\ relay_client = NoClient /\ listener = NoListener
      BY <2>2, NobodyStops DEF Stop, SaveSettings, Command
    <3>2. UNCHANGED <<requested, relay_client, listener>>
      BY <2>2 DEF Stop, SaveSettings, serverVars, relayVars
    <3>3. ~requested => tunnel_client' = NoPort
      BY <2>2, <3>1 DEF Stop, SaveSettings, serverVars, SyncedTunnel
    <3> QED BY <3>1, <3>2, <3>3 DEF WantedInv
  <2> QED BY <1>2, <2>1, <2>2 DEF UserCommand
<1>3. CASE SyncRelay
  <2>1. ~requested => relay_client = NoClient /\ tunnel_client = NoPort /\ listener = NoListener
    BY <1>3, NobodyStops DEF SyncRelay
  <2>2. ~requested => UNCHANGED relay_client
    BY <1>3, <2>1 DEF SyncRelay, RelayWanted, relayVars
  <2> QED BY <1>3, <2>1, <2>2 DEF SyncRelay, serverVars, WantedInv
<1>4. CASE Finish
  <2>1. ~requested => relay_client = NoClient /\ tunnel_client = NoPort /\ listener = NoListener
    BY <1>4, NobodyStops DEF Finish
  <2> QED BY <1>4, <2>1 DEF Finish, relayVars, WantedInv
<1>5. CASE Restart
  BY <1>5 DEF Restart, WantedInv
<1>6. CASE Outside \/ UNCHANGED vars
  <2>1. UNCHANGED <<serverVars, relay_client, threadVars>>
    BY <1>6 DEF Outside, ClientStep, NotOfClients, vars, relayVars
  <2> QED BY <2>1 DEF serverVars, threadVars, WantedInv
<1>7. ASSUME NEW t \in Threads, StopStep(t)
      PROVE  WantedInv'
  <2>1. CASE Halt(t)
    BY <1>1, <2>1 DEF Halt, Goes, WantedInv, relayVars
  <2>2. ASSUME ~requested, ~Halt(t)
        PROVE  WantedInv'
    <3>1. \A s \in Threads : pc[s] \in {"check", "signal", "join", "close"} => s = t
      BY <1>7, <2>2, OneAtATime DEF StopStep, CheckRelay, SignalRelay, JoinRelay, Close
    <3>2. CASE CheckRelay(t)
      BY <1>1, <2>2, <3>1, <3>2 DEF CheckRelay, Goes, WantedInv, serverVars, relayVars
    <3>3. CASE SignalRelay(t)
      <4>1. pc[t] = "signal" /\ pc' = [pc EXCEPT ![t] = "join"]
            /\ UNCHANGED <<serverVars, relay_client, back>>
        BY <3>3 DEF SignalRelay, ClientInv, Goes
      <4>2. UNCHANGED <<requested, listener, tunnel_client>>
        BY <4>1 DEF serverVars
      <4>3. pc'[t] = "join" /\ back'[t] = back[t]
        BY <1>1, <4>1
      <4> QED BY <2>2, <3>1, <4>1, <4>2, <4>3 DEF WantedInv
    <3>4. CASE JoinRelay(t)
      BY <1>1, <2>2, <3>1, <3>4 DEF JoinRelay, Goes, WantedInv, serverVars
    <3>5. CASE Close(t)
      BY <1>1, <2>2, <3>1, <3>5 DEF Close, Goes, WantedInv, relayVars
    <3> QED BY <1>7, <2>2, <3>2, <3>3, <3>4, <3>5 DEF StopStep
  <2>3. CASE requested /\ ~Halt(t)
    BY <1>7, <2>3 DEF StopStep, CheckRelay, SignalRelay, JoinRelay, Close, serverVars, WantedInv
  <2> QED BY <2>1, <2>2, <2>3
<1>8. ASSUME NEW t \in Threads, Notify(t)
      PROVE  WantedInv'
  <2>1. ~requested => relay_client = NoClient /\ tunnel_client = NoPort /\ listener = NoListener
    BY <1>8, NobodyStops DEF Notify
  <2> QED BY <1>8, <2>1 DEF Notify, serverVars, relayVars, WantedInv
<1> QED BY <1>2, <1>3, <1>4, <1>5, <1>6, <1>7, <1>8, NextCases

\* The program starts in a state of the strengthened invariant.
LEMMA InitInvariant == Init => IInv
<1> SUFFICES ASSUME Init PROVE IInv
  OBVIOUS
<1>1. RemoteTypeOK /\ StoreInv
  BY InitTypes
<1>2. \A t \in Threads : pc[t] = IF t = Office THEN "idle" ELSE "new"
  BY DEF Init, FreshThreads
<1>3. ExclusiveInv
  BY <1>2, RemoteAssumption DEF Init, ExclusiveInv, Threads
<1>4. ClientInv
  BY <1>2 DEF Init, ClientInv, Alive, FreshClients, Fresh
<1>5. SupplyInv
  BY <1>2 DEF SupplyInv, Synchronising, Threads
<1>6. WantedInv
  BY DEF Init, WantedInv
<1> QED BY <1>1, <1>3, <1>4, <1>5, <1>6 DEF IInv

\* Every step keeps the strengthened invariant.
LEMMA Inductive == IInv /\ [Next]_vars => IInv'
BY StepKeepsTypes, StepKeepsExclusiveInv, StepKeepsClientInv, StepKeepsSupplyInv, StepKeepsWantedInv
   DEF IInv

\* The strengthened invariant holds of every behaviour.
LEMMA Invariance == RemoteSpec => []IInv
<1>1. Init /\ [][Next]_vars => []IInv
  BY InitInvariant, Inductive, PTL
<1> QED BY <1>1, PTL DEF RemoteSpec

-----------------------------------------------------------------------------
\* Every variable has its type; above all, the thread that stops the relay
\* client finds it still there (local_server.py, 1113-1116).
THEOREM TypeCorrect == RemoteSpec => []RemoteTypeOK
<1>1. IInv => RemoteTypeOK
  BY DEF IInv
<1> QED BY <1>1, Invariance, PTL

\* The settings in force come back with a restart, but for the two cases the
\* property names (config.py, 357-370 and 412-428).
THEOREM SettingsSurvive == RemoteSpec => []SettingsComeBack
<1>1. IInv => SettingsComeBack
  BY DEF IInv, StoreInv
<1> QED BY <1>1, Invariance, PTL

\* Threads of former relay clients have been told to stop, and a remote that
\* is not wanted has no transport left when no thread is at work
\* (local_server.py, 443-463 and 1082-1116).
THEOREM TransportsHaveOwners == RemoteSpec => []TransportsAreOwned
<1>1. ASSUME IInv
      PROVE  TransportsAreOwned
  <2>1. \A c \in Clients : Alive(c) /\ ~clients[c].stop => c = relay_client
    BY <1>1 DEF IInv, ClientInv
  <2>2. ASSUME Idle, ~requested
        PROVE  ~IsRunning
    <3>1. \A t \in Threads : pc[t] \notin {"check", "signal", "join", "close"}
      BY <2>2 DEF Idle, Threads
    <3> QED BY <1>1, <2>2, <3>1 DEF IInv, WantedInv, IsRunning
  <2> QED BY <2>1, <2>2 DEF TransportsAreOwned
<1> QED BY <1>1, Invariance, PTL

-----------------------------------------------------------------------------
(* The URLs on offer, and saving settings.  Both need to know what a remote *)
(* has between any two steps of a command, which SteadyInv says.            *)

\* The remote is what its settings say.
Agrees ==
  /\ active = NetworkSettings(config) /\ ~pending
  /\ listener \in Binds(config)
  /\ tunnel_client = SyncedTunnel(TRUE, config, listener)

RelayAgrees ==
  IF RelayWanted
    THEN relay_client # NoClient /\ clients[relay_client].url = config.relayUrl
    ELSE relay_client = NoClient

UrlsAgree ==
  /\ urls.local # NoPort => listener = [family |-> "ipv4", port |-> urls.local]
  /\ urls.ipv6 # NoPort => listener = [family |-> "ipv6", port |-> urls.ipv6]

\* Its transports have been synchronised and are not about to be stopped.
Settled ==
  /\ requested
  /\ \/ pc[Office] \in {"idle", "finish start"}
     \/ pc[Office] \in {"sync save", "finish save"} /\ ~snapshot.stop

Unhooking == pc[Office] \in {"check", "signal", "join"} /\ back[Office] # "close"

SteadyInv ==
  /\ requested => pc[Office] = "stop" \/ snapshot.stop \/ Agrees
  /\ Settled => RelayAgrees
  /\ Settled /\ pc[Office] # "finish start" => IsRunning
  /\ requested /\ pc[Office] = "idle" => UrlsAgree
  /\ pc[Office] = "sync start" => relay_client = NoClient

\* What the locals of _save_settings say while it is at work.
SavingInv ==
  /\ snapshot.stop => pc[Office] \in {"sync save", "finish save"} \/ Unhooking
  /\ requested /\ pc[Office] \in {"sync save", "finish save"} => snapshot.running
  /\ Unhooking => back[Office] = "sync save" /\ (requested => snapshot.stop /\ snapshot.running)

\* Who stops a remote has marked it as not wanted first.
StoppingInv ==
  /\ \A t \in Threads :
       /\ pc[t] = "close" => ~requested
       /\ pc[t] \in {"check", "signal", "join"} /\ requested => t = Office /\ Unhooking
  /\ relay_client # NoClient /\ clients[relay_client].stop => \E t \in Threads : pc[t] = "join"

SInv == SteadyInv /\ SavingInv /\ StoppingInv

\* The program starts at rest, with nothing running.
LEMMA InitSteady == Init => SInv
<1> SUFFICES ASSUME Init PROVE SInv
  OBVIOUS
<1>1. /\ \A t \in Threads : pc[t] = IF t = Office THEN "idle" ELSE "new"
      /\ Office \in Threads
  BY DEF Init, FreshThreads, Threads
<1>2. ~requested /\ ~snapshot.stop /\ relay_client = NoClient
  BY DEF Init, NoSnapshot
<1> QED BY <1>1, <1>2 DEF SInv, SteadyInv, SavingInv, StoppingInv, Settled, Unhooking

-----------------------------------------------------------------------------
\* A payload that changes no setting is merged to the configuration there is.
LEMMA SettingsUnchanged ==
  ASSUME config \in Config, NEW payload \in Payloads, ~SettingsChanged(payload)
  PROVE  Merged(config, payload) = config
<1>1. [k \in DOMAIN config |-> IF k \in DOMAIN payload THEN payload[k] ELSE config[k]] = config
  BY DEF SettingsChanged, Config
<1> QED BY <1>1, FromDictKeeps DEF Merged

\* Between two commands of the user.
LEMMA Resting ==
  ASSUME IInv, SInv, Command
  PROVE  /\ \A t \in Threads : pc[t] = IF t = Office THEN "idle" ELSE "new"
         /\ ~snapshot.stop
         /\ relay_client # NoClient => ~clients[relay_client].stop
         /\ requested => Agrees /\ RelayAgrees /\ UrlsAgree /\ IsRunning
         /\ ~requested => relay_client = NoClient /\ ~IsRunning
<1>1. \A t \in Threads : pc[t] = IF t = Office THEN "idle" ELSE "new"
  BY DEF IInv, ExclusiveInv, Command, Threads
<1>2. pc[Office] = "idle"
  BY DEF Command
<1>3. ~snapshot.stop /\ (relay_client # NoClient => ~clients[relay_client].stop)
  BY <1>1, <1>2 DEF SInv, SavingInv, StoppingInv, Unhooking
<1>4. requested => Agrees /\ RelayAgrees /\ UrlsAgree /\ IsRunning
  BY <1>2, <1>3 DEF SInv, SteadyInv, Settled
<1>5. ~requested => relay_client = NoClient /\ ~IsRunning
  BY <1>2, NobodyStops DEF IInv, IsRunning, Command
<1> QED BY <1>1, <1>3, <1>4, <1>5

\* Starting leaves a server that agrees with its configuration, or none.
LEMMA StartKeeps ==
  ASSUME IInv, SInv, Start \/ StartFails
  PROVE  SInv'
<1>1. /\ \A t \in Threads : pc[t] = IF t = Office THEN "idle" ELSE "new"
      /\ ~snapshot.stop /\ relay_client = NoClient
  BY Resting DEF Start, StartFails
<1>2. /\ \A t \in Threads : pc'[t] \in {"new", "sync start", "stop"}
      /\ pc'[Office] = IF Start THEN "sync start" ELSE "stop"
  BY <1>1 DEF Start, StartFails, Goes, IInv, RemoteTypeOK, Threads
<1>3. UNCHANGED <<config, snapshot, relay_client, back>>
  BY DEF Start, StartFails, relayVars
<1>4. Start => Agrees'
  BY DEF Start, Agrees
<1>5. Office \in Threads
  BY DEF Threads
<1>6. SteadyInv'
  BY <1>1, <1>2, <1>3, <1>4 DEF SteadyInv, Settled, Start
<1>7. SavingInv'
  BY <1>1, <1>2, <1>3 DEF SavingInv, Unhooking
<1>8. StoppingInv'
  BY <1>1, <1>2, <1>3 DEF StoppingInv
<1> QED BY <1>6, <1>7, <1>8 DEF SInv

\* Asking for a stop keeps what is known while it goes on.
LEMMA StopKeeps ==
  ASSUME IInv, SInv, Stop
  PROVE  SInv'
<1>1. /\ \A t \in Threads : pc[t] = IF t = Office THEN "idle" ELSE "new"
      /\ ~snapshot.stop
      /\ relay_client # NoClient => ~clients[relay_client].stop
  BY Resting DEF Stop
<1>2. /\ \A t \in Threads : pc'[t] \in {"new", "stop"}
      /\ pc'[Office] = "stop"
  BY <1>1 DEF Stop, Goes, IInv, RemoteTypeOK, Threads
<1>3. UNCHANGED <<snapshot, relay_client, clients>>
  BY DEF Stop, relayVars
<1> QED BY <1>1, <1>2, <1>3 DEF SInv, SteadyInv, SavingInv, StoppingInv, Settled, Unhooking

\* Saving settings leaves the transports in agreement, or a thread on its way
\* to that.
LEMMA SaveKeeps ==
  ASSUME IInv, SInv, SaveSettings
  PROVE  SInv'
<1>1. /\ \A t \in Threads : pc[t] = IF t = Office THEN "idle" ELSE "new"
      /\ relay_client # NoClient => ~clients[relay_client].stop
      /\ requested => Agrees /\ RelayAgrees /\ IsRunning
      /\ ~requested => ~IsRunning
  BY Resting DEF SaveSettings
<1>2. /\ \A t \in Threads : pc'[t] \in {"new", "sync save"}
      /\ pc'[Office] = "sync save"
  BY <1>1 DEF SaveSettings, Goes, IInv, RemoteTypeOK, Threads
<1>3. UNCHANGED <<active, requested, listener, relay_client, clients>>
  BY DEF SaveSettings, relayVars
<1>4. PICK payload \in Payloads :
        /\ config' = Merged(config, payload)
        /\ pending' = (IsRunning /\ NetworkSettings(config') # active)
        /\ tunnel_client' = SyncedTunnel(requested, config', listener)
        /\ snapshot' = [running |-> IsRunning, stop |-> IsRunning /\ SettingsChanged(payload)]
  BY DEF SaveSettings
<1>5. ASSUME requested, ~SettingsChanged(payload)
      PROVE  Agrees' /\ RelayAgrees' /\ IsRunning'
  <2>1. config' = config
    BY <1>4, <1>5, SettingsUnchanged DEF IInv, RemoteTypeOK
  <2>2. Agrees'
    BY <1>1, <1>3, <1>4, <1>5, <2>1 DEF Agrees, SyncedTunnel
  <2>3. tunnel_client' = tunnel_client
    BY <1>1, <1>4, <1>5, <2>1 DEF Agrees
  <2> QED BY <1>1, <1>3, <1>5, <2>1, <2>2, <2>3 DEF RelayAgrees, RelayWanted, IsRunning, Alive
<1>6. SteadyInv'
  <2>1. requested' => snapshot'.stop \/ (Agrees' /\ RelayAgrees' /\ IsRunning')
    BY <1>1, <1>3, <1>4, <1>5
  <2> QED BY <1>2, <2>1 DEF SteadyInv, Settled
<1>7. SavingInv'
  BY <1>1, <1>2, <1>3, <1>4 DEF SavingInv, Unhooking
<1>8. StoppingInv'
  BY <1>1, <1>2, <1>3 DEF StoppingInv
<1> QED BY <1>6, <1>7, <1>8 DEF SInv

-----------------------------------------------------------------------------
\* What happens outside the controller changes nothing that it offers.
LEMMA OutsideKeepsSteady ==
  ASSUME IInv, SInv, Outside \/ UNCHANGED vars
  PROVE  SInv'
<1>1. /\ \A d \in Clients : clients'[d].stop = clients[d].stop /\ clients'[d].url = clients[d].url
      /\ \A d \in Clients : ~clients[d].stop => (Alive(d)' <=> Alive(d))
      /\ UNCHANGED <<config, serverVars, relay_client, threadVars>>
  <2>1. CASE Outside
    BY <2>1, OutsideKeeps DEF IInv
  <2>2. CASE UNCHANGED vars
    BY <2>2 DEF vars, relayVars, Alive
  <2> QED BY <2>1, <2>2
<1>2. /\ UNCHANGED <<config, active, requested, pending, listener, urls, tunnel_client>>
      /\ UNCHANGED <<relay_client, pc, back, snapshot>>
  BY <1>1 DEF serverVars, threadVars
<1>3. relay_client \in Clients \cup {NoClient}
  BY DEF IInv, RemoteTypeOK
<1>4. IsRunning' <=> IsRunning
  BY <1>1, <1>2, <1>3 DEF IsRunning
<1>5. (RelayAgrees' <=> RelayAgrees) /\ (Agrees' <=> Agrees) /\ (UrlsAgree' <=> UrlsAgree)
  BY <1>1, <1>2, <1>3 DEF RelayAgrees, RelayWanted, Agrees, UrlsAgree
<1>6. SteadyInv'
  BY <1>2, <1>4, <1>5 DEF SInv, SteadyInv, Settled
<1>7. SavingInv'
  BY <1>2 DEF SInv, SavingInv, Unhooking
<1>8. StoppingInv'
  BY <1>1, <1>2, <1>3 DEF SInv, StoppingInv, Unhooking
<1> QED BY <1>6, <1>7, <1>8 DEF SInv

\* After a restart nothing runs and nothing is offered.
LEMMA RestartKeepsSteady ==
  ASSUME Restart
  PROVE  SInv'
<1>1. /\ \A t \in Threads : pc'[t] = IF t = Office THEN "idle" ELSE "new"
      /\ Office \in Threads
  BY DEF Restart, FreshThreads, Threads
<1>2. ~requested' /\ ~snapshot'.stop /\ relay_client' = NoClient
  BY DEF Restart, NoSnapshot
<1> QED BY <1>1, <1>2 DEF SInv, SteadyInv, SavingInv, StoppingInv, Settled, Unhooking

\* A termination hands the stop to its thread.
LEMMA NotifyKeepsSteady ==
  ASSUME IInv, SInv, NEW t \in Threads, Notify(t)
  PROVE  SInv'
<1>1. /\ t # Office /\ pc' = [pc EXCEPT ![t] = "stop"]
      /\ pc \in [Threads -> Places] /\ Office \in Threads
  BY RemoteAssumption DEF Notify, Goes, IInv, RemoteTypeOK, Places, Threads
<1>2. /\ UNCHANGED <<config, active, requested, pending, listener, urls, tunnel_client>>
      /\ UNCHANGED <<relay_client, clients, back, snapshot>>
  BY DEF Notify, serverVars, relayVars
<1>3. pc'[Office] = pc[Office] /\ pc[t] = "new"
  BY <1>1 DEF Notify
<1>4. SteadyInv'
  <2>1. (IsRunning' <=> IsRunning) /\ (RelayAgrees' <=> RelayAgrees)
    BY <1>2 DEF IsRunning, Alive, RelayAgrees, RelayWanted
  <2>2. (Agrees' <=> Agrees) /\ (UrlsAgree' <=> UrlsAgree)
    BY <1>2 DEF Agrees, UrlsAgree
  <2> QED BY <1>2, <1>3, <2>1, <2>2 DEF SInv, SteadyInv, Settled
<1>5. SavingInv'
  BY <1>2, <1>3 DEF SInv, SavingInv, Unhooking
<1>6. StoppingInv'
  BY <1>1, <1>2, <1>3 DEF SInv, StoppingInv, Unhooking
<1> QED BY <1>4, <1>5, <1>6 DEF SInv

\* A command ends in a state of rest.
LEMMA FinishKeepsSteady ==
  ASSUME IInv, SInv, Finish
  PROVE  SInv'
<1>1. /\ UNCHANGED <<config, active, requested, pending, listener, tunnel_client>>
      /\ UNCHANGED <<relay_client, clients, back>> /\ snapshot' = NoSnapshot
  BY DEF Finish, relayVars
<1>2. /\ pc \in [Threads -> Places] /\ Office \in Threads
      /\ \A t \in Threads : t # Office => pc'[t] = pc[t]
  BY DEF Finish, Goes, IInv, RemoteTypeOK, Places, Threads
<1>3. pc'[Office] \in {"stop", "idle"} /\ pc[Office] \in {"finish start", "finish save"}
  BY <1>2 DEF Finish, Goes
<1>4. pc'[Office] = "idle" /\ pc[Office] = "finish start" => IsRunning
  BY <1>2 DEF Finish, Goes
<1>5. pc'[Office] = "idle" /\ pc[Office] = "finish save" => ~snapshot.stop
  BY <1>2 DEF Finish, Goes
<1>6. pc[Office] = "finish start" => ~snapshot.stop
  BY DEF SInv, SavingInv, Unhooking
<1>7. ASSUME requested, pc'[Office] = "idle"
      PROVE  Agrees /\ RelayAgrees /\ IsRunning
  BY <1>3, <1>4, <1>5, <1>6, <1>7 DEF SInv, SteadyInv, Settled
<1>8. UrlsAgree'
  <2>1. PICK ready \in BOOLEAN : urls' = RefreshedUrls(ready)
    BY DEF Finish
  <2>2. listener # NoListener => listener = [family |-> listener.family, port |-> listener.port]
    BY DEF IInv, RemoteTypeOK
  <2> QED BY <1>1, <2>1, <2>2 DEF UrlsAgree, RefreshedUrls, NoUrls
<1>9. SteadyInv'
  <2>1. (IsRunning' <=> IsRunning) /\ (RelayAgrees' <=> RelayAgrees) /\ (Agrees' <=> Agrees)
    BY <1>1 DEF IsRunning, Alive, RelayAgrees, RelayWanted, Agrees
  <2> QED BY <1>1, <1>3, <1>7, <1>8, <2>1 DEF SteadyInv, Settled
<1>10. SavingInv'
  BY <1>1, <1>3 DEF SavingInv, Unhooking, NoSnapshot
<1>11. StoppingInv'
  BY <1>1, <1>2, <1>3 DEF SInv, StoppingInv, Unhooking
<1> QED BY <1>9, <1>10, <1>11 DEF SInv

-----------------------------------------------------------------------------
\* Bringing the relay client in line with the configuration leaves them in
\* agreement.
LEMMA SyncRelayKeepsSteady ==
  ASSUME IInv, SInv, SyncRelay
  PROVE  SInv'
<1>1. /\ UNCHANGED <<config, active, requested, pending, listener, urls, tunnel_client, snapshot>>
      /\ pc[Office] \in {"sync start", "sync save"}
  BY DEF SyncRelay, serverVars
<1>2. /\ pc \in [Threads -> Places] /\ Office \in Threads /\ DOMAIN back = Threads
      /\ \A t \in Threads : t # Office => pc'[t] = pc[t]
  BY DEF SyncRelay, Goes, IInv, RemoteTypeOK, Places, Threads
<1>3. \A t \in Threads : pc[t] \notin {"check", "signal", "join", "close"}
  BY <1>1, <1>2, OneAtATime DEF IInv
<1>4. relay_client # NoClient => ~clients[relay_client].stop
  BY <1>3 DEF SInv, StoppingInv
<1>5. (Agrees' <=> Agrees) /\ (requested => snapshot.stop \/ Agrees)
  BY <1>1 DEF Agrees, SInv, SteadyInv
<1>6. snapshot.stop => pc[Office] = "sync save"
  BY <1>1 DEF SInv, SavingInv, Unhooking
<1>7. CASE Goes(Office, Finishing(pc[Office])) /\ UNCHANGED <<relayVars, back>> /\ RelayAgrees
  <2>1. pc'[Office] = Finishing(pc[Office])
    BY <1>2, <1>7 DEF Goes
  <2>2. (IsRunning' <=> IsRunning) /\ RelayAgrees' /\ UNCHANGED <<relay_client, clients>>
    BY <1>1, <1>7 DEF IsRunning, Alive, RelayAgrees, RelayWanted, relayVars
  <2>3. SteadyInv'
    BY <1>1, <1>5, <2>1, <2>2 DEF SInv, SteadyInv, Settled, Finishing
  <2>4. SavingInv'
    BY <1>1, <1>6, <2>1 DEF SInv, SavingInv, Unhooking, Finishing
  <2>5. StoppingInv'
    BY <1>1, <1>2, <1>3, <1>4, <2>1, <2>2 DEF StoppingInv, Finishing
  <2> QED BY <2>3, <2>4, <2>5 DEF SInv
<1>8. CASE relay_client # NoClient /\ ~(RelayWanted /\ Kept) /\ Goes(Office, "check")
           /\ back' = [back EXCEPT ![Office] = pc[Office]] /\ UNCHANGED relayVars
  <2>1. pc'[Office] = "check" /\ back'[Office] = pc[Office] /\ pc[Office] = "sync save"
    BY <1>1, <1>2, <1>8 DEF Goes, SInv, SteadyInv
  <2>2. requested => snapshot.stop /\ snapshot.running
    BY <1>8, <2>1 DEF SInv, SteadyInv, SavingInv, Settled, RelayAgrees, Kept
  <2>3. UNCHANGED <<relay_client, clients>>
    BY <1>8 DEF relayVars
  <2>4. SteadyInv'
    BY <1>1, <2>1, <2>2 DEF SteadyInv, Settled
  <2>5. SavingInv'
    BY <1>1, <2>1, <2>2 DEF SavingInv, Unhooking
  <2>6. StoppingInv'
    BY <1>1, <1>2, <1>3, <1>4, <2>1, <2>3 DEF StoppingInv, Unhooking
  <2> QED BY <2>4, <2>5, <2>6 DEF SInv
<1>9. CASE relay_client = NoClient /\ RelayWanted /\ NewClient /\ Goes(Office, Finishing(pc[Office]))
           /\ UNCHANGED back
  <2>1. pc'[Office] = Finishing(pc[Office])
    BY <1>2, <1>9 DEF Goes
  <2>2. /\ relay_client' \in Clients /\ relay_client' # NoClient
        /\ clients'[relay_client'].url = config.relayUrl /\ ~clients'[relay_client'].stop
    <3> DEFINE c == CHOOSE d \in Unused : TRUE
    <3>1. c \in Clients
      BY <1>1 DEF IInv, SupplyInv, Synchronising, Unused
    <3>2. clients' = [clients EXCEPT ![c] = [Fresh EXCEPT !.url = config.relayUrl, !.at = "connect"]]
          /\ relay_client' = c
      BY <1>9 DEF NewClient
    <3>3. clients \in [Clients -> ClientRecord]
      BY DEF IInv, RemoteTypeOK
    <3> HIDE DEF c
    <3> QED BY <3>1, <3>2, <3>3, RemoteAssumption DEF Fresh
  <2>3. RelayAgrees'
    BY <1>1, <1>9, <2>2 DEF RelayAgrees, RelayWanted
  <2>4. pc[Office] = "sync save" /\ requested => snapshot.stop
    BY <1>9 DEF SInv, SteadyInv, Settled, RelayAgrees
  <2>5. SteadyInv'
    BY <1>1, <1>5, <2>1, <2>3, <2>4 DEF SteadyInv, Settled, Finishing
  <2>6. SavingInv'
    BY <1>1, <1>6, <2>1 DEF SInv, SavingInv, Unhooking, Finishing
  <2>7. StoppingInv'
    BY <1>1, <1>2, <1>3, <2>1, <2>2 DEF StoppingInv, Finishing
  <2> QED BY <2>5, <2>6, <2>7 DEF SInv
<1> QED BY <1>7, <1>8, <1>9 DEF SyncRelay, RelayAgrees, Kept

-----------------------------------------------------------------------------
\* Halting the listener and the tunnel keeps what the relay's URL rests on.
LEMMA HaltKeepsSteady ==
  ASSUME IInv, SInv, NEW t \in Threads, Halt(t)
  PROVE  SInv'
<1>1. /\ pc \in [Threads -> Places] /\ Office \in Threads /\ DOMAIN back = Threads
  BY DEF IInv, RemoteTypeOK, Places, Threads
<1>2. /\ ~requested' /\ UNCHANGED <<relay_client, clients, snapshot>>
      /\ pc[t] = "stop" /\ pc' = [pc EXCEPT ![t] = "check"] /\ back' = [back EXCEPT ![t] = "close"]
  BY DEF Halt, Goes, relayVars
<1>3. SteadyInv'
  BY <1>1, <1>2 DEF SInv, SteadyInv, Settled
<1>4. SavingInv'
  <2>1. CASE t = Office
    BY <1>1, <1>2, <2>1 DEF SInv, SavingInv, Unhooking
  <2>2. CASE t # Office
    BY <1>1, <1>2, <2>2 DEF SInv, SavingInv, Unhooking
  <2> QED BY <2>1, <2>2
<1>5. StoppingInv'
  BY <1>1, <1>2 DEF SInv, StoppingInv
<1> QED BY <1>3, <1>4, <1>5 DEF SInv

\* The steps of _stop_relay_client.
LEMMA UnhookingKeepsSteady ==
  ASSUME IInv, SInv, NEW t \in Threads, CheckRelay(t) \/ SignalRelay(t) \/ JoinRelay(t)
  PROVE  SInv'
<1>1. /\ pc \in [Threads -> Places] /\ Office \in Threads
      /\ back \in [Threads -> {"sync start", "sync save", "close"}]
  BY DEF IInv, RemoteTypeOK, Places, Threads
<1>2. UNCHANGED <<requested, back, snapshot>> /\ pc[t] \in {"check", "signal", "join"}
  BY DEF CheckRelay, SignalRelay, JoinRelay, serverVars
<1>3. pc' = [pc EXCEPT ![t] = pc'[t]] /\ pc'[t] \in {"signal", "join", back[t]}
  BY <1>1 DEF CheckRelay, SignalRelay, JoinRelay, Goes, IInv, ClientInv
<1>4. \A s \in Threads : s # t => pc'[s] = pc[s] /\ pc[s] \notin {"check", "signal", "join", "close"}
  BY <1>1, <1>2, <1>3, OneAtATime DEF IInv
<1>5. requested => t = Office /\ Unhooking
  BY <1>2 DEF SInv, StoppingInv
<1>6. Unhooking => back[Office] = "sync save" /\ (requested => snapshot.stop /\ snapshot.running)
  BY DEF SInv, SavingInv
<1>7. pc'[Office] # "sync start"
  <2>1. CASE t = Office
    BY <1>1, <1>2, <1>3, <1>6, <2>1 DEF Unhooking
  <2>2. CASE t # Office
    BY <1>1, <1>2, <1>4, <2>2, OneAtATime DEF IInv
  <2> QED BY <2>1, <2>2
<1>8. SteadyInv'
  BY <1>2, <1>3, <1>5, <1>6, <1>7 DEF SteadyInv, Settled, Unhooking
<1>9. SavingInv'
  <2>1. CASE t = Office
    <3>1. snapshot.stop => Unhooking
      BY <1>2, <2>1 DEF SInv, SavingInv
    <3> QED BY <1>2, <1>3, <1>6, <2>1, <3>1 DEF SavingInv, Unhooking
  <2>2. CASE t # Office
    BY <1>1, <1>2, <1>4, <2>2 DEF SInv, SavingInv, Unhooking
  <2> QED BY <2>1, <2>2
<1>10. StoppingInv'
  <2>1. \A s \in Threads :
          /\ pc'[s] = "close" => ~requested'
          /\ pc'[s] \in {"check", "signal", "join"} /\ requested' => s = Office /\ Unhooking'
    BY <1>2, <1>3, <1>4, <1>5, <1>6 DEF Unhooking
  <2>2. ASSUME relay_client' # NoClient, clients'[relay_client'].stop
        PROVE  \E s \in Threads : pc'[s] = "join"
    <3>1. CASE CheckRelay(t)
      <4>1. UNCHANGED <<relay_client, clients>>
        BY <3>1 DEF CheckRelay, relayVars
      <4> QED BY <1>1, <1>4, <2>2, <3>1, <4>1 DEF SInv, StoppingInv, CheckRelay
    <3>2. CASE SignalRelay(t)
      BY <1>1, <3>2 DEF SignalRelay, IInv, ClientInv, Goes
    <3>3. CASE JoinRelay(t)
      BY <2>2, <3>3 DEF JoinRelay
    <3> QED BY <3>1, <3>2, <3>3
  <2> QED BY <2>1, <2>2 DEF StoppingInv
<1> QED BY <1>8, <1>9, <1>10 DEF SInv

\* The last step of a stop leaves nothing running and nothing offered.
LEMMA CloseKeepsSteady ==
  ASSUME IInv, SInv, NEW t \in Threads, Close(t)
  PROVE  SInv'
<1>1. /\ pc \in [Threads -> Places] /\ Office \in Threads
  BY DEF IInv, RemoteTypeOK, Places, Threads
<1>2. /\ ~requested /\ UNCHANGED <<requested, relay_client, clients, back, snapshot>>
      /\ pc[t] = "close" /\ pc' = [pc EXCEPT ![t] = IF t = Office THEN "idle" ELSE "over"]
  BY DEF Close, Goes, relayVars, SInv, StoppingInv
<1>3. SteadyInv'
  BY <1>1, <1>2 DEF SInv, SteadyInv, Settled
<1>4. SavingInv'
  BY <1>1, <1>2 DEF SInv, SavingInv, Unhooking
<1>5. StoppingInv'
  BY <1>1, <1>2 DEF SInv, StoppingInv
<1> QED BY <1>3, <1>4, <1>5 DEF SInv

\* Every step keeps what holds between commands and inside them.
LEMMA InductiveSteady == IInv /\ SInv /\ [Next]_vars => SInv'
<1> SUFFICES ASSUME IInv, SInv, [Next]_vars PROVE SInv'
  OBVIOUS
<1>1. ASSUME NEW t \in Threads, StopStep(t) \/ Notify(t)
      PROVE  SInv'
  BY <1>1, HaltKeepsSteady, UnhookingKeepsSteady, CloseKeepsSteady, NotifyKeepsSteady DEF StopStep
<1> QED BY <1>1, NextCases, StartKeeps, StopKeeps, SaveKeeps, SyncRelayKeepsSteady, FinishKeepsSteady,
           RestartKeepsSteady, OutsideKeepsSteady
        DEF UserCommand

\* Both invariants hold of every behaviour.
LEMMA SteadyInvariance == RemoteSpec => [](IInv /\ SInv)
<1>1. Init /\ [][Next]_vars => [](IInv /\ SInv)
  BY InitInvariant, Inductive, InitSteady, InductiveSteady, PTL
<1> QED BY <1>1, PTL DEF RemoteSpec

-----------------------------------------------------------------------------
\* A remote at rest runs with the settings that are saved, and the URL it
\* offers leads to a transport that is up (local_server.py, 788-855).
THEOREM UrlsAreBacked == RemoteSpec => []OfferedUrlIsBacked
<1>1. ASSUME IInv, SInv, Idle, IsRunning
      PROVE  /\ active = NetworkSettings(config) /\ ~pending
             /\ RouteUrl(config) # Nowhere => Backed(RouteUrl(config))
  <2>1. \A t \in Threads : pc[t] \in {"idle", "new", "over"}
    BY <1>1 DEF Idle, Threads
  <2>2. requested
    BY <1>1, <2>1 DEF IInv, WantedInv, IsRunning
  <2>3. ~snapshot.stop /\ pc[Office] = "idle"
    BY <1>1 DEF SInv, SavingInv, Unhooking, Idle
  <2>4. Agrees /\ RelayAgrees /\ UrlsAgree
    BY <1>1, <2>2, <2>3 DEF SInv, SteadyInv, Settled
  <2>5. relay_client # NoClient => ~clients[relay_client].stop
    BY <1>1, <2>1 DEF SInv, StoppingInv
  <2>6. config.preferredRoute \in Routes
    BY <1>1 DEF IInv, RemoteTypeOK, Config
  <2>7. CASE config.preferredRoute = "relay"
    BY <1>1, <2>2, <2>4, <2>5, <2>7
       DEF RouteUrl, Backed, Url, Agrees, RelayAgrees, RelayWanted
  <2>8. CASE config.preferredRoute = "tunnel"
    <3>1. tunnel_client # NoPort => listener \in [family : {"ipv4"}, port : {tunnel_client}]
      BY <2>4, <2>8 DEF Agrees, SyncedTunnel, Binds
    <3>2. tunnel_client # NoPort => listener = [family |-> "ipv4", port |-> tunnel_client]
      BY <3>1
    <3> QED BY <1>1, <2>4, <2>8, <3>2 DEF RouteUrl, Backed, Url, Agrees
  <2>9. CASE config.preferredRoute \in {"local", "ipv6"}
    BY <1>1, <2>4, <2>9 DEF RouteUrl, Backed, Url, Agrees, UrlsAgree
  <2> QED BY <2>4, <2>6, <2>7, <2>8, <2>9 DEF Agrees, Routes
<1>2. IInv /\ SInv => OfferedUrlIsBacked
  BY <1>1 DEF OfferedUrlIsBacked
<1> QED BY <1>2, SteadyInvariance, PTL

\* Saving settings starts nothing, and stops what ran with others
\* (office_ui.py, 1430-1449).
THEOREM SavingStartsNothing == RemoteSpec => SavingNeverStarts
<1>1. ASSUME IInv, SInv, [Next]_vars, pc[Office] = "finish save", pc'[Office] = "idle", IsRunning'
      PROVE  snapshot.running /\ ~snapshot.stop
  <2>1. Office \in Threads /\ pc \in [Threads -> Places]
    BY <1>1 DEF IInv, RemoteTypeOK, Places, Threads
  <2>2. ~Restart
    BY <1>1 DEF Restart, IsRunning
  <2>3. ~UserCommand /\ ~SyncRelay
    BY <1>1 DEF UserCommand, Start, StartFails, Stop, SaveSettings, Command, SyncRelay
  <2>4. ~Outside /\ ~UNCHANGED vars
    BY <1>1 DEF Outside, ClientStep, NotOfClients, threadVars, vars
  <2>5. ASSUME NEW t \in Threads
        PROVE  ~StopStep(t) /\ ~Notify(t)
    <3>1. ASSUME StopStep(t) \/ Notify(t)
          PROVE  FALSE
      <4>1. t # Office
        BY <1>1, <3>1 DEF StopStep, Halt, CheckRelay, SignalRelay, JoinRelay, Close, Notify
      <4>2. pc'[Office] = pc[Office]
        BY <2>1, <3>1, <4>1
           DEF StopStep, Halt, CheckRelay, SignalRelay, JoinRelay, Close, Notify, Goes
      <4> QED BY <1>1, <4>2
    <3> QED BY <3>1
  <2>6. Finish
    BY <1>1, <2>2, <2>3, <2>4, <2>5, NextCases
  <2>7. IsRunning
    BY <1>1, <2>6 DEF Finish, relayVars, IsRunning, Alive
  <2>8. requested
    BY <1>1, <2>7, NobodyStops DEF IInv, IsRunning
  <2>9. ~snapshot.stop
    BY <1>1, <2>1, <2>6 DEF Finish, Goes
  <2> QED BY <1>1, <2>8, <2>9 DEF SInv, SavingInv
<1>2. IInv /\ SInv /\ [Next]_vars =>
        [pc[Office] = "finish save" /\ pc'[Office] = "idle" =>
           (IsRunning' => snapshot.running /\ ~snapshot.stop)]_vars
  BY <1>1
<1>3. RemoteSpec => [][Next]_vars
  BY PTL DEF RemoteSpec
<1> QED BY <1>2, <1>3, SteadyInvariance, PTL DEF SavingNeverStarts
=============================================================================
