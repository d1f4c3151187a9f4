------------------------------- MODULE Settings -------------------------------
(***************************************************************************)
(* The settings of the extension and where they are kept                   *)
(* (extension/python/config.py): LibreOffice's configuration registry and, *)
(* when that fails, a JSON file in the user's configuration directory.     *)
(*                                                                         *)
(* Of the ten settings these are the three a user can change.  A store may *)
(* hold values nobody normalised, typed into it by hand; it has a text for *)
(* every setting, a missing file being one full of defaults.               *)
(***************************************************************************)
EXTENDS Naturals

CONSTANTS
  Ports,        \* the ports 1..65535 that are told apart
  DefaultPort,  \* DEFAULT_LOCAL_PORT
  RelayUrls,    \* normalised relay URLs
  NoUrl,        \* no relay is configured
  Shorthand,    \* other texts for relay URLs, and the URL each one stands for
  Found         \* what a store may hold when the extension is installed

Routes == {"local", "tunnel", "ipv6", "relay"}

Config ==
  [preferredRoute : Routes, localPort : Ports, relayUrl : RelayUrls \cup {NoUrl}]

Default == [preferredRoute |-> "local", localPort |-> DefaultPort, relayUrl |-> NoUrl]

Aliases ==
  [auto |-> "local", direct |-> "ipv6", direct_ipv6 |-> "ipv6", localtunnel |-> "tunnel"]

NormalizeRoute(route) ==
  IF route \in Routes THEN route
  ELSE IF route \in DOMAIN Aliases THEN Aliases[route] ELSE "local"

CoercePort(port) == IF port \in Ports THEN port ELSE DefaultPort

\* A text that is no URL raises ValueError and is no member.
RelayTexts == RelayUrls \cup {NoUrl} \cup DOMAIN Shorthand

NormalizeRelayUrl(text) ==
  IF text \in DOMAIN Shorthand THEN Shorthand[text] ELSE text

FromDict(d) ==
  [preferredRoute |-> NormalizeRoute(d.preferredRoute),
   localPort |-> CoercePort(d.localPort),
   relayUrl |-> NormalizeRelayUrl(d.relayUrl)]

Merged(c, payload) ==
  FromDict([k \in DOMAIN c |-> IF k \in DOMAIN payload THEN payload[k] ELSE c[k]])

ASSUME SettingsAssumption ==
  /\ DefaultPort \in Ports
  /\ NoUrl \notin RelayUrls
  /\ \A text \in DOMAIN Shorthand :
       text \notin RelayUrls \cup {NoUrl} /\ Shorthand[text] \in RelayUrls
  /\ \A d \in Found : FromDict(d) \in Config

VARIABLES
  registry,     \* the committed properties of the extension's registry node
  file,         \* config.json
  config        \* RemoteServer.config, the settings in force

stores == <<registry, file>>

SettingsInit ==
  /\ registry \in Found
  /\ file \in Found
  /\ config = IF FromDict(registry) = Default THEN FromDict(file) ELSE FromDict(registry)

-----------------------------------------------------------------------------
(* save: the properties are written one by one into an update access and   *)
(* take effect with commitChanges, so that a failure anywhere leaves the   *)
(* registry as it was; the settings then go to the file.                   *)

SaveToOfficeWithoutRelay(c) ==
  registry' = [c EXCEPT !.relayUrl = NormalizeRelayUrl(registry.relayUrl)] /\ UNCHANGED file

SaveToOffice(c) == registry' = c /\ UNCHANGED file

SaveToFile(c) == file' = c /\ UNCHANGED registry

Save(c) == SaveToOffice(c) \/ SaveToFile(c)

(* load: a registry full of defaults is taken for one that was never       *)
(* written, and settings of the file are moved into it.                    *)

Reloaded ==
  IF FromDict(registry) = Default THEN FromDict(file) ELSE FromDict(registry)

LoadOffice ==
  /\ config' = Reloaded
  /\ IF FromDict(registry) = Default /\ FromDict(file) # Default
       THEN Save(FromDict(file)) \/ UNCHANGED stores
       ELSE UNCHANGED stores

\* The registry cannot be opened.
LoadFile == config' = FromDict(file) /\ UNCHANGED stores

Load == LoadOffice \/ LoadFile

\* The settings in force are those that a restart will bring back, but for
\* two cases: the last save fell back to the file while the registry has
\* other settings, or the user went back to the defaults and the file still
\* has settings (config.py, 357-370 and 412-428).
SettingsComeBack ==
  \/ config = Reloaded
  \/ config = FromDict(file)
  \/ config = Default /\ FromDict(registry) = Default
=============================================================================
