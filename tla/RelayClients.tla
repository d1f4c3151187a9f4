---------------------------- MODULE RelayClients ----------------------------
(***************************************************************************)
(* Clients of the relay that follow the protocol: a plugin offers keys of  *)
(* its own and sends frames under them (relay_client.py 325-363), a phone  *)
(* answers hellos it has got and sends commands under their keys (app.js   *)
(* 1447-1461, 1487-1513).  A message is chosen when the relay reads it,    *)
(* among those its client can have sent by then, so that clients may be as *)
(* slow or late as they like.  That a plugin which comes back still has    *)
(* the keys of its former connection is modelled in RelayLink.             *)
(***************************************************************************)
EXTENDS Relay

VARIABLES
  frames,            \* frames the plugins have sent; each has its number as body
  owner              \* the plugin each key id was offered by

madeVars == <<frames, owner>>

MadeInit == frames = 0 /\ owner = [k \in KeyIds |-> NoConn]

Arrives(c, m) == Receive(c, m) \/ RejectInvalid(c, m)

\* Key ids are random, so that no two plugins come up with the same.
PluginOffers(c, k, b) ==
  /\ owner[k] = NoConn
  /\ owner' = [owner EXCEPT ![k] = c]
  /\ Arrives(c, Hello(k, b))
  /\ UNCHANGED frames

\* The number of a frame stands for its nonce.  An encrypted error is a frame;
\* an error envelope has no key.
PluginSends(c, d) ==
  /\ frames \in Bodies
  /\ frames' = frames + 1
  /\ \/ Arrives(c, Error(frames))
     \/ \E k \in KeyIds : owner[k] = c /\ Arrives(c, Frame(k, d, frames))
  /\ UNCHANGED owner

PhoneSends(c, b) ==
  /\ \E n \in DOMAIN outbox[c] :
       /\ outbox[c][n].type = "hello"
       /\ \E m \in {Hello(outbox[c][n].key, b), Frame(outbox[c][n].key, "command", b)} :
            Arrives(c, m) \/ Reject(c, m)
  /\ UNCHANGED madeVars

ClientsNext ==
  \/ Server /\ UNCHANGED madeVars
  \/ \E c \in Plugins :
       \/ \E d \in PluginKinds : PluginSends(c, d)
       \/ \E k \in KeyIds, b \in Bodies : PluginOffers(c, k, b)
  \/ \E c \in Phones, b \in Bodies : PhoneSends(c, b)
  \/ \E c \in Conns : ClientVanish(c) /\ UNCHANGED madeVars

ClientsSpec == RelayInit /\ MadeInit /\ [][ClientsNext]_<<relayVars, madeVars>>
=============================================================================
