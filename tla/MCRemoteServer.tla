---------------------------- MODULE MCRemoteServer ----------------------------
(***************************************************************************)
(* Two ports, one relay with a short spelling, and stores that are empty,  *)
(* hold relay settings, or an old spelling of a route with a port that is  *)
(* none.                                                                   *)
(***************************************************************************)
EXTENDS RemoteServer

CONSTANTS BadPort, u1, short

MCShorthand == [t \in {short} |-> u1]

MCFound ==
  {Default,
   [preferredRoute |-> "relay", localPort |-> DefaultPort, relayUrl |-> u1],
   [preferredRoute |-> "direct", localPort |-> BadPort, relayUrl |-> short]}
=============================================================================
