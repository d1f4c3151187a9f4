----------------------------- MODULE MCRelayLink -----------------------------
(* RelayLink with every client presenting the session's admission token.   *)
EXTENDS RelayLink

OneToken == [c \in Conns |-> "admission"]

LinkBodies == {NoPeer} \cup Phones \cup [peer : Phones, nonce : Nonces]
=============================================================================
