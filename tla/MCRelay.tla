------------------------------- MODULE MCRelay -------------------------------
(***************************************************************************)
(* The relay with the clients of RelayClients.  A run explores several     *)
(* scenes, each with its own bounds on how many connections come, how many *)
(* ids they ask for and what they send.                                    *)
(***************************************************************************)
EXTENDS RelayClients, TLC

CONSTANTS
  Late,              \* phones that come only where three may
  Other,             \* ids that are asked for only where two may be
  Strangers,         \* connections with another token than the rest
  Wrong,             \* the token they present
  Scenes             \* bounds of the model

ASSUME ScenesAssumption ==
  Scenes \subseteq [plugins : Nat, phones : 1..3, strangers : Nat, ids : 1..2, keys : Nat,
                    frames : Nat, answers : Nat, vanished : Nat,
                    kinds : SUBSET PluginKinds]

VARIABLES
  scene,             \* the bounds of this behaviour
  answers,           \* messages the phones have sent
  vanished           \* clients that vanished

sentVars == <<madeVars, answers, vanished>>
mcVars == <<relayVars, scene, sentVars>>

MCInit ==
  /\ RelayInit /\ MadeInit
  /\ scene \in Scenes
  /\ answers = 0 /\ vanished = 0

MCAdmission == [c \in Conns |-> IF c \in Strangers THEN Wrong ELSE "admission"]

\* A second plugin replaces the first, and both offer keys and send frames.
Traffic == [plugins |-> 2, phones |-> 2, strangers |-> 0, ids |-> 1, keys |-> 2,
            frames |-> 2, answers |-> 0, vanished |-> 0, kinds |-> {"state", "error"}]

\* The phones answer.
Answered == [Traffic EXCEPT !.frames = 1, !.answers = 1]

\* A client vanishes, perhaps while it is replayed what came before it.
Losses == [Traffic EXCEPT !.plugins = 1, !.keys = 1, !.frames = 1, !.answers = 1, !.vanished = 1,
                          !.kinds = {"error"}]

\* More phones than a session takes, and more ids than there are sessions.
Crowd == [Traffic EXCEPT !.plugins = 1, !.phones = 3, !.strangers = 1, !.ids = 2,
                         !.keys = 0, !.frames = 0, !.vanished = 1]

MCScenes == {Traffic, Answered, Losses, Crowd}

NextKey == Cardinality({k \in KeyIds : owner[k] # NoConn}) + 1

Offers(c) ==
  /\ NextKey \in KeyIds /\ NextKey <= scene.keys
  /\ PluginOffers(c, NextKey, 0)
  /\ UNCHANGED <<answers, vanished>>

Sends(c) ==
  /\ frames < scene.frames
  /\ \E d \in scene.kinds : PluginSends(c, d)
  /\ UNCHANGED <<answers, vanished>>

Answers(c) ==
  /\ answers < scene.answers
  /\ answers' = answers + 1
  /\ PhoneSends(c, 0)
  /\ UNCHANGED vanished

Vanishes(c) ==
  /\ vanished < scene.vanished
  /\ vanished' = vanished + 1
  /\ ClientVanish(c)
  /\ UNCHANGED <<madeVars, answers>>

Came(cs) == Cardinality({c \in cs : pc[c] # "new"})

InScene ==
  /\ Came(Plugins) <= scene.plugins
  /\ Came(Strangers) <= scene.strangers
  /\ scene.phones < 3 => Came(Late) = 0
  /\ scene.ids < 2 => \A o \in 1..made : session[o].id \notin Other

MCNext ==
  /\ \/ Server /\ UNCHANGED sentVars
     \/ \E c \in Plugins : Offers(c) \/ Sends(c)
     \/ \E c \in Phones : Answers(c)
     \/ \E c \in Conns : Vanishes(c)
  /\ UNCHANGED scene
  /\ InScene'

MCSpec == MCInit /\ [][MCNext]_mcVars

\* Once its handler has ended, nothing depends on what a client was sent.
View ==
  <<sessions, made, session, idle, pc, at, old, backlog, sending, shut,
    {c \in lost : pc[c] # "done" \/ c \notin shut},
    [c \in Conns |-> IF pc[c] = "done" THEN <<>> ELSE outbox[c]],
    scene, sentVars>>

Symmetry == Permutations(Plugins) \cup Permutations(Phones \ (Strangers \cup Late))
=============================================================================
