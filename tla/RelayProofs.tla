----------------------------- MODULE RelayProofs -----------------------------
(***************************************************************************)
(* Proofs about the relay with any number of connections, ids and session  *)
(* objects.  First with clients that send any message at any time: types,  *)
(* caches and limits.  Then with plugins that keep to their own keys:      *)
(* hellos come before frames.  Then with plugins that do not repeat        *)
(* themselves: no phone is sent a message twice.  Last, the clients of     *)
(* RelayClients are such plugins.                                          *)
(***************************************************************************)
EXTENDS RelayClients, FiniteSetTheorems, TLAPS

Envelopes == {m \in Messages : m.type # "frame" => m.kind = "none"}

Clients ==
  \E c \in Conns :
    ClientVanish(c) \/ \E m \in Envelopes : Receive(c, m) \/ Reject(c, m)

OpenNext == Server \/ Clients

OpenSpec == RelayInit /\ [][OpenNext]_relayVars

-----------------------------------------------------------------------------
Tokens == {""} \cup {Admission[c] : c \in Conns}

Sessions ==
  [id : Ids \cup {NoConn}, token : Tokens, plugin : Plugins \cup {NoConn},
   phones : SUBSET Phones, hello : Messages \cup {NoHello}, cached : Seq(Messages)]

Deliveries == [msg : Messages \cup {NoHello}, to : SUBSET Conns, failed : SUBSET Conns]

\* CacheBelongsToHello of one session.
CacheFits(s) ==
  /\ Len(s.cached) <= MaxCached
  /\ \A n \in DOMAIN s.cached : s.hello # NoHello /\ s.cached[n].key = s.hello.key

PhonesFit(s, closed) == Cardinality(s.phones \ closed) <= MaxPhones

SessionsOK ==
  /\ made \in 0..MaxObjects
  /\ session \in [Objects -> Sessions]
  /\ sessions \in [Ids -> 0..made]
  /\ idle \subseteq Objects
  /\ \A o \in Objects : IF o <= made THEN session[o].id \in Ids ELSE session[o] = NewSession(NoConn)
  /\ \A o \in Objects : CacheFits(session[o]) /\ PhonesFit(session[o], shut)

HandlersOK ==
  /\ pc \in [Conns -> Places]
  /\ at \in [Conns -> 0..made]
  /\ old \in [Conns -> Plugins \cup {NoConn}]
  /\ shut \subseteq Conns
  /\ lost \subseteq Conns
  /\ sending \in [Conns -> Deliveries]
  /\ \A c \in Conns : pc[c] \in {"replacing", "replaying", "open"} => at[c] # 0
  /\ \A c \in Conns : pc[c] = "replacing" => c \in Plugins
  /\ \A c \in Phones : Connected(c) => c \in session[at[c]].phones

RelayInv == SessionsOK /\ HandlersOK

\* The strengthened invariant contains the three that are checked.
LEMMA InvImplies == RelayInv => RelayTypeOK /\ CacheBelongsToHello /\ PhonesBounded
<1> SUFFICES ASSUME RelayInv PROVE RelayTypeOK /\ CacheBelongsToHello /\ PhonesBounded
  OBVIOUS
<1> USE DEF RelayInv
<1>1. RelayTypeOK
  <2>1. ASSUME NEW o \in Objects
        PROVE  /\ session[o].id \in (IF o <= made THEN Ids ELSE {NoConn})
               /\ session[o].plugin \in Plugins \cup {NoConn}
               /\ session[o].phones \subseteq Phones
               /\ session[o].hello \in Messages \cup {NoHello}
               /\ \A n \in DOMAIN session[o].cached : session[o].cached[n] \in Messages
    <3>1. session[o] \in Sessions
      BY DEF SessionsOK
    <3>2. session[o].cached \in Seq(Messages)
      BY <3>1 DEF Sessions
    <3>3. \A n \in DOMAIN session[o].cached : session[o].cached[n] \in Messages
      BY <3>2
    <3>4. o <= made => session[o].id \in Ids
      BY DEF SessionsOK
    <3>5. ~(o <= made) => session[o].id = NoConn
      <4>1. ~(o <= made) => session[o] = NewSession(NoConn)
        BY DEF SessionsOK
      <4>2. NewSession(NoConn).id = NoConn
        BY DEF NewSession
      <4> QED BY <4>1, <4>2
    <3> QED BY <3>1, <3>3, <3>4, <3>5 DEF Sessions
  <2> QED BY <2>1 DEF RelayTypeOK, SessionsOK, HandlersOK
<1>2. CacheBelongsToHello
  BY DEF SessionsOK, CacheFits, CacheBelongsToHello
<1>3. ASSUME NEW o \in Objects
      PROVE  Cardinality({c \in Phones : Connected(c) /\ at[c] = o}) <= MaxPhones
  <2> DEFINE Served == {c \in Phones : Connected(c) /\ at[c] = o}
  <2>1. Served \subseteq session[o].phones \ shut
    BY DEF HandlersOK, Connected
  <2>2. IsFiniteSet(session[o].phones \ shut)
    <3>1. session[o].phones \ shut \subseteq Phones
      BY DEF SessionsOK, Sessions
    <3> QED BY <3>1, PhonesAssumption, FS_Subset
  <2>3. Cardinality(Served) <= Cardinality(session[o].phones \ shut)
    BY <2>1, <2>2, FS_Subset
  <2>4. Cardinality(session[o].phones \ shut) <= MaxPhones
    BY DEF SessionsOK, PhonesFit
  <2>5. Cardinality(Served) \in Nat /\ Cardinality(session[o].phones \ shut) \in Nat
    BY <2>1, <2>2, FS_Subset, FS_CardinalityType
  <2> QED BY <2>3, <2>4, <2>5, LimitsAssumption
<1> QED BY <1>1, <1>2, <1>3 DEF PhonesBounded

\* An empty cache fits any hello.
LEMMA EmptyFits ==
  ASSUME NEW s, s.cached = <<>>
  PROVE  CacheFits(s)
<1>1. Len(s.cached) = 0 /\ DOMAIN s.cached = {}
  OBVIOUS
<1> QED BY <1>1, LimitsAssumption DEF CacheFits

\* A session that has just been made has an empty cache and no clients.
LEMMA NewFits ==
  ASSUME NEW i \in Ids \cup {NoConn}
  PROVE  /\ NewSession(i) \in Sessions /\ CacheFits(NewSession(i))
         /\ NewSession(i).id = i /\ NewSession(i).phones = {} /\ NewSession(i).plugin = NoConn
<1>1. <<>> \in Seq(Messages) /\ "" \in Tokens
  BY DEF Tokens
<1>2. /\ NewSession(i) \in Sessions
      /\ NewSession(i).id = i /\ NewSession(i).phones = {} /\ NewSession(i).plugin = NoConn
      /\ NewSession(i).cached = <<>>
  BY <1>1 DEF NewSession, Sessions
<1> QED BY <1>2, EmptyFits

\* A relay that has just started has the invariant.
LEMMA RelayInitInv == RelayInit => RelayInv
<1> SUFFICES ASSUME RelayInit PROVE RelayInv
  OBVIOUS
<1>1. NewSession(NoConn) \in Sessions /\ CacheFits(NewSession(NoConn))
  BY NewFits
<1>2. PhonesFit(NewSession(NoConn), {})
  BY LimitsAssumption, FS_EmptySet DEF NewSession, PhonesFit
<1>3. SessionsOK
  BY <1>1, <1>2, LimitsAssumption DEF RelayInit, SessionsOK, Objects
<1>4. /\ pc \in [Conns -> Places] /\ at \in [Conns -> 0..made]
      /\ old \in [Conns -> Plugins \cup {NoConn}]
  BY DEF RelayInit, Places
<1>5. sending \in [Conns -> Deliveries]
  BY DEF RelayInit, NothingToSend, Deliveries
<1>6. HandlersOK
  BY <1>4, <1>5 DEF RelayInit, HandlersOK, Connected, Conns
<1> QED BY <1>3, <1>6 DEF RelayInv

-----------------------------------------------------------------------------
\* Sweeping leaves each identifier the object it had, or none.
LEMMA CleanedType ==
  ASSUME NEW t, NEW ss, NEW n \in Nat, t \in [Ids -> 0..n]
  PROVE  Cleaned(t, ss) \in [Ids -> 0..n]
  BY DEF Cleaned

\* Closing sockets makes room, and never takes any.
LEMMA ClosingMakesRoom ==
  ASSUME NEW s \in Sessions, NEW before, NEW after, before \subseteq after,
         PhonesFit(s, before)
  PROVE  PhonesFit(s, after)
<1>1. s.phones \ after \subseteq s.phones \ before /\ s.phones \ before \subseteq Phones
  BY DEF Sessions
<1>2. IsFiniteSet(s.phones \ before)
  BY <1>1, PhonesAssumption, FS_Subset
<1>3. Cardinality(s.phones \ after) <= Cardinality(s.phones \ before)
  BY <1>1, <1>2, FS_Subset
<1>4. Cardinality(s.phones \ after) \in Nat /\ Cardinality(s.phones \ before) \in Nat
  BY <1>1, <1>2, FS_Subset, FS_CardinalityType
<1> QED BY <1>3, <1>4, LimitsAssumption DEF PhonesFit

\* Where handlers may go without touching a session.
Onward(c) ==
  \/ pc'[c] = pc[c]
  \/ pc'[c] = "done"
  \/ pc[c] = "replaying" /\ pc'[c] = "open"

\* Steps that leave the sessions alone.
LEMMA QuietStep ==
  ASSUME RelayInv, UNCHANGED <<session, made, at, old>>,
         sessions' \in [Ids -> 0..made], idle' \subseteq Objects,
         pc' \in [Conns -> Places], \A c \in Conns : Onward(c),
         shut \subseteq shut', shut' \subseteq Conns, lost' \subseteq Conns,
         sending' \in [Conns -> Deliveries]
  PROVE  RelayInv'
<1> USE DEF RelayInv
<1>1. SessionsOK'
  <2>1. \A o \in Objects : PhonesFit(session[o], shut')
    BY ClosingMakesRoom DEF SessionsOK
  <2> QED BY <2>1 DEF SessionsOK
<1>2. HandlersOK'
  <2>1. \A c \in Phones : Connected(c)' => Connected(c)
    BY DEF Onward, Connected, Conns, HandlersOK
  <2> QED BY <2>1 DEF HandlersOK, Onward
<1> QED BY <1>1, <1>2

(***************************************************************************)
(* A step of the handler of connection c, to place p, that makes record r  *)
(* of session object o and leaves the other objects alone.                 *)
(***************************************************************************)
Touches(c, p, o, r) ==
  /\ session' = [session EXCEPT ![o] = r]
  /\ r.id \in Ids /\ CacheFits(r) /\ PhonesFit(r, shut')
  /\ session[o].phones \subseteq r.phones \cup {c}
  /\ made' \in made..MaxObjects /\ o <= made' /\ (made' = made \/ o = made')
  /\ made' <= made + 1
  /\ sessions' \in [Ids -> 0..made'] /\ idle' \subseteq Objects
  /\ pc' = [pc EXCEPT ![c] = p]
  /\ at' = at \/ at' = [at EXCEPT ![c] = o]
  /\ p = "replacing" => c \in Plugins
  /\ p # "done" => /\ at'[c] = o
                   /\ c \in Phones => c \in r.phones \/ c \in shut'
  /\ old' \in [Conns -> Plugins \cup {NoConn}]
  /\ shut \subseteq shut' /\ shut' \subseteq Conns /\ lost' \subseteq Conns
  /\ sending' \in [Conns -> Deliveries]

\* What one handler does to one session object keeps the invariant.
LEMMA ObjectStep ==
  ASSUME RelayInv, NEW c \in Conns, NEW p \in Places, NEW o \in Objects, NEW r \in Sessions,
         Touches(c, p, o, r)
  PROVE  RelayInv'
<1> USE DEF Touches
<1> USE DEF RelayInv
<1>0. made \in 0..MaxObjects /\ made' \in 0..MaxObjects /\ MaxObjects \in Nat
  BY LimitsAssumption DEF SessionsOK
<1>1. session' \in [Objects -> Sessions]
  BY DEF SessionsOK
<1>2. \A x \in Objects : session'[x] = IF x = o THEN r ELSE session[x]
  BY DEF SessionsOK
<1>3. SessionsOK'
  <2>1. \A x \in Objects : IF x <= made' THEN session'[x].id \in Ids ELSE session'[x] = NewSession(NoConn)
    BY <1>0, <1>2 DEF SessionsOK, Objects
  <2>2. \A x \in Objects : PhonesFit(session[x], shut')
    BY ClosingMakesRoom DEF SessionsOK
  <2>3. \A x \in Objects : CacheFits(session'[x]) /\ PhonesFit(session'[x], shut')
    BY <1>2, <2>2 DEF SessionsOK
  <2> QED BY <1>0, <1>1, <2>1, <2>3 DEF SessionsOK
<1>4. HandlersOK'
  <2>1. at' \in [Conns -> 0..made']
    BY <1>0 DEF HandlersOK, Objects
  <2>2. \A x \in Conns : pc'[x] = IF x = c THEN p ELSE pc[x]
    BY DEF HandlersOK
  <2>3. \A x \in Conns : x # c => at'[x] = at[x]
    BY DEF HandlersOK
  <2>4. ASSUME NEW x \in Phones, Connected(x)'
        PROVE  x \in session'[at'[x]].phones
    <3>1. CASE x = c
      BY <1>2, <2>2, <2>4, <3>1 DEF Connected, Conns
    <3>2. CASE x # c
      <4>1. Connected(x) /\ at'[x] = at[x]
        BY <2>2, <2>3, <2>4, <3>2 DEF Connected, Conns
      <4>2. x \in session[at[x]].phones /\ at[x] \in Objects
        BY <1>0, <4>1 DEF HandlersOK, Connected, Conns, Objects
      <4> QED BY <1>2, <3>2, <4>1, <4>2
    <3> QED BY <3>1, <3>2
  <2>5. \A x \in Conns : pc'[x] \in {"replacing", "replaying", "open"} => at'[x] # 0
    BY <1>0, <2>2, <2>3 DEF HandlersOK, Objects
  <2>6. \A x \in Conns : pc'[x] = "replacing" => x \in Plugins
    BY <2>2 DEF HandlersOK
  <2> QED BY <2>1, <2>4, <2>5, <2>6 DEF HandlersOK
<1> QED BY <1>3, <1>4

-----------------------------------------------------------------------------
(* What the actions do to a session.                                       *)

\* Clearing the cache leaves a session whose cache is empty, with the same
\* clients.
LEMMA ClearedFits ==
  ASSUME NEW s \in Sessions
  PROVE  /\ ClearCached(s) \in Sessions /\ CacheFits(ClearCached(s))
         /\ ClearCached(s).id = s.id /\ ClearCached(s).phones = s.phones
         /\ ClearCached(s).plugin = s.plugin
<1>1. ASSUME NEW h \in Messages \cup {NoHello}, NEW q \in Seq(Messages)
      PROVE  LET t == [s EXCEPT !.hello = h, !.cached = q]
             IN /\ t \in Sessions /\ t.id = s.id /\ t.phones = s.phones
                /\ t.plugin = s.plugin /\ t.cached = q
  BY DEF Sessions
<1>2. <<>> \in Seq(Messages)
  OBVIOUS
<1>3. /\ ClearCached(s) \in Sessions /\ ClearCached(s).cached = <<>>
      /\ ClearCached(s).id = s.id /\ ClearCached(s).phones = s.phones
      /\ ClearCached(s).plugin = s.plugin
  BY <1>1, <1>2 DEF ClearCached
<1> QED BY <1>3, EmptyFits

\* Filling or emptying the plugin's slot leaves the phones and the cache as
\* they are.
LEMMA SlotFits ==
  ASSUME NEW s \in Sessions, NEW c \in Plugins \cup {NoConn}
  PROVE  /\ [s EXCEPT !.plugin = c] \in Sessions
         /\ [s EXCEPT !.plugin = c].id = s.id /\ [s EXCEPT !.plugin = c].phones = s.phones
         /\ [s EXCEPT !.plugin = c].plugin = c
  BY DEF Sessions

\* Admitting a connection only records how it was admitted.
LEMMA AdmittedFits ==
  ASSUME NEW s \in Sessions, NEW c \in Conns, CacheFits(s)
  PROVE  /\ Admit(s, c) \in Sessions
         /\ Admit(s, c).id = s.id /\ Admit(s, c).phones = s.phones
         /\ Admit(s, c).plugin = s.plugin /\ Admit(s, c).hello = s.hello
         /\ CacheFits(Admit(s, c))
  BY DEF Admit, Sessions, Tokens, CacheFits

\* Leaving takes nobody but the leaver out of the phones.
LEMMA LeftFits ==
  ASSUME NEW s \in Sessions, NEW c \in Conns, CacheFits(s), s.id \in Ids
  PROVE  /\ Leave(c, s) \in Sessions
         /\ Leave(c, s).id = s.id
         /\ Leave(c, s).phones \subseteq s.phones
         /\ s.phones \subseteq Leave(c, s).phones \cup {c}
         /\ CacheFits(Leave(c, s))
<1>1. CASE c \in Plugins /\ s.plugin = c
  <2>1. Leave(c, s) = ClearCached([s EXCEPT !.plugin = NoConn])
    BY <1>1 DEF Leave
  <2>2. [s EXCEPT !.plugin = NoConn] \in Sessions
        /\ [s EXCEPT !.plugin = NoConn].id = s.id
        /\ [s EXCEPT !.plugin = NoConn].phones = s.phones
    BY SlotFits
  <2> QED BY <2>1, <2>2, ClearedFits
<1>2. CASE c \in Plugins /\ s.plugin # c
  <2>1. Leave(c, s) = s
    BY <1>2 DEF Leave
  <2> QED BY <2>1
<1>3. CASE c \notin Plugins
  <2>1. Leave(c, s) = [s EXCEPT !.phones = @ \ {c}]
    BY <1>3 DEF Leave
  <2> QED BY <2>1 DEF Sessions, CacheFits
<1> QED BY <1>1, <1>2, <1>3

\* The cache keeps the newest frames, all under one hello.
LEMMA RecordedFits ==
  ASSUME NEW s \in Sessions, NEW c \in Conns, NEW m \in Envelopes, CacheFits(s),
         (m.type = "frame" /\ c \in Plugins) => s.hello # NoHello /\ m.key = s.hello.key
  PROVE  /\ Metadata(s, c, m) \in Sessions
         /\ Metadata(s, c, m).id = s.id
         /\ Metadata(s, c, m).phones = s.phones
         /\ Metadata(s, c, m).plugin = s.plugin
         /\ CacheFits(Metadata(s, c, m))
<1>0. m \in Messages /\ MaxCached \in Nat \ {0}
  BY LimitsAssumption DEF Envelopes
<1>1. CASE c \notin Plugins \/ (m.type # "hello" /\ m.kind \notin ReplayableKinds)
  <2>1. Metadata(s, c, m) = s
    BY <1>1 DEF Metadata
  <2> QED BY <2>1
<1>2. CASE c \in Plugins /\ m.type = "hello"
  <2>1. Metadata(s, c, m) = [s EXCEPT !.hello = m, !.cached = <<>>]
    BY <1>2 DEF Metadata
  <2>2. <<>> \in Seq(Messages)
    OBVIOUS
  <2>3. Metadata(s, c, m) = [id |-> s.id, token |-> s.token, plugin |-> s.plugin,
                             phones |-> s.phones, hello |-> m, cached |-> <<>>]
    BY <2>1 DEF Sessions
  <2>4. /\ Metadata(s, c, m) \in Sessions /\ Metadata(s, c, m).id = s.id
        /\ Metadata(s, c, m).phones = s.phones /\ Metadata(s, c, m).plugin = s.plugin
        /\ Metadata(s, c, m).cached = <<>>
    BY <1>0, <2>2, <2>3 DEF Sessions
  <2> QED BY <2>4, EmptyFits
<1>3. CASE c \in Plugins /\ m.type # "hello" /\ m.kind \in ReplayableKinds
  <2>1. m.type = "frame"
    BY <1>3 DEF Envelopes, ReplayableKinds
  <2>2. Metadata(s, c, m) = [s EXCEPT !.cached = Cached(@, m)]
    BY <1>3 DEF Metadata
  <2>3. s.cached \in Seq(Messages)
    BY DEF Sessions
  <2> DEFINE longer == Append(s.cached, m)
  <2>4. longer \in Seq(Messages) /\ Len(longer) = Len(s.cached) + 1
        /\ Len(longer) <= MaxCached + 1
    BY <1>0, <2>3 DEF CacheFits
  <2>5. \A n \in DOMAIN longer : longer[n].key = s.hello.key
    BY <1>3, <2>1, <2>3 DEF CacheFits
  <2>6. /\ Cached(s.cached, m) \in Seq(Messages)
        /\ Len(Cached(s.cached, m)) <= MaxCached
        /\ \A n \in DOMAIN Cached(s.cached, m) : Cached(s.cached, m)[n].key = s.hello.key
    <3> HIDE DEF longer
    <3>1. CASE Len(longer) > MaxCached
      <4>1. Cached(s.cached, m) = Tail(longer) /\ longer # <<>>
        BY <1>0, <2>4, <3>1 DEF Cached, longer
      <4>2. /\ Tail(longer) \in Seq(Messages) /\ Len(Tail(longer)) = Len(longer) - 1
            /\ \A n \in DOMAIN Tail(longer) : n + 1 \in DOMAIN longer /\ Tail(longer)[n] = longer[n + 1]
        BY <2>4, <4>1
      <4> QED BY <1>0, <2>4, <2>5, <4>1, <4>2
    <3>2. CASE ~(Len(longer) > MaxCached)
      <4>1. Cached(s.cached, m) = longer
        BY <3>2 DEF Cached, longer
      <4> QED BY <1>0, <2>4, <2>5, <3>2, <4>1
    <3> QED BY <3>1, <3>2
  <2>7. Metadata(s, c, m).cached = Cached(s.cached, m) /\ Metadata(s, c, m).hello = s.hello
        /\ s.hello # NoHello
    BY <1>3, <2>1, <2>2 DEF Sessions
  <2> QED BY <2>2, <2>6, <2>7 DEF Sessions, CacheFits
<1> QED BY <1>1, <1>2, <1>3

\* A phone enters only where there is room for it.
LEMMA RoomForPhone ==
  ASSUME NEW s \in Sessions, NEW c \in Phones, HasRoom(c, s)
  PROVE  PhonesFit([s EXCEPT !.phones = @ \cup {c}], shut)
<1> DEFINE here == s.phones \ shut
           then == (s.phones \cup {c}) \ shut
<1>1. here \subseteq Phones /\ IsFiniteSet(here)
  <2>1. here \subseteq Phones
    BY DEF Sessions
  <2> QED BY <2>1, PhonesAssumption, FS_Subset
<1>2. Cardinality(here) < MaxPhones /\ Cardinality(here) \in Nat
  BY <1>1, FS_CardinalityType DEF HasRoom, PhoneCount
<1>3. IsFiniteSet(here \cup {c}) /\ Cardinality(here \cup {c}) <= Cardinality(here) + 1
  <2> HIDE DEF here
  <2>1. /\ IsFiniteSet(here \cup {c})
        /\ Cardinality(here \cup {c}) = IF c \in here THEN Cardinality(here) ELSE Cardinality(here) + 1
    BY <1>1, FS_AddElement
  <2> QED BY <1>2, <2>1
<1>4. Cardinality(then) <= Cardinality(here \cup {c})
      /\ Cardinality(then) \in Nat /\ Cardinality(here \cup {c}) \in Nat
  <2>1. then \subseteq here \cup {c}
    OBVIOUS
  <2> QED BY <1>3, <2>1, FS_Subset, FS_CardinalityType
<1>5. [s EXCEPT !.phones = @ \cup {c}].phones = s.phones \cup {c}
  BY DEF Sessions
<1> QED BY <1>2, <1>3, <1>4, <1>5, LimitsAssumption DEF PhonesFit

(***************************************************************************)
(* What entering does, on session object o = ss[o]: the handler ends up on *)
(* that object, and a phone in its set of phones.                          *)
(***************************************************************************)
EnteredAs(r, c, o, ss) ==
  /\ session' = [ss EXCEPT ![o] = r]
  /\ r.id = ss[o].id
  /\ CacheFits(r) /\ PhonesFit(r, shut')
  /\ ss[o].phones \subseteq r.phones
  /\ r.plugin \in {ss[o].plugin, c}
  /\ at' = [at EXCEPT ![c] = o]
  /\ shut \subseteq shut' /\ shut' \subseteq Conns
  /\ old' \in [Conns -> Plugins \cup {NoConn}]
  /\ \/ c \in Plugins /\ pc' = [pc EXCEPT ![c] = "open"]
     \/ c \in Plugins /\ pc' = [pc EXCEPT ![c] = "replacing"]
     \/ c \in Phones /\ pc' = [pc EXCEPT ![c] = "replaying"] /\ c \in r.phones

\* Entering a session makes of it one that the invariant allows.
LEMMA EnterStep ==
  ASSUME NEW c \in Conns, NEW o \in Objects, NEW ss \in [Objects -> Sessions],
         HandlersOK, CacheFits(ss[o]), PhonesFit(ss[o], shut), Enter(c, o, ss)
  PROVE  \E r \in Sessions : EnteredAs(r, c, o, ss)
<1> DEFINE a == Admit(ss[o], c)
           tt == [ss EXCEPT ![o] = Admit(@, c)]
<1>1. /\ a \in Sessions /\ a.id = ss[o].id /\ a.phones = ss[o].phones
      /\ a.plugin = ss[o].plugin /\ CacheFits(a)
  BY AdmittedFits
<1>2. tt[o] = a /\ tt \in [Objects -> Sessions]
  BY <1>1
<1>3. PhonesFit(a, shut)
  BY <1>1 DEF PhonesFit
<1>4. at' = [at EXCEPT ![c] = o]
  BY DEF Enter
<1>5. EnterAsPlugin(c, o, tt) \/ EnterAsPhone(c, o, tt)
  BY DEF Enter
<1> HIDE DEF a
<1>6. CASE EnterAsPlugin(c, o, tt)
  <2>1. c \in Plugins
    BY <1>6 DEF EnterAsPlugin
  <2>2. CASE tt[o].plugin \in shut \cup {NoConn}
    <3> DEFINE b == [a EXCEPT !.plugin = c]
               r == ClearCached(b)
    <3>1. /\ session' = [tt EXCEPT ![o] = ClearCached([@ EXCEPT !.plugin = c])]
          /\ pc' = [pc EXCEPT ![c] = "open"] /\ UNCHANGED <<old, shut>>
      BY <1>6, <2>2 DEF EnterAsPlugin
    <3>2. b \in Sessions /\ b.id = a.id /\ b.phones = a.phones /\ b.plugin = c
      BY <1>1, <2>1, SlotFits
    <3> HIDE DEF b
    <3>3. /\ r \in Sessions /\ CacheFits(r) /\ r.id = a.id /\ r.phones = a.phones
          /\ r.plugin = c
      BY <3>2, ClearedFits
    <3>4. session' = [ss EXCEPT ![o] = r]
      BY <1>2, <3>1 DEF b
    <3> HIDE DEF r
    <3>5. PhonesFit(r, shut')
      BY <1>3, <3>1, <3>3 DEF PhonesFit
    <3> QED BY <1>1, <1>4, <2>1, <3>1, <3>3, <3>4, <3>5 DEF EnteredAs, HandlersOK
  <2>3. CASE tt[o].plugin \notin shut \cup {NoConn}
    <3>1. /\ old' = [old EXCEPT ![c] = tt[o].plugin]
          /\ shut' = shut \cup {tt[o].plugin}
          /\ session' = tt /\ pc' = [pc EXCEPT ![c] = "replacing"]
      BY <1>6, <2>3 DEF EnterAsPlugin
    <3>2. tt[o].plugin \in Plugins
      BY <1>2, <2>3 DEF Sessions
    <3>3. session' = [ss EXCEPT ![o] = a]
      BY <3>1 DEF a
    <3>4. PhonesFit(a, shut')
      BY <1>1, <1>3, <3>1, ClosingMakesRoom
    <3>5. old' \in [Conns -> Plugins \cup {NoConn}] /\ shut' \subseteq Conns
      BY <3>1, <3>2 DEF HandlersOK, Conns
    <3> QED BY <1>1, <1>4, <2>1, <3>1, <3>3, <3>4, <3>5 DEF EnteredAs
  <2> QED BY <2>2, <2>3
<1>7. CASE EnterAsPhone(c, o, tt)
  <2> DEFINE r == [a EXCEPT !.phones = @ \cup {c}]
  <2>1. /\ HasRoom(c, a) /\ c \in Phones
        /\ session' = [tt EXCEPT ![o].phones = @ \cup {c}]
        /\ pc' = [pc EXCEPT ![c] = "replaying"] /\ UNCHANGED <<old, shut>>
    BY <1>2, <1>7 DEF EnterAsPhone, HasRoom
  <2>2. /\ r \in Sessions /\ r.id = a.id /\ r.phones = a.phones \cup {c}
        /\ r.plugin = a.plugin /\ CacheFits(r)
    BY <1>1, <2>1 DEF Sessions, CacheFits
  <2>3. session' = [ss EXCEPT ![o] = r]
    BY <1>2, <2>1
  <2>4. PhonesFit(r, shut')
    BY <1>1, <2>1, RoomForPhone
  <2> HIDE DEF r
  <2> QED BY <1>1, <1>4, <2>1, <2>2, <2>3, <2>4 DEF EnteredAs, HandlersOK
<1> QED BY <1>5, <1>6, <1>7

-----------------------------------------------------------------------------
(* Every action keeps the invariant.                                       *)

\* No more objects are made than there are.
LEMMA Bounds == RelayInv => made \in 0..MaxObjects /\ MaxObjects \in Nat
  BY LimitsAssumption DEF RelayInv, SessionsOK

\* Connecting to a session that exists keeps the invariant.
LEMMA ConnectToSessionStep ==
  ASSUME RelayInv, NEW c \in Conns, NEW i \in Ids, ConnectToSession(c, i)
  PROVE  RelayInv'
<1> DEFINE o == sessions[i]
<1>1. o \in Objects /\ o <= made /\ made \in 0..MaxObjects /\ MaxObjects \in Nat
  BY LimitsAssumption DEF ConnectToSession, RelayInv, SessionsOK, Objects
<1>2. session[o].id \in Ids /\ CacheFits(session[o]) /\ PhonesFit(session[o], shut)
  BY <1>1 DEF RelayInv, SessionsOK
<1>3. PICK r \in Sessions : EnteredAs(r, c, o, session)
  BY <1>1, <1>2, EnterStep DEF ConnectToSession, RelayInv, SessionsOK
<1>4. /\ UNCHANGED <<sessions, made, sending, lost>> /\ idle' \subseteq Objects
  BY DEF ConnectToSession, RelayInv, SessionsOK
<1> HIDE DEF o
<1>5. PICK p \in {"replacing", "replaying", "open"} :
        /\ pc' = [pc EXCEPT ![c] = p] /\ (p = "replacing" => c \in Plugins)
        /\ (c \in Phones => c \in r.phones)
  BY <1>3, RolesAssumption DEF EnteredAs
<1>6. at' = [at EXCEPT ![c] = o] /\ at'[c] = o
  BY <1>3 DEF EnteredAs, RelayInv, HandlersOK
<1>7. sessions' \in [Ids -> 0..made'] /\ made' \in made..MaxObjects /\ lost' \subseteq Conns
      /\ sending' \in [Conns -> Deliveries]
  BY <1>1, <1>4 DEF RelayInv, SessionsOK, HandlersOK
<1>8. /\ session' = [session EXCEPT ![o] = r] /\ r.id \in Ids /\ CacheFits(r)
      /\ PhonesFit(r, shut') /\ session[o].phones \subseteq r.phones \cup {c}
      /\ shut \subseteq shut' /\ shut' \subseteq Conns
      /\ old' \in [Conns -> Plugins \cup {NoConn}]
  BY <1>2, <1>3 DEF EnteredAs
<1>9. Touches(c, p, o, r)
  BY <1>1, <1>4, <1>5, <1>6, <1>7, <1>8 DEF Touches
<1> QED BY <1>1, <1>3, <1>5, <1>9, ObjectStep DEF Places

\* Connecting to an identifier that is not in the table keeps the invariant.
LEMMA ConnectToNewSessionStep ==
  ASSUME RelayInv, NEW c \in Conns, NEW i \in Ids, ConnectToNewSession(c, i)
  PROVE  RelayInv'
<1> DEFINE o == made + 1
           ss == [session EXCEPT ![o] = NewSession(i)]
           s == NewSession(i)
<1>1. o \in Objects /\ made \in 0..MaxObjects /\ MaxObjects \in Nat
  BY LimitsAssumption DEF ConnectToNewSession, RelayInv, SessionsOK, Objects
<1>2. /\ s \in Sessions /\ CacheFits(s) /\ s.id = i /\ s.phones = {}
  BY NewFits
<1>3. PhonesFit(s, shut)
  <2>1. s.phones \ shut = {}
    BY <1>2
  <2> QED BY <2>1, FS_EmptySet, LimitsAssumption DEF PhonesFit
<1>4. ss \in [Objects -> Sessions] /\ ss[o] = s
  BY <1>1, <1>2 DEF RelayInv, SessionsOK
<1>5. session[o].phones = {}
  <2>1. session[o] = NewSession(NoConn)
    BY <1>1 DEF RelayInv, SessionsOK
  <2> QED BY <2>1, NewFits
<1>6. /\ made' = o /\ UNCHANGED <<idle, sending, lost>>
      /\ sessions' = [Cleaned(sessions, session) EXCEPT ![i] = o]
      /\ \/ Enter(c, o, ss)
         \/ /\ session' = ss /\ pc' = [pc EXCEPT ![c] = "done"]
            /\ UNCHANGED <<at, old, shut>>
  BY DEF ConnectToNewSession
<1>7. sessions' \in [Ids -> 0..made']
  <2>1. Cleaned(sessions, session) \in [Ids -> 0..made]
    BY <1>1, CleanedType DEF RelayInv, SessionsOK
  <2> QED BY <1>1, <1>6, <2>1
<1>8. /\ idle' \subseteq Objects /\ lost' \subseteq Conns /\ sending' \in [Conns -> Deliveries]
      /\ made' \in made..MaxObjects /\ o <= made' /\ made' <= made + 1
  BY <1>1, <1>6 DEF RelayInv, SessionsOK, HandlersOK, Objects
<1>9. CASE Enter(c, o, ss)
  <2>1. PICK r \in Sessions : EnteredAs(r, c, o, ss)
    BY <1>1, <1>2, <1>3, <1>4, <1>9, EnterStep DEF RelayInv
  <2>2. PICK p \in {"replacing", "replaying", "open"} :
          /\ pc' = [pc EXCEPT ![c] = p] /\ (p = "replacing" => c \in Plugins)
          /\ (c \in Phones => c \in r.phones)
    BY <2>1, RolesAssumption DEF EnteredAs
  <2>3. at' = [at EXCEPT ![c] = o] /\ at'[c] = o
    BY <2>1 DEF EnteredAs, RelayInv, HandlersOK
  <2>4. session' = [session EXCEPT ![o] = r] /\ r.id \in Ids
    BY <1>2, <1>4, <2>1 DEF EnteredAs
  <2> HIDE DEF o, ss, s
  <2>5. Touches(c, p, o, r)
    BY <1>1, <1>5, <1>6, <1>7, <1>8, <2>1, <2>2, <2>3, <2>4 DEF EnteredAs, Touches
  <2> QED BY <1>1, <2>1, <2>2, <2>5, ObjectStep DEF Places
<1>10. CASE session' = ss /\ pc' = [pc EXCEPT ![c] = "done"] /\ UNCHANGED <<at, old, shut>>
  <2>1. session' = [session EXCEPT ![o] = s] /\ PhonesFit(s, shut') /\ s.id \in Ids
    BY <1>2, <1>3, <1>10
  <2>2. old' \in [Conns -> Plugins \cup {NoConn}] /\ shut' \subseteq Conns
    BY <1>10 DEF RelayInv, HandlersOK
  <2> HIDE DEF o, ss, s
  <2>3. Touches(c, "done", o, s)
    BY <1>1, <1>2, <1>5, <1>6, <1>7, <1>8, <1>10, <2>1, <2>2 DEF Touches
  <2> QED BY <1>1, <1>2, <2>3, ObjectStep DEF Places
<1> QED BY <1>6, <1>9, <1>10

\* A handler at work is on an object of the table of objects.
LEMMA AtWork ==
  ASSUME RelayInv, NEW c \in Conns, pc[c] \in {"replacing", "replaying", "open"}
  PROVE  /\ at[c] \in Objects /\ at[c] <= made
         /\ session[at[c]] \in Sessions /\ session[at[c]].id \in Ids
         /\ CacheFits(session[at[c]]) /\ PhonesFit(session[at[c]], shut)
<1>1. at[c] \in Objects /\ at[c] <= made
  BY LimitsAssumption DEF RelayInv, SessionsOK, HandlersOK, Objects
<1> QED BY <1>1 DEF RelayInv, SessionsOK

\* A connection that is turned away keeps the invariant.
LEMMA ConnectRefusedStep ==
  ASSUME RelayInv, NEW c \in Conns, NEW i \in Ids, ConnectRefused(c, i)
  PROVE  RelayInv'
<1>1. /\ pc' = [pc EXCEPT ![c] = "done"] /\ UNCHANGED <<made, at, old, shut, lost, sending>>
      /\ pc[c] = "new"
  BY DEF ConnectRefused
<1>2. /\ old' \in [Conns -> Plugins \cup {NoConn}] /\ lost' \subseteq Conns
      /\ sending' \in [Conns -> Deliveries] /\ shut \subseteq shut' /\ shut' \subseteq Conns
      /\ pc' \in [Conns -> Places] /\ \A d \in Conns : Onward(d)
  BY <1>1 DEF RelayInv, HandlersOK, Places, Onward
<1>3. CASE UNCHANGED session
  <2>1. Cleaned(sessions, session) \in [Ids -> 0..made]
    BY Bounds, CleanedType DEF RelayInv, SessionsOK
  <2>2. sessions' \in [Ids -> 0..made] /\ idle' \subseteq Objects
    BY <2>1 DEF ConnectRefused, RelayInv, SessionsOK
  <2> QED BY <1>1, <1>2, <1>3, <2>2, QuietStep
<1>4. CASE /\ sessions[i] # 0
           /\ session' = [session EXCEPT ![sessions[i]] = Admit(@, c)]
           /\ idle' = idle \ {sessions[i]} /\ UNCHANGED sessions
  <2> DEFINE o == sessions[i]
             r == Admit(session[o], c)
  <2>1. o \in Objects /\ o <= made /\ made \in 0..MaxObjects /\ MaxObjects \in Nat
    BY <1>4, LimitsAssumption DEF RelayInv, SessionsOK, Objects
  <2>2. /\ session[o] \in Sessions /\ session[o].id \in Ids
        /\ CacheFits(session[o]) /\ PhonesFit(session[o], shut)
    BY <2>1 DEF RelayInv, SessionsOK
  <2>3. /\ r \in Sessions /\ r.id = session[o].id /\ r.phones = session[o].phones
        /\ CacheFits(r)
    BY <2>2, AdmittedFits
  <2>4. PhonesFit(r, shut')
    BY <1>1, <2>2, <2>3 DEF PhonesFit
  <2>5. /\ session' = [session EXCEPT ![o] = r] /\ idle' \subseteq Objects
        /\ sessions' \in [Ids -> 0..made'] /\ made' \in made..MaxObjects /\ made' = made
    BY <1>1, <1>4, <2>1 DEF RelayInv, SessionsOK
  <2> HIDE DEF o, r
  <2>6. Touches(c, "done", o, r)
    BY <1>1, <1>2, <2>1, <2>2, <2>3, <2>4, <2>5 DEF Touches
  <2> QED BY <2>1, <2>3, <2>6, ObjectStep DEF Places
<1> QED BY <1>3, <1>4 DEF ConnectRefused

\* Closing the plugin whose place was taken keeps the invariant.
LEMMA ReplacePluginStep ==
  ASSUME RelayInv, NEW c \in Conns, ReplacePlugin(c)
  PROVE  RelayInv'
<1> DEFINE o == at[c]
           b == [session[o] EXCEPT !.plugin = c]
           r == ClearCached(b)
<1>1. /\ pc[c] = "replacing" /\ c \in Plugins
      /\ session' = [session EXCEPT ![o] = r]
      /\ pc' = [pc EXCEPT ![c] = "open"]
      /\ old' = [old EXCEPT ![c] = NoConn]
      /\ UNCHANGED <<sessions, made, idle, at, sending, shut, lost>>
  BY DEF ReplacePlugin, RelayInv, HandlersOK
<1>2. /\ o \in Objects /\ o <= made /\ session[o] \in Sessions /\ session[o].id \in Ids
      /\ PhonesFit(session[o], shut)
  BY <1>1, AtWork
<1>3. b \in Sessions /\ b.id = session[o].id /\ b.phones = session[o].phones
  BY <1>1, <1>2, SlotFits
<1> HIDE DEF b
<1>4. r \in Sessions /\ CacheFits(r) /\ r.id \in Ids /\ r.phones = session[o].phones
  BY <1>2, <1>3, ClearedFits
<1>5. PhonesFit(r, shut')
  BY <1>1, <1>2, <1>4 DEF PhonesFit
<1>6. /\ made' = made /\ made' \in made..MaxObjects /\ sessions' \in [Ids -> 0..made']
      /\ idle' \subseteq Objects /\ lost' \subseteq Conns /\ sending' \in [Conns -> Deliveries]
      /\ shut \subseteq shut' /\ shut' \subseteq Conns
      /\ old' \in [Conns -> Plugins \cup {NoConn}]
  BY <1>1, Bounds DEF RelayInv, SessionsOK, HandlersOK
<1>7. at' = at /\ at'[c] = o /\ c \notin Phones /\ made \in Nat
  BY <1>1, Bounds, RolesAssumption
<1> HIDE DEF o, r
<1>8. Touches(c, "open", o, r)
  BY <1>1, <1>2, <1>4, <1>5, <1>6, <1>7 DEF Touches
<1> QED BY <1>2, <1>4, <1>8, ObjectStep DEF Places

\* Reading one message of a client keeps the invariant.
LEMMA ReceiveStep ==
  ASSUME RelayInv, NEW c \in Conns, NEW m \in Envelopes, Receive(c, m)
  PROVE  RelayInv'
<1> DEFINE o == at[c]
           r == Metadata(session[o], c, m)
<1>1. /\ pc[c] = "open" /\ Valid(c, m)
      /\ session' = [session EXCEPT ![o] = r]
      /\ sending' = IF Targets(session[o], c) = {} THEN sending
                    ELSE [sending EXCEPT ![c] =
                            [msg |-> m, to |-> Targets(session[o], c), failed |-> {}]]
      /\ idle' = idle \ {o}
      /\ UNCHANGED <<sessions, made, pc, at, old, shut, lost>>
  BY DEF Receive, Awaiting
<1>2. /\ o \in Objects /\ o <= made /\ session[o] \in Sessions /\ session[o].id \in Ids
      /\ CacheFits(session[o]) /\ PhonesFit(session[o], shut)
  BY <1>1, AtWork
<1>3. (m.type = "frame" /\ c \in Plugins)
        => session[o].hello # NoHello /\ m.key = session[o].hello.key
  BY <1>1, RolesAssumption DEF Valid
<1>4. /\ r \in Sessions /\ CacheFits(r) /\ r.id \in Ids /\ r.phones = session[o].phones
  BY <1>2, <1>3, RecordedFits
<1>5. PhonesFit(r, shut')
  BY <1>1, <1>2, <1>4 DEF PhonesFit
<1>6. sending' \in [Conns -> Deliveries]
  <2>1. Targets(session[o], c) \subseteq Conns
    BY <1>2 DEF Targets, Sessions, Conns
  <2>2. m \in Messages
    BY DEF Envelopes
  <2> QED BY <1>1, <2>1, <2>2 DEF Deliveries, RelayInv, HandlersOK
<1>7. /\ made' = made /\ made' \in made..MaxObjects /\ sessions' \in [Ids -> 0..made']
      /\ idle' \subseteq Objects /\ lost' \subseteq Conns
      /\ shut \subseteq shut' /\ shut' \subseteq Conns
      /\ old' \in [Conns -> Plugins \cup {NoConn}]
  BY <1>1, Bounds DEF RelayInv, SessionsOK, HandlersOK
<1>8. /\ at' = at /\ at'[c] = o /\ made \in Nat /\ pc' = [pc EXCEPT ![c] = "open"]
      /\ (c \in Phones => c \in r.phones \/ c \in shut')
  BY <1>1, <1>4, Bounds DEF RelayInv, HandlersOK, Connected
<1> HIDE DEF o, r
<1>9. Touches(c, "open", o, r)
  <2>1. session' = [session EXCEPT ![o] = r] /\ session[o].phones \subseteq r.phones \cup {c}
    BY <1>1, <1>4
  <2> QED BY <1>2, <1>4, <1>5, <1>6, <1>7, <1>8, <2>1 DEF Touches
<1> QED BY <1>2, <1>4, <1>9, ObjectStep DEF Places

\* The end of a handler, with its clean-up, keeps the invariant.
LEMMA FinishStep ==
  ASSUME RelayInv, NEW c \in Conns, Finish(c)
  PROVE  RelayInv'
<1> DEFINE o == at[c]
           r == Leave(c, session[o])
<1>1. /\ pc[c] = "open"
      /\ session' = [session EXCEPT ![o] = r]
      /\ sessions' = Cleaned(sessions, session')
      /\ pc' = [pc EXCEPT ![c] = "done"] /\ shut' = shut \cup {c}
      /\ UNCHANGED <<made, idle, at, old, sending, lost>>
  BY DEF Finish
<1>2. /\ o \in Objects /\ o <= made /\ session[o] \in Sessions /\ session[o].id \in Ids
      /\ CacheFits(session[o]) /\ PhonesFit(session[o], shut)
  BY <1>1, AtWork
<1>3. /\ r \in Sessions /\ CacheFits(r) /\ r.id \in Ids
      /\ r.phones \subseteq session[o].phones /\ session[o].phones \subseteq r.phones \cup {c}
  BY <1>2, LeftFits
<1>4. PhonesFit(r, shut')
  <2>1. PhonesFit(session[o], shut')
    BY <1>1, <1>2, ClosingMakesRoom
  <2>2. r.phones \ shut' = session[o].phones \ shut'
    BY <1>1, <1>3
  <2> QED BY <2>1, <2>2 DEF PhonesFit
<1>5. sessions' \in [Ids -> 0..made']
  BY <1>1, Bounds, CleanedType DEF RelayInv, SessionsOK
<1>6. /\ made' = made /\ made' \in made..MaxObjects /\ made \in Nat
      /\ idle' \subseteq Objects /\ lost' \subseteq Conns /\ sending' \in [Conns -> Deliveries]
      /\ shut \subseteq shut' /\ shut' \subseteq Conns /\ at' = at
      /\ old' \in [Conns -> Plugins \cup {NoConn}]
  BY <1>1, Bounds DEF RelayInv, SessionsOK, HandlersOK
<1> HIDE DEF o, r
<1>7. Touches(c, "done", o, r)
  <2>1. session' = [session EXCEPT ![o] = r] /\ pc' = [pc EXCEPT ![c] = "done"]
    BY <1>1
  <2> QED BY <1>2, <1>3, <1>4, <1>5, <1>6, <2>1 DEF Touches
<1> QED BY <1>2, <1>3, <1>7, ObjectStep DEF Places

\* The parts of the invariant that quiet steps mostly leave as they are.
LEMMA Typed ==
  ASSUME RelayInv
  PROVE  /\ sessions \in [Ids -> 0..made] /\ idle \subseteq Objects
         /\ pc \in [Conns -> Places] /\ shut \subseteq Conns /\ lost \subseteq Conns
         /\ sending \in [Conns -> Deliveries]
  BY DEF RelayInv, SessionsOK, HandlersOK

\* Replaying the cache to a phone keeps the invariant, whether it is sent or
\* fails.
LEMMA ReplayStep ==
  ASSUME RelayInv, NEW c \in Conns, ReplayNext(c) \/ ReplayFails(c)
  PROVE  RelayInv'
<1>1. /\ UNCHANGED <<session, made, at, old, sessions, idle, shut, lost, sending>>
      /\ pc[c] = "replaying"
      /\ pc' = pc \/ pc' = [pc EXCEPT ![c] = "open"] \/ pc' = [pc EXCEPT ![c] = "done"]
  BY DEF ReplayNext, ReplayFails
<1>2. pc' \in [Conns -> Places] /\ \A d \in Conns : Onward(d)
  BY <1>1, Typed DEF Places, Onward
<1> QED BY <1>1, <1>2, Typed, QuietStep

\* Forwarding a message keeps the invariant, whether it is sent or fails.
LEMMA SendStep ==
  ASSUME RelayInv, NEW c \in Conns, NEW t \in Conns, Forward(c, t) \/ ForwardFails(c, t)
  PROVE  RelayInv'
<1> DEFINE s == sending[c]
<1>1. UNCHANGED <<session, made, at, old, sessions, idle, pc, shut, lost>>
  BY DEF Forward, ForwardFails
<1>2. s \in Deliveries /\ NothingToSend \in Deliveries
  BY Typed DEF Deliveries, NothingToSend
<1>3. /\ [s EXCEPT !.to = @ \ {t}] \in Deliveries
      /\ [s EXCEPT !.to = @ \ {t}, !.failed = @ \cup {t}] \in Deliveries
  BY <1>2 DEF Deliveries
<1>4. \E r \in Deliveries : sending' = [sending EXCEPT ![c] = r]
  <2>1. CASE Forward(c, t)
    <3> DEFINE r == IF s.to = {t} /\ s.failed = {} THEN NothingToSend
                    ELSE [s EXCEPT !.to = @ \ {t}]
    <3>1. sending' = [sending EXCEPT ![c] = r]
      BY <2>1 DEF Forward
    <3>2. r \in Deliveries
      BY <1>2, <1>3
    <3> QED BY <3>1, <3>2
  <2>2. CASE ForwardFails(c, t)
    <3>1. sending' = [sending EXCEPT ![c] = [s EXCEPT !.to = @ \ {t}, !.failed = @ \cup {t}]]
      BY <2>2 DEF ForwardFails
    <3> QED BY <1>3, <3>1
  <2> QED BY <2>1, <2>2
<1>5. sending' \in [Conns -> Deliveries]
  BY <1>4, Typed
<1>6. \A d \in Conns : Onward(d)
  BY <1>1 DEF Onward
<1> QED BY <1>1, <1>5, <1>6, Typed, QuietStep

\* A socket that is closed, by whichever side, keeps the invariant.
LEMMA CloseStep ==
  ASSUME RelayInv, NEW c \in Conns,
         CloseFailed(c) \/ HeartbeatFails(c) \/ ClientVanish(c) \/ \E m \in Envelopes : Reject(c, m)
  PROVE  RelayInv'
<1>1. UNCHANGED <<session, made, at, old, sessions, pc>>
  BY DEF CloseFailed, HeartbeatFails, ClientVanish, Reject
<1>2. idle' \subseteq Objects
  BY Typed DEF CloseFailed, HeartbeatFails, ClientVanish, Reject
<1>3. shut \subseteq shut' /\ shut' \subseteq Conns /\ lost' \subseteq Conns
  <2>1. sending[c].failed \subseteq Conns
    BY Typed DEF Deliveries
  <2> QED BY <2>1, Typed DEF CloseFailed, HeartbeatFails, ClientVanish, Reject
<1>4. sending' \in [Conns -> Deliveries]
  <2>1. NothingToSend \in Deliveries
    BY DEF Deliveries, NothingToSend
  <2>2. sending' = sending \/ sending' = [sending EXCEPT ![c] = NothingToSend]
    BY DEF CloseFailed, HeartbeatFails, ClientVanish, Reject
  <2> QED BY <2>1, <2>2, Typed
<1>5. \A d \in Conns : Onward(d)
  BY <1>1 DEF Onward
<1> QED BY <1>1, <1>2, <1>3, <1>4, <1>5, Typed, QuietStep

\* The sweeper and the passing of time keep the invariant.
LEMMA TableStep ==
  ASSUME RelayInv, Sweep \/ \E o \in Objects : GrowIdle(o)
  PROVE  RelayInv'
<1>1. UNCHANGED <<session, made, at, old, pc, sending, shut, lost>>
  BY DEF Sweep, GrowIdle
<1>2. sessions' \in [Ids -> 0..made] /\ idle' \subseteq Objects
  BY Typed, Bounds, CleanedType DEF Sweep, GrowIdle
<1>3. \A d \in Conns : Onward(d)
  BY <1>1 DEF Onward
<1> QED BY <1>1, <1>2, <1>3, Typed, QuietStep

\* Every step keeps the strengthened invariant.
LEMMA RelayStep == RelayInv /\ [OpenNext]_relayVars => RelayInv'
<1> SUFFICES ASSUME RelayInv, [OpenNext]_relayVars PROVE RelayInv'
  OBVIOUS
<1>1. CASE UNCHANGED relayVars
  <2>1. \A d \in Conns : Onward(d)
    BY <1>1 DEF Onward, relayVars
  <2> QED BY <1>1, <2>1, Typed, QuietStep DEF relayVars
<1>2. CASE Server
  BY <1>2, ConnectToSessionStep, ConnectToNewSessionStep, ConnectRefusedStep,
     ReplacePluginStep, ReplayStep, SendStep, CloseStep, FinishStep, TableStep DEF Server
<1>3. CASE Clients
  BY <1>3, ReceiveStep, CloseStep DEF Clients
<1> QED BY <1>1, <1>2, <1>3 DEF OpenNext

-----------------------------------------------------------------------------
(***************************************************************************)
(* Whatever its clients do, the relay's sessions, handlers and cache agree *)
(* (relay.py 198-335, 464-631).                                            *)
(***************************************************************************)
THEOREM RelayInductive == OpenSpec => []RelayInv
  BY RelayInitInv, RelayStep, PTL DEF OpenSpec

(***************************************************************************)
(* The relay is type correct.                                              *)
(***************************************************************************)
THEOREM RelayTypeCorrect == OpenSpec => []RelayTypeOK
<1>1. RelayInv => RelayTypeOK
  BY InvImplies
<1> QED BY RelayInductive, <1>1, PTL

(***************************************************************************)
(* What the relay replays to a phone that joins was all sent under the     *)
(* hello it replays first (relay.py 249-258, 642-661).                     *)
(***************************************************************************)
THEOREM CacheIsOfOneHello == OpenSpec => []CacheBelongsToHello
<1>1. RelayInv => CacheBelongsToHello
  BY InvImplies
<1> QED BY RelayInductive, <1>1, PTL

(***************************************************************************)
(* No session serves more phones than it may (relay.py 489-505).           *)
(***************************************************************************)
THEOREM PhonesAreBounded == OpenSpec => []PhonesBounded
<1>1. RelayInv => PhonesBounded
  BY InvImplies
<1> QED BY RelayInductive, <1>1, PTL

\* A step empties the plugin slot of an object only in the finally block of
\* the plugin that holds it.
LEMMA SlotStep ==
  ASSUME RelayInv, OpenNext, NEW o \in Objects,
         session[o].plugin # NoConn, session'[o].plugin = NoConn
  PROVE  pc'[session[o].plugin] = "done"
<1>1. \A x \in Objects : session[x] \in Sessions
  BY DEF RelayInv, SessionsOK
<1>2. ASSUME NEW c \in Conns, NEW i \in Ids, ConnectToSession(c, i) PROVE FALSE
  <2>1. sessions[i] \in Objects
    BY <1>2, Bounds DEF ConnectToSession, RelayInv, SessionsOK, Objects
  <2>2. PICK r \in Sessions : EnteredAs(r, c, sessions[i], session)
    BY <1>2, <2>1, EnterStep DEF ConnectToSession, RelayInv, SessionsOK
  <2>3. r.plugin \in {session[sessions[i]].plugin, c} /\ session' = [session EXCEPT ![sessions[i]] = r]
    BY <2>2 DEF EnteredAs
  <2> QED BY <2>1, <2>3, RolesAssumption DEF RelayInv, SessionsOK
<1>3. ASSUME NEW c \in Conns, NEW i \in Ids, ConnectToNewSession(c, i) PROVE FALSE
  <2> DEFINE n == made + 1
             ss == [session EXCEPT ![n] = NewSession(i)]
  <2>1. n \in Objects /\ session[n] = NewSession(NoConn)
    BY <1>3, Bounds DEF ConnectToNewSession, RelayInv, SessionsOK, Objects
  <2>2. session[n].plugin = NoConn /\ NewSession(i) \in Sessions /\ CacheFits(NewSession(i))
        /\ NewSession(i).phones = {}
    BY <2>1, NewFits
  <2>3. ss \in [Objects -> Sessions] /\ ss[n] = NewSession(i) /\ PhonesFit(ss[n], shut)
    <3>1. ss \in [Objects -> Sessions] /\ ss[n] = NewSession(i)
      BY <2>1, <2>2 DEF RelayInv, SessionsOK
    <3>2. ss[n].phones \ shut = {}
      BY <2>2, <3>1
    <3> QED BY <3>1, <3>2, FS_EmptySet, LimitsAssumption DEF PhonesFit
  <2>4. \A x \in Objects : x # n => session'[x] = session[x]
    <3>1. Enter(c, n, ss) \/ session' = ss
      BY <1>3 DEF ConnectToNewSession
    <3>2. CASE session' = ss
      BY <3>2 DEF RelayInv, SessionsOK
    <3>3. CASE Enter(c, n, ss)
      <4>1. PICK r \in Sessions : EnteredAs(r, c, n, ss)
        BY <2>1, <2>2, <2>3, <3>3, EnterStep DEF RelayInv
      <4>2. session' = [ss EXCEPT ![n] = r]
        BY <4>1 DEF EnteredAs
      <4> QED BY <4>2 DEF RelayInv, SessionsOK
    <3> QED BY <3>1, <3>2, <3>3
  <2> QED BY <2>2, <2>4
<1>4. ASSUME NEW c \in Conns, NEW i \in Ids, ConnectRefused(c, i) PROVE FALSE
  <2>1. session' = session
        \/ (sessions[i] # 0 /\ session' = [session EXCEPT ![sessions[i]] = Admit(@, c)])
    BY <1>4 DEF ConnectRefused
  <2>2. \A x \in Objects : Admit(session[x], c).plugin = session[x].plugin
    BY <1>1 DEF Admit, Sessions
  <2>3. sessions[i] # 0 => sessions[i] \in Objects
    BY Bounds DEF RelayInv, SessionsOK, Objects
  <2> QED BY <2>1, <2>2, <2>3 DEF RelayInv, SessionsOK
<1>5. ASSUME NEW c \in Conns, ReplacePlugin(c) PROVE FALSE
  <2>1. c \in Plugins /\ at[c] \in Objects
    BY <1>5, AtWork DEF ReplacePlugin, RelayInv, HandlersOK
  <2> DEFINE b == [session[at[c]] EXCEPT !.plugin = c]
  <2>2. session' = [session EXCEPT ![at[c]] = ClearCached(b)]
    BY <1>5 DEF ReplacePlugin
  <2>3. b \in Sessions /\ b.plugin = c
    BY <1>1, <2>1, SlotFits
  <2> HIDE DEF b
  <2>4. ClearCached(b).plugin = c
    BY <2>3, ClearedFits
  <2> QED BY <2>1, <2>2, <2>4, RolesAssumption DEF RelayInv, SessionsOK, Conns
<1>6. ASSUME NEW c \in Conns, NEW m \in Envelopes, Receive(c, m) PROVE FALSE
  <2>1. at[c] \in Objects
    BY <1>6, AtWork DEF Receive, Awaiting
  <2>2. session' = [session EXCEPT ![at[c]] = Metadata(session[at[c]], c, m)]
    BY <1>6 DEF Receive
  <2>3. Metadata(session[at[c]], c, m).plugin = session[at[c]].plugin
    BY <1>1, <2>1 DEF Metadata, Sessions
  <2> QED BY <2>1, <2>2, <2>3 DEF RelayInv, SessionsOK
<1>7. ASSUME NEW c \in Conns, Finish(c) PROVE pc'[session[o].plugin] = "done"
  <2>1. at[c] \in Objects
    BY <1>7, AtWork DEF Finish
  <2>2. /\ session' = [session EXCEPT ![at[c]] = Leave(c, @)]
        /\ pc' = [pc EXCEPT ![c] = "done"]
    BY <1>7 DEF Finish
  <2>3. session[at[c]].plugin # c => Leave(c, session[at[c]]).plugin = session[at[c]].plugin
    BY <1>1, <2>1 DEF Leave, Sessions
  <2>4. session[o].plugin = c
    BY <2>1, <2>2, <2>3 DEF RelayInv, SessionsOK
  <2> QED BY <2>2, <2>4 DEF RelayInv, HandlersOK
<1>8. CASE UNCHANGED session
  BY <1>8
<1>9. CASE Server
  BY <1>2, <1>3, <1>4, <1>5, <1>7, <1>8, <1>9
  DEF Server, ReplayNext, ReplayFails, CloseFailed, HeartbeatFails, Forward, ForwardFails,
      Sweep, GrowIdle
<1>10. CASE Clients
  BY <1>6, <1>8, <1>10 DEF Clients, ClientVanish, Reject
<1> QED BY <1>9, <1>10 DEF OpenNext

(***************************************************************************)
(* Only the end of the plugin in a session's slot empties the slot, so the *)
(* late end of a replaced plugin never disconnects its successor           *)
(* (relay.py 556-560).                                                     *)
(***************************************************************************)
THEOREM SlotsAreReleasedByOwners == OpenSpec => SlotReleasedByOwner
<1>1. RelayInv /\ [OpenNext]_relayVars =>
        [\A o \in Objects :
           (session[o].plugin # NoConn /\ session'[o].plugin = NoConn)
             => pc'[session[o].plugin] = "done"]_relayVars
  BY SlotStep
<1> QED BY RelayInductive, <1>1, PTL DEF OpenSpec, SlotReleasedByOwner

-----------------------------------------------------------------------------
(* That a phone learns of a key before it gets a frame under it.  It takes *)
(* plugins that keep to their own keys: two of them may be open in a       *)
(* session at once (one that comes while another waits for the old plugin  *)
(* to close need not wait), and a frame that one sends under the other's   *)
(* key may overtake the hello.                                             *)

\* The hello that offers k is being sent by plugin d.
Announcing(d, k) == Busy(d) /\ sending[d].msg.type = "hello" /\ sending[d].msg.key = k

\* Plugins encrypt with keys of their own: with none that is being announced.
KeepsToOwnKeys(c, m) ==
  c \in Plugins /\ m.type = "frame" => \A d \in Plugins : ~Announcing(d, m.key)

HonestClients ==
  \E c \in Conns :
    \/ ClientVanish(c)
    \/ \E m \in Envelopes : (Receive(c, m) /\ KeepsToOwnKeys(c, m)) \/ Reject(c, m)

HonestNext == Server \/ HonestClients

HonestSpec == RelayInit /\ [][HonestNext]_relayVars

-----------------------------------------------------------------------------
\* The key is announced in outbox u.
Announced(u, k) == \E n \in DOMAIN u : u[n].type = "hello" /\ u[n].key = k

\* HelloBeforeFrames of one outbox.
InOrder(u) ==
  \A n \in DOMAIN u : u[n].type = "frame" =>
    \E m \in 1..(n - 1) : u[m].type = "hello" /\ u[m].key = u[n].key

\* A plugin has yet to send t the hello, or the relay is about to close t
\* because it could not.
OnItsWay(t, k) ==
  \E d \in Plugins :
    /\ sending[d].msg.type = "hello" /\ sending[d].msg.key = k
    /\ t \in sending[d].to \cup sending[d].failed

Outgoing == Messages \cup {NoHello, Rejection}

OutboxInv ==
  /\ outbox \in [Conns -> Seq(Outgoing)]
  /\ \A t \in Phones : InOrder(outbox[t])

\* The phones of a session know of its key, or will before anything is sent
\* under it.
PhonesInv ==
  \A o \in Objects : session[o].hello # NoHello =>
    /\ session[o].hello.type = "hello"
    /\ \A t \in session[o].phones \ shut :
         \/ Announced(outbox[t], session[o].hello.key)
         \/ OnItsWay(t, session[o].hello.key)

\* What is still to be sent to a phone can be sent at any time.
ReplayInv ==
  /\ backlog \in [Conns -> Seq(Messages)]
  /\ \A t \in Phones : \A n \in DOMAIN backlog[t] : Announced(outbox[t], backlog[t][n].key)

LiveInv ==
  \A c \in Conns : \A t \in sending[c].to \cap Phones :
    sending[c].msg.type = "frame" => Announced(outbox[t], sending[c].msg.key)

KInv == OutboxInv /\ PhonesInv /\ ReplayInv /\ LiveInv

-----------------------------------------------------------------------------
(* Outboxes only grow.                                                     *)

\* One more message keeps the order if it is no frame of an unknown key.
LEMMA OneMore ==
  ASSUME NEW S, NEW u \in Seq(S), NEW m \in S, InOrder(u),
         m.type = "frame" => Announced(u, m.key)
  PROVE  /\ InOrder(Append(u, m)) /\ Append(u, m) \in Seq(S)
         /\ \A k : Announced(u, k) => Announced(Append(u, m), k)
         /\ m.type = "hello" => Announced(Append(u, m), m.key)
<1> DEFINE v == Append(u, m)
<1>1. /\ v \in Seq(S) /\ Len(v) = Len(u) + 1 /\ Len(u) \in Nat
      /\ DOMAIN u = 1..Len(u) /\ DOMAIN v = 1..(Len(u) + 1)
      /\ v[Len(u) + 1] = m /\ \A n \in 1..Len(u) : v[n] = u[n]
  OBVIOUS
<1> HIDE DEF v
<1>2. \A k : Announced(u, k) => Announced(v, k)
  BY <1>1 DEF Announced
<1>3. m.type = "hello" => Announced(v, m.key)
  BY <1>1 DEF Announced
<1>4. ASSUME NEW n \in DOMAIN v, v[n].type = "frame"
      PROVE  \E j \in 1..(n - 1) : v[j].type = "hello" /\ v[j].key = v[n].key
  <2>1. CASE n \in 1..Len(u)
    <3>1. PICK j \in 1..(n - 1) : u[j].type = "hello" /\ u[j].key = u[n].key
      BY <1>1, <1>4, <2>1 DEF InOrder
    <3> QED BY <1>1, <2>1, <3>1
  <2>2. CASE n = Len(u) + 1
    BY <1>1, <1>4, <2>2 DEF Announced
  <2> QED BY <1>1, <2>1, <2>2
<1>5. InOrder(v)
  BY <1>4 DEF InOrder
<1> QED BY <1>1, <1>2, <1>3, <1>5 DEF v

\* What a step may append to the outbox of t.
Sends(t, m) ==
  /\ outbox' = [outbox EXCEPT ![t] = Append(@, m)]
  /\ m \in Outgoing
  /\ t \in Phones /\ m.type = "frame" => Announced(outbox[t], m.key)

\* What has been announced stays announced.
Grows == \A t \in Phones : \A k : Announced(outbox[t], k) => Announced(outbox'[t], k)

\* Sending a message keeps the order of every phone's outbox.
LEMMA SendingKeeps ==
  ASSUME OutboxInv, NEW t \in Conns, NEW m, Sends(t, m)
  PROVE  /\ OutboxInv' /\ Grows
         /\ t \in Phones /\ m.type = "hello" => Announced(outbox'[t], m.key)
<1> USE DEF Sends
<1>1. outbox[t] \in Seq(Outgoing)
  BY DEF OutboxInv
<1>2. outbox'[t] = Append(outbox[t], m) /\ \A x \in Conns : x # t => outbox'[x] = outbox[x]
  BY DEF OutboxInv
<1>3. Append(outbox[t], m) \in Seq(Outgoing)
  BY <1>1
<1>4. outbox' \in [Conns -> Seq(Outgoing)]
  BY <1>3 DEF OutboxInv
<1>5. t \in Phones => /\ InOrder(outbox'[t])
                      /\ \A k : Announced(outbox[t], k) => Announced(outbox'[t], k)
                      /\ m.type = "hello" => Announced(outbox'[t], m.key)
  BY <1>1, <1>2, OneMore DEF OutboxInv
<1>6. \A x \in Phones : InOrder(outbox'[x])
  BY <1>2, <1>5 DEF OutboxInv, Conns
<1>7. Grows
  BY <1>2, <1>5 DEF Grows, Conns
<1> QED BY <1>4, <1>5, <1>6, <1>7 DEF OutboxInv

\* So does sending none.
LEMMA SilenceKeeps ==
  ASSUME OutboxInv, UNCHANGED outbox
  PROVE  OutboxInv' /\ Grows
BY DEF OutboxInv, Grows

-----------------------------------------------------------------------------
(* The parts of the invariant, one at a time.                              *)

\* A key that is on its way stays so until it is announced or t is closed.
StaysOnItsWay ==
  \A t \in Phones : \A k :
    OnItsWay(t, k) => OnItsWay(t, k)' \/ Announced(outbox'[t], k) \/ t \in shut'

\* Deliveries that go on, have arrived or end with a closed peer do that.
LEMMA DeliveriesStay ==
  ASSUME \A d \in Plugins : \A t \in Phones :
           /\ sending[d].msg.type = "hello"
           /\ t \in sending[d].to \cup sending[d].failed
           => \/ /\ sending'[d].msg = sending[d].msg
                 /\ t \in sending'[d].to \cup sending'[d].failed
              \/ Announced(outbox'[t], sending[d].msg.key)
              \/ t \in shut'
  PROVE  StaysOnItsWay
<1> SUFFICES ASSUME NEW t \in Phones, NEW k, OnItsWay(t, k)
             PROVE  OnItsWay(t, k)' \/ Announced(outbox'[t], k) \/ t \in shut'
  BY DEF StaysOnItsWay
<1>1. PICK d \in Plugins : /\ sending[d].msg.type = "hello" /\ sending[d].msg.key = k
                           /\ t \in sending[d].to \cup sending[d].failed
  BY DEF OnItsWay
<1>2. CASE sending'[d].msg = sending[d].msg /\ t \in sending'[d].to \cup sending'[d].failed
  BY <1>1, <1>2 DEF OnItsWay
<1> QED BY <1>1, <1>2

\* Session object o has no hello any more, or the phones it gains know it.
KeepsHello(o) ==
  \/ session'[o].hello = NoHello
  \/ /\ session'[o].hello = session[o].hello
     /\ \A t \in session'[o].phones :
          \/ t \in session[o].phones
          \/ session[o].hello # NoHello => Announced(outbox'[t], session[o].hello.key)

\* Where hellos go as they must, the phones know their keys.
LEMMA PhonesKeep ==
  ASSUME RelayInv, PhonesInv, Grows, StaysOnItsWay, shut \subseteq shut',
         \A o \in Objects : KeepsHello(o)
  PROVE  PhonesInv'
<1> SUFFICES ASSUME NEW o \in Objects, session'[o].hello # NoHello
             PROVE  /\ session'[o].hello.type = "hello"
                    /\ \A t \in session'[o].phones \ shut' :
                         \/ Announced(outbox'[t], session'[o].hello.key)
                         \/ OnItsWay(t, session[o].hello.key)'
  BY DEF PhonesInv
<1>1. session[o].phones \subseteq Phones
  BY DEF RelayInv, SessionsOK, Sessions
<1>2. session'[o].hello = session[o].hello /\ session[o].hello # NoHello
  BY DEF KeepsHello
<1>3. session'[o].hello.type = "hello"
  BY <1>2 DEF PhonesInv
<1>4. ASSUME NEW t \in session'[o].phones \ shut'
      PROVE  \/ Announced(outbox'[t], session'[o].hello.key)
             \/ OnItsWay(t, session[o].hello.key)'
  <2>1. PICK k : k = session[o].hello.key
    OBVIOUS
  <2>2. CASE t \notin session[o].phones
    BY <1>2, <1>4, <2>2 DEF KeepsHello
  <2>3. CASE t \in session[o].phones
    <3>1. t \in Phones /\ t \notin shut
      BY <1>1, <1>4, <2>3
    <3>2. Announced(outbox[t], k) \/ OnItsWay(t, k)
      BY <1>2, <2>1, <2>3, <3>1 DEF PhonesInv
    <3>3. Announced(outbox'[t], k) \/ OnItsWay(t, k)'
      BY <1>4, <3>1, <3>2 DEF Grows, StaysOnItsWay
    <3> QED BY <1>2, <2>1, <3>3 DEF OnItsWay
  <2> QED BY <2>2, <2>3
<1> QED BY <1>3, <1>4

\* What is left to replay can still be sent.
LEMMA ReplayKeeps ==
  ASSUME ReplayInv, Grows,
         \/ UNCHANGED backlog
         \/ \E c \in Conns : backlog[c] # <<>> /\ backlog' = [backlog EXCEPT ![c] = Tail(@)]
         \/ \E c \in Conns : backlog' = [backlog EXCEPT ![c] = <<>>]
  PROVE  ReplayInv'
<1>1. CASE UNCHANGED backlog
  BY <1>1 DEF ReplayInv, Grows
<1>2. ASSUME NEW c \in Conns, backlog[c] # <<>>, backlog' = [backlog EXCEPT ![c] = Tail(@)]
      PROVE  ReplayInv'
  <2>1. backlog[c] \in Seq(Messages) /\ Tail(backlog[c]) \in Seq(Messages)
    BY <1>2 DEF ReplayInv
  <2>2. backlog' \in [Conns -> Seq(Messages)]
    BY <1>2, <2>1 DEF ReplayInv
  <2>3. \A n \in DOMAIN Tail(backlog[c]) :
          n + 1 \in DOMAIN backlog[c] /\ Tail(backlog[c])[n] = backlog[c][n + 1]
    BY <1>2, <2>1
  <2>4. \A t \in Phones : \A n \in DOMAIN backlog'[t] : Announced(outbox[t], backlog'[t][n].key)
    BY <1>2, <2>3 DEF ReplayInv, Conns
  <2> QED BY <2>2, <2>4 DEF ReplayInv, Grows
<1>3. ASSUME NEW c \in Conns, backlog' = [backlog EXCEPT ![c] = <<>>]
      PROVE  ReplayInv'
  <2>1. backlog' \in [Conns -> Seq(Messages)]
    BY <1>3 DEF ReplayInv
  <2>2. \A t \in Phones : \A n \in DOMAIN backlog'[t] : Announced(outbox[t], backlog'[t][n].key)
    BY <1>3 DEF ReplayInv, Conns
  <2> QED BY <2>1, <2>2 DEF ReplayInv, Grows
<1> QED BY <1>1, <1>2, <1>3

\* So can what is left of the messages being forwarded.
LEMMA LiveKeeps ==
  ASSUME LiveInv, Grows,
         \A c \in Conns : \/ sending'[c].to = {}
                          \/ sending'[c].msg = sending[c].msg /\ sending'[c].to \subseteq sending[c].to
  PROVE  LiveInv'
BY DEF LiveInv, Grows

-----------------------------------------------------------------------------
(* The steps.                                                              *)

\* A phone that joins is sent the hello before it is replayed the cache; a
\* plugin that joins leaves the phones what they know, or clears the hello.
LEMMA EnterKeepsKeys ==
  ASSUME RelayInv, KInv, NEW c \in Conns, NEW o \in Objects, NEW ss \in [Objects -> Sessions],
         CacheFits(ss[o]), Enter(c, o, ss), UNCHANGED sending,
         \A x \in Objects : \/ ss[x].hello = NoHello
                            \/ ss[x].hello = session[x].hello /\ ss[x].phones = session[x].phones
  PROVE  KInv'
<1> DEFINE tt == [ss EXCEPT ![o] = Admit(@, c)]
<1> USE DEF KInv
<1>1. /\ Admit(ss[o], c) \in Sessions /\ CacheFits(Admit(ss[o], c))
      /\ Admit(ss[o], c).hello = ss[o].hello /\ Admit(ss[o], c).phones = ss[o].phones
  BY AdmittedFits
<1>2. /\ tt \in [Objects -> Sessions] /\ CacheFits(tt[o])
      /\ \A x \in Objects : tt[x].hello = ss[x].hello /\ tt[x].phones = ss[x].phones
  BY <1>1
<1>3. EnterAsPlugin(c, o, tt) \/ EnterAsPhone(c, o, tt)
  BY DEF Enter
<1> HIDE DEF tt
<1>4. LiveInv' \/ ~Grows
  BY LiveKeeps
<1>5. StaysOnItsWay
  BY DEF StaysOnItsWay, OnItsWay
<1>6. CASE EnterAsPlugin(c, o, tt)
  <2>1. UNCHANGED <<backlog, outbox>> /\ shut \subseteq shut'
    BY <1>6 DEF EnterAsPlugin
  <2>2. OutboxInv' /\ Grows
    BY <2>1, SilenceKeeps
  <2>3. ASSUME NEW x \in Objects
        PROVE  KeepsHello(x)
    <3>1. session' = tt \/ session' = [tt EXCEPT ![o] = ClearCached([@ EXCEPT !.plugin = c])]
      BY <1>6 DEF EnterAsPlugin
    <3>2. ClearCached([tt[o] EXCEPT !.plugin = c]).hello = NoHello
      BY <1>2 DEF ClearCached, Sessions
    <3> QED BY <1>2, <3>1, <3>2 DEF KeepsHello
  <2> QED BY <1>4, <1>5, <2>1, <2>2, <2>3, PhonesKeep, ReplayKeeps
<1>7. CASE EnterAsPhone(c, o, tt)
  <2>1. /\ c \in Phones /\ UNCHANGED shut
        /\ session' = [tt EXCEPT ![o].phones = @ \cup {c}]
        /\ backlog' = [backlog EXCEPT ![c] = tt[o].cached]
    BY <1>7 DEF EnterAsPhone, HasRoom
  <2>2. tt[o].hello # NoHello => tt[o].hello \in Messages /\ tt[o].hello.type = "hello"
    BY <1>2 DEF PhonesInv, Sessions
  <2>3. OutboxInv' /\ Grows /\ (tt[o].hello # NoHello => Announced(outbox'[c], tt[o].hello.key))
    <3>1. CASE tt[o].hello = NoHello
      BY <1>7, <3>1, SilenceKeeps DEF EnterAsPhone
    <3>2. CASE tt[o].hello # NoHello
      <4>1. Sends(c, tt[o].hello)
        BY <1>7, <2>2, <3>2 DEF EnterAsPhone, Sends, Outgoing
      <4> QED BY <2>1, <2>2, <3>2, <4>1, SendingKeeps
    <3> QED BY <3>1, <3>2
  <2>4. ASSUME NEW x \in Objects
        PROVE  KeepsHello(x)
    <3>1. /\ session'[x].hello = tt[x].hello
          /\ session'[x].phones = IF x = o THEN tt[x].phones \cup {c} ELSE tt[x].phones
      BY <1>2, <2>1, ZenonT(30) DEF Sessions
    <3> QED BY <1>2, <2>3, <3>1 DEF KeepsHello
  <2>5. ReplayInv'
    <3>1. tt[o].cached \in Seq(Messages)
      BY <1>2 DEF Sessions
    <3>2. backlog' \in [Conns -> Seq(Messages)]
      BY <2>1, <3>1 DEF ReplayInv
    <3>3. \A n \in DOMAIN tt[o].cached : Announced(outbox'[c], tt[o].cached[n].key)
      BY <1>2, <2>3 DEF CacheFits
    <3>4. \A t \in Phones : \A n \in DOMAIN backlog'[t] : Announced(outbox'[t], backlog'[t][n].key)
      BY <2>1, <2>3, <3>3 DEF ReplayInv, Grows, Conns
    <3> QED BY <3>2, <3>4 DEF ReplayInv
  <2> QED BY <1>4, <1>5, <2>1, <2>3, <2>4, <2>5, PhonesKeep
<1> QED BY <1>3, <1>6, <1>7

\* A message that is read from a client is on its way to all it is meant for
\* before the client can send another.
LEMMA ReceiveKeepsKeys ==
  ASSUME RelayInv, KInv, NEW c \in Conns, NEW m \in Envelopes, Receive(c, m), KeepsToOwnKeys(c, m)
  PROVE  KInv'
<1> DEFINE s == session[at[c]]
<1> USE DEF KInv
<1>1. /\ pc[c] = "open" /\ ~Busy(c) /\ Valid(c, m)
      /\ session' = [session EXCEPT ![at[c]] = Metadata(s, c, m)]
      /\ sending' = IF Targets(s, c) = {} THEN sending
                    ELSE [sending EXCEPT ![c] = [msg |-> m, to |-> Targets(s, c), failed |-> {}]]
      /\ UNCHANGED <<backlog, outbox, shut>>
  BY DEF Receive, Awaiting
<1>2. at[c] \in Objects /\ s \in Sessions
  BY <1>1, AtWork
<1>3. OutboxInv' /\ ReplayInv' /\ Grows
  BY <1>1, SilenceKeeps, ReplayKeeps
<1>4. sending \in [Conns -> Deliveries] /\ sending[c].to = {} /\ sending[c].failed = {}
  BY <1>1 DEF RelayInv, HandlersOK, Busy
<1>5. \A x \in Objects : session'[x] = IF x = at[c] THEN Metadata(s, c, m) ELSE session[x]
  BY <1>1, <1>2 DEF RelayInv, SessionsOK
<1> HIDE DEF s
<1>6. StaysOnItsWay
  <2> SUFFICES ASSUME NEW t \in Phones, NEW k, OnItsWay(t, k)
               PROVE  OnItsWay(t, k)'
    BY DEF StaysOnItsWay
  <2>1. PICK d \in Plugins : /\ sending[d].msg.type = "hello" /\ sending[d].msg.key = k
                             /\ t \in sending[d].to \cup sending[d].failed
    BY DEF OnItsWay
  <2>2. d # c /\ d \in Conns
    BY <1>4, <2>1 DEF Conns
  <2>3. sending'[d] = sending[d]
    BY <1>1, <1>4, <2>2
  <2> QED BY <2>1, <2>3 DEF OnItsWay
<1>7. CASE c \in Phones
  <2>1. Metadata(s, c, m) = s
    BY <1>7, RolesAssumption DEF Metadata
  <2>2. \A x \in Objects : KeepsHello(x)
    BY <1>5, <2>1 DEF KeepsHello, s
  <2>3. Targets(s, c) \cap Phones = {}
    BY <1>2, <1>7, RolesAssumption DEF Targets, Sessions
  <2>4. LiveInv'
    BY <1>1, <1>4, <2>3 DEF LiveInv
  <2> QED BY <1>1, <1>3, <1>6, <2>2, <2>4, PhonesKeep
<1>8. CASE c \in Plugins /\ m.type = "hello"
  <2>1. Metadata(s, c, m).hello = m /\ Metadata(s, c, m).phones = s.phones
    BY <1>2, <1>8 DEF Metadata, Sessions
  <2>2. ASSUME NEW t \in s.phones \ shut
        PROVE  OnItsWay(t, m.key)'
    <3>1. sending'[c] = [msg |-> m, to |-> Targets(s, c), failed |-> {}] /\ t \in Targets(s, c)
      BY <1>1, <1>4, <1>8, <2>2 DEF Targets
    <3> QED BY <1>8, <3>1 DEF OnItsWay
  <2>3. PhonesInv'
    <3> SUFFICES ASSUME NEW x \in Objects, session'[x].hello # NoHello
                 PROVE  /\ session'[x].hello.type = "hello"
                        /\ \A t \in session'[x].phones \ shut' :
                             \/ Announced(outbox'[t], session'[x].hello.key)
                             \/ OnItsWay(t, session[x].hello.key)'
      BY DEF PhonesInv
    <3>1. CASE x = at[c]
      BY <1>1, <1>5, <1>8, <2>1, <2>2, <3>1 DEF OnItsWay
    <3>2. CASE x # at[c]
      <4>1. session'[x] = session[x]
        BY <1>5, <3>2
      <4>2. PICK k : k = session[x].hello.key
        OBVIOUS
      <4>3. /\ session[x].hello.type = "hello" /\ session[x].phones \subseteq Phones
            /\ \A t \in session[x].phones \ shut : Announced(outbox[t], k) \/ OnItsWay(t, k)
        BY <4>1, <4>2 DEF PhonesInv, RelayInv, SessionsOK, Sessions
      <4>4. \A t \in session[x].phones \ shut' : Announced(outbox'[t], k) \/ OnItsWay(t, k)'
        BY <1>1, <1>3, <1>6, <4>3 DEF Grows, StaysOnItsWay
      <4> QED BY <4>1, <4>2, <4>3, <4>4 DEF OnItsWay
    <3> QED BY <3>1, <3>2
  <2>4. LiveInv'
    BY <1>1, <1>4, <1>8 DEF LiveInv
  <2> QED BY <1>3, <2>3, <2>4
<1>9. CASE c \in Plugins /\ m.type # "hello"
  <2>1. Metadata(s, c, m).hello = s.hello /\ Metadata(s, c, m).phones = s.phones
    BY <1>2, <1>9 DEF Metadata, Sessions
  <2>2. \A x \in Objects : KeepsHello(x)
    BY <1>5, <2>1 DEF KeepsHello, s
  <2>3. m.type = "frame" => \A t \in Targets(s, c) : Announced(outbox[t], m.key)
    <3> SUFFICES ASSUME m.type = "frame", NEW t \in Targets(s, c)
                 PROVE  Announced(outbox[t], m.key)
      OBVIOUS
    <3>1. s.hello # NoHello /\ m.key = s.hello.key
      BY <1>1, <1>9, RolesAssumption DEF Valid, s
    <3>2. t \in s.phones \ shut
      BY <1>9 DEF Targets
    <3>3. ~OnItsWay(t, m.key)
      BY <1>9 DEF OnItsWay, KeepsToOwnKeys, Announcing, Busy
    <3> QED BY <1>2, <3>1, <3>2, <3>3 DEF PhonesInv, s
  <2>4. LiveInv'
    BY <1>1, <1>3, <1>4, <2>3 DEF LiveInv
  <2> QED BY <1>1, <1>3, <1>6, <2>2, <2>4, PhonesKeep
<1> QED BY <1>7, <1>8, <1>9 DEF Conns

\* Connecting, whether the session was there or not.
LEMMA ConnectKeepsKeys ==
  ASSUME RelayInv, KInv, NEW c \in Conns, NEW i \in Ids,
         ConnectToSession(c, i) \/ ConnectToNewSession(c, i)
  PROVE  KInv'
<1>1. CASE ConnectToSession(c, i)
  <2>1. sessions[i] \in Objects
    BY <1>1, Bounds DEF ConnectToSession, RelayInv, SessionsOK, Objects
  <2> QED BY <1>1, <2>1, EnterKeepsKeys DEF ConnectToSession, RelayInv, SessionsOK
<1>2. CASE ConnectToNewSession(c, i)
  <2> DEFINE o == made + 1
             ss == [session EXCEPT ![o] = NewSession(i)]
  <2>1. o \in Objects
    BY <1>2, Bounds DEF ConnectToNewSession, Objects
  <2>2. /\ NewSession(i) \in Sessions /\ CacheFits(NewSession(i))
        /\ NewSession(i).hello = NoHello
    BY NewFits DEF NewSession
  <2>3. /\ ss \in [Objects -> Sessions] /\ CacheFits(ss[o])
        /\ \A x \in Objects : ss[x].hello = NoHello \/ ss[x] = session[x]
    BY <2>1, <2>2 DEF RelayInv, SessionsOK
  <2>4. CASE Enter(c, o, ss)
    <3> HIDE DEF o, ss
    <3>1. UNCHANGED sending
      BY <1>2 DEF ConnectToNewSession
    <3> QED BY <2>1, <2>3, <2>4, <3>1, EnterKeepsKeys
  <2>5. CASE session' = ss /\ UNCHANGED <<backlog, shut, outbox, sending>>
    <3>1. \A x \in Objects : KeepsHello(x)
      BY <2>3, <2>5 DEF KeepsHello
    <3>2. OutboxInv' /\ Grows /\ ReplayInv'
      BY <2>5, SilenceKeeps, ReplayKeeps DEF KInv
    <3>3. LiveInv' /\ StaysOnItsWay
      BY <2>5, <3>2, LiveKeeps DEF KInv, StaysOnItsWay, OnItsWay
    <3> QED BY <2>5, <3>1, <3>2, <3>3, PhonesKeep DEF KInv
  <2> QED BY <1>2, <2>4, <2>5 DEF ConnectToNewSession
<1> QED BY <1>1, <1>2

\* Steps that send nothing: they leave a session its hello, or clear it, and
\* admit no phone.
LEMMA SilentStep ==
  ASSUME RelayInv, KInv, UNCHANGED <<backlog, sending, outbox>>, shut \subseteq shut',
         \A o \in Objects : \/ session'[o].hello = NoHello
                            \/ /\ session'[o].hello = session[o].hello
                               /\ session'[o].phones \subseteq session[o].phones
  PROVE  KInv'
<1>1. \A o \in Objects : KeepsHello(o)
  BY DEF KeepsHello
<1>2. OutboxInv' /\ Grows /\ ReplayInv'
  BY SilenceKeeps, ReplayKeeps DEF KInv
<1>3. LiveInv' /\ StaysOnItsWay
  BY <1>2, LiveKeeps DEF KInv, StaysOnItsWay, OnItsWay
<1> QED BY <1>1, <1>2, <1>3, PhonesKeep DEF KInv

\* Turning a client away, a plugin's taking its slot and the end of a handler.
LEMMA HandlerKeepsKeys ==
  ASSUME RelayInv, KInv, NEW c \in Conns,
         ReplacePlugin(c) \/ Finish(c) \/ \E i \in Ids : ConnectRefused(c, i)
  PROVE  KInv'
<1> USE DEF RelayInv, SessionsOK
<1>1. CASE ReplacePlugin(c)
  <2> DEFINE r == ClearCached([session[at[c]] EXCEPT !.plugin = c])
  <2>1. at[c] \in Objects /\ r.hello = NoHello
    BY <1>1, AtWork DEF ReplacePlugin, ClearCached, Sessions
  <2>2. session' = [session EXCEPT ![at[c]] = r]
    BY <1>1 DEF ReplacePlugin
  <2> HIDE DEF r
  <2> QED BY <1>1, <2>1, <2>2, SilentStep DEF ReplacePlugin
<1>2. CASE Finish(c)
  <2> DEFINE s == session[at[c]]
  <2>1. at[c] \in Objects /\ s \in Sessions
    BY <1>2, AtWork DEF Finish
  <2>2. \/ Leave(c, s).hello = NoHello
        \/ Leave(c, s).hello = s.hello /\ Leave(c, s).phones \subseteq s.phones
    BY <2>1 DEF Leave, ClearCached, Sessions
  <2>3. session' = [session EXCEPT ![at[c]] = Leave(c, s)]
    BY <1>2 DEF Finish
  <2> HIDE DEF s
  <2>4. \A o \in Objects : session'[o] = IF o = at[c] THEN Leave(c, s) ELSE session[o]
    BY <2>1, <2>3
  <2> QED BY <1>2, <2>1, <2>2, <2>4, SilentStep DEF Finish, s
<1>3. ASSUME NEW i \in Ids, ConnectRefused(c, i)
      PROVE  KInv'
  <2>1. CASE UNCHANGED session
    BY <1>3, <2>1, SilentStep DEF ConnectRefused
  <2>2. CASE sessions[i] # 0 /\ session' = [session EXCEPT ![sessions[i]] = Admit(@, c)]
    <3>1. sessions[i] \in Objects
      BY <2>2, Bounds DEF Objects
    <3>2. /\ Admit(session[sessions[i]], c).hello = session[sessions[i]].hello
          /\ Admit(session[sessions[i]], c).phones = session[sessions[i]].phones
      BY <3>1, AdmittedFits
    <3> QED BY <1>3, <2>2, <3>1, <3>2, SilentStep DEF ConnectRefused
  <2> QED BY <1>3, <2>1, <2>2 DEF ConnectRefused
<1> QED BY <1>1, <1>2, <1>3

\* Replaying the cache, one message at a time.
LEMMA ReplayStepKeepsKeys ==
  ASSUME RelayInv, KInv, NEW c \in Conns, ReplayNext(c) \/ ReplayFails(c)
  PROVE  KInv'
<1> USE DEF KInv
<1>1. UNCHANGED <<session, sending, shut>>
  BY DEF ReplayNext, ReplayFails
<1>2. StaysOnItsWay /\ \A o \in Objects : KeepsHello(o)
  BY <1>1 DEF StaysOnItsWay, OnItsWay, KeepsHello
<1>3. CASE UNCHANGED outbox /\ (UNCHANGED backlog \/ backlog' = [backlog EXCEPT ![c] = <<>>])
  <2>1. OutboxInv' /\ Grows
    BY <1>3, SilenceKeeps
  <2> QED BY <1>1, <1>2, <1>3, <2>1, ReplayKeeps, LiveKeeps, PhonesKeep
<1>4. CASE /\ backlog[c] # <<>>
           /\ outbox' = [outbox EXCEPT ![c] = Append(@, Head(backlog[c]))]
           /\ backlog' = [backlog EXCEPT ![c] = Tail(@)]
  <2>1. /\ Head(backlog[c]) \in Messages /\ 1 \in DOMAIN backlog[c]
        /\ Head(backlog[c]) = backlog[c][1]
    <3>1. backlog[c] \in Seq(Messages)
      BY DEF ReplayInv
    <3> QED BY <1>4, <3>1
  <2>2. Sends(c, Head(backlog[c]))
    BY <1>4, <2>1 DEF Sends, ReplayInv, Outgoing
  <2>3. OutboxInv' /\ Grows
    BY <2>2, SendingKeeps
  <2> QED BY <1>1, <1>2, <1>4, <2>3, ReplayKeeps, LiveKeeps, PhonesKeep
<1> QED BY <1>3, <1>4 DEF ReplayNext, ReplayFails

\* Forwarding a message to one peer; a peer it could not be sent to is
\* closed before anything else is sent to it.
LEMMA SendKeepsKeys ==
  ASSUME RelayInv, KInv, NEW c \in Conns,
         CloseFailed(c) \/ \E t \in Conns : Forward(c, t) \/ ForwardFails(c, t)
  PROVE  KInv'
<1> USE DEF KInv
<1>1. UNCHANGED <<session, backlog>> /\ shut \subseteq shut'
  BY DEF CloseFailed, Forward, ForwardFails
<1>2. /\ sending \in [Conns -> Deliveries] /\ sending[c] \in Deliveries
      /\ \A o \in Objects : KeepsHello(o)
  BY <1>1 DEF RelayInv, HandlersOK, KeepsHello
<1>3. ASSUME NEW t \in Conns, Forward(c, t)
      PROVE  KInv'
  <2>1. /\ t \in sending[c].to /\ outbox' = [outbox EXCEPT ![t] = Append(@, sending[c].msg)]
        /\ sending' = [sending EXCEPT ![c] =
              IF sending[c].to = {t} /\ sending[c].failed = {} THEN NothingToSend
              ELSE [sending[c] EXCEPT !.to = @ \ {t}]]
    BY <1>3 DEF Forward
  <2>2. Sends(t, sending[c].msg)
    BY <1>2, <2>1 DEF Sends, LiveInv, Deliveries, Outgoing
  <2>3. /\ OutboxInv' /\ Grows
        /\ t \in Phones /\ sending[c].msg.type = "hello" => Announced(outbox'[t], sending[c].msg.key)
    BY <2>2, SendingKeeps
  <2>4. /\ \A d \in Conns : d # c => sending'[d] = sending[d]
        /\ \/ /\ sending'[c].msg = sending[c].msg /\ sending'[c].to = sending[c].to \ {t}
              /\ sending'[c].failed = sending[c].failed
           \/ sending'[c].to = {} /\ sending[c].to = {t} /\ sending[c].failed = {}
    BY <1>2, <2>1 DEF Deliveries, NothingToSend
  <2>5. StaysOnItsWay
    <3>1. ASSUME NEW d \in Plugins, NEW x \in Phones, sending[d].msg.type = "hello",
                 x \in sending[d].to \cup sending[d].failed
          PROVE  \/ /\ sending'[d].msg = sending[d].msg
                    /\ x \in sending'[d].to \cup sending'[d].failed
                 \/ Announced(outbox'[x], sending[d].msg.key)
      BY <2>3, <2>4, <3>1 DEF Conns
    <3> QED BY <3>1, DeliveriesStay
  <2>6. LiveInv'
    BY <2>3, <2>4, LiveKeeps
  <2> QED BY <1>1, <1>2, <2>3, <2>5, <2>6, ReplayKeeps, PhonesKeep
<1>4. ASSUME NEW t \in Conns, ForwardFails(c, t)
      PROVE  KInv'
  <2>1. OutboxInv' /\ Grows
    BY <1>4, SilenceKeeps DEF ForwardFails
  <2>2. /\ \A d \in Conns : d # c => sending'[d] = sending[d]
        /\ sending'[c].msg = sending[c].msg /\ sending'[c].to = sending[c].to \ {t}
        /\ sending'[c].failed = sending[c].failed \cup {t}
    BY <1>2, <1>4 DEF ForwardFails, Deliveries
  <2>3. StaysOnItsWay
    BY <2>2, DeliveriesStay DEF Conns
  <2>4. LiveInv'
    BY <2>1, <2>2, LiveKeeps
  <2> QED BY <1>1, <1>2, <2>1, <2>3, <2>4, ReplayKeeps, PhonesKeep
<1>5. CASE CloseFailed(c)
  <2>1. OutboxInv' /\ Grows
    BY <1>5, SilenceKeeps DEF CloseFailed
  <2>2. /\ \A d \in Conns : d # c => sending'[d] = sending[d]
        /\ sending'[c].to = {} /\ sending[c].to = {}
        /\ shut' = shut \cup sending[c].failed
    BY <1>2, <1>5 DEF CloseFailed, NothingToSend
  <2>3. StaysOnItsWay
    BY <2>2, DeliveriesStay DEF Conns
  <2>4. LiveInv'
    BY <2>1, <2>2, LiveKeeps
  <2> QED BY <1>1, <1>2, <2>1, <2>3, <2>4, ReplayKeeps, PhonesKeep
<1> QED BY <1>3, <1>4, <1>5

\* An invalid message is answered and the socket closed.
LEMMA RejectKeepsKeys ==
  ASSUME RelayInv, KInv, NEW c \in Conns, NEW m \in Envelopes, Reject(c, m)
  PROVE  KInv'
<1> USE DEF KInv
<1>1. UNCHANGED <<session, backlog, sending>> /\ shut \subseteq shut'
  BY DEF Reject
<1>2. Sends(c, Rejection)
  BY DEF Sends, Reject, Rejection, Outgoing
<1>3. OutboxInv' /\ Grows
  BY <1>2, SendingKeeps
<1>4. StaysOnItsWay /\ \A o \in Objects : KeepsHello(o)
  BY <1>1 DEF StaysOnItsWay, OnItsWay, KeepsHello
<1> QED BY <1>1, <1>3, <1>4, ReplayKeeps, LiveKeeps, PhonesKeep

\* The relay starts with no session and nothing sent.
LEMMA InitKeys == RelayInit => KInv
<1> SUFFICES ASSUME RelayInit PROVE KInv
  OBVIOUS
<1>1. OutboxInv
  BY DEF RelayInit, OutboxInv, InOrder, Conns
<1>2. PhonesInv
  BY DEF RelayInit, PhonesInv, NewSession
<1>3. ReplayInv
  BY DEF RelayInit, ReplayInv, Conns
<1>4. LiveInv
  BY DEF RelayInit, LiveInv, NothingToSend
<1> QED BY <1>1, <1>2, <1>3, <1>4 DEF KInv

\* Every step of the relay and of plugins that keep to their keys keeps the
\* invariant.
LEMMA KeysStep == RelayInv /\ KInv /\ [HonestNext]_relayVars => RelayInv' /\ KInv'
<1> SUFFICES ASSUME RelayInv, KInv, [HonestNext]_relayVars PROVE RelayInv' /\ KInv'
  OBVIOUS
<1>1. RelayInv'
  <2>1. HonestNext => OpenNext
    BY DEF HonestNext, HonestClients, OpenNext, Clients
  <2> QED BY <2>1, RelayStep
<1>2. CASE Server
  <2>1. CASE Sweep \/ \E o \in Objects : GrowIdle(o)
    BY <1>1, <2>1, SilentStep DEF Sweep, GrowIdle
  <2>2. CASE \E c \in Conns : HeartbeatFails(c)
    BY <1>1, <2>2, SilentStep DEF HeartbeatFails
  <2> QED BY <1>1, <1>2, <2>1, <2>2, ConnectKeepsKeys, HandlerKeepsKeys, ReplayStepKeepsKeys,
             SendKeepsKeys DEF Server
<1>3. CASE HonestClients
  <2>1. CASE \E c \in Conns : ClientVanish(c)
    BY <1>1, <2>1, SilentStep DEF ClientVanish
  <2> QED BY <1>1, <1>3, <2>1, ReceiveKeepsKeys, RejectKeepsKeys DEF HonestClients
<1>4. CASE UNCHANGED relayVars
  BY <1>1, <1>4, SilentStep DEF relayVars
<1> QED BY <1>2, <1>3, <1>4 DEF HonestNext

-----------------------------------------------------------------------------
(***************************************************************************)
(* A phone learns of a key before it gets a frame encrypted under it, for  *)
(* any number of sessions, plugins and phones, as long as no plugin sends  *)
(* frames under a key whose hello another is still sending (relay.py       *)
(* 505-509, 606-619).                                                      *)
(***************************************************************************)
THEOREM HellosComeFirst == HonestSpec => []HelloBeforeFrames
<1>1. RelayInv /\ KInv => HelloBeforeFrames
  BY DEF KInv, OutboxInv, InOrder, HelloBeforeFrames
<1> QED BY RelayInitInv, InitKeys, KeysStep, <1>1, PTL DEF HonestSpec

-----------------------------------------------------------------------------
(* That no phone is sent a message of a plugin twice.  It takes plugins    *)
(* that do not repeat themselves, which random nonces see to: a message is *)
(* new to the relay, which holds no copy of it in any place any more.      *)

Holds(q, m) == \E n \in DOMAIN q : q[n] = m

Unseen(m) ==
  /\ \A t \in Phones : ~Holds(outbox[t], m) /\ ~Holds(backlog[t], m)
  /\ \A o \in Objects : session[o].hello # m /\ ~Holds(session[o].cached, m)
  /\ \A d \in Plugins : Busy(d) => sending[d].msg # m

FreshClients ==
  \E c \in Conns :
    \/ ClientVanish(c)
    \/ \E m \in Envelopes : (Receive(c, m) /\ (c \in Plugins => Unseen(m))) \/ Reject(c, m)

FreshNext == Server \/ FreshClients

FreshSpec == RelayInit /\ [][FreshNext]_relayVars

-----------------------------------------------------------------------------
Apart(q) == \A i, j \in DOMAIN q : i # j => q[i] # q[j]

\* NoMessageTwice of one outbox.
NoneTwice(u) == \A i, j \in DOMAIN u : (i # j /\ u[i].type # "rejected") => u[i] # u[j]

BoxesOK == outbox \in [Conns -> Seq(Outgoing)] /\ backlog \in [Conns -> Seq(Messages)]

\* What a phone that joins is given are different messages.
SessionsApart ==
  \A o \in Objects : Apart(session[o].cached) /\ ~Holds(session[o].cached, session[o].hello)

\* What has been sent to a phone, what is left to replay and what the plugins
\* are sending it are different messages.
PhoneApart(t) ==
  /\ NoneTwice(outbox[t]) /\ Apart(backlog[t])
  /\ \A n \in DOMAIN backlog[t] : ~Holds(outbox[t], backlog[t][n])
  /\ \A d \in Plugins : t \in sending[d].to =>
       /\ ~Holds(outbox[t], sending[d].msg) /\ ~Holds(backlog[t], sending[d].msg)
       /\ \A e \in Plugins : e # d /\ t \in sending[e].to => sending[e].msg # sending[d].msg

\* Nothing is meant for a phone that has not come, and phones are sent nothing
\* by each other.
NothingForStrangers ==
  \A t \in Phones :
    /\ pc[t] = "new" => /\ outbox[t] = <<>>
                        /\ \A o \in Objects : t \notin session[o].phones
                        /\ \A d \in Conns : t \notin sending[d].to
    /\ \A c \in Phones : t \notin sending[c].to

ApartInv ==
  /\ BoxesOK /\ SessionsApart /\ NothingForStrangers
  /\ \A t \in Phones : PhoneApart(t)

-----------------------------------------------------------------------------
(* Sequences of different messages.                                        *)

\* A message that is not in the outbox yet, or is the relay's own rejection,
\* can be added to it.
LEMMA AppendOne ==
  ASSUME NEW S, NEW u \in Seq(S), NEW m \in S, NoneTwice(u),
         ~Holds(u, m) \/ m.type = "rejected"
  PROVE  /\ NoneTwice(Append(u, m))
         /\ \A x : Holds(Append(u, m), x) => Holds(u, x) \/ x = m
<1> DEFINE v == Append(u, m)
<1>1. /\ v \in Seq(S) /\ Len(u) \in Nat
      /\ DOMAIN u = 1..Len(u) /\ DOMAIN v = 1..(Len(u) + 1)
      /\ v[Len(u) + 1] = m /\ \A n \in 1..Len(u) : v[n] = u[n]
  OBVIOUS
<1> HIDE DEF v
<1>2. NoneTwice(v)
  BY <1>1 DEF NoneTwice, Holds
<1>3. \A x : Holds(v, x) => Holds(u, x) \/ x = m
  BY <1>1 DEF Holds
<1> QED BY <1>2, <1>3 DEF v

\* The same of a sequence without repetitions.
LEMMA AppendApart ==
  ASSUME NEW S, NEW u \in Seq(S), NEW m \in S, Apart(u), ~Holds(u, m)
  PROVE  Apart(Append(u, m)) /\ \A x : Holds(Append(u, m), x) => Holds(u, x) \/ x = m
<1> DEFINE v == Append(u, m)
<1>1. /\ v \in Seq(S) /\ Len(u) \in Nat
      /\ DOMAIN u = 1..Len(u) /\ DOMAIN v = 1..(Len(u) + 1)
      /\ v[Len(u) + 1] = m /\ \A n \in 1..Len(u) : v[n] = u[n]
  OBVIOUS
<1> HIDE DEF v
<1>2. Apart(v)
  BY <1>1 DEF Apart, Holds
<1>3. \A x : Holds(v, x) => Holds(u, x) \/ x = m
  BY <1>1 DEF Holds
<1> QED BY <1>2, <1>3 DEF v

\* The first of several different messages is not among the others.
LEMMA TailApart ==
  ASSUME NEW S, NEW u \in Seq(S), u # <<>>, Apart(u)
  PROVE  /\ Apart(Tail(u)) /\ Tail(u) \in Seq(S) /\ Head(u) \in S
         /\ \A x : Holds(Tail(u), x) => Holds(u, x) /\ x # Head(u)
         /\ Holds(u, Head(u))
<1> DEFINE v == Tail(u)
<1>1. /\ v \in Seq(S) /\ Head(u) = u[1] /\ 1 \in DOMAIN u /\ Head(u) \in S
      /\ \A n \in DOMAIN v : n + 1 \in DOMAIN u /\ n + 1 # 1 /\ v[n] = u[n + 1]
      /\ \A i, j \in DOMAIN v : i # j => i + 1 # j + 1
  OBVIOUS
<1> HIDE DEF v
<1>2. Apart(v)
  <2> SUFFICES ASSUME NEW i \in DOMAIN v, NEW j \in DOMAIN v, i # j PROVE v[i] # v[j]
    BY DEF Apart
  <2>1. i + 1 \in DOMAIN u /\ j + 1 \in DOMAIN u /\ i + 1 # j + 1
    BY <1>1
  <2> QED BY <1>1, <2>1 DEF Apart
<1>3. \A x : Holds(v, x) => Holds(u, x) /\ x # Head(u)
  BY <1>1 DEF Holds, Apart
<1>4. Holds(u, Head(u))
  BY <1>1 DEF Holds
<1> QED BY <1>1, <1>2, <1>3, <1>4 DEF v

-----------------------------------------------------------------------------
(* Parts of a step.                                                        *)

\* Nothing new is on its way to phone t.
NothingNew(t) ==
  \A d \in Conns : t \in sending'[d].to => t \in sending[d].to /\ sending'[d].msg = sending[d].msg

\* Session object o has an empty cache, or the one it had.
KeepsCache(o) ==
  \/ session'[o].cached = <<>> /\ session'[o].hello = NoHello
  \/ session'[o].cached = session[o].cached /\ session'[o].hello = session[o].hello

\* Only connections that have come are added to a session.
NoStranger(o) ==
  \A t \in session'[o].phones : t \in session[o].phones \/ pc'[t] # "new"

\* A phone to which nothing is sent and for which nothing is added.
LEMMA PhoneLeftAlone ==
  ASSUME NEW t \in Phones, PhoneApart(t), outbox'[t] = outbox[t], backlog'[t] = backlog[t],
         NothingNew(t)
  PROVE  PhoneApart(t)'
BY DEF PhoneApart, NothingNew, Conns

\* Sessions whose caches are not added to.
LEMMA CachesKeep ==
  ASSUME SessionsApart, \A o \in Objects : KeepsCache(o)
  PROVE  SessionsApart'
BY DEF SessionsApart, KeepsCache, Apart, Holds

\* Phones that have not come are still given nothing.
LEMMA StrangersKeep ==
  ASSUME NothingForStrangers, \A t \in Phones : NothingNew(t),
         \A o \in Objects : NoStranger(o),
         \A t \in Phones : pc'[t] = "new" => pc[t] = "new" /\ outbox'[t] = outbox[t]
  PROVE  NothingForStrangers'
<1> SUFFICES ASSUME NEW t \in Phones
             PROVE  /\ pc'[t] = "new" => /\ outbox'[t] = <<>>
                                         /\ \A o \in Objects : t \notin session'[o].phones
                                         /\ \A d \in Conns : t \notin sending'[d].to
                    /\ \A c \in Phones : t \notin sending'[c].to
  BY DEF NothingForStrangers
<1>1. \A c \in Phones : t \notin sending'[c].to
  BY DEF NothingForStrangers, NothingNew, Conns
<1>2. ASSUME pc'[t] = "new"
      PROVE  /\ outbox'[t] = <<>>
             /\ \A o \in Objects : t \notin session'[o].phones
             /\ \A d \in Conns : t \notin sending'[d].to
  BY <1>2 DEF NothingForStrangers, NothingNew, NoStranger
<1> QED BY <1>1, <1>2

\* A step that sends nothing.
LEMMA SilentApart ==
  ASSUME ApartInv, UNCHANGED <<outbox, backlog>>,
         \A t \in Phones : NothingNew(t),
         \A o \in Objects : KeepsCache(o) /\ NoStranger(o),
         \A t \in Phones : pc'[t] = "new" => pc[t] = "new"
  PROVE  ApartInv'
<1>1. \A t \in Phones : PhoneApart(t)'
  BY PhoneLeftAlone DEF ApartInv
<1>2. SessionsApart' /\ NothingForStrangers'
  BY CachesKeep, StrangersKeep DEF ApartInv
<1>3. BoxesOK'
  BY DEF ApartInv, BoxesOK
<1> QED BY <1>1, <1>2, <1>3 DEF ApartInv

\* One message more in the outbox of t.
LEMMA BoxesKeep ==
  ASSUME BoxesOK, NEW t \in Conns, NEW m \in Outgoing, NEW b \in Seq(Messages),
         outbox' = [outbox EXCEPT ![t] = Append(@, m)], backlog' = [backlog EXCEPT ![t] = b]
  PROVE  /\ BoxesOK' /\ outbox'[t] = Append(outbox[t], m) /\ backlog'[t] = b
         /\ \A x \in Conns : x # t => outbox'[x] = outbox[x] /\ backlog'[x] = backlog[x]
<1>1. Append(outbox[t], m) \in Seq(Outgoing)
  BY DEF BoxesOK
<1> QED BY <1>1 DEF BoxesOK

-----------------------------------------------------------------------------
(* The steps.                                                              *)

\* A phone that joins gets the hello and the cache of its session, and
\* nothing before; a plugin that joins clears them or leaves them.
LEMMA EnterApart ==
  ASSUME RelayInv, ApartInv, NEW c \in Conns, NEW o \in Objects,
         NEW ss \in [Objects -> Sessions], CacheFits(ss[o]), Enter(c, o, ss),
         pc[c] = "new", UNCHANGED sending,
         \A x \in Objects :
           \/ ss[x].hello = NoHello /\ ss[x].cached = <<>> /\ ss[x].phones = {}
           \/ /\ ss[x].hello = session[x].hello /\ ss[x].cached = session[x].cached
              /\ ss[x].phones = session[x].phones
  PROVE  ApartInv'
<1> DEFINE tt == [ss EXCEPT ![o] = Admit(@, c)]
<1>1. /\ Admit(ss[o], c) \in Sessions /\ Admit(ss[o], c).hello = ss[o].hello
      /\ Admit(ss[o], c).phones = ss[o].phones /\ Admit(ss[o], c).cached = ss[o].cached
  BY AdmittedFits DEF Admit, Sessions
<1>2. /\ tt \in [Objects -> Sessions]
      /\ \A x \in Objects : /\ tt[x].hello = ss[x].hello /\ tt[x].phones = ss[x].phones
                             /\ tt[x].cached = ss[x].cached
  BY <1>1
<1>3. EnterAsPlugin(c, o, tt) \/ EnterAsPhone(c, o, tt)
  BY DEF Enter
<1>4. \A x \in Objects : Apart(tt[x].cached) /\ ~Holds(tt[x].cached, tt[x].hello)
  BY <1>2 DEF ApartInv, SessionsApart, Apart, Holds
<1> HIDE DEF tt
<1>5. \A t \in Phones : NothingNew(t)
  BY DEF NothingNew
<1>6. CASE EnterAsPlugin(c, o, tt)
  <2>1. UNCHANGED <<backlog, outbox>> /\ c \in Plugins
    BY <1>6 DEF EnterAsPlugin
  <2>2. \A t \in Phones : pc'[t] = "new" => pc[t] = "new"
    BY <1>6, RolesAssumption DEF EnterAsPlugin, RelayInv, HandlersOK, Conns
  <2>3. ASSUME NEW x \in Objects
        PROVE  KeepsCache(x) /\ NoStranger(x)
    <3>1. session' = tt \/ session' = [tt EXCEPT ![o] = ClearCached([@ EXCEPT !.plugin = c])]
      BY <1>6 DEF EnterAsPlugin
    <3>2. /\ ClearCached([tt[o] EXCEPT !.plugin = c]).hello = NoHello
          /\ ClearCached([tt[o] EXCEPT !.plugin = c]).cached = <<>>
          /\ ClearCached([tt[o] EXCEPT !.plugin = c]).phones = tt[o].phones
      BY <1>2 DEF ClearCached, Sessions
    <3> QED BY <1>2, <3>1, <3>2 DEF KeepsCache, NoStranger
  <2> QED BY <1>5, <2>1, <2>2, <2>3, SilentApart
<1>7. CASE EnterAsPhone(c, o, tt)
  <2>1. /\ c \in Phones
        /\ session' = [tt EXCEPT ![o].phones = @ \cup {c}]
        /\ backlog' = [backlog EXCEPT ![c] = tt[o].cached]
        /\ pc' = [pc EXCEPT ![c] = "replaying"]
        /\ outbox' = IF tt[o].hello = NoHello THEN outbox
                     ELSE [outbox EXCEPT ![c] = Append(@, tt[o].hello)]
    BY <1>7 DEF EnterAsPhone, HasRoom
  <2>2. pc'[c] # "new" /\ \A t \in Phones : t # c => pc'[t] = pc[t]
    BY <2>1 DEF RelayInv, HandlersOK
  <2>3. ASSUME NEW x \in Objects
        PROVE  KeepsCache(x) /\ NoStranger(x)
    <3>1. /\ session'[x].hello = tt[x].hello /\ session'[x].cached = tt[x].cached
          /\ session'[x].phones = IF x = o THEN tt[x].phones \cup {c} ELSE tt[x].phones
      BY <1>2, <2>1, ZenonT(30) DEF Sessions
    <3> QED BY <1>2, <2>2, <3>1 DEF KeepsCache, NoStranger
  <2>4. /\ outbox[c] = <<>> /\ \A d \in Conns : c \notin sending[d].to
        /\ tt[o].cached \in Seq(Messages)
        /\ tt[o].hello # NoHello => tt[o].hello \in Outgoing
        /\ BoxesOK
    BY <1>2, <2>1 DEF ApartInv, NothingForStrangers, Sessions, Outgoing
  <2>5. /\ BoxesOK' /\ backlog'[c] = tt[o].cached
        /\ outbox'[c] = IF tt[o].hello = NoHello THEN <<>> ELSE <<tt[o].hello>>
        /\ \A t \in Conns : t # c => outbox'[t] = outbox[t] /\ backlog'[t] = backlog[t]
    <3>1. CASE tt[o].hello = NoHello
      BY <2>1, <2>4, <3>1 DEF BoxesOK
    <3>2. CASE tt[o].hello # NoHello
      <4>1. Append(outbox[c], tt[o].hello) = <<tt[o].hello>>
        BY <2>4
      <4>2. PICK m \in Outgoing : m = tt[o].hello
        BY <2>4, <3>2
      <4>3. PICK b \in Seq(Messages) : b = tt[o].cached
        BY <2>4
      <4>4. /\ outbox' = [outbox EXCEPT ![c] = Append(@, m)]
            /\ backlog' = [backlog EXCEPT ![c] = b]
        BY <2>1, <3>2, <4>2, <4>3
      <4>5. /\ BoxesOK' /\ outbox'[c] = Append(outbox[c], m) /\ backlog'[c] = b
            /\ \A t \in Conns : t # c => outbox'[t] = outbox[t] /\ backlog'[t] = backlog[t]
        BY <2>4, <4>4, BoxesKeep
      <4> QED BY <3>2, <4>1, <4>2, <4>3, <4>5
    <3> QED BY <3>1, <3>2
  <2>6. PhoneApart(c)'
    <3>1. /\ NoneTwice(outbox'[c])
          /\ \A n \in DOMAIN backlog'[c] : ~Holds(outbox'[c], backlog'[c][n])
      BY <1>4, <2>5 DEF NoneTwice, Holds
    <3>2. Apart(backlog'[c]) /\ \A d \in Plugins : c \notin sending'[d].to
      BY <1>4, <2>4, <2>5 DEF Conns
    <3> QED BY <3>1, <3>2 DEF PhoneApart
  <2>7. \A t \in Phones : PhoneApart(t)'
    <3>1. ASSUME NEW t \in Phones, t # c
          PROVE  PhoneApart(t)'
      BY <1>5, <2>5, <3>1, PhoneLeftAlone DEF ApartInv, Conns
    <3> QED BY <2>6, <3>1
  <2>8. NothingForStrangers'
    <3>1. \A t \in Phones : pc'[t] = "new" => pc[t] = "new" /\ outbox'[t] = outbox[t]
      BY <2>2, <2>5 DEF Conns
    <3> QED BY <1>5, <2>3, <3>1, StrangersKeep DEF ApartInv
  <2> QED BY <2>3, <2>5, <2>7, <2>8, CachesKeep DEF ApartInv
<1> QED BY <1>3, <1>6, <1>7

\* Connecting, whether the session was there or not.
LEMMA ConnectApart ==
  ASSUME RelayInv, ApartInv, NEW c \in Conns, NEW i \in Ids,
         ConnectToSession(c, i) \/ ConnectToNewSession(c, i)
  PROVE  ApartInv'
<1>1. CASE ConnectToSession(c, i)
  <2>1. sessions[i] \in Objects
    BY <1>1, Bounds DEF ConnectToSession, RelayInv, SessionsOK, Objects
  <2> QED BY <1>1, <2>1, EnterApart DEF ConnectToSession, RelayInv, SessionsOK
<1>2. CASE ConnectToNewSession(c, i)
  <2> DEFINE o == made + 1
             ss == [session EXCEPT ![o] = NewSession(i)]
  <2>1. o \in Objects
    BY <1>2, Bounds DEF ConnectToNewSession, Objects
  <2>2. /\ NewSession(i) \in Sessions /\ CacheFits(NewSession(i))
        /\ NewSession(i).hello = NoHello /\ NewSession(i).cached = <<>>
        /\ NewSession(i).phones = {}
    BY NewFits DEF NewSession
  <2>3. /\ ss \in [Objects -> Sessions] /\ CacheFits(ss[o])
        /\ \A x \in Objects : \/ /\ ss[x].hello = NoHello /\ ss[x].cached = <<>>
                                 /\ ss[x].phones = {}
                              \/ ss[x] = session[x]
    BY <2>1, <2>2 DEF RelayInv, SessionsOK
  <2>4. UNCHANGED sending /\ pc[c] = "new"
    BY <1>2 DEF ConnectToNewSession
  <2>5. CASE Enter(c, o, ss)
    <3> HIDE DEF o, ss
    <3> QED BY <2>1, <2>3, <2>4, <2>5, EnterApart
  <2>6. CASE /\ session' = ss /\ UNCHANGED <<backlog, outbox>>
             /\ pc' = [pc EXCEPT ![c] = "done"]
    <3>1. \A x \in Objects : KeepsCache(x) /\ NoStranger(x)
      BY <2>3, <2>6 DEF KeepsCache, NoStranger
    <3>2. \A t \in Phones : NothingNew(t) /\ (pc'[t] = "new" => pc[t] = "new")
      BY <2>4, <2>6 DEF NothingNew, RelayInv, HandlersOK, Conns
    <3> QED BY <2>6, <3>1, <3>2, SilentApart
  <2> QED BY <1>2, <2>5, <2>6 DEF ConnectToNewSession
<1> QED BY <1>1, <1>2

\* A message that the relay has not seen is new to everyone it is meant for,
\* and to the cache.
LEMMA ReceiveApart ==
  ASSUME RelayInv, ApartInv, NEW c \in Conns, NEW m \in Envelopes, Receive(c, m),
         c \in Plugins => Unseen(m)
  PROVE  ApartInv'
<1> DEFINE s == session[at[c]]
<1>1. /\ pc[c] = "open" /\ ~Busy(c)
      /\ session' = [session EXCEPT ![at[c]] = Metadata(s, c, m)]
      /\ sending' = IF Targets(s, c) = {} THEN sending
                    ELSE [sending EXCEPT ![c] = [msg |-> m, to |-> Targets(s, c), failed |-> {}]]
      /\ UNCHANGED <<backlog, outbox, pc>>
  BY DEF Receive, Awaiting
<1>2. at[c] \in Objects /\ s \in Sessions /\ CacheFits(s)
  BY <1>1, AtWork
<1>3. sending \in [Conns -> Deliveries] /\ sending[c].to = {}
  BY <1>1 DEF RelayInv, HandlersOK, Busy
<1>4. \A x \in Objects : session'[x] = IF x = at[c] THEN Metadata(s, c, m) ELSE session[x]
  BY <1>1, <1>2 DEF RelayInv, SessionsOK
<1>5. /\ \A d \in Conns : d # c => sending'[d] = sending[d]
      /\ \/ sending'[c].to = {}
         \/ sending'[c].to = Targets(s, c) /\ sending'[c].msg = m
  BY <1>1, <1>3
<1>6. s.cached \in Seq(Messages) /\ m \in Messages /\ s.phones \subseteq Phones
  BY <1>2 DEF Sessions, Envelopes
<1>7. Apart(s.cached) /\ ~Holds(s.cached, s.hello)
  BY <1>2 DEF ApartInv, SessionsApart
<1>8. BoxesOK'
  BY <1>1 DEF ApartInv, BoxesOK
<1>9. Metadata(s, c, m).phones = s.phones
  BY <1>2 DEF Metadata, Sessions
<1>10. \A t \in Phones : pc[t] = "new" => t \notin s.phones
  BY <1>2 DEF ApartInv, NothingForStrangers
<1>11. \A o \in Objects : NoStranger(o)
  BY <1>4, <1>9 DEF NoStranger, s
<1>12. CASE c \in Phones
  <2>1. Metadata(s, c, m) = s
    BY <1>12, RolesAssumption DEF Metadata
  <2>2. \A o \in Objects : KeepsCache(o)
    BY <1>4, <2>1 DEF KeepsCache, s
  <2>3. Targets(s, c) \cap Phones = {}
    BY <1>2, <1>12, RolesAssumption DEF Targets, Sessions
  <2>4. \A t \in Phones : NothingNew(t)
    BY <1>5, <2>3 DEF NothingNew
  <2> QED BY <1>1, <1>11, <2>2, <2>4, SilentApart
<1>13. CASE c \in Plugins
  <2> HIDE DEF s
  <2>1. Targets(s, c) \subseteq s.phones /\ c \notin Phones
    BY <1>13, RolesAssumption DEF Targets
  <2>2. ~Holds(s.cached, m) /\ s.hello # m
    BY <1>2, <1>13 DEF Unseen, s
  <2>3. Apart(Metadata(s, c, m).cached) /\ ~Holds(Metadata(s, c, m).cached, Metadata(s, c, m).hello)
    <3>1. CASE m.type = "hello"
      <4>1. Metadata(s, c, m).cached = <<>>
        BY <1>2, <1>13, <3>1 DEF Metadata, Sessions
      <4> QED BY <4>1 DEF Apart, Holds
    <3>2. CASE m.type # "hello" /\ m.kind \in ReplayableKinds
      <4> DEFINE longer == Append(s.cached, m)
      <4>1. Metadata(s, c, m).cached = Cached(s.cached, m) /\ Metadata(s, c, m).hello = s.hello
        BY <1>2, <1>13, <3>2 DEF Metadata, Sessions
      <4>2. /\ longer \in Seq(Messages) /\ longer # <<>> /\ Apart(longer)
            /\ \A x : Holds(longer, x) => Holds(s.cached, x) \/ x = m
        <5>1. longer \in Seq(Messages) /\ longer # <<>>
          BY <1>6
        <5> QED BY <1>6, <1>7, <2>2, <5>1, AppendApart
      <4>3. Cached(s.cached, m) \in {longer, Tail(longer)}
        BY DEF Cached
      <4> HIDE DEF longer
      <4>4. /\ Apart(Cached(s.cached, m))
            /\ \A x : Holds(Cached(s.cached, m), x) => Holds(s.cached, x) \/ x = m
        BY <4>2, <4>3, TailApart
      <4> QED BY <1>7, <2>2, <4>1, <4>4
    <3>3. CASE m.type # "hello" /\ m.kind \notin ReplayableKinds
      BY <1>7, <3>3 DEF Metadata
    <3> QED BY <3>1, <3>2, <3>3
  <2>4. SessionsApart'
    BY <1>4, <2>3 DEF ApartInv, SessionsApart
  <2>5. ASSUME NEW t \in Phones
        PROVE  PhoneApart(t)'
    <3>1. ~Holds(outbox[t], m) /\ ~Holds(backlog[t], m)
      BY <1>13 DEF Unseen
    <3>2. ASSUME NEW d \in Plugins, t \in sending'[d].to, d # c
          PROVE  /\ t \in sending[d].to /\ sending'[d].msg = sending[d].msg
                 /\ sending'[d].msg # m
      BY <1>5, <1>13, <3>2 DEF Unseen, Busy, Conns
    <3>3. ASSUME NEW d \in Plugins, t \in sending'[d].to
          PROVE  /\ ~Holds(outbox[t], sending'[d].msg) /\ ~Holds(backlog[t], sending'[d].msg)
                 /\ \A e \in Plugins : e # d /\ t \in sending'[e].to
                                         => sending'[e].msg # sending'[d].msg
      <4>1. CASE d = c
        BY <1>5, <3>1, <3>2, <3>3, <4>1
      <4>2. CASE d # c
        BY <1>5, <3>2, <3>3, <4>2 DEF ApartInv, PhoneApart
      <4> QED BY <4>1, <4>2
    <3> QED BY <1>1, <3>3 DEF ApartInv, PhoneApart
  <2>6. NothingForStrangers'
    <3>1. ASSUME NEW t \in Phones, NEW x \in Phones
          PROVE  t \notin sending'[x].to
      BY <1>5, <2>1 DEF ApartInv, NothingForStrangers, Conns
    <3>2. ASSUME NEW t \in Phones, pc'[t] = "new"
          PROVE  /\ outbox'[t] = <<>>
                 /\ \A o \in Objects : t \notin session'[o].phones
                 /\ \A d \in Conns : t \notin sending'[d].to
      BY <1>1, <1>5, <1>10, <1>11, <2>1, <3>2 DEF ApartInv, NothingForStrangers, NoStranger
    <3> QED BY <3>1, <3>2 DEF NothingForStrangers
  <2> QED BY <1>8, <2>4, <2>5, <2>6 DEF ApartInv
<1> QED BY <1>12, <1>13 DEF Conns

\* Replaying moves the first message of the backlog to the outbox.
LEMMA ReplayApart ==
  ASSUME RelayInv, ApartInv, NEW c \in Conns, ReplayNext(c) \/ ReplayFails(c)
  PROVE  ApartInv'
<1>1. UNCHANGED <<session, sending>> /\ pc[c] = "replaying"
  BY DEF ReplayNext, ReplayFails
<1>2. \A t \in Phones : NothingNew(t) /\ (pc'[t] = "new" => pc[t] = "new" /\ t # c)
  BY <1>1 DEF NothingNew, ReplayNext, ReplayFails, RelayInv, HandlersOK, Conns
<1>3. \A o \in Objects : KeepsCache(o) /\ NoStranger(o)
  BY <1>1 DEF KeepsCache, NoStranger
<1>4. SessionsApart'
  BY <1>3, CachesKeep DEF ApartInv
<1>5. CASE UNCHANGED outbox /\ (UNCHANGED backlog \/ backlog' = [backlog EXCEPT ![c] = <<>>])
  <2>1. BoxesOK'
    <3>1. <<>> \in Seq(Messages)
      OBVIOUS
    <3> QED BY <1>5, <3>1 DEF ApartInv, BoxesOK
  <2>2. ASSUME NEW t \in Phones
        PROVE  PhoneApart(t)'
    <3>1. backlog'[t] = backlog[t] \/ backlog'[t] = <<>>
      BY <1>5 DEF ApartInv, BoxesOK, Conns
    <3> QED BY <1>1, <1>5, <3>1 DEF ApartInv, PhoneApart, Apart, Holds
  <2>3. NothingForStrangers'
    BY <1>2, <1>3, <1>5, StrangersKeep DEF ApartInv
  <2> QED BY <1>4, <2>1, <2>2, <2>3 DEF ApartInv
<1>6. CASE /\ backlog[c] # <<>>
           /\ outbox' = [outbox EXCEPT ![c] = Append(@, Head(backlog[c]))]
           /\ backlog' = [backlog EXCEPT ![c] = Tail(@)]
  <2>0. backlog[c] \in Seq(Messages) /\ outbox[c] \in Seq(Outgoing)
    BY DEF ApartInv, BoxesOK
  <2>1. PICK h \in Outgoing : h = Head(backlog[c]) /\ h \in Messages
    BY <1>6, <2>0 DEF Outgoing
  <2>2. PICK b \in Seq(Messages) : b = Tail(backlog[c])
    <3>1. Tail(backlog[c]) \in Seq(Messages)
      BY <1>6, <2>0
    <3> QED BY <3>1
  <2>3. /\ outbox' = [outbox EXCEPT ![c] = Append(@, h)]
        /\ backlog' = [backlog EXCEPT ![c] = b]
    BY <1>6, <2>1, <2>2
  <2>4. /\ BoxesOK' /\ outbox'[c] = Append(outbox[c], h) /\ backlog'[c] = b
        /\ \A x \in Conns : x # c => outbox'[x] = outbox[x] /\ backlog'[x] = backlog[x]
    BY <2>3, BoxesKeep DEF ApartInv
  <2>5. ASSUME c \in Phones
        PROVE  PhoneApart(c)'
    <3>1. PhoneApart(c)
      BY <2>5 DEF ApartInv
    <3>2. /\ Apart(b) /\ Holds(backlog[c], h)
          /\ \A x : Holds(b, x) => Holds(backlog[c], x) /\ x # h
      BY <1>6, <2>0, <2>1, <2>2, <3>1, TailApart DEF PhoneApart
    <3>3. ~Holds(outbox[c], h)
      BY <3>1, <3>2 DEF PhoneApart, Holds
    <3>4. /\ NoneTwice(outbox'[c])
          /\ \A x : Holds(outbox'[c], x) => Holds(outbox[c], x) \/ x = h
      BY <2>0, <2>4, <3>1, <3>3, AppendOne DEF PhoneApart
    <3>5. ASSUME NEW x, Holds(b, x)
          PROVE  ~Holds(outbox'[c], x)
      <4>1. PICK n \in DOMAIN backlog[c] : backlog[c][n] = x
        BY <3>2, <3>5 DEF Holds
      <4>2. ~Holds(outbox[c], x)
        BY <3>1, <4>1 DEF PhoneApart
      <4> QED BY <3>2, <3>4, <3>5, <4>2
    <3>6. \A n \in DOMAIN b : ~Holds(outbox'[c], b[n])
      BY <3>5 DEF Holds
    <3>7. ASSUME NEW d \in Plugins, c \in sending'[d].to
          PROVE  /\ ~Holds(outbox'[c], sending'[d].msg) /\ ~Holds(b, sending'[d].msg)
                 /\ \A e \in Plugins : e # d /\ c \in sending'[e].to
                                         => sending'[e].msg # sending'[d].msg
      BY <1>1, <3>1, <3>2, <3>4, <3>7 DEF PhoneApart
    <3> QED BY <2>4, <3>2, <3>4, <3>6, <3>7 DEF PhoneApart
  <2>6. \A t \in Phones : PhoneApart(t)'
    <3>1. ASSUME NEW t \in Phones, t # c
          PROVE  PhoneApart(t)'
      BY <1>2, <2>4, <3>1, PhoneLeftAlone DEF ApartInv, Conns
    <3> QED BY <2>5, <3>1
  <2>7. NothingForStrangers'
    <3>1. \A t \in Phones : pc'[t] = "new" => pc[t] = "new" /\ outbox'[t] = outbox[t]
      BY <1>2, <2>4 DEF Conns
    <3> QED BY <1>2, <1>3, <3>1, StrangersKeep DEF ApartInv
  <2> QED BY <1>4, <2>4, <2>6, <2>7 DEF ApartInv
<1> QED BY <1>5, <1>6 DEF ReplayNext, ReplayFails

\* One message more in the outbox of c, which is new there, not among those
\* left to replay and not on its way to c from any plugin but d any more.
LEMMA SentApart ==
  ASSUME ApartInv, NEW c \in Conns, NEW m \in Outgoing,
         outbox' = [outbox EXCEPT ![c] = Append(@, m)],
         UNCHANGED <<session, backlog, pc>>, \A t \in Phones : NothingNew(t),
         c \in Phones =>
           /\ pc[c] # "new"
           /\ ~Holds(outbox[c], m) \/ m.type = "rejected"
           /\ ~Holds(backlog[c], m)
           /\ \A d \in Plugins : c \in sending'[d].to => sending[d].msg # m
  PROVE  ApartInv'
<1>1. PICK b \in Seq(Messages) : b = backlog[c]
  BY DEF ApartInv, BoxesOK
<1>2. backlog' = [backlog EXCEPT ![c] = b]
  BY <1>1 DEF ApartInv, BoxesOK
<1>3. /\ BoxesOK' /\ outbox'[c] = Append(outbox[c], m)
      /\ \A x \in Conns : x # c => outbox'[x] = outbox[x] /\ backlog'[x] = backlog[x]
  BY <1>2, BoxesKeep DEF ApartInv
<1>4. ASSUME c \in Phones
      PROVE  PhoneApart(c)'
  <2>1. PhoneApart(c) /\ outbox[c] \in Seq(Outgoing)
    BY <1>4 DEF ApartInv, BoxesOK
  <2>2. /\ NoneTwice(outbox'[c])
        /\ \A x : Holds(outbox'[c], x) => Holds(outbox[c], x) \/ x = m
    BY <1>3, <1>4, <2>1, AppendOne DEF PhoneApart
  <2>3. \A n \in DOMAIN backlog[c] : ~Holds(outbox'[c], backlog[c][n])
    <3> SUFFICES ASSUME NEW n \in DOMAIN backlog[c] PROVE ~Holds(outbox'[c], backlog[c][n])
      OBVIOUS
    <3>1. ~Holds(outbox[c], backlog[c][n])
      BY <2>1 DEF PhoneApart
    <3>2. backlog[c][n] # m
      BY <1>4 DEF Holds
    <3> QED BY <2>2, <3>1, <3>2
  <2>4. ASSUME NEW d \in Plugins, c \in sending'[d].to
        PROVE  /\ ~Holds(outbox'[c], sending'[d].msg) /\ ~Holds(backlog[c], sending'[d].msg)
               /\ \A e \in Plugins : e # d /\ c \in sending'[e].to
                                       => sending'[e].msg # sending'[d].msg
    <3>1. c \in sending[d].to /\ sending'[d].msg = sending[d].msg /\ sending[d].msg # m
      BY <1>4, <2>4 DEF NothingNew, Conns
    <3>2. \A e \in Plugins : c \in sending'[e].to
                             => c \in sending[e].to /\ sending'[e].msg = sending[e].msg
      BY <1>4 DEF NothingNew, Conns
    <3> QED BY <2>1, <2>2, <3>1, <3>2 DEF PhoneApart
  <2> QED BY <2>1, <2>2, <2>3, <2>4 DEF PhoneApart
<1>5. \A t \in Phones : PhoneApart(t)'
  <2>1. ASSUME NEW t \in Phones, t # c
        PROVE  PhoneApart(t)'
    BY <1>3, <2>1, PhoneLeftAlone DEF ApartInv, Conns
  <2> QED BY <1>4, <2>1
<1>6. \A o \in Objects : KeepsCache(o) /\ NoStranger(o)
  BY DEF KeepsCache, NoStranger
<1>7. NothingForStrangers'
  <2>1. \A t \in Phones : pc'[t] = "new" => pc[t] = "new" /\ outbox'[t] = outbox[t]
    BY <1>3 DEF Conns
  <2> QED BY <1>6, <2>1, StrangersKeep DEF ApartInv
<1> QED BY <1>3, <1>5, <1>6, <1>7, CachesKeep DEF ApartInv

\* Forwarding a message takes the peer it has been sent to off the list.
LEMMA ForwardApart ==
  ASSUME RelayInv, ApartInv, NEW c \in Conns,
         CloseFailed(c) \/ \E t \in Conns : Forward(c, t) \/ ForwardFails(c, t)
  PROVE  ApartInv'
<1>1. UNCHANGED <<session, backlog, pc>>
  BY DEF CloseFailed, Forward, ForwardFails
<1>2. sending \in [Conns -> Deliveries] /\ sending[c] \in Deliveries
  BY DEF RelayInv, HandlersOK
<1>3. \A o \in Objects : KeepsCache(o) /\ NoStranger(o)
  BY <1>1 DEF KeepsCache, NoStranger
<1>4. ASSUME NEW t \in Conns, Forward(c, t)
      PROVE  ApartInv'
  <2>1. /\ t \in sending[c].to
        /\ outbox' = [outbox EXCEPT ![t] = Append(@, sending[c].msg)]
        /\ sending' = [sending EXCEPT ![c] =
              IF sending[c].to = {t} /\ sending[c].failed = {} THEN NothingToSend
              ELSE [sending[c] EXCEPT !.to = @ \ {t}]]
    BY <1>4 DEF Forward
  <2>2. /\ \A d \in Conns : d # c => sending'[d] = sending[d]
        /\ t \notin sending'[c].to
        /\ \A x \in sending'[c].to : x \in sending[c].to /\ sending'[c].msg = sending[c].msg
    BY <1>2, <2>1 DEF Deliveries, NothingToSend
  <2>3. \A x \in Phones : NothingNew(x)
    BY <2>2 DEF NothingNew
  <2>4. PICK m \in Outgoing : m = sending[c].msg
    BY <1>2 DEF Deliveries, Outgoing
  <2>5. ASSUME t \in Phones
        PROVE  /\ c \in Plugins /\ pc[t] # "new"
               /\ ~Holds(outbox[t], m) /\ ~Holds(backlog[t], m)
               /\ \A d \in Plugins : t \in sending'[d].to => sending[d].msg # m
    <3>1. c \in Plugins /\ pc[t] # "new"
      BY <2>1, <2>5 DEF ApartInv, NothingForStrangers, Conns
    <3>2. PhoneApart(t)
      BY <2>5 DEF ApartInv
    <3>3. \A d \in Plugins : t \in sending'[d].to => d # c /\ t \in sending[d].to
      BY <2>2 DEF Conns
    <3> QED BY <2>1, <2>4, <3>1, <3>2, <3>3 DEF PhoneApart
  <2>6. outbox' = [outbox EXCEPT ![t] = Append(@, m)]
    BY <2>1, <2>4
  <2> QED BY <1>1, <2>3, <2>5, <2>6, SentApart
<1>5. ASSUME NEW t \in Conns, ForwardFails(c, t)
      PROVE  ApartInv'
  <2>1. /\ \A d \in Conns : d # c => sending'[d] = sending[d]
        /\ sending'[c].msg = sending[c].msg /\ sending'[c].to = sending[c].to \ {t}
    BY <1>2, <1>5 DEF ForwardFails, Deliveries
  <2>2. \A x \in Phones : NothingNew(x)
    BY <2>1 DEF NothingNew
  <2> QED BY <1>1, <1>3, <1>5, <2>2, SilentApart DEF ForwardFails
<1>6. CASE CloseFailed(c)
  <2>1. \A d \in Conns : sending'[d] = sending[d] \/ sending'[d].to = {}
    BY <1>2, <1>6 DEF CloseFailed, NothingToSend
  <2>2. \A x \in Phones : NothingNew(x)
    BY <2>1 DEF NothingNew
  <2> QED BY <1>1, <1>3, <1>6, <2>2, SilentApart DEF CloseFailed
<1> QED BY <1>4, <1>5, <1>6

\* Turning a client away, a plugin's taking its slot and the end of a handler
\* clear caches at most.
LEMMA HandlerCaches ==
  ASSUME RelayInv, NEW c \in Conns,
         ReplacePlugin(c) \/ Finish(c) \/ \E i \in Ids : ConnectRefused(c, i)
  PROVE  \A x \in Objects : KeepsCache(x) /\ NoStranger(x)
<1> USE DEF RelayInv, SessionsOK, HandlersOK
<1>3. ASSUME NEW o \in Objects, NEW r,
             session' = [session EXCEPT ![o] = r], r.phones \subseteq session[o].phones,
             \/ r.hello = NoHello /\ r.cached = <<>>
             \/ r.hello = session[o].hello /\ r.cached = session[o].cached
      PROVE  \A x \in Objects : KeepsCache(x) /\ NoStranger(x)
  <2>1. \A x \in Objects : session'[x] = IF x = o THEN r ELSE session[x]
    BY <1>3
  <2> QED BY <1>3, <2>1 DEF KeepsCache, NoStranger
<1>4. CASE ReplacePlugin(c)
  <2> DEFINE r == ClearCached([session[at[c]] EXCEPT !.plugin = c])
  <2>1. at[c] \in Objects /\ r.hello = NoHello /\ r.cached = <<>> /\ r.phones = session[at[c]].phones
    BY <1>4, AtWork DEF ReplacePlugin, ClearCached, Sessions
  <2>2. session' = [session EXCEPT ![at[c]] = r]
    BY <1>4 DEF ReplacePlugin
  <2> HIDE DEF r
  <2> QED BY <1>3, <2>1, <2>2
<1>5. CASE Finish(c)
  <2> DEFINE s == session[at[c]]
             r == Leave(c, s)
  <2>1. at[c] \in Objects /\ s \in Sessions
    BY <1>5, AtWork DEF Finish
  <2>2. /\ r.phones \subseteq s.phones
        /\ \/ r.hello = NoHello /\ r.cached = <<>>
           \/ r.hello = s.hello /\ r.cached = s.cached
    BY <2>1 DEF Leave, ClearCached, Sessions
  <2>3. session' = [session EXCEPT ![at[c]] = r]
    BY <1>5 DEF Finish
  <2> HIDE DEF r
  <2> QED BY <1>3, <2>1, <2>2, <2>3
<1>6. ASSUME NEW i \in Ids, ConnectRefused(c, i)
      PROVE  \A x \in Objects : KeepsCache(x) /\ NoStranger(x)
  <2>1. CASE UNCHANGED session
    BY <2>1 DEF KeepsCache, NoStranger
  <2>2. CASE sessions[i] # 0 /\ session' = [session EXCEPT ![sessions[i]] = Admit(@, c)]
    <3> DEFINE r == Admit(session[sessions[i]], c)
    <3>1. sessions[i] \in Objects
      BY <2>2, Bounds DEF Objects
    <3>2. /\ r.hello = session[sessions[i]].hello /\ r.phones = session[sessions[i]].phones
          /\ r.cached = session[sessions[i]].cached
      BY <3>1 DEF Admit, Sessions
    <3>3. session' = [session EXCEPT ![sessions[i]] = r]
      BY <2>2
    <3> HIDE DEF r
    <3> QED BY <1>3, <3>1, <3>2, <3>3
  <2> QED BY <1>6, <2>1, <2>2 DEF ConnectRefused
<1> QED BY <1>4, <1>5, <1>6

\* Such a step sends nothing.
LEMMA HandlerApart ==
  ASSUME RelayInv, ApartInv, NEW c \in Conns,
         ReplacePlugin(c) \/ Finish(c) \/ \E i \in Ids : ConnectRefused(c, i)
  PROVE  ApartInv'
<1>1. UNCHANGED <<outbox, backlog, sending>> /\ \A x \in Conns : pc'[x] = pc[x] \/ pc'[x] \in {"open", "done"}
  BY DEF ReplacePlugin, Finish, ConnectRefused, RelayInv, HandlersOK
<1>2. \A t \in Phones : NothingNew(t) /\ (pc'[t] = "new" => pc[t] = "new")
  BY <1>1 DEF NothingNew, Conns
<1> QED BY <1>1, <1>2, HandlerCaches, SilentApart

\* A rejected message is answered by the relay itself.
LEMMA RejectApart ==
  ASSUME RelayInv, ApartInv, NEW c \in Conns, NEW m \in Envelopes, Reject(c, m)
  PROVE  ApartInv'
<1>1. /\ UNCHANGED <<session, backlog, pc, sending>> /\ pc[c] = "open"
      /\ outbox' = [outbox EXCEPT ![c] = Append(@, Rejection)]
  BY DEF Reject, Awaiting
<1>2. \A t \in Phones : NothingNew(t)
  BY <1>1 DEF NothingNew
<1>3. Rejection \in Outgoing /\ Rejection.type = "rejected"
  BY DEF Outgoing, Rejection
<1>4. ~Holds(backlog[c], Rejection)
  <2>1. \A n \in DOMAIN backlog[c] : backlog[c][n].type # "rejected"
    <3>1. backlog[c] \in Seq(Messages)
      BY DEF ApartInv, BoxesOK
    <3>2. \A n \in DOMAIN backlog[c] : backlog[c][n] \in Messages
      BY <3>1
    <3> QED BY <3>2 DEF Messages
  <2> QED BY <1>3, <2>1 DEF Holds
<1>5. \A d \in Plugins : sending[d].msg # Rejection
  <2>1. \A d \in Plugins : sending[d].msg \in Messages \cup {NoHello}
    BY DEF RelayInv, HandlersOK, Deliveries, Conns
  <2> QED BY <1>3, <2>1 DEF Messages, NoHello
<1> QED BY <1>1, <1>2, <1>3, <1>4, <1>5, SentApart

\* Steps of the tables, the clock and the network.
LEMMA OutsideApart ==
  ASSUME RelayInv, ApartInv, UNCHANGED <<session, pc, backlog, sending, outbox>>
  PROVE  ApartInv'
<1>1. \A t \in Phones : NothingNew(t)
  BY DEF NothingNew
<1>2. \A o \in Objects : KeepsCache(o) /\ NoStranger(o)
  BY DEF KeepsCache, NoStranger
<1> QED BY <1>1, <1>2, SilentApart

\* The relay starts with nothing sent.
LEMMA InitApart == RelayInit => ApartInv
<1> SUFFICES ASSUME RelayInit PROVE ApartInv
  OBVIOUS
<1>1. /\ \A c \in Conns : outbox[c] = <<>> /\ backlog[c] = <<>> /\ sending[c].to = {}
      /\ \A o \in Objects : session[o].cached = <<>> /\ session[o].phones = {}
  BY DEF RelayInit, NewSession, NothingToSend
<1>2. BoxesOK
  BY DEF RelayInit, BoxesOK
<1>3. SessionsApart /\ NothingForStrangers
  BY <1>1 DEF SessionsApart, NothingForStrangers, Apart, Holds, Conns
<1>4. \A t \in Phones : PhoneApart(t)
  BY <1>1 DEF PhoneApart, NoneTwice, Apart, Holds, Conns
<1> QED BY <1>2, <1>3, <1>4 DEF ApartInv

\* Every step of the relay and of plugins that do not repeat themselves keeps
\* the invariant.
LEMMA ApartStep == RelayInv /\ ApartInv /\ [FreshNext]_relayVars => RelayInv' /\ ApartInv'
<1> SUFFICES ASSUME RelayInv, ApartInv, [FreshNext]_relayVars PROVE RelayInv' /\ ApartInv'
  OBVIOUS
<1>1. RelayInv'
  <2>1. FreshNext => OpenNext
    BY DEF FreshNext, FreshClients, OpenNext, Clients
  <2> QED BY <2>1, RelayStep
<1>2. CASE Server
  <2>1. CASE Sweep \/ (\E o \in Objects : GrowIdle(o)) \/ \E c \in Conns : HeartbeatFails(c)
    BY <1>1, <2>1, OutsideApart DEF Sweep, GrowIdle, HeartbeatFails
  <2> QED BY <1>1, <1>2, <2>1, ConnectApart, HandlerApart, ReplayApart, ForwardApart DEF Server
<1>3. CASE FreshClients
  <2>1. CASE \E c \in Conns : ClientVanish(c)
    BY <1>1, <2>1, OutsideApart DEF ClientVanish
  <2> QED BY <1>1, <1>3, <2>1, ReceiveApart, RejectApart DEF FreshClients
<1>4. CASE UNCHANGED relayVars
  BY <1>1, <1>4, OutsideApart DEF relayVars
<1> QED BY <1>2, <1>3, <1>4 DEF FreshNext

(***************************************************************************)
(* No phone is sent a message of a plugin twice, by replay and by          *)
(* forwarding or by either of them, for any number of sessions, plugins    *)
(* and phones, as long as the plugins send messages the relay holds no     *)
(* copy of (relay.py 497-509, 577-661).                                    *)
(***************************************************************************)
THEOREM NothingIsSentTwice == FreshSpec => []NoMessageTwice
<1>1. ApartInv => NoMessageTwice
  BY DEF ApartInv, PhoneApart, NoneTwice, NoMessageTwice
<1> QED BY RelayInitInv, InitApart, ApartStep, <1>1, PTL DEF FreshSpec

-----------------------------------------------------------------------------
(* Clients that follow the protocol meet both conditions.                  *)

\* Message m is with a phone, or the relay has it for one.
InHand(m) ==
  \/ \E t \in Phones : Holds(outbox[t], m) \/ Holds(backlog[t], m)
  \/ \E o \in Objects : session[o].hello = m \/ Holds(session[o].cached, m)
  \/ \E d \in Plugins : Busy(d) /\ sending[d].msg = m

\* No plugin's message is on its way that was not before.
NothingAccepted ==
  \A d \in Plugins : Busy(d)' => Busy(d) /\ sending'[d].msg = sending[d].msg

\* What a sequence holds when one is added, or its first is taken.
LEMMA AppendHolds ==
  ASSUME NEW S, NEW u \in Seq(S), NEW x \in S, NEW m, Holds(Append(u, x), m)
  PROVE  Holds(u, m) \/ x = m
<1>1. PICK n \in DOMAIN Append(u, x) : Append(u, x)[n] = m
  BY DEF Holds
<1>2. (n \in DOMAIN u /\ u[n] = m) \/ x = m
  BY <1>1
<1> QED BY <1>2 DEF Holds

LEMMA TailHolds ==
  ASSUME NEW S, NEW u \in Seq(S), u # <<>>, NEW m
  PROVE  Holds(u, Head(u)) /\ (Holds(Tail(u), m) => Holds(u, m))
<1>1. 1 \in DOMAIN u /\ Head(u) = u[1]
  OBVIOUS
<1>2. \A n \in DOMAIN Tail(u) : n + 1 \in DOMAIN u /\ Tail(u)[n] = u[n + 1]
  OBVIOUS
<1> QED BY <1>1, <1>2 DEF Holds

\* Where no cache grows and nothing is accepted, what is in hand was before if
\* the phones are given nothing else.
LEMMA HandsKeep ==
  ASSUME NEW m \in Messages, \A o \in Objects : KeepsCache(o), NothingAccepted,
         \A t \in Phones : Holds(outbox'[t], m) \/ Holds(backlog'[t], m) => InHand(m),
         InHand(m)'
  PROVE  InHand(m)
<1>1. CASE \E t \in Phones : Holds(outbox'[t], m) \/ Holds(backlog'[t], m)
  BY <1>1
<1>2. ASSUME NEW o \in Objects, session'[o].hello = m \/ Holds(session'[o].cached, m)
      PROVE  InHand(m)
  <2>1. m # NoHello /\ ~Holds(<<>>, m)
    BY DEF Messages, NoHello, Holds
  <2>2. session[o].hello = m \/ Holds(session[o].cached, m)
    BY <1>2, <2>1 DEF KeepsCache
  <2> QED BY <2>2 DEF InHand
<1>3. ASSUME NEW d \in Plugins, Busy(d)', sending'[d].msg = m
      PROVE  InHand(m)
  BY <1>3 DEF NothingAccepted, InHand
<1> QED BY <1>1, <1>2, <1>3 DEF InHand

\* One message more for one client, which the relay had.
LEMMA SentHands ==
  ASSUME BoxesOK, NEW c \in Conns, NEW x \in Outgoing, NEW m \in Messages,
         outbox' = [outbox EXCEPT ![c] = Append(@, x)],
         c \in Phones => InHand(x) \/ x = Rejection,
         NEW t \in Phones, Holds(outbox'[t], m)
  PROVE  InHand(m)
<1>1. outbox[c] \in Seq(Outgoing)
  BY DEF BoxesOK
<1>2. CASE t # c
  BY <1>2 DEF InHand, BoxesOK, Conns
<1>3. CASE t = c
  <2>1. Holds(Append(outbox[c], x), m)
    BY <1>3 DEF BoxesOK
  <2>2. Holds(outbox[c], m) \/ x = m
    BY <1>1, <2>1, AppendHolds
  <2>3. Rejection \notin Messages
    BY DEF Rejection, Messages
  <2> QED BY <1>3, <2>2, <2>3 DEF InHand
<1> QED BY <1>2, <1>3

\* A phone that joins is given what its session has.
LEMMA EnterHands ==
  ASSUME RelayInv, BoxesOK, NEW c \in Conns, NEW o \in Objects,
         NEW ss \in [Objects -> Sessions], Enter(c, o, ss), UNCHANGED sending,
         \A x \in Objects :
           \/ ss[x].hello = NoHello /\ ss[x].cached = <<>>
           \/ ss[x].hello = session[x].hello /\ ss[x].cached = session[x].cached,
         NEW m \in Messages, InHand(m)'
  PROVE  InHand(m)
<1> DEFINE tt == [ss EXCEPT ![o] = Admit(@, c)]
<1>1. /\ Admit(ss[o], c).hello = ss[o].hello /\ Admit(ss[o], c).cached = ss[o].cached
      /\ Admit(ss[o], c) \in Sessions
  BY DEF Admit, Sessions, Tokens
<1>2. /\ tt \in [Objects -> Sessions]
      /\ \A x \in Objects : tt[x].hello = ss[x].hello /\ tt[x].cached = ss[x].cached
  BY <1>1
<1>3. EnterAsPlugin(c, o, tt) \/ EnterAsPhone(c, o, tt)
  BY DEF Enter
<1>4. NothingAccepted
  BY DEF NothingAccepted, Busy
<1> HIDE DEF tt
<1>5. CASE EnterAsPlugin(c, o, tt)
  <2>1. ASSUME NEW x \in Objects PROVE KeepsCache(x)
    <3>1. session' = tt \/ session' = [tt EXCEPT ![o] = ClearCached([@ EXCEPT !.plugin = c])]
      BY <1>5 DEF EnterAsPlugin
    <3>2. /\ ClearCached([tt[o] EXCEPT !.plugin = c]).hello = NoHello
          /\ ClearCached([tt[o] EXCEPT !.plugin = c]).cached = <<>>
      BY <1>2 DEF ClearCached, Sessions
    <3> QED BY <1>2, <3>1, <3>2 DEF KeepsCache
  <2>2. UNCHANGED <<outbox, backlog>>
    BY <1>5 DEF EnterAsPlugin
  <2>3. \A t \in Phones : Holds(outbox'[t], m) \/ Holds(backlog'[t], m) => InHand(m)
    BY <2>2 DEF InHand
  <2> QED BY <1>4, <2>1, <2>3, HandsKeep
<1>6. CASE EnterAsPhone(c, o, tt)
  <2>1. /\ c \in Phones
        /\ session' = [tt EXCEPT ![o].phones = @ \cup {c}]
        /\ backlog' = [backlog EXCEPT ![c] = tt[o].cached]
        /\ outbox' = IF tt[o].hello = NoHello THEN outbox
                     ELSE [outbox EXCEPT ![c] = Append(@, tt[o].hello)]
    BY <1>6 DEF EnterAsPhone, HasRoom
  <2>2. ASSUME NEW x \in Objects PROVE KeepsCache(x)
    <3>1. session'[x].hello = tt[x].hello /\ session'[x].cached = tt[x].cached
      BY <1>2, <2>1 DEF Sessions
    <3> QED BY <1>2, <3>1 DEF KeepsCache
  <2>3. /\ Holds(tt[o].cached, m) => InHand(m)
        /\ tt[o].hello # NoHello => tt[o].hello \in Outgoing /\ InHand(tt[o].hello)
    <3>1. ~Holds(<<>>, m)
      BY DEF Holds
    <3>2. tt[o].hello \in Messages \cup {NoHello}
      BY <1>2 DEF Sessions
    <3> QED BY <1>2, <3>1, <3>2 DEF InHand, Outgoing
  <2>4. ASSUME NEW t \in Phones, Holds(backlog'[t], m)
        PROVE  InHand(m)
    <3>1. backlog'[t] = backlog[t] \/ backlog'[t] = tt[o].cached
      BY <2>1 DEF BoxesOK, Conns
    <3> QED BY <2>3, <2>4, <3>1 DEF InHand
  <2>5. ASSUME NEW t \in Phones, Holds(outbox'[t], m)
        PROVE  InHand(m)
    <3>1. CASE tt[o].hello = NoHello
      BY <2>1, <2>5, <3>1 DEF InHand
    <3>2. CASE tt[o].hello # NoHello
      <4>1. PICK h \in Outgoing : h = tt[o].hello /\ InHand(h)
        BY <2>3, <3>2
      <4>2. outbox' = [outbox EXCEPT ![c] = Append(@, h)]
        BY <2>1, <3>2, <4>1
      <4> QED BY <2>5, <4>1, <4>2, SentHands
    <3> QED BY <3>1, <3>2
  <2> QED BY <1>4, <2>2, <2>4, <2>5, HandsKeep
<1> QED BY <1>3, <1>5, <1>6

\* Connecting, to a session that is there or to a new one.
LEMMA ConnectHands ==
  ASSUME RelayInv, BoxesOK, NEW c \in Conns, NEW i \in Ids,
         ConnectToSession(c, i) \/ ConnectToNewSession(c, i)
  PROVE  NothingAccepted /\ \A m \in Messages : InHand(m)' => InHand(m)
<1>1. UNCHANGED sending
  BY DEF ConnectToSession, ConnectToNewSession
<1>2. NothingAccepted
  BY <1>1 DEF NothingAccepted, Busy
<1>3. ASSUME ConnectToSession(c, i), NEW m \in Messages, InHand(m)'
      PROVE  InHand(m)
  <2>1. sessions[i] \in Objects
    BY <1>3, Bounds DEF ConnectToSession, RelayInv, SessionsOK, Objects
  <2> QED BY <1>1, <1>3, <2>1, EnterHands DEF ConnectToSession, RelayInv, SessionsOK
<1>4. ASSUME ConnectToNewSession(c, i), NEW m \in Messages, InHand(m)'
      PROVE  InHand(m)
  <2> DEFINE o == made + 1
             ss == [session EXCEPT ![o] = NewSession(i)]
  <2>1. o \in Objects
    BY <1>4, Bounds DEF ConnectToNewSession, Objects
  <2>2. /\ NewSession(i) \in Sessions
        /\ NewSession(i).hello = NoHello /\ NewSession(i).cached = <<>>
    BY NewFits DEF NewSession
  <2>3. /\ ss \in [Objects -> Sessions]
        /\ \A x \in Objects : \/ ss[x].hello = NoHello /\ ss[x].cached = <<>>
                              \/ ss[x] = session[x]
    BY <2>1, <2>2 DEF RelayInv, SessionsOK
  <2>4. CASE Enter(c, o, ss)
    <3> HIDE DEF o, ss
    <3> QED BY <1>1, <1>4, <2>1, <2>3, <2>4, EnterHands
  <2>5. CASE session' = ss /\ UNCHANGED <<backlog, outbox>>
    <3>1. \A x \in Objects : KeepsCache(x)
      BY <2>3, <2>5 DEF KeepsCache
    <3>2. \A t \in Phones : Holds(outbox'[t], m) \/ Holds(backlog'[t], m) => InHand(m)
      BY <2>5 DEF InHand
    <3> QED BY <1>2, <1>4, <3>1, <3>2, HandsKeep
  <2> QED BY <1>4, <2>4, <2>5 DEF ConnectToNewSession
<1> QED BY <1>2, <1>3, <1>4

\* Replaying moves a message from what is left to what is sent.
LEMMA ReplayHands ==
  ASSUME BoxesOK, NEW c \in Conns, ReplayNext(c) \/ ReplayFails(c)
  PROVE  NothingAccepted /\ \A m \in Messages : InHand(m)' => InHand(m)
<1>1. UNCHANGED <<session, sending>>
  BY DEF ReplayNext, ReplayFails
<1>2. NothingAccepted /\ \A o \in Objects : KeepsCache(o)
  BY <1>1 DEF NothingAccepted, Busy, KeepsCache
<1>3. SUFFICES ASSUME NEW m \in Messages, InHand(m)' PROVE InHand(m)
  BY <1>2
<1>4. CASE UNCHANGED outbox /\ (UNCHANGED backlog \/ backlog' = [backlog EXCEPT ![c] = <<>>])
  <2>1. ASSUME NEW t \in Phones, Holds(outbox'[t], m) \/ Holds(backlog'[t], m)
        PROVE  InHand(m)
    <3>1. backlog'[t] = backlog[t] \/ backlog'[t] = <<>>
      BY <1>4 DEF BoxesOK, Conns
    <3> QED BY <1>4, <2>1, <3>1 DEF InHand, Holds
  <2> QED BY <1>2, <1>3, <2>1, HandsKeep
<1>5. CASE /\ backlog[c] # <<>>
           /\ outbox' = [outbox EXCEPT ![c] = Append(@, Head(backlog[c]))]
           /\ backlog' = [backlog EXCEPT ![c] = Tail(@)]
  <2>1. backlog[c] \in Seq(Messages)
    BY DEF BoxesOK
  <2>2. PICK h \in Outgoing : h = Head(backlog[c])
    BY <1>5, <2>1 DEF Outgoing
  <2>3. /\ Holds(backlog[c], h)
        /\ Holds(Tail(backlog[c]), m) => Holds(backlog[c], m)
    BY <1>5, <2>1, <2>2, TailHolds
  <2>4. outbox' = [outbox EXCEPT ![c] = Append(@, h)]
    BY <1>5, <2>2
  <2>5. ASSUME NEW t \in Phones, Holds(backlog'[t], m)
        PROVE  InHand(m)
    BY <1>5, <2>3, <2>5 DEF InHand, BoxesOK, Conns
  <2>6. c \in Phones => InHand(h)
    BY <2>3 DEF InHand
  <2>7. \A t \in Phones : Holds(outbox'[t], m) => InHand(m)
    BY <2>4, <2>6, SentHands
  <2> QED BY <1>2, <1>3, <2>5, <2>7, HandsKeep
<1> QED BY <1>4, <1>5 DEF ReplayNext, ReplayFails

\* Forwarding gives a phone what was on its way to it.
LEMMA ForwardHands ==
  ASSUME RelayInv, ApartInv, NEW c \in Conns,
         CloseFailed(c) \/ \E t \in Conns : Forward(c, t) \/ ForwardFails(c, t)
  PROVE  NothingAccepted /\ \A m \in Messages : InHand(m)' => InHand(m)
<1>1. UNCHANGED <<session, backlog>>
  BY DEF CloseFailed, Forward, ForwardFails
<1>2. sending \in [Conns -> Deliveries] /\ sending[c] \in Deliveries
  BY DEF RelayInv, HandlersOK
<1>3. NothingAccepted
  <2>1. \A d \in Conns : d # c => sending'[d] = sending[d]
    BY <1>2 DEF CloseFailed, Forward, ForwardFails
  <2>2. Busy(c)
    BY DEF CloseFailed, Forward, ForwardFails, Busy
  <2>3. \/ sending'[c].to = {} /\ sending'[c].failed = {}
        \/ sending'[c].msg = sending[c].msg
    <3>1. CASE CloseFailed(c)
      BY <1>2, <3>1 DEF CloseFailed, NothingToSend
    <3>2. ASSUME NEW t \in Conns, Forward(c, t)
          PROVE  \/ sending'[c].to = {} /\ sending'[c].failed = {}
                 \/ sending'[c].msg = sending[c].msg
      BY <1>2, <3>2 DEF Forward, Deliveries, NothingToSend
    <3>3. ASSUME NEW t \in Conns, ForwardFails(c, t)
          PROVE  sending'[c].msg = sending[c].msg
      BY <1>2, <3>3 DEF ForwardFails, Deliveries
    <3> QED BY <3>1, <3>2, <3>3
  <2> QED BY <2>1, <2>2, <2>3 DEF NothingAccepted, Busy, Conns
<1>4. \A o \in Objects : KeepsCache(o)
  BY <1>1 DEF KeepsCache
<1>5. SUFFICES ASSUME NEW m \in Messages, InHand(m)' PROVE InHand(m)
  BY <1>3
<1>6. CASE UNCHANGED outbox
  BY <1>1, <1>3, <1>4, <1>5, <1>6, HandsKeep DEF InHand
<1>7. ASSUME NEW t \in Conns, Forward(c, t)
      PROVE  InHand(m)
  <2>1. t \in sending[c].to
    BY <1>7 DEF Forward
  <2>2. PICK x \in Outgoing : x = sending[c].msg
    BY <1>2 DEF Deliveries, Outgoing
  <2>3. outbox' = [outbox EXCEPT ![t] = Append(@, x)]
    BY <1>7, <2>2 DEF Forward
  <2>4. t \in Phones => InHand(x)
    BY <2>1, <2>2 DEF ApartInv, NothingForStrangers, Conns, InHand, Busy
  <2>5. \A p \in Phones : Holds(outbox'[p], m) => InHand(m)
    BY <2>3, <2>4, SentHands DEF ApartInv
  <2> QED BY <1>1, <1>3, <1>4, <1>5, <2>5, HandsKeep DEF InHand
<1> QED BY <1>6, <1>7 DEF CloseFailed, ForwardFails

\* The relay by itself accepts nothing and makes no messages.
LEMMA ServerHands ==
  ASSUME RelayInv, ApartInv, Server
  PROVE  NothingAccepted /\ \A m \in Messages : InHand(m)' => InHand(m)
<1>1. ASSUME UNCHANGED <<outbox, backlog, sending>>, \A o \in Objects : KeepsCache(o)
      PROVE  NothingAccepted /\ \A m \in Messages : InHand(m)' => InHand(m)
  <2>1. NothingAccepted
    BY <1>1 DEF NothingAccepted, Busy
  <2>2. ASSUME NEW m \in Messages, NEW t \in Phones, Holds(outbox'[t], m) \/ Holds(backlog'[t], m)
        PROVE  InHand(m)
    BY <1>1, <2>2 DEF InHand
  <2> QED BY <1>1, <2>1, <2>2, HandsKeep
<1>2. CASE Sweep \/ (\E o \in Objects : GrowIdle(o)) \/ \E c \in Conns : HeartbeatFails(c)
  BY <1>1, <1>2 DEF Sweep, GrowIdle, HeartbeatFails, KeepsCache
<1>3. ASSUME NEW c \in Conns, ReplacePlugin(c) \/ Finish(c) \/ \E i \in Ids : ConnectRefused(c, i)
      PROVE  NothingAccepted /\ \A m \in Messages : InHand(m)' => InHand(m)
  <2>1. UNCHANGED <<outbox, backlog, sending>>
    BY <1>3 DEF ReplacePlugin, Finish, ConnectRefused
  <2> QED BY <1>1, <1>3, <2>1, HandlerCaches
<1> QED BY <1>2, <1>3, ConnectHands, ReplayHands, ForwardHands DEF Server, ApartInv

\* A plugin's message that is received is the only new one.
LEMMA ReceiveHands ==
  ASSUME RelayInv, NEW c \in Conns, NEW x \in Envelopes, Receive(c, x)
  PROVE  /\ \A m \in Messages : InHand(m)' => InHand(m) \/ (c \in Plugins /\ m = x)
         /\ \A d \in Plugins : Busy(d)' => \/ Busy(d) /\ sending'[d].msg = sending[d].msg
                                           \/ d = c /\ sending'[d].msg = x
<1> DEFINE s == session[at[c]]
<1>1. /\ session' = [session EXCEPT ![at[c]] = Metadata(s, c, x)]
      /\ sending' = IF Targets(s, c) = {} THEN sending
                    ELSE [sending EXCEPT ![c] = [msg |-> x, to |-> Targets(s, c), failed |-> {}]]
      /\ UNCHANGED <<backlog, outbox>>
  BY DEF Receive
<1>2. at[c] \in Objects /\ s \in Sessions /\ x \in Messages
  BY AtWork DEF Receive, Awaiting, Envelopes
<1>3. \A o \in Objects : session'[o] = IF o = at[c] THEN Metadata(s, c, x) ELSE session[o]
  BY <1>1, <1>2 DEF RelayInv, SessionsOK
<1>4. \A d \in Plugins : Busy(d)' => \/ Busy(d) /\ sending'[d].msg = sending[d].msg
                                     \/ d = c /\ sending'[d].msg = x
  BY <1>1 DEF Busy, RelayInv, HandlersOK, Conns
<1>5. SUFFICES ASSUME NEW m \in Messages, InHand(m)', ~InHand(m) PROVE c \in Plugins /\ m = x
  BY <1>4
<1>6. ASSUME NEW o \in Objects, session'[o].hello = m \/ Holds(session'[o].cached, m)
      PROVE  c \in Plugins /\ m = x
  <2>1. o = at[c] /\ Metadata(s, c, x) # s
    BY <1>3, <1>5, <1>6 DEF InHand
  <2>2. s.hello # m /\ ~Holds(s.cached, m)
    BY <1>2, <1>5 DEF InHand
  <2>3. CASE x.type = "hello"
    <3>1. c \in Plugins /\ session'[o].hello = x /\ session'[o].cached = <<>>
      BY <1>2, <1>3, <2>1, <2>3 DEF Metadata, Sessions
    <3> QED BY <1>6, <3>1 DEF Holds
  <2>4. CASE x.type # "hello"
    <3>1. /\ c \in Plugins /\ session'[o].hello = s.hello
          /\ session'[o].cached = Cached(s.cached, x)
      BY <1>2, <1>3, <2>1, <2>4 DEF Metadata, Sessions
    <3> DEFINE longer == Append(s.cached, x)
    <3>2. /\ s.cached \in Seq(Messages) /\ longer \in Seq(Messages) /\ longer # <<>>
          /\ Cached(s.cached, x) \in {longer, Tail(longer)}
      BY <1>2 DEF Sessions, Cached
    <3> HIDE DEF longer
    <3>3. Holds(longer, m)
      BY <1>6, <2>2, <3>1, <3>2, TailHolds
    <3> QED BY <1>2, <2>2, <3>1, <3>2, <3>3, AppendHolds DEF longer
  <2> QED BY <2>3, <2>4
<1>7. ASSUME NEW d \in Plugins, Busy(d)', sending'[d].msg = m
      PROVE  c \in Plugins /\ m = x
  BY <1>4, <1>5, <1>7 DEF InHand
<1>8. \A t \in Phones : ~(Holds(outbox'[t], m) \/ Holds(backlog'[t], m))
  BY <1>1, <1>5 DEF InHand
<1> QED BY <1>5, <1>6, <1>7, <1>8 DEF InHand

\* What is in hand was made by a plugin: its key is known, its number is used.
Known(m) ==
  \/ m.type = "hello" /\ m.key \in KeyIds /\ owner[m.key] # NoConn
  \/ m.type # "hello" /\ m.body \in 0..(frames - 1)

KnownInv ==
  /\ frames \in Nat /\ owner \in [KeyIds -> Plugins \cup {NoConn}]
  /\ \A m \in Messages : InHand(m) => Known(m)
  /\ \A d \in Plugins : \A k \in KeyIds : Announcing(d, k) => owner[k] = d

ClientsInv == RelayInv /\ ApartInv /\ KnownInv

LEMMA InitClients == RelayInit /\ MadeInit => ClientsInv
<1> SUFFICES ASSUME RelayInit, MadeInit PROVE ClientsInv
  OBVIOUS
<1>1. /\ \A c \in Conns : /\ outbox[c] = <<>> /\ backlog[c] = <<>>
                          /\ sending[c].to = {} /\ sending[c].failed = {}
      /\ \A o \in Objects : session[o].hello = NoHello /\ session[o].cached = <<>>
  BY DEF RelayInit, NewSession, NothingToSend
<1>2. \A m \in Messages : ~InHand(m)
  BY <1>1 DEF InHand, Holds, Busy, Messages, NoHello, Conns
<1>3. \A d \in Plugins : \A k \in KeyIds : ~Announcing(d, k)
  BY <1>1 DEF Announcing, Busy, Conns
<1>4. frames \in Nat /\ owner \in [KeyIds -> Plugins \cup {NoConn}]
  BY DEF MadeInit
<1> QED BY <1>2, <1>3, <1>4, RelayInitInv, InitApart DEF ClientsInv, KnownInv

\* A plugin with fresh keys and numbers sends what nobody has, and under its
\* own keys.
LEMMA FreshMessage ==
  ASSUME ClientsInv, NEW c \in Plugins, NEW x \in Envelopes, Receive(c, x),
         \/ \E k \in KeyIds, b \in Bodies : owner[k] = NoConn /\ x = Hello(k, b)
         \/ x = Error(frames)
         \/ \E k \in KeyIds, e \in PluginKinds : owner[k] = c /\ x = Frame(k, e, frames)
  PROVE  Unseen(x) /\ KeepsToOwnKeys(c, x)
<1>1. x \in Messages /\ ~Known(x)
  BY DEF Known, Hello, Error, Frame, Envelopes, ClientsInv, KnownInv
<1>2. ~InHand(x)
  BY <1>1 DEF ClientsInv, KnownInv
<1>3. Unseen(x)
  BY <1>2 DEF Unseen, InHand
<1>4. ASSUME x.type = "frame", NEW d \in Plugins, Announcing(d, x.key)
      PROVE  FALSE
  <2>1. x.key \in KeyIds /\ owner[x.key] = c
    BY <1>4 DEF Hello, Error, Frame
  <2>2. d = c
    BY <1>4, <2>1 DEF ClientsInv, KnownInv
  <2> QED BY <1>4, <2>2 DEF Announcing, Receive, Awaiting
<1> QED BY <1>3, <1>4 DEF KeepsToOwnKeys

\* What was known stays so when plugins make more.
LEMMA KnownStays ==
  ASSUME KnownInv, frames' \in Nat, frames <= frames',
         \A k \in KeyIds : owner[k] # NoConn => owner'[k] # NoConn,
         NEW m, Known(m)
  PROVE  Known(m)'
BY DEF Known, KnownInv

\* A step of the clients is one of HonestSpec and of FreshSpec, and keeps what
\* is known.
LEMMA ClientsStep ==
  ASSUME ClientsInv, [ClientsNext]_<<relayVars, madeVars>>
  PROVE  ClientsInv' /\ [HonestNext]_relayVars /\ [FreshNext]_relayVars
<1>1. RelayInv /\ ApartInv /\ KnownInv /\ BoxesOK
  BY DEF ClientsInv, ApartInv
<1>2. SUFFICES KnownInv' /\ [HonestNext]_relayVars /\ [FreshNext]_relayVars
  BY <1>1, ApartStep DEF ClientsInv
<1>3. ASSUME UNCHANGED madeVars, NothingAccepted,
             \A m \in Messages : InHand(m)' => InHand(m)
      PROVE  KnownInv'
  <2>1. ASSUME NEW m \in Messages, InHand(m)' PROVE Known(m)'
    BY <1>1, <1>3, <2>1 DEF KnownInv, Known, madeVars
  <2>2. ASSUME NEW d \in Plugins, NEW k \in KeyIds, Announcing(d, k)' PROVE owner'[k] = d
    BY <1>1, <1>3, <2>2 DEF KnownInv, Announcing, NothingAccepted, madeVars
  <2> QED BY <1>1, <1>3, <2>1, <2>2 DEF KnownInv, madeVars
<1>4. ASSUME UNCHANGED <<outbox, backlog, session, sending>>, UNCHANGED madeVars
      PROVE  KnownInv'
  BY <1>3, <1>4 DEF NothingAccepted, InHand, Busy
<1>5. ASSUME NEW c \in Conns, NEW x \in Envelopes, Reject(c, x)
      PROVE  \A m \in Messages : InHand(m)' => InHand(m)
  <2>1. /\ UNCHANGED <<backlog, session, sending>>
        /\ outbox' = [outbox EXCEPT ![c] = Append(@, Rejection)]
    BY <1>5 DEF Reject
  <2>2. Rejection \in Outgoing
    BY DEF Rejection, Outgoing
  <2>3. ASSUME NEW m \in Messages, NEW t \in Phones, Holds(outbox'[t], m)
        PROVE  InHand(m)
    BY <1>1, <2>1, <2>2, <2>3, SentHands
  <2> QED BY <2>1, <2>3 DEF InHand, Busy
<1>6. CASE UNCHANGED <<relayVars, madeVars>>
  BY <1>4, <1>6 DEF relayVars
<1>7. CASE Server /\ UNCHANGED madeVars
  BY <1>1, <1>3, <1>7, ServerHands DEF HonestNext, FreshNext
<1>8. ASSUME NEW c \in Conns, ClientVanish(c), UNCHANGED madeVars
      PROVE  KnownInv' /\ HonestNext /\ FreshNext
  BY <1>4, <1>8 DEF ClientVanish, HonestNext, HonestClients, FreshNext, FreshClients
<1>9. ASSUME NEW c \in Plugins, NEW x \in Envelopes, Arrives(c, x),
             \/ \E k \in KeyIds, b \in Bodies : owner[k] = NoConn /\ x = Hello(k, b)
             \/ x = Error(frames)
             \/ \E k \in KeyIds, e \in PluginKinds : owner[k] = c /\ x = Frame(k, e, frames),
             frames' \in Nat, frames <= frames', owner' \in [KeyIds -> Plugins \cup {NoConn}],
             \A k \in KeyIds : owner[k] # NoConn => owner'[k] = owner[k],
             Known(x)', x.type = "hello" => owner'[x.key] = c
      PROVE  KnownInv' /\ HonestNext /\ FreshNext
  <2>1. ASSUME NEW m, Known(m) PROVE Known(m)'
    BY <1>1, <1>9, <2>1, KnownStays
  <2>2. CASE Receive(c, x)
    <3>1. Unseen(x) /\ KeepsToOwnKeys(c, x)
      BY <1>9, <2>2, FreshMessage
    <3>2. HonestNext /\ FreshNext
      BY <2>2, <3>1 DEF HonestNext, HonestClients, FreshNext, FreshClients, Conns
    <3>3. /\ \A m \in Messages : InHand(m)' => InHand(m) \/ m = x
          /\ \A d \in Plugins : Busy(d)' => \/ Busy(d) /\ sending'[d].msg = sending[d].msg
                                            \/ d = c /\ sending'[d].msg = x
      BY <1>1, <2>2, ReceiveHands DEF Conns
    <3>4. \A m \in Messages : InHand(m)' => Known(m)'
      BY <1>1, <1>9, <2>1, <3>3 DEF KnownInv
    <3>5. ASSUME NEW d \in Plugins, NEW k \in KeyIds, Announcing(d, k)' PROVE owner'[k] = d
      <4>1. d # NoConn
        BY RolesAssumption DEF Conns
      <4> QED BY <1>1, <1>9, <3>3, <3>5, <4>1 DEF KnownInv, Announcing
    <3> QED BY <1>9, <3>2, <3>4, <3>5 DEF KnownInv
  <2>3. CASE RejectInvalid(c, x)
    <3>1. Reject(c, x) /\ UNCHANGED sending
      BY <2>3 DEF RejectInvalid, Reject
    <3>2. HonestNext /\ FreshNext
      BY <3>1 DEF HonestNext, HonestClients, FreshNext, FreshClients, Conns
    <3>3. \A m \in Messages : InHand(m)' => Known(m)'
      BY <1>1, <1>5, <2>1, <3>1 DEF KnownInv, Conns
    <3>4. ASSUME NEW d \in Plugins, NEW k \in KeyIds, Announcing(d, k)' PROVE owner'[k] = d
      <4>1. d # NoConn
        BY RolesAssumption DEF Conns
      <4> QED BY <1>1, <1>9, <3>1, <3>4, <4>1 DEF KnownInv, Announcing, Busy
    <3> QED BY <1>9, <3>2, <3>3, <3>4 DEF KnownInv
  <2> QED BY <1>9, <2>2, <2>3 DEF Arrives
<1>10. ASSUME NEW c \in Plugins, NEW k \in KeyIds, NEW b \in Bodies, PluginOffers(c, k, b)
       PROVE  KnownInv' /\ HonestNext /\ FreshNext
  <2> DEFINE x == Hello(k, b)
  <2>1. x \in Envelopes /\ x.type = "hello" /\ x.key = k
    BY DEF Hello, Envelopes, Messages
  <2>2. /\ owner' = [owner EXCEPT ![k] = c] /\ frames' = frames /\ c # NoConn
        /\ owner[k] = NoConn /\ Arrives(c, x)
    BY <1>10, RolesAssumption DEF PluginOffers, Conns
  <2>3. /\ owner' \in [KeyIds -> Plugins \cup {NoConn}] /\ owner'[k] = c
        /\ \A j \in KeyIds : owner[j] # NoConn => owner'[j] = owner[j]
        /\ frames' \in Nat /\ frames <= frames'
    BY <1>1, <2>2 DEF KnownInv
  <2>4. Known(x)'
    BY <2>1, <2>2, <2>3 DEF Known
  <2>5. \E j \in KeyIds, d \in Bodies : owner[j] = NoConn /\ x = Hello(j, d)
    BY <2>2
  <2> HIDE DEF x
  <2> QED BY <1>9, <2>1, <2>2, <2>3, <2>4, <2>5
<1>11. ASSUME NEW c \in Plugins, NEW d \in PluginKinds, PluginSends(c, d)
       PROVE  KnownInv' /\ HonestNext /\ FreshNext
  <2>1. PICK x : /\ Arrives(c, x)
                 /\ \/ x = Error(frames)
                    \/ \E k \in KeyIds : owner[k] = c /\ x = Frame(k, d, frames)
    BY <1>11 DEF PluginSends
  <2>2. /\ frames \in Bodies /\ frames' = frames + 1 /\ owner' = owner
        /\ frames \in Nat /\ owner \in [KeyIds -> Plugins \cup {NoConn}]
    BY <1>1, <1>11 DEF PluginSends, KnownInv
  <2>3. x \in Envelopes /\ x.type # "hello" /\ x.body = frames
    BY <2>1, <2>2 DEF Error, Frame, Envelopes, Messages, PluginKinds
  <2>4. Known(x)' /\ frames' \in Nat /\ frames <= frames'
    BY <2>2, <2>3 DEF Known
  <2> QED BY <1>9, <2>1, <2>2, <2>3, <2>4
<1>12. ASSUME NEW c \in Phones, NEW b \in Bodies, PhoneSends(c, b)
       PROVE  KnownInv' /\ HonestNext /\ FreshNext
  <2>1. PICK n \in DOMAIN outbox[c] :
          /\ outbox[c][n].type = "hello"
          /\ \E m \in {Hello(outbox[c][n].key, b), Frame(outbox[c][n].key, "command", b)} :
               Arrives(c, m) \/ Reject(c, m)
    BY <1>12 DEF PhoneSends
  <2>2. outbox[c][n] \in Messages
    <3>1. outbox[c] \in Seq(Outgoing)
      BY <1>1 DEF BoxesOK, Conns
    <3>2. outbox[c][n] \in Outgoing
      BY <3>1
    <3> QED BY <2>1, <3>2 DEF Outgoing, Rejection, NoHello
  <2>3. PICK x \in Envelopes : Receive(c, x) \/ Reject(c, x)
    <3>1. outbox[c][n].key \in KeyIds \cup {0}
      BY <2>2 DEF Messages
    <3>2. /\ Hello(outbox[c][n].key, b) \in Envelopes
          /\ Frame(outbox[c][n].key, "command", b) \in Envelopes
      BY <3>1 DEF Hello, Frame, Envelopes, Messages, PhoneKinds
    <3> QED BY <2>1, <3>2 DEF Arrives, RejectInvalid
  <2>4. c \notin Plugins /\ c \in Conns
    BY RolesAssumption DEF Conns
  <2>5. HonestNext /\ FreshNext
    BY <2>3, <2>4 DEF HonestNext, HonestClients, FreshNext, FreshClients, KeepsToOwnKeys
  <2>6. /\ \A m \in Messages : InHand(m)' => InHand(m)
        /\ NothingAccepted
    <3>1. CASE Receive(c, x)
      BY <1>1, <2>4, <3>1, ReceiveHands DEF NothingAccepted
    <3>2. CASE Reject(c, x)
      BY <1>5, <2>4, <3>2 DEF NothingAccepted, Reject, Busy
    <3> QED BY <2>3, <3>1, <3>2
  <2>7. UNCHANGED madeVars
    BY <1>12 DEF PhoneSends
  <2> QED BY <1>3, <2>5, <2>6, <2>7
<1> QED BY <1>6, <1>7, <1>8, <1>10, <1>11, <1>12 DEF ClientsNext

(***************************************************************************)
(* Plugins with keys and nonces of their own and phones that use what they *)
(* have been sent meet both conditions above, however many there are and   *)
(* whatever they send (relay_client.py 329-363, app.js 1447-1513).         *)
(***************************************************************************)
THEOREM ClientsAreHonestAndFresh == ClientsSpec => HonestSpec /\ FreshSpec
<1>1. ClientsInv /\ [ClientsNext]_<<relayVars, madeVars>>
        => ClientsInv' /\ [HonestNext]_relayVars /\ [FreshNext]_relayVars
  BY ClientsStep
<1> QED BY <1>1, InitClients, PTL DEF ClientsSpec, HonestSpec, FreshSpec

(***************************************************************************)
(* Such phones get each message once, and a frame after the hello of its   *)
(* key, through every replacement, replay, failure and crowd at the relay  *)
(* (relay.py 480-573, 577-661).                                            *)
(***************************************************************************)
THEOREM PhonesCanFollow == ClientsSpec => [](HelloBeforeFrames /\ NoMessageTwice)
BY ClientsAreHonestAndFresh, HellosComeFirst, NothingIsSentTwice, PTL
=============================================================================
