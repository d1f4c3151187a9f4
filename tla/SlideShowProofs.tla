---------------------------- MODULE SlideShowProofs ----------------------------
(***************************************************************************)
(* What SlideShow's run checks of slides and images, for every deck, size  *)
(* of the image cache, and number of moves and messages.                   *)
(***************************************************************************)
EXTENDS SlideShow, WellFoundedInduction, TLAPS

\* Images go with their revisions, also those the page keeps for a state
\* that is still to come.
TextInv ==
  /\ ImagesMatchRevision
  /\ \A slot \in Slots :
       assets[slot] # NoImage => assets[slot].image.text = assets[slot].rev[2]

\* Nothing is pushed in the direct modes.
WayInv ==
  way = "direct" => pushing = <<>> /\ \A i \in DOMAIN unread : ~IsAsset(unread[i])

OnWay(messages, slot, i) == IsAsset(messages[i]) /\ messages[i].slot = slot

\* The image that the relay's thread has sent last of a slot is the last one
\* on its way, or has arrived.
PushedInv ==
  \A slot \in Slots : sent[slot] # NoToken =>
    \/ \E i \in DOMAIN unread :
         /\ OnWay(unread, slot, i) /\ unread[i].rev = sent[slot]
         /\ \A j \in DOMAIN unread : j > i => ~OnWay(unread, slot, j)
    \/ /\ \A i \in DOMAIN unread : ~OnWay(unread, slot, i)
       /\ assets[slot] # NoImage /\ assets[slot].rev = sent[slot]

IInv == SlideTypeOK /\ TextInv /\ WayInv /\ PushedInv /\ ShownOrOnItsWay

-----------------------------------------------------------------------------
(* The office and what the controller reports of it.                       *)

\* What the assumption says of the deck: the show has at least one slide, and
\* 0 is a slide.
LEMMA Deck ==
  /\ Slides \subseteq Nat /\ 0 \in Slides
  /\ ShowSize \in Nat \ {0}
  /\ DOMAIN Order = 1..ShowSize
  /\ \A i \in 1..ShowSize : Order[i] \in Slides
BY SlideAssumption DEF Slides, ShowSize

\* Where the show's next and previous slide may be.
LEMMA OfficePositions ==
  ASSUME OfficeTypeOK
  PROVE  /\ OfficeNext \in -1..(ShowSize - 1)
         /\ OfficePrevious \in -1..(ShowSize - 1)
BY Deck DEF OfficeTypeOK, OfficeNext, OfficePrevious

\* A show starts with one of its slides.
LEMMA StartPositionType ==
  ASSUME NEW s \in Slides
  PROVE  StartPosition(s) \in 0..(ShowSize - 1)
<1> DEFINE later == {i \in 1..ShowSize : Order[i] >= s}
<1>1. CASE later = {}
  BY <1>1, Deck DEF StartPosition
<1>2. CASE later # {}
  <2>1. later \subseteq Nat
    BY Deck
  <2>2. PICK i \in later : \A j \in later : <<j, i>> \notin OpToRel(<, Nat)
    <3> HIDE DEF later
    <3> QED  BY <1>2, <2>1, WFMin, NatLessThanWellFounded
  <2>3. \A j \in later : i <= j
    <3>1. OpToRel(<, Nat) = {ss \in Nat \X Nat : ss[1] < ss[2]}
      BY Zenon DEF OpToRel
    <3>2. SUFFICES ASSUME NEW j \in later, j < i PROVE FALSE
      BY <2>1
    <3>3. <<j, i>> \in Nat \X Nat /\ <<j, i>>[1] < <<j, i>>[2]
      BY <2>1, <3>2
    <3> HIDE DEF later
    <3> QED  BY <2>2, <3>1, <3>2, <3>3
  <2>4. (CHOOSE k \in later : \A j \in later : k <= j) \in later
    <3> HIDE DEF later
    <3> QED  BY <2>2, <2>3
  <2>5. StartPosition(s) = (CHOOSE k \in later : \A j \in later : k <= j) - 1
    BY <1>2 DEF StartPosition
  <2> QED  BY <2>4, <2>5, Deck
<1> QED  BY <1>1, <1>2

\* The indices that are reported, -1 being none.
LEMMA IndexType ==
  ASSUME OfficeTypeOK
  PROVE  /\ CurrentIndex \in Nat
         /\ NextIndex \in Nat \cup {-1}
         /\ SlideCount \in Nat \ {0}
<1>1. SlideCount \in Nat \ {0}
  BY Deck, SlideAssumption DEF SlideCount
<1>2. CurrentIndex \in Nat
  BY Deck DEF OfficeTypeOK, CurrentIndex
<1>3. NextIndex \in Nat \cup {-1}
  BY <1>1, <1>2, OfficePositions DEF NextIndex
<1> QED  BY <1>1, <1>2, <1>3

\* An index that is reported names a slide or none.
LEMMA SlideAtType ==
  ASSUME NEW i \in Nat \cup {-1}
  PROVE  /\ SlideAt(i) \in Slides \cup {NoSlide}
         /\ SlideAt(i) # NoSlide => i \in Nat
BY Deck, SlideAssumption DEF SlideAt, Slides

\* A revision that is made for an index carries the text of its slide.
LEMMA TokenType ==
  ASSUME OfficeTypeOK, NEW i \in Nat \cup {-1}, NEW r \in BOOLEAN, NEW p \in BOOLEAN
  PROVE  /\ RenderToken(i, r, p) \in Revisions
         /\ RenderToken(i, r, p) # NoToken =>
              /\ SlideAt(i) \in Slides
              /\ RenderToken(i, r, p)[2] = text[SlideAt(i)]
<1>1. CASE front # "impress" \/ SlideAt(i) = NoSlide
  BY <1>1 DEF RenderToken, Revisions
<1>2. CASE ~(front # "impress" \/ SlideAt(i) = NoSlide)
  <2>1. i \in Nat /\ SlideAt(i) \in Slides
    BY <1>2, SlideAtType
  <2>2. text[SlideAt(i)] \in Texts
    BY <2>1 DEF OfficeTypeOK
  <2>3. RenderToken(i, r, p) = <<i, text[SlideAt(i)], r, p>>
    BY <1>2 DEF RenderToken
  <2> QED  BY <2>1, <2>2, <2>3 DEF Revisions, Tokens
<1> QED  BY <1>1, <1>2

\* The revision of a slot carries the text of the slide that the slot shows.
LEMMA RevisionType ==
  ASSUME OfficeTypeOK, NEW slot \in Slots
  PROVE  /\ Revision(slot) \in Revisions
         /\ Revision(slot) # NoToken =>
              /\ SlideAt(Index(slot)) \in Slides
              /\ Revision(slot)[2] = text[SlideAt(Index(slot))]
<1>1. Running \in BOOLEAN /\ IsPaused \in BOOLEAN
  BY DEF Running, IsPaused, HasController
<1>2. CASE slot = "current"
  BY <1>1, <1>2, IndexType, TokenType DEF Revision, Index
<1>3. CASE slot = "next"
  BY <1>3, IndexType, TokenType DEF Revision, Index
<1> QED  BY <1>2, <1>3 DEF Slots

\* What the controller reports is a state that the page can read.
LEMMA ReportedType ==
  ASSUME OfficeTypeOK
  PROVE  Reported \in States
<1>1. Running \in BOOLEAN
  BY DEF Running
<1>2. Revision("current") \in Revisions /\ Revision("next") \in Revisions
  BY RevisionType DEF Slots
<1> QED  BY <1>1, <1>2 DEF Reported, State, Empty, States, Revisions

-----------------------------------------------------------------------------
(* The image cache.                                                        *)

Entries == [token : Tokens, image : Images]

\* What keeps the cache in order, of any sequence that may become it.
GoodCache(c) ==
  /\ c \in Seq(Entries)
  /\ \A i, j \in DOMAIN c : c[i].token = c[j].token => i = j
  /\ \A i \in DOMAIN c : c[i].image.text = c[i].token[2]

\* Taking an entry out leaves the others as they are.
LEMMA RemoveAtKeeps ==
  ASSUME NEW c \in Seq(Entries), NEW p \in DOMAIN c
  PROVE  /\ RemoveAt(c, p) \in Seq(Entries)
         /\ Len(RemoveAt(c, p)) = Len(c) - 1
         /\ \A j \in 1..(Len(c) - 1) :
              RemoveAt(c, p)[j] = IF j < p THEN c[j] ELSE c[j + 1]
<1>1. p \in 1..Len(c) /\ Len(c) \in Nat
  OBVIOUS
<1> DEFINE front_part == SubSeq(c, 1, p - 1)
           back_part == SubSeq(c, p + 1, Len(c))
<1>2. /\ front_part \in Seq(Entries) /\ Len(front_part) = p - 1
      /\ \A j \in 1..(p - 1) : front_part[j] = c[j]
  BY <1>1
<1>3. /\ back_part \in Seq(Entries) /\ Len(back_part) = Len(c) - p
      /\ \A j \in 1..(Len(c) - p) : back_part[j] = c[p + j]
  BY <1>1
<1>4. RemoveAt(c, p) = front_part \o back_part
  BY DEF RemoveAt
<1> HIDE DEF front_part, back_part
<1>5. /\ front_part \o back_part \in Seq(Entries)
      /\ Len(front_part \o back_part) = Len(c) - 1
  BY <1>1, <1>2, <1>3
<1>6. ASSUME NEW j \in 1..(Len(c) - 1)
      PROVE  (front_part \o back_part)[j] = IF j < p THEN c[j] ELSE c[j + 1]
  <2>1. CASE j < p
    BY <1>1, <1>2, <1>3, <2>1
  <2>2. CASE ~(j < p)
    <3>1. (front_part \o back_part)[j] = back_part[j - (p - 1)]
      BY <1>1, <1>2, <1>3, <2>2, SMTT(30)
    <3>2. j - (p - 1) \in 1..(Len(c) - p) /\ p + (j - (p - 1)) = j + 1
      BY <1>1, <2>2
    <3> QED  BY <1>3, <2>2, <3>1, <3>2
  <2> QED  BY <2>1, <2>2
<1> QED  BY <1>4, <1>5, <1>6

\* What is left when the entry of a token is taken out.
LEMMA OthersAreGood ==
  ASSUME GoodCache(cache), Len(cache) <= CacheLimit, NEW token
  PROVE  /\ GoodCache(Others(token))
         /\ Len(Others(token)) <= CacheLimit
         /\ \A i \in DOMAIN Others(token) : Others(token)[i].token # token
<1>1. CASE ~IsCached(token)
  BY <1>1 DEF Others, IsCached
<1>2. CASE IsCached(token)
  <2>1. Place(token) \in DOMAIN cache /\ cache[Place(token)].token = token
    BY <1>2 DEF IsCached, Place
  <2>2. cache \in Seq(Entries) /\ Others(token) = RemoveAt(cache, Place(token))
    BY <1>2 DEF Others, GoodCache
  <2> DEFINE p == Place(token)
             o == Others(token)
             was(j) == IF j < p THEN j ELSE j + 1
  <2>3. /\ o \in Seq(Entries) /\ Len(o) = Len(cache) - 1
        /\ DOMAIN o = 1..(Len(cache) - 1)
        /\ \A j \in DOMAIN o : o[j] = IF j < p THEN cache[j] ELSE cache[j + 1]
    <3>1. /\ o \in Seq(Entries) /\ Len(o) = Len(cache) - 1
          /\ \A j \in 1..(Len(cache) - 1) : o[j] = IF j < p THEN cache[j] ELSE cache[j + 1]
      BY <2>1, <2>2, RemoveAtKeeps
    <3> QED  BY <3>1
  <2>4. p \in 1..Len(cache) /\ Len(cache) \in Nat /\ DOMAIN cache = 1..Len(cache)
    BY <2>1, <2>2
  <2> HIDE DEF o, p
  <2>5. \A j \in DOMAIN o : was(j) \in DOMAIN cache /\ was(j) # p /\ o[j] = cache[was(j)]
    BY <2>3, <2>4
  <2>6. \A i, j \in DOMAIN o : was(i) = was(j) => i = j
    BY <2>3, <2>4
  <2> HIDE DEF was
  <2>7. \A i \in DOMAIN o : o[i].token # token
    BY <2>1, <2>5 DEF GoodCache, p
  <2>8. GoodCache(o)
    BY <2>3, <2>5, <2>6 DEF GoodCache
  <2>9. Len(o) <= CacheLimit
    BY <2>3, <2>4, SlideAssumption
  <2> QED  BY <2>7, <2>8, <2>9 DEF o
<1> QED  BY <1>1, <1>2

\* Remembering an image under its revision keeps the cache in order and
\* within its limit.
LEMMA RememberedIsGood ==
  ASSUME GoodCache(cache), Len(cache) <= CacheLimit,
         NEW token \in Tokens, NEW image \in Images, image.text = token[2]
  PROVE  GoodCache(Remembered(token, image)) /\ Len(Remembered(token, image)) <= CacheLimit
<1> DEFINE o == Others(token)
           e == [token |-> token, image |-> image]
           all == Append(o, e)
<1>1. GoodCache(o) /\ Len(o) <= CacheLimit /\ \A i \in DOMAIN o : o[i].token # token
  BY OthersAreGood
<1>2. o \in Seq(Entries) /\ e \in Entries /\ Len(o) \in Nat
  BY <1>1 DEF GoodCache, Entries
<1> HIDE DEF o
<1>3. /\ all \in Seq(Entries) /\ Len(all) = Len(o) + 1
      /\ DOMAIN all = 1..(Len(o) + 1)
      /\ all[Len(o) + 1] = e
      /\ \A i \in 1..Len(o) : i \in DOMAIN o /\ all[i] = o[i]
  BY <1>2
<1>4. e.token = token /\ e.image = image
  OBVIOUS
<1> HIDE DEF all, e
<1>5. GoodCache(all)
  <2>1. \A i \in DOMAIN all : all[i].image.text = all[i].token[2]
    BY <1>1, <1>2, <1>3, <1>4 DEF GoodCache
  <2>2. \A i, j \in DOMAIN all : all[i].token = all[j].token => i = j
    BY <1>1, <1>2, <1>3, <1>4 DEF GoodCache
  <2> QED  BY <1>3, <2>1, <2>2 DEF GoodCache
<1>6. CASE Len(all) > CacheLimit
  <2>1. /\ Tail(all) \in Seq(Entries) /\ Len(Tail(all)) = Len(o)
        /\ DOMAIN Tail(all) = 1..Len(o)
        /\ \A i \in 1..Len(o) : Tail(all)[i] = all[i + 1]
    BY <1>2, <1>3
  <2>2. GoodCache(Tail(all))
    BY <1>2, <1>3, <1>5, <2>1 DEF GoodCache
  <2>3. Remembered(token, image) = Tail(all)
    BY <1>6 DEF Remembered, all, o, e
  <2> QED  BY <1>1, <2>1, <2>2, <2>3
<1>7. CASE ~(Len(all) > CacheLimit)
  <2>1. Remembered(token, image) = all
    BY <1>7 DEF Remembered, all, o, e
  <2> QED  BY <1>2, <1>3, <1>5, <1>7, <2>1, SlideAssumption
<1> QED  BY <1>6, <1>7

\* The image for a revision that is still that of its slot has its text.
LEMMA ImageForType ==
  ASSUME OfficeTypeOK, GoodCache(cache), NEW slot \in Slots, Revision(slot) \in Tokens
  PROVE  /\ ImageFor(slot, Revision(slot)) \in Images
         /\ ImageFor(slot, Revision(slot)).text = Revision(slot)[2]
<1>1. CASE IsCached(Revision(slot))
  <2>1. /\ Place(Revision(slot)) \in DOMAIN cache
        /\ cache[Place(Revision(slot))].token = Revision(slot)
    BY <1>1 DEF IsCached, Place
  <2>2. cache[Place(Revision(slot))] \in Entries
    BY <2>1 DEF GoodCache
  <2> QED  BY <1>1, <2>1, <2>2 DEF GoodCache, Entries, ImageFor
<1>2. CASE ~IsCached(Revision(slot))
  <2>1. Revision(slot) # NoToken
    BY SlideAssumption
  <2>2. /\ SlideAt(Index(slot)) \in Slides
        /\ Revision(slot)[2] = text[SlideAt(Index(slot))]
    BY <2>1, RevisionType
  <2>3. text[SlideAt(Index(slot))] \in Texts
    BY <2>2 DEF OfficeTypeOK
  <2>4. ImageFor(slot, Revision(slot)) = Image(SlideAt(Index(slot)))
    BY <1>2 DEF ImageFor
  <2> QED  BY <2>2, <2>3, <2>4 DEF Image, Images
<1> QED  BY <1>1, <1>2

-----------------------------------------------------------------------------
(* The steps of the office and the commands.                               *)

\* Initially nothing is cached, sent or shown.
LEMMA InitGood ==
  ASSUME SlideInit
  PROVE  IInv
<1> USE DEF SlideInit
<1>1. (CHOOSE t \in Texts : TRUE) \in Texts
  BY SlideAssumption
<1>2. OfficeTypeOK
  BY <1>1, Deck DEF OfficeTypeOK
<1>3. CacheTypeOK
  BY SlideAssumption DEF CacheTypeOK
<1>4. Empty \in States
  BY DEF Empty, States, Revisions
<1>5. WireTypeOK
  BY <1>4, SlideAssumption DEF WireTypeOK, Revisions
<1>6. PageTypeOK
  BY <1>4, SlideAssumption DEF PageTypeOK
<1>7. TextInv
  BY DEF TextInv, ImagesMatchRevision
<1>8. WayInv /\ PushedInv
  BY DEF WayInv, PushedInv
<1>9. ShownOrOnItsWay
  BY DEF ShownOrOnItsWay, Empty
<1> QED  BY <1>2, <1>3, <1>5, <1>6, <1>7, <1>8, <1>9 DEF IInv, SlideTypeOK

\* What the office does changes nothing that is cached, sent or shown.
LEMMA OnlyOfficeKeeps ==
  ASSUME IInv, OfficeTypeOK', OnlyOffice
  PROVE  IInv'
<1> USE DEF IInv, OnlyOffice, pageVars, wireVars, relayVars
<1>1. CacheTypeOK'
  BY DEF SlideTypeOK, CacheTypeOK
<1>2. WireTypeOK'
  BY DEF SlideTypeOK, WireTypeOK
<1>3. PageTypeOK'
  BY DEF SlideTypeOK, PageTypeOK
<1>4. TextInv'
  BY DEF TextInv, ImagesMatchRevision, IsAsset
<1>5. WayInv'
  BY DEF WayInv, IsAsset
<1>6. PushedInv'
  BY DEF PushedInv, OnWay, IsAsset
<1>7. ShownOrOnItsWay'
  BY DEF ShownOrOnItsWay, Request, IsAsset
<1> QED  BY <1>1, <1>2, <1>3, <1>4, <1>5, <1>6, <1>7 DEF SlideTypeOK

\* Starting a show leaves it at one of its slides.
LEMMA StartsType ==
  ASSUME OfficeTypeOK, NEW s \in Slides, Starts(s)
  PROVE  /\ show' \in {"off", "starting", "on"}
         /\ at' \in -1..(ShowSize - 1) /\ paused' \in BOOLEAN
<1>1. StartPosition(s) \in -1..(ShowSize - 1)
  BY StartPositionType, Deck
<1> QED  BY <1>1 DEF OfficeTypeOK, Starts

\* What the user does at the computer.
LEMMA UserType ==
  ASSUME OfficeTypeOK,
         \/ \E s \in Slides : Browse(s) \/ \E t \in Texts : EditText(s, t)
         \/ \E f \in {"impress", "other"} : Focus(f)
         \/ UserStarts \/ ShowStarts \/ UserMoves \/ ShowEnds
  PROVE  OfficeTypeOK'
<1>1. ASSUME NEW s \in Slides, Browse(s)
      PROVE  OfficeTypeOK'
  BY <1>1 DEF OfficeTypeOK, Browse
<1>2. ASSUME NEW s \in Slides, NEW t \in Texts, EditText(s, t)
      PROVE  OfficeTypeOK'
  BY <1>2 DEF OfficeTypeOK, EditText
<1>3. ASSUME NEW f \in {"impress", "other"}, Focus(f)
      PROVE  OfficeTypeOK'
  BY <1>3 DEF OfficeTypeOK, Focus
<1>4. CASE UserStarts
  <2>1. Starts(editing) /\ editing \in Slides /\ UNCHANGED <<front, text, editing, endless>>
    BY <1>4 DEF UserStarts, OfficeTypeOK
  <2> QED  BY <2>1, StartsType DEF OfficeTypeOK
<1>5. CASE ShowStarts
  BY <1>5 DEF OfficeTypeOK, ShowStarts
<1>6. CASE UserMoves
  BY <1>6, OfficePositions DEF OfficeTypeOK, UserMoves
<1>7. CASE ShowEnds
  <2>1. editing' \in Slides
    BY <1>7, Deck DEF OfficeTypeOK, ShowEnds
  <2>2. at' \in -1..(ShowSize - 1)
    BY <1>7, Deck DEF ShowEnds
  <2>3. show' = "off" /\ paused' = FALSE /\ UNCHANGED <<front, text, endless>>
    BY <1>7 DEF ShowEnds
  <2> QED  BY <2>1, <2>2, <2>3 DEF OfficeTypeOK
<1> QED  BY <1>1, <1>2, <1>3, <1>4, <1>5, <1>6, <1>7

\* Selecting a slide in the editor leaves the show alone.
LEMMA SetEditingType ==
  ASSUME OfficeTypeOK, NEW i, SetEditing(i)
  PROVE  editing' \in Slides /\ UNCHANGED <<show, at, paused>>
BY DEF OfficeTypeOK, SetEditing

\* The commands of the phone.
LEMMA CommandType ==
  ASSUME OfficeTypeOK, Command
  PROVE  OfficeTypeOK'
<1> DEFINE Places ==
             /\ editing' \in Slides /\ at' \in -1..(ShowSize - 1)
             /\ show' \in {"off", "starting", "on"} /\ paused' \in BOOLEAN
<1>1. ASSUME NextSlide PROVE Places
  BY <1>1, SetEditingType, OfficePositions DEF NextSlide, OfficeTypeOK
<1>2. ASSUME PreviousSlide PROVE Places
  BY <1>2, SetEditingType, OfficePositions DEF PreviousSlide, OfficeTypeOK
<1>3. ASSUME GotoLastSlide PROVE Places
  BY <1>3, Deck DEF GotoLastSlide, OfficeTypeOK
<1>4. ASSUME StartPresentation PROVE Places
  <2>1. Starts(editing) /\ editing \in Slides /\ UNCHANGED editing
    BY <1>4 DEF StartPresentation, OfficeTypeOK
  <2> QED  BY <2>1, StartsType
<1>5. ASSUME StartFromFirstSlide PROVE Places
  <2>1. Starts(0) /\ editing' \in Slides
    BY <1>5, Deck DEF StartFromFirstSlide, OfficeTypeOK
  <2> QED  BY <2>1, Deck, StartsType
<1>6. ASSUME NEW i \in 0..DeckSize, GotoSlide(i) PROVE Places
  BY <1>6, SetEditingType, Deck DEF GotoSlide, OfficeTypeOK
<1>7. ASSUME UNCHANGED <<editing, show, at, paused>> PROVE Places
  BY <1>7 DEF OfficeTypeOK
<1>8. Places /\ UNCHANGED <<front, text, endless>>
  BY <1>1, <1>2, <1>3, <1>4, <1>5, <1>6, <1>7 DEF Command, OnImpress
<1> QED  BY <1>8 DEF OfficeTypeOK

-----------------------------------------------------------------------------
(* States and images on their way.                                         *)

Messages == States \cup Assets

\* A state and an image can be told apart.
LEMMA MessageKinds ==
  /\ \A m \in States : ~IsAsset(m)
  /\ \A m \in Assets : IsAsset(m)
<1>1. ASSUME NEW m \in States PROVE ~IsAsset(m)
  <2>1. m = [current |-> m.current, next |-> m.next, running |-> m.running]
    BY DEF States
  <2>2. DOMAIN m = {"current", "next", "running"}
    BY <2>1
  <2> QED  BY <2>2 DEF IsAsset
<1>2. ASSUME NEW m \in Assets PROVE IsAsset(m)
  <2>1. m = [slot |-> m.slot, rev |-> m.rev, image |-> m.image]
    BY DEF Assets
  <2>2. DOMAIN m = {"slot", "rev", "image"}
    BY <2>1
  <2> QED  BY <2>2 DEF IsAsset
<1> QED  BY <1>1, <1>2

\* One more message on its way.
LEMMA Sent ==
  ASSUME NEW u \in Seq(Messages), NEW m \in Messages
  PROVE  /\ Append(u, m) \in Seq(Messages)
         /\ Len(Append(u, m)) = Len(u) + 1 /\ Len(u) \in Nat
         /\ DOMAIN u = 1..Len(u) /\ DOMAIN Append(u, m) = 1..(Len(u) + 1)
         /\ Append(u, m)[Len(u) + 1] = m
         /\ \A i \in 1..Len(u) : Append(u, m)[i] = u[i]
OBVIOUS

\* The first message has arrived.
LEMMA Arrived ==
  ASSUME NEW u \in Seq(Messages), u # <<>>
  PROVE  /\ Head(u) \in Messages /\ Head(u) = u[1]
         /\ Tail(u) \in Seq(Messages)
         /\ Len(u) \in Nat \ {0} /\ Len(Tail(u)) = Len(u) - 1
         /\ DOMAIN u = 1..Len(u) /\ DOMAIN Tail(u) = 1..(Len(u) - 1)
         /\ \A i \in 1..(Len(u) - 1) : Tail(u)[i] = u[i + 1]
OBVIOUS

\* A state on its way is of no importance to the images.
LEMMA StateSent ==
  ASSUME IInv, NEW m \in States, unread' = Append(unread, m)
  PROVE  /\ unread' \in Seq(Messages) /\ Len(unread') = Len(unread) + 1
         /\ \A i \in DOMAIN unread : i \in DOMAIN unread' /\ unread'[i] = unread[i]
         /\ \A i \in DOMAIN unread' :
              IsAsset(unread'[i]) => i \in DOMAIN unread /\ unread'[i] = unread[i]
         /\ UNCHANGED <<sent, assets>> => PushedInv'
<1>1. unread \in Seq(Messages)
  BY DEF IInv, SlideTypeOK, WireTypeOK, Messages
<1>2. m \in Messages /\ ~IsAsset(m)
  BY MessageKinds DEF Messages
<1>3. /\ unread' \in Seq(Messages) /\ Len(unread') = Len(unread) + 1 /\ Len(unread) \in Nat
      /\ DOMAIN unread = 1..Len(unread) /\ DOMAIN unread' = 1..(Len(unread) + 1)
      /\ unread'[Len(unread) + 1] = m
      /\ \A i \in 1..Len(unread) : unread'[i] = unread[i]
  BY <1>1, <1>2, Sent
<1>4. /\ \A i \in DOMAIN unread : i \in DOMAIN unread' /\ unread'[i] = unread[i]
      /\ \A i \in DOMAIN unread' :
           IsAsset(unread'[i]) => i \in DOMAIN unread /\ unread'[i] = unread[i]
  BY <1>2, <1>3
<1>5. ASSUME UNCHANGED <<sent, assets>> PROVE PushedInv'
  <2>1. \A slot \in Slots, i \in DOMAIN unread' :
          IsAsset(unread'[i]) /\ unread'[i].slot = slot => i \in DOMAIN unread /\ OnWay(unread, slot, i)
    BY <1>4 DEF OnWay
  <2>2. \A slot \in Slots, i \in DOMAIN unread :
          OnWay(unread, slot, i) => IsAsset(unread'[i]) /\ unread'[i].slot = slot
    BY <1>4 DEF OnWay
  <2> QED  BY <1>4, <1>5, <2>1, <2>2 DEF IInv, PushedInv, OnWay
<1> QED  BY <1>3, <1>4, <1>5

\* Streaming a state sends no image and caches none.
LEMMA StreamStateKeeps ==
  ASSUME IInv, StreamState
  PROVE  IInv'
<1> USE DEF IInv, officeVars, pageVars, relayVars
<1>1. Reported \in States
  BY ReportedType DEF SlideTypeOK
<1>2. unread' = Append(unread, Reported) /\ told' = Reported /\ way = "direct"
  BY DEF StreamState
<1>3. /\ unread' \in Seq(Messages) /\ Len(unread') = Len(unread) + 1
      /\ \A i \in DOMAIN unread : i \in DOMAIN unread' /\ unread'[i] = unread[i]
      /\ \A i \in DOMAIN unread' :
           IsAsset(unread'[i]) => i \in DOMAIN unread /\ unread'[i] = unread[i]
      /\ PushedInv'
  <2>1. UNCHANGED <<sent, assets>>
    BY DEF StreamState
  <2> QED  BY <1>1, <1>2, <2>1, StateSent
<1>4. OfficeTypeOK' /\ CacheTypeOK' /\ PageTypeOK'
  BY DEF StreamState, SlideTypeOK, OfficeTypeOK, CacheTypeOK, PageTypeOK
<1>5. WireTypeOK'
  <2>1. Len(unread) \in Nat /\ Len(unread) < MaxUnread
    BY DEF StreamState, SlideTypeOK, WireTypeOK
  <2>2. Len(unread') <= MaxUnread + (IF way' = "relay" THEN 1 ELSE 0)
    BY <1>2, <1>3, <2>1, SlideAssumption DEF StreamState
  <2> QED  BY <1>1, <1>2, <1>3, <2>2 DEF StreamState, SlideTypeOK, WireTypeOK, Messages
<1>6. TextInv'
  BY <1>3 DEF StreamState, TextInv, ImagesMatchRevision
<1>7. WayInv'
  BY <1>3 DEF StreamState, WayInv
<1>8. ShownOrOnItsWay'
  BY <1>3 DEF StreamState, ShownOrOnItsWay, Request
<1> QED  BY <1>3, <1>4, <1>5, <1>6, <1>7, <1>8 DEF SlideTypeOK

\* Pushing a state leaves the images that it announces to be pushed after it.
LEMMA PushStateKeeps ==
  ASSUME IInv, PushState
  PROVE  IInv'
<1> USE DEF IInv, officeVars, pageVars
<1>1. Reported \in States
  BY ReportedType DEF SlideTypeOK
<1>2. OfficeTypeOK' /\ CacheTypeOK' /\ PageTypeOK'
  BY DEF PushState, SlideTypeOK, OfficeTypeOK, CacheTypeOK, PageTypeOK
<1>3. pushing' \in Seq(Slots) /\ way = "relay" /\ UNCHANGED <<way, sent, assets>>
  BY DEF PushState, Slots
<1>4. WayInv'
  BY <1>3 DEF WayInv
<1>5. CASE unread' = unread
  <2>1. WireTypeOK'
    BY <1>1, <1>3, <1>5 DEF PushState, SlideTypeOK, WireTypeOK
  <2>2. TextInv' /\ PushedInv' /\ ShownOrOnItsWay'
    BY <1>5 DEF PushState, TextInv, ImagesMatchRevision, PushedInv, OnWay, ShownOrOnItsWay,
                Request, IsAsset
  <2> QED  BY <1>2, <1>4, <2>1, <2>2 DEF SlideTypeOK
<1>6. CASE unread' = Append(unread, Reported)
  <2>1. /\ unread' \in Seq(Messages) /\ Len(unread') = Len(unread) + 1
        /\ \A i \in DOMAIN unread : i \in DOMAIN unread' /\ unread'[i] = unread[i]
        /\ \A i \in DOMAIN unread' :
             IsAsset(unread'[i]) => i \in DOMAIN unread /\ unread'[i] = unread[i]
        /\ PushedInv'
    BY <1>1, <1>3, <1>6, StateSent
  <2>2. WireTypeOK'
    <3>1. Len(unread) \in Nat /\ Len(unread) <= MaxUnread
      BY DEF PushState, HasRoom, SlideTypeOK, WireTypeOK
    <3>2. Len(unread') <= MaxUnread + (IF way' = "relay" THEN 1 ELSE 0)
      BY <1>3, <2>1, <3>1, SlideAssumption
    <3> QED  BY <1>1, <1>3, <2>1, <3>2 DEF PushState, SlideTypeOK, WireTypeOK, Messages
  <2>3. TextInv'
    BY <2>1 DEF PushState, TextInv, ImagesMatchRevision
  <2>4. ShownOrOnItsWay'
    BY <2>1 DEF PushState, ShownOrOnItsWay, Request
  <2> QED  BY <1>2, <1>4, <2>1, <2>2, <2>3, <2>4 DEF SlideTypeOK
<1> QED  BY <1>5, <1>6 DEF PushState

-----------------------------------------------------------------------------
(* The page that asks for images.                                          *)

\* A page that reads a state keeps the images of its revisions only.
LEMMA ReceiveStateKeeps ==
  ASSUME IInv, ReceiveState
  PROVE  IInv'
<1> USE DEF IInv, officeVars, relayVars
<1> DEFINE m == Head(unread)
           rev == m.current
<1>1. way = "direct" /\ unread # <<>> /\ unread' = Tail(unread) /\ UNCHANGED <<sent, assets, way>>
  BY DEF ReceiveState
<1>2. unread \in Seq(Messages)
  BY DEF SlideTypeOK, WireTypeOK, Messages
<1>3. /\ m \in Messages /\ m = unread[1] /\ Len(unread) \in Nat \ {0}
      /\ unread' \in Seq(Messages) /\ Len(unread') = Len(unread) - 1
      /\ DOMAIN unread = 1..Len(unread) /\ DOMAIN unread' = 1..(Len(unread) - 1)
      /\ \A i \in 1..(Len(unread) - 1) : unread'[i] = unread[i + 1]
  BY <1>1, <1>2, Arrived
<1>4. m \in States
  BY <1>1, <1>3, MessageKinds DEF WayInv, Messages
<1>5. \A i \in DOMAIN unread' : ~IsAsset(unread'[i])
  BY <1>1, <1>3 DEF WayInv
<1>6. rev \in Revisions /\ m.next \in Revisions
  BY <1>4 DEF States
<1> HIDE DEF m, rev
<1>7. /\ lastState' = m /\ phase' = "live"
      /\ shown' = IF rev = NoToken THEN NoImage ELSE shown
      /\ UNCHANGED <<officeVars, cache, told, replies, relayVars>>
  BY DEF ReceiveState, m, rev
<1>8. PICK preload \in SUBSET {Request("next", v) : v \in {m.next} \ {NoToken}} :
        asked' = asked \cup {Request("current", v) : v \in {w \in {rev} : Wants(w)}} \cup preload
  BY DEF ReceiveState, m, rev
<1>9. asked' \subseteq [slot : Slots, rev : Tokens]
  <2>1. \A v : Wants(v) => v # NoToken
    BY DEF Wants
  <2>2. {Request("current", v) : v \in {w \in {rev} : Wants(w)}} \subseteq [slot : Slots, rev : Tokens]
    BY <1>6, <2>1 DEF Request, Revisions, Slots
  <2>3. preload \subseteq [slot : Slots, rev : Tokens]
    BY <1>6, <1>8 DEF Request, Revisions, Slots
  <2>4. asked \subseteq [slot : Slots, rev : Tokens]
    BY DEF SlideTypeOK, WireTypeOK
  <2> QED  BY <1>8, <2>2, <2>3, <2>4
<1>10. OfficeTypeOK' /\ CacheTypeOK' /\ PageTypeOK'
  BY <1>1, <1>4, <1>7 DEF SlideTypeOK, OfficeTypeOK, CacheTypeOK, PageTypeOK
<1>11. WireTypeOK'
  BY <1>1, <1>3, <1>7, <1>9, SlideAssumption DEF SlideTypeOK, WireTypeOK, Messages
<1>12. TextInv'
  BY <1>1, <1>5, <1>7 DEF TextInv, ImagesMatchRevision
<1>13. WayInv'
  BY <1>1, <1>5, <1>7 DEF WayInv
<1>14. PushedInv'
  BY <1>1, <1>5 DEF WayInv, PushedInv, OnWay
<1>15. ShownOrOnItsWay'
  <2>1. SUFFICES ASSUME rev # NoToken
                 PROVE  \/ shown' # NoImage /\ shown'.rev = rev
                        \/ Request("current", rev) \in asked'
    BY <1>7 DEF ShownOrOnItsWay, rev, Request
  <2>2. CASE Wants(rev)
    BY <1>8, <2>2
  <2>3. CASE ~Wants(rev)
    BY <1>7, <2>1, <2>3 DEF Wants
  <2> QED  BY <2>2, <2>3
<1> QED  BY <1>10, <1>11, <1>12, <1>13, <1>14, <1>15 DEF SlideTypeOK

\* The cache's part of the invariant.
LEMMA CacheIsGood ==
  /\ CacheTypeOK /\ ImagesMatchRevision => GoodCache(cache) /\ Len(cache) <= CacheLimit
  /\ GoodCache(cache) /\ Len(cache) <= CacheLimit =>
       CacheTypeOK /\ \A i \in DOMAIN cache : cache[i].image.text = cache[i].token[2]
BY DEF CacheTypeOK, ImagesMatchRevision, GoodCache, Entries

\* The same of the cache after a step.
LEMMA CacheIsGoodNext ==
  GoodCache(cache') /\ Len(cache') <= CacheLimit =>
    CacheTypeOK' /\ \A i \in DOMAIN cache' : cache'[i].image.text = cache'[i].token[2]
BY DEF CacheTypeOK, GoodCache, Entries

\* Serving an image remembers it under the revision whose text it has.
LEMMA ServeImageKeeps ==
  ASSUME IInv, NEW r \in asked, ServeImage(r)
  PROVE  IInv'
<1> USE DEF IInv, officeVars, relayVars
<1> DEFINE token == Revision(r.slot)
           image == IF Valid(r) THEN ImageFor(r.slot, token) ELSE Refused
<1>1. r.slot \in Slots /\ r.rev \in Tokens
  BY DEF SlideTypeOK, WireTypeOK
<1>2. GoodCache(cache) /\ Len(cache) <= CacheLimit
  BY CacheIsGood DEF SlideTypeOK, TextInv
<1>3. ASSUME Valid(r) PROVE token = r.rev /\ image \in Images /\ image.text = r.rev[2]
  <2>1. Revision(r.slot) = r.rev
    BY <1>3 DEF Valid
  <2> QED  BY <1>1, <1>2, <1>3, <2>1, ImageForType DEF SlideTypeOK
<1>4. image # Refused => Valid(r)
  OBVIOUS
<1> HIDE DEF image, token
<1>5. /\ asked' = asked \ {r}
      /\ cache' = IF image = Refused THEN cache ELSE Remembered(token, image)
      /\ replies' = IF r.slot = "current" THEN replies \cup {Answer(r, image)} ELSE replies
      /\ phase' = IF r.slot = "next" /\ image = Refused THEN "offline" ELSE phase
      /\ UNCHANGED <<way, officeVars, lastState, shown, told, unread, relayVars>>
  BY DEF ServeImage, token, image
<1>6. /\ CacheTypeOK'
      /\ \A i \in DOMAIN cache' : cache'[i].image.text = cache'[i].token[2]
  <2>1. GoodCache(cache') /\ Len(cache') <= CacheLimit
    <3>1. CASE image = Refused
      BY <1>2, <1>5, <3>1
    <3>2. CASE image # Refused
      BY <1>1, <1>2, <1>3, <1>4, <1>5, <3>2, RememberedIsGood
    <3> QED  BY <3>1, <3>2
  <2> QED  BY <2>1, CacheIsGoodNext
<1>7. /\ replies' \subseteq [rev : Tokens, image : Images \cup {Refused}]
      /\ \A m \in replies' : m.image # Refused => m.image.text = m.rev[2]
  <2>1. /\ Answer(r, image) \in [rev : Tokens, image : Images \cup {Refused}]
        /\ Answer(r, image).image = image /\ Answer(r, image).rev = r.rev
    BY <1>1, <1>3, <1>4 DEF Answer
  <2>2. image # Refused => image.text = r.rev[2]
    BY <1>3, <1>4
  <2> QED  BY <1>5, <2>1, <2>2 DEF SlideTypeOK, WireTypeOK, TextInv, ImagesMatchRevision
<1>8. WireTypeOK'
  BY <1>5, <1>7 DEF SlideTypeOK, WireTypeOK
<1>9. OfficeTypeOK' /\ PageTypeOK'
  BY <1>5 DEF SlideTypeOK, OfficeTypeOK, PageTypeOK
<1>10. TextInv'
  BY <1>5, <1>6, <1>7 DEF TextInv, ImagesMatchRevision, IsAsset
<1>11. WayInv' /\ PushedInv'
  BY <1>5 DEF WayInv, PushedInv, OnWay, IsAsset
<1>12. ShownOrOnItsWay'
  <2>1. CASE r = Request("current", lastState.current)
    <3>1. r.slot = "current" /\ r.rev = lastState.current
      BY <2>1 DEF Request
    <3>2. Answer(r, image) \in replies' /\ Answer(r, image).rev = lastState'.current
      BY <1>5, <3>1 DEF Answer
    <3> QED  BY <3>2 DEF ShownOrOnItsWay
  <2>2. CASE r # Request("current", lastState.current)
    <3>1. Request("current", lastState.current) \in asked =>
            Request("current", lastState.current) \in asked'
      BY <1>5, <2>2
    <3>2. replies \subseteq replies' /\ (phase = "offline" => phase' = "offline")
      BY <1>5
    <3> QED  BY <1>5, <3>1, <3>2 DEF ShownOrOnItsWay, Request, IsAsset
  <2> QED  BY <2>1, <2>2
<1> QED  BY <1>6, <1>8, <1>9, <1>10, <1>11, <1>12 DEF SlideTypeOK

\* An answer reaches the page as it was served.
LEMMA ReceiveImageKeeps ==
  ASSUME IInv, NEW m \in replies, ReceiveImage(m)
  PROVE  IInv'
<1> USE DEF IInv, officeVars, relayVars
<1>1. /\ m.rev \in Tokens /\ m.image \in Images \cup {Refused}
      /\ m = [rev |-> m.rev, image |-> m.image]
  BY DEF SlideTypeOK, WireTypeOK
<1>2. /\ replies' = replies \ {m}
      /\ UNCHANGED <<way, officeVars, cache, lastState, told, unread, asked, relayVars>>
      /\ m.image = Refused => phase' = "offline" /\ shown' = shown
      /\ m.image # Refused =>
           /\ phase' = phase
           /\ shown' = IF lastState.current = m.rev THEN m ELSE shown
  BY DEF ReceiveImage
<1>3. m.image # Refused => m \in [rev : Tokens, image : Images] /\ m # NoImage
  BY <1>1, SlideAssumption
<1>4. OfficeTypeOK' /\ CacheTypeOK' /\ WireTypeOK'
  BY <1>2 DEF SlideTypeOK, OfficeTypeOK, CacheTypeOK, WireTypeOK
<1>5. PageTypeOK'
  BY <1>2, <1>3 DEF SlideTypeOK, PageTypeOK
<1>6. TextInv'
  BY <1>2 DEF TextInv, ImagesMatchRevision, IsAsset
<1>7. WayInv' /\ PushedInv'
  BY <1>2 DEF WayInv, PushedInv, OnWay, IsAsset
<1>8. ShownOrOnItsWay'
  <2>1. CASE m.image = Refused
    BY <1>2, <2>1 DEF ShownOrOnItsWay
  <2>2. CASE m.image # Refused /\ m.rev = lastState.current
    BY <1>2, <1>3, <2>2 DEF ShownOrOnItsWay
  <2>3. CASE m.image # Refused /\ m.rev # lastState.current
    BY <1>2, <2>3 DEF ShownOrOnItsWay, Request, IsAsset
  <2> QED  BY <2>1, <2>2, <2>3
<1> QED  BY <1>4, <1>5, <1>6, <1>7, <1>8 DEF SlideTypeOK

-----------------------------------------------------------------------------
(* The page that images are pushed to.                                     *)

\* Pushing an image puts it behind the state that announced it.
LEMMA PushAssetKeeps ==
  ASSUME IInv, PushAsset
  PROVE  IInv'
<1> USE DEF IInv, officeVars, pageVars
<1> DEFINE slot == Head(pushing)
           rev == told[slot]
           image == AssetFor(slot, rev)
<1>1. /\ slot \in Slots /\ pushing # <<>> /\ pushing' = Tail(pushing) /\ pushing' \in Seq(Slots)
      /\ way = "relay"
  <2>1. pushing \in Seq(Slots) /\ pushing # <<>> /\ pushing' = Tail(pushing)
    BY DEF PushAsset, SlideTypeOK, WireTypeOK
  <2>2. way = "relay"
    BY <2>1 DEF WayInv, SlideTypeOK, PageTypeOK
  <2> QED  BY <2>1, <2>2
<1>2. rev \in Revisions
  BY <1>1 DEF SlideTypeOK, WireTypeOK, States, Slots
<1>3. unread \in Seq(Messages) /\ Len(unread) \in Nat /\ Len(unread) <= MaxUnread
  BY DEF PushAsset, HasRoom, SlideTypeOK, WireTypeOK, Messages
<1>4. sent \in [Slots -> Revisions]
  BY DEF SlideTypeOK, WireTypeOK
<1> HIDE DEF slot
<1>5. UNCHANGED <<way, officeVars, pageVars, told, asked, replies, assets, moves>>
  BY DEF PushAsset
<1>6. OfficeTypeOK' /\ PageTypeOK' /\ WayInv'
  BY <1>1, <1>5 DEF SlideTypeOK, OfficeTypeOK, PageTypeOK, WayInv
<1>7. CASE rev = NoToken /\ sent' = [sent EXCEPT ![slot] = NoToken] /\ UNCHANGED <<cache, unread>>
  <2>1. CacheTypeOK' /\ TextInv'
    BY <1>5, <1>7 DEF SlideTypeOK, CacheTypeOK, TextInv, ImagesMatchRevision, IsAsset
  <2>2. WireTypeOK'
    BY <1>1, <1>2, <1>4, <1>5, <1>7 DEF SlideTypeOK, WireTypeOK
  <2>3. PushedInv'
    BY <1>1, <1>4, <1>5, <1>7 DEF PushedInv, OnWay, IsAsset
  <2>4. ShownOrOnItsWay'
    <3>1. sent'["current"] \in {sent["current"], NoToken}
      BY <1>1, <1>4, <1>7 DEF Slots
    <3> QED  BY <1>1, <1>5, <1>7, <3>1 DEF ShownOrOnItsWay, Request, IsAsset
  <2> QED  BY <1>6, <2>1, <2>2, <2>3, <2>4 DEF SlideTypeOK
<1>8. CASE UNCHANGED <<sent, cache, unread>>
  <2>1. CacheTypeOK' /\ TextInv'
    BY <1>5, <1>8 DEF SlideTypeOK, CacheTypeOK, TextInv, ImagesMatchRevision, IsAsset
  <2>2. WireTypeOK'
    BY <1>1, <1>5, <1>8 DEF SlideTypeOK, WireTypeOK
  <2>3. PushedInv' /\ ShownOrOnItsWay'
    BY <1>5, <1>8 DEF PushedInv, OnWay, ShownOrOnItsWay, Request, IsAsset
  <2> QED  BY <1>6, <2>1, <2>2, <2>3 DEF SlideTypeOK
<1>9. CASE /\ rev \notin {NoToken, sent[slot]} /\ image # NoImage
           /\ sent' = [sent EXCEPT ![slot] = rev]
           /\ cache' = Remembered(rev, image)
           /\ unread' = Append(unread, Asset(slot, rev, image))
  <2>1. Valid(Request(slot, rev)) /\ Revision(slot) = rev /\ rev \in Tokens
    BY <1>2, <1>9 DEF AssetFor, Valid, Request, Revisions
  <2>2. image = ImageFor(slot, rev)
    BY <2>1 DEF AssetFor
  <2>3. GoodCache(cache) /\ Len(cache) <= CacheLimit
    BY CacheIsGood DEF SlideTypeOK, TextInv
  <2>4. image \in Images /\ image.text = rev[2]
    BY <1>1, <2>1, <2>2, <2>3, ImageForType DEF SlideTypeOK
  <2> DEFINE m == Asset(slot, rev, image)
  <2>5. /\ m \in Assets /\ m \in Messages /\ IsAsset(m)
        /\ m.slot = slot /\ m.rev = rev /\ m.image = image
    BY <1>1, <2>1, <2>4, MessageKinds DEF Asset, Assets, Messages
  <2> HIDE DEF m, image, rev
  <2>6. /\ unread' \in Seq(Messages) /\ Len(unread') = Len(unread) + 1
        /\ DOMAIN unread = 1..Len(unread) /\ DOMAIN unread' = 1..(Len(unread) + 1)
        /\ unread'[Len(unread) + 1] = m
        /\ \A i \in 1..Len(unread) : unread'[i] = unread[i]
    BY <1>3, <1>9, <2>5, Sent DEF m
  <2>7. /\ CacheTypeOK'
        /\ \A i \in DOMAIN cache' : cache'[i].image.text = cache'[i].token[2]
    BY <1>9, <2>1, <2>3, <2>4, RememberedIsGood, CacheIsGoodNext
  <2>8. WireTypeOK'
    <3>1. Len(unread') <= MaxUnread + (IF way' = "relay" THEN 1 ELSE 0)
      BY <1>1, <1>3, <1>5, <2>6, SlideAssumption
    <3>2. sent' \in [Slots -> Revisions]
      BY <1>2, <1>4, <1>9
    <3> QED  BY <1>1, <1>5, <2>6, <3>1, <3>2 DEF SlideTypeOK, WireTypeOK, Messages
  <2>9. TextInv'
    <3>1. \A i \in DOMAIN unread' :
            IsAsset(unread'[i]) => unread'[i].image.text = unread'[i].rev[2]
      BY <1>3, <2>4, <2>5, <2>6 DEF TextInv, ImagesMatchRevision
    <3> QED  BY <1>5, <2>7, <3>1 DEF TextInv, ImagesMatchRevision
  <2>10. PushedInv'
    <3>1. SUFFICES ASSUME NEW k \in Slots, sent'[k] # NoToken
                   PROVE  \/ \E i \in DOMAIN unread' :
                               /\ OnWay(unread', k, i) /\ unread'[i].rev = sent'[k]
                               /\ \A j \in DOMAIN unread' : j > i => ~OnWay(unread', k, j)
                          \/ /\ \A i \in DOMAIN unread' : ~OnWay(unread', k, i)
                             /\ assets'[k] # NoImage /\ assets'[k].rev = sent'[k]
      BY DEF PushedInv
    <3>2. CASE k = slot
      <4>1. OnWay(unread', k, Len(unread) + 1) /\ unread'[Len(unread) + 1].rev = sent'[k]
        BY <1>4, <1>9, <2>5, <2>6, <3>2 DEF OnWay
      <4>2. \A j \in DOMAIN unread' : ~(j > Len(unread) + 1)
        BY <1>3, <2>6
      <4> QED  BY <1>3, <2>6, <4>1, <4>2
    <3>3. CASE k # slot
      <4>1. sent'[k] = sent[k] /\ assets' = assets
        BY <1>4, <1>5, <1>9, <3>3
      <4>2. \A i \in DOMAIN unread : OnWay(unread', k, i) <=> OnWay(unread, k, i)
        BY <2>6 DEF OnWay
      <4>3. ~OnWay(unread', k, Len(unread) + 1)
        BY <2>5, <2>6, <3>3 DEF OnWay
      <4>4. \A i \in DOMAIN unread' : i \in DOMAIN unread \/ i = Len(unread) + 1
        BY <1>3, <2>6
      <4> QED  BY <1>3, <2>6, <3>1, <4>1, <4>2, <4>3, <4>4 DEF PushedInv
    <3> QED  BY <3>2, <3>3
  <2>11. ShownOrOnItsWay'
    <3>1. CASE slot = "current" /\ rev = lastState.current
      <4>1. /\ Len(unread) + 1 \in DOMAIN unread' /\ IsAsset(unread'[Len(unread) + 1])
            /\ unread'[Len(unread) + 1].slot = "current"
            /\ unread'[Len(unread) + 1].rev = lastState'.current
        BY <1>3, <1>5, <2>5, <2>6, <3>1
      <4> QED  BY <4>1 DEF ShownOrOnItsWay
    <3>2. CASE slot = "current" /\ rev # lastState.current
      <4>1. sent'["current"] # lastState'.current
        BY <1>1, <1>4, <1>5, <1>9, <3>2
      <4> QED  BY <1>1, <1>5, <4>1 DEF ShownOrOnItsWay
    <3>3. CASE slot # "current"
      <4>1. sent'["current"] = sent["current"]
        BY <1>4, <1>9, <3>3 DEF Slots
      <4>2. \A i \in DOMAIN unread : i \in DOMAIN unread' /\ unread'[i] = unread[i]
        BY <1>3, <2>6
      <4> QED  BY <1>5, <4>1, <4>2 DEF ShownOrOnItsWay, Request
    <3> QED  BY <3>1, <3>2, <3>3
  <2> QED  BY <1>6, <2>7, <2>8, <2>9, <2>10, <2>11 DEF SlideTypeOK
<1> QED  BY <1>7, <1>8, <1>9 DEF PushAsset, slot

\* Which messages are left when the first one has arrived.
LEMMA ReceivedPushed ==
  ASSUME IInv, ReceivePushed
  PROVE  /\ unread # <<>> /\ way = "relay"
         /\ Head(unread) \in Messages /\ Head(unread) = unread[1]
         /\ unread' \in Seq(Messages) /\ Len(unread) \in Nat \ {0} /\ Len(unread') = Len(unread) - 1
         /\ DOMAIN unread = 1..Len(unread) /\ DOMAIN unread' = 1..(Len(unread) - 1)
         /\ \A i \in 1..(Len(unread) - 1) : unread'[i] = unread[i + 1]
         /\ UNCHANGED <<way, officeVars, cache, told, asked, replies, pushing, sent>>
<1>1. unread \in Seq(Messages) /\ unread # <<>> /\ unread' = Tail(unread) /\ way = "relay"
  BY DEF IInv, SlideTypeOK, WireTypeOK, Messages, ReceivePushed
<1>2. UNCHANGED <<way, officeVars, cache, told, asked, replies, pushing, sent>>
  BY DEF ReceivePushed
<1> QED  BY <1>1, <1>2, Arrived

\* Syncing a slot keeps the image of the revision, or none.
LEMMA SyncedType ==
  ASSUME NEW current \in [rev : Tokens, image : Images] \cup {NoImage}, NEW rev
  PROVE  /\ Synced(rev, current) \in {current, NoImage}
         /\ Synced(rev, current) # NoImage => current.rev = rev
         /\ rev # NoToken /\ current # NoImage /\ current.rev = rev => Synced(rev, current) = current
BY DEF Synced

\* Whatever has arrived: the image of the latest state is shown if it is
\* there, and otherwise on its way or not sent yet.
LEMMA SyncedIsShown ==
  ASSUME PageTypeOK', PushedInv', way' = "relay",
         shown' = Synced(lastState'.current, assets'["current"])
  PROVE  ShownOrOnItsWay'
<1> DEFINE rev == lastState'.current
<1>1. SUFFICES ASSUME rev # NoToken, sent'["current"] = rev
               PROVE  \/ shown' # NoImage /\ shown'.rev = rev
                      \/ \E i \in DOMAIN unread' :
                           IsAsset(unread'[i]) /\ unread'[i].slot = "current" /\ unread'[i].rev = rev
  BY DEF ShownOrOnItsWay
<1>2. "current" \in Slots
  BY DEF Slots
<1>3. assets'["current"] \in [rev : Tokens, image : Images] \cup {NoImage}
  BY <1>2 DEF PageTypeOK
<1>4. CASE assets'["current"] # NoImage /\ assets'["current"].rev = rev
  BY <1>1, <1>3, <1>4, SyncedType
<1>5. CASE ~(assets'["current"] # NoImage /\ assets'["current"].rev = rev)
  BY <1>1, <1>2, <1>5 DEF PushedInv, OnWay
<1> QED  BY <1>4, <1>5

\* What the page reads from the relay keeps the shown image or the one on its
\* way.
LEMMA ReceivePushedKeeps ==
  ASSUME IInv, ReceivePushed
  PROVE  IInv'
<1> USE DEF IInv, officeVars
<1> DEFINE m == Head(unread)
           Received == [rev : Tokens, image : Images]
<1>1. /\ unread # <<>> /\ way = "relay"
      /\ m \in Messages /\ m = unread[1]
      /\ unread' \in Seq(Messages) /\ Len(unread) \in Nat \ {0} /\ Len(unread') = Len(unread) - 1
      /\ DOMAIN unread = 1..Len(unread) /\ DOMAIN unread' = 1..(Len(unread) - 1)
      /\ \A i \in 1..(Len(unread) - 1) : unread'[i] = unread[i + 1]
      /\ UNCHANGED <<way, officeVars, cache, told, asked, replies, pushing, sent>>
  BY ReceivedPushed
<1>2. OfficeTypeOK' /\ CacheTypeOK' /\ WayInv'
  BY <1>1 DEF SlideTypeOK, OfficeTypeOK, CacheTypeOK, WayInv
<1>3. WireTypeOK'
  BY <1>1, SlideAssumption DEF SlideTypeOK, WireTypeOK, Messages
<1>4. /\ \A i \in DOMAIN unread' : i + 1 \in DOMAIN unread
      /\ \A k \in Slots, i \in DOMAIN unread' : OnWay(unread', k, i) <=> OnWay(unread, k, i + 1)
      /\ \A i \in DOMAIN unread' :
           IsAsset(unread'[i]) => unread'[i].image.text = unread'[i].rev[2]
  <2>1. \A i \in DOMAIN unread' : i + 1 \in DOMAIN unread /\ unread'[i] = unread[i + 1]
    BY <1>1
  <2>2. \A i \in DOMAIN unread :
          IsAsset(unread[i]) => unread[i].image.text = unread[i].rev[2]
    BY DEF TextInv, ImagesMatchRevision
  <2> QED  BY <2>1, <2>2 DEF OnWay
<1>5. assets \in [Slots -> Received \cup {NoImage}] /\ lastState \in States
  BY DEF SlideTypeOK, PageTypeOK
<1>6. \A k \in Slots : k = "current" \/ k = "next"
  BY DEF Slots
<1>7. CASE IsAsset(m)
  <2>1. m \in Assets
    BY <1>1, <1>7, MessageKinds DEF Messages
  <2> DEFINE a == Answer(m, m.image)
  <2>2. a \in Received /\ a # NoImage /\ a.rev = m.rev /\ a.image = m.image /\ m.slot \in Slots
    BY <2>1, SlideAssumption DEF Answer, Assets
  <2>3. m.image.text = m.rev[2]
    BY <1>1, <1>7 DEF TextInv, ImagesMatchRevision
  <2> HIDE DEF a
  <2>4. /\ assets' = [assets EXCEPT ![m.slot] = a]
        /\ shown' = Synced(lastState.current, assets'["current"])
        /\ UNCHANGED <<lastState, phase>>
    BY <1>7 DEF ReceivePushed, a
  <2> HIDE DEF m
  <2>5. assets' \in [Slots -> Received \cup {NoImage}]
    BY <1>5, <2>2, <2>4
  <2>6. assets'["current"] \in Received \cup {NoImage} /\ shown' \in {assets'["current"], NoImage}
    BY <2>4, <2>5, SyncedType DEF Slots
  <2>7. PageTypeOK'
    BY <1>1, <2>4, <2>5, <2>6 DEF SlideTypeOK, PageTypeOK
  <2>8. TextInv'
    <3>1. \A k \in Slots : assets'[k] # NoImage => assets'[k].image.text = assets'[k].rev[2]
      BY <1>5, <2>2, <2>3, <2>4 DEF TextInv
    <3>2. shown' # NoImage => shown'.image.text = shown'.rev[2]
      BY <2>6, <3>1 DEF Slots
    <3> QED  BY <1>1, <1>4, <3>1, <3>2 DEF TextInv, ImagesMatchRevision
  <2>9. PushedInv'
    <3>1. SUFFICES ASSUME NEW k \in Slots, sent[k] # NoToken
                   PROVE  \/ \E i \in DOMAIN unread' :
                               /\ OnWay(unread', k, i) /\ unread'[i].rev = sent[k]
                               /\ \A j \in DOMAIN unread' : j > i => ~OnWay(unread', k, j)
                          \/ /\ \A i \in DOMAIN unread' : ~OnWay(unread', k, i)
                             /\ assets'[k] # NoImage /\ assets'[k].rev = sent[k]
      BY <1>1 DEF PushedInv
    <3>2. OnWay(unread, k, 1) <=> m.slot = k
      BY <1>1, <1>7 DEF OnWay, m
    <3>3. CASE \E i \in DOMAIN unread :
                 /\ OnWay(unread, k, i) /\ unread[i].rev = sent[k]
                 /\ \A j \in DOMAIN unread : j > i => ~OnWay(unread, k, j)
      <4>1. PICK i \in DOMAIN unread :
              /\ OnWay(unread, k, i) /\ unread[i].rev = sent[k]
              /\ \A j \in DOMAIN unread : j > i => ~OnWay(unread, k, j)
        BY <3>3
      <4>2. CASE i = 1
        <5>1. assets'[k] = a /\ m.rev = sent[k]
          BY <1>1, <1>5, <2>4, <3>2, <4>1, <4>2
        <5>2. \A j \in DOMAIN unread' : ~OnWay(unread', k, j)
          BY <1>1, <1>4, <4>1, <4>2
        <5> QED  BY <2>2, <5>1, <5>2
      <4>3. CASE i # 1
        <5>1. /\ i - 1 \in DOMAIN unread' /\ OnWay(unread', k, i - 1)
              /\ unread'[i - 1].rev = sent[k]
          BY <1>1, <1>4, <4>1, <4>3
        <5>2. \A j \in DOMAIN unread' : j > i - 1 => ~OnWay(unread', k, j)
          BY <1>1, <1>4, <4>1
        <5> QED  BY <5>1, <5>2
      <4> QED  BY <4>2, <4>3
    <3>4. CASE /\ \A i \in DOMAIN unread : ~OnWay(unread, k, i)
               /\ assets[k] # NoImage /\ assets[k].rev = sent[k]
      <4>1. m.slot # k
        BY <1>1, <3>2, <3>4
      <4>2. assets'[k] = assets[k]
        BY <1>5, <2>4, <4>1
      <4>3. \A i \in DOMAIN unread' : ~OnWay(unread', k, i)
        BY <1>4, <3>4
      <4> QED  BY <3>4, <4>2, <4>3
    <3> QED  BY <3>1, <3>3, <3>4 DEF PushedInv
  <2>10. ShownOrOnItsWay'
    BY <1>1, <2>4, <2>7, <2>9, SyncedIsShown
  <2> QED  BY <1>2, <1>3, <2>7, <2>8, <2>9, <2>10 DEF SlideTypeOK
<1>8. CASE ~IsAsset(m)
  <2>1. m \in States
    BY <1>1, <1>8, MessageKinds DEF Messages
  <2>2. /\ lastState' = m /\ phase' = "live" /\ assets' = assets
        /\ shown' = Synced(m.current, assets["current"])
    BY <1>8 DEF ReceivePushed
  <2>3. assets["current"] \in Received \cup {NoImage} /\ shown' \in {assets["current"], NoImage}
    BY <1>5, <2>2, SyncedType DEF Slots
  <2>4. PageTypeOK'
    BY <1>1, <1>5, <2>1, <2>2, <2>3 DEF SlideTypeOK, PageTypeOK
  <2>5. TextInv'
    <3>1. shown' # NoImage => shown'.image.text = shown'.rev[2]
      BY <2>3 DEF TextInv, Slots
    <3> QED  BY <1>1, <1>4, <2>2, <3>1 DEF TextInv, ImagesMatchRevision
  <2>6. PushedInv'
    <3>1. SUFFICES ASSUME NEW k \in Slots, sent[k] # NoToken
                   PROVE  \/ \E i \in DOMAIN unread' :
                               /\ OnWay(unread', k, i) /\ unread'[i].rev = sent[k]
                               /\ \A j \in DOMAIN unread' : j > i => ~OnWay(unread', k, j)
                          \/ /\ \A i \in DOMAIN unread' : ~OnWay(unread', k, i)
                             /\ assets[k] # NoImage /\ assets[k].rev = sent[k]
      BY <1>1, <2>2 DEF PushedInv
    <3>2. ~OnWay(unread, k, 1)
      BY <1>1, <1>8 DEF OnWay
    <3>3. CASE \E i \in DOMAIN unread :
                 /\ OnWay(unread, k, i) /\ unread[i].rev = sent[k]
                 /\ \A j \in DOMAIN unread : j > i => ~OnWay(unread, k, j)
      <4>1. PICK i \in DOMAIN unread :
              /\ OnWay(unread, k, i) /\ unread[i].rev = sent[k]
              /\ \A j \in DOMAIN unread : j > i => ~OnWay(unread, k, j)
        BY <3>3
      <4>2. /\ i - 1 \in DOMAIN unread' /\ OnWay(unread', k, i - 1)
            /\ unread'[i - 1].rev = sent[k]
        BY <1>1, <1>4, <3>2, <4>1
      <4>3. \A j \in DOMAIN unread' : j > i - 1 => ~OnWay(unread', k, j)
        BY <1>1, <1>4, <4>1
      <4> QED  BY <4>2, <4>3
    <3>4. CASE /\ \A i \in DOMAIN unread : ~OnWay(unread, k, i)
               /\ assets[k] # NoImage /\ assets[k].rev = sent[k]
      BY <1>4, <3>4
    <3> QED  BY <3>1, <3>3, <3>4 DEF PushedInv
  <2>7. ShownOrOnItsWay'
    BY <1>1, <2>2, <2>4, <2>6, SyncedIsShown
  <2> QED  BY <1>2, <1>3, <2>4, <2>5, <2>6, <2>7 DEF SlideTypeOK
<1> QED  BY <1>7, <1>8

-----------------------------------------------------------------------------
(* The theorems.                                                           *)

\* The strengthened invariant is kept by every step.
THEOREM Inductive ==
  IInv /\ [SlideNext]_slideVars => IInv'
<1> SUFFICES ASSUME IInv, [SlideNext]_slideVars
             PROVE  IInv'
  OBVIOUS
<1>1. OfficeTypeOK
  BY DEF IInv, SlideTypeOK
<1>2. CASE \/ \E s \in Slides : Browse(s) \/ \E t \in Texts : EditText(s, t)
           \/ \E f \in {"impress", "other"} : Focus(f)
           \/ UserStarts \/ ShowStarts \/ UserMoves \/ ShowEnds
  <2>1. OfficeTypeOK'
    BY <1>1, <1>2, UserType
  <2>2. OnlyOffice
    BY <1>2 DEF Browse, EditText, Focus, UserStarts, ShowStarts, UserMoves, ShowEnds
  <2> QED  BY <2>1, <2>2, OnlyOfficeKeeps
<1>3. CASE Command
  <2>1. OfficeTypeOK'
    BY <1>1, <1>3, CommandType
  <2>2. OnlyOffice
    BY <1>3 DEF Command, OnImpress
  <2> QED  BY <2>1, <2>2, OnlyOfficeKeeps
<1>4. CASE StreamState
  BY <1>4, StreamStateKeeps
<1>5. CASE ReceiveState
  BY <1>5, ReceiveStateKeeps
<1>6. CASE \E r \in asked : ServeImage(r)
  BY <1>6, ServeImageKeeps
<1>7. CASE \E m \in replies : ReceiveImage(m)
  BY <1>7, ReceiveImageKeeps
<1>8. CASE PushState
  BY <1>8, PushStateKeeps
<1>9. CASE PushAsset
  BY <1>9, PushAssetKeeps
<1>10. CASE ReceivePushed
  BY <1>10, ReceivePushedKeeps
<1>11. CASE UNCHANGED slideVars
  <2>1. OfficeTypeOK' /\ OnlyOffice
    BY <1>1, <1>11 DEF OfficeTypeOK, OnlyOffice, slideVars, officeVars
  <2> QED  BY <2>1, OnlyOfficeKeeps
<1> QED
  BY <1>2, <1>3, <1>4, <1>5, <1>6, <1>7, <1>8, <1>9, <1>10, <1>11 DEF SlideNext

\* The strengthened invariant holds of every behaviour.
THEOREM Invariant == SlideSpec => []IInv
<1>1. SlideInit => IInv
  BY InitGood
<1> QED  BY <1>1, Inductive, PTL DEF SlideSpec

\* The controller, the cache, what is on its way and the page are type
\* correct; above all the cache keeps within its limit and has one image of
\* a revision.
THEOREM TypeCorrect == SlideSpec => []SlideTypeOK
<1>1. IInv => SlideTypeOK
  BY DEF IInv
<1> QED  BY <1>1, Invariant, PTL

\* An image is served, pushed and shown only under a revision that names the
\* text it was rendered with.
THEOREM ImagesFit == SlideSpec => []ImagesMatchRevision
<1>1. IInv => ImagesMatchRevision
  BY DEF IInv, TextInv
<1> QED  BY <1>1, Invariant, PTL

\* A page shows the image of its latest state, waits for it or has said that
\* it failed.
THEOREM PageIsNotForgotten == SlideSpec => []ShownOrOnItsWay
<1>1. IInv => ShownOrOnItsWay
  BY DEF IInv
<1> QED  BY <1>1, Invariant, PTL

\* The command next_slide in a show.
LEMMA NextInShow ==
  ASSUME OfficeTypeOK, HasController, at # -1, NextIndex # -1, NextSlide
  PROVE  SlideAt(CurrentIndex)' \in {SlideAt(CurrentIndex), SlideAt(NextIndex)}
<1>1. at \in 0..(ShowSize - 1) /\ ShowSize \in Nat \ {0} /\ SlideCount = ShowSize
  BY Deck DEF OfficeTypeOK, SlideCount
<1>2. CurrentIndex = at /\ (IsEndless <=> endless)
  BY <1>1 DEF CurrentIndex, IsEndless
<1>3. at' \in {at, OfficeNext} /\ HasController'
  BY DEF NextSlide, HasController
<1>4. OfficeNext \in 0..(ShowSize - 1) /\ NextIndex = OfficeNext
  BY <1>1, <1>2 DEF NextIndex, OfficeNext
<1>5. at' \in 0..(ShowSize - 1) /\ CurrentIndex' = at'
  BY <1>1, <1>3, <1>4 DEF CurrentIndex
<1>6. SlideAt(CurrentIndex)' = Order[at' + 1]
  BY <1>1, <1>3, <1>5 DEF SlideAt
<1>7. SlideAt(CurrentIndex) = Order[at + 1] /\ SlideAt(NextIndex) = Order[OfficeNext + 1]
  BY <1>1, <1>2, <1>4 DEF SlideAt
<1> QED  BY <1>3, <1>6, <1>7

\* The command next_slide in the editor.
LEMMA NextInEditor ==
  ASSUME OfficeTypeOK, ~HasController, NextIndex # -1, NextSlide
  PROVE  SlideAt(CurrentIndex)' = SlideAt(NextIndex)
<1>1. editing \in Nat /\ CurrentIndex = editing /\ SlideCount = DeckSize /\ ~IsEndless
  BY Deck DEF OfficeTypeOK, CurrentIndex, SlideCount, IsEndless
<1>2. NextIndex = editing + 1 /\ editing + 1 \in Slides
  BY <1>1, SlideAssumption DEF NextIndex, Slides
<1>3. editing' = editing + 1 /\ ~HasController'
  BY <1>2 DEF NextSlide, SetEditing, HasController
<1>4. CurrentIndex' = editing + 1
  BY <1>3 DEF CurrentIndex
<1>5. SlideAt(CurrentIndex)' = editing + 1
  BY <1>1, <1>2, <1>3, <1>4, SlideAssumption DEF SlideAt, Slides
<1>6. SlideAt(NextIndex) = editing + 1
  BY <1>1, <1>2, SlideAssumption DEF SlideAt, Slides
<1> QED  BY <1>5, <1>6

\* The command next_slide leads to the slide that was reported as the next.
THEOREM NextGoesAsReported == SlideSpec => NextGoesWhereReported
<1>1. ASSUME IInv, front = "impress", at # -1, NextIndex # -1, OnImpress(NextSlide)
      PROVE  SlideAt(CurrentIndex)' \in {SlideAt(CurrentIndex), SlideAt(NextIndex)}
  <2>1. OfficeTypeOK /\ NextSlide
    BY <1>1 DEF IInv, SlideTypeOK, OnImpress
  <2>2. CASE HasController
    BY <1>1, <2>1, <2>2, NextInShow
  <2>3. CASE ~HasController
    BY <1>1, <2>1, <2>3, NextInEditor
  <2> QED  BY <2>2, <2>3
<1> QED  BY <1>1, Invariant, PTL DEF NextGoesWhereReported
=============================================================================
