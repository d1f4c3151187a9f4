------------------------------ MODULE SlideShow ------------------------------
(***************************************************************************)
(* The presentation controller (extension/python/controller.py, 182-837)   *)
(* over an office, the state and slide images it serves                    *)
(* (local_server.py, 470-706), and a page that shows them                  *)
(* (shared/webui/app.js, 572-717), which fetches images in the direct      *)
(* modes and is sent them over the relay (relay_client.py, 350-402).       *)
(*                                                                         *)
(* Everything the controller does runs in one callback on the office       *)
(* thread, hence in one step.  Slides are numbered from 0 in the order of  *)
(* the document; a show leaves the hidden ones out and numbers the others  *)
(* anew.  The title and preview of a slide are its text; what its picture  *)
(* shows beyond them is the slide itself.                                  *)
(***************************************************************************)
EXTENDS Integers, Sequences, FiniteSets, SequencesExt

CONSTANTS
  DeckSize,    \* slides of the document
  Order,       \* those that are not hidden, in the order of the show
  Texts,
  NoSlide, NoToken, NoImage, Refused,
  CacheLimit,  \* _SLIDE_PNG_CACHE_LIMIT
  MaxMoves,    \* bound of the model: commands and what the user does
  Ways,        \* how the page is connected: "direct" or "relay"
  MaxUnread,   \* bound of the model: states on their way to the page
  MaxAsked     \* bound of the model: images on their way when it reads one

Slides == 0..(DeckSize - 1)

\* The index, the text and two flags of a slide that was rendered.
Tokens == Nat \X Texts \X BOOLEAN \X BOOLEAN

Images == [slide : Slides, text : Texts]

ASSUME SlideAssumption ==
  /\ DeckSize \in Nat \ {0}
  /\ Order \in Seq(Slides) /\ Order # <<>>
  /\ \A i, j \in DOMAIN Order : i < j => Order[i] < Order[j]
  /\ Texts # {}
  /\ CacheLimit \in Nat \ {0} /\ MaxMoves \in Nat /\ MaxUnread \in Nat \ {0}
  /\ MaxAsked \in Nat
  /\ NoSlide \notin Slides /\ NoToken \notin Tokens
  /\ NoImage \notin Images \cup [rev : Tokens, image : Images]
  /\ Ways \subseteq {"direct", "relay"}

VARIABLES
  way,
  front,      \* the current component: "impress" or "other"
  text,       \* of each slide
  editing,    \* the page the editor shows
  show,       \* "off", "starting" (no controller yet) or "on"
  at,         \* position in the show, -1 on the screen after its end
  paused, endless,
  cache,      \* _slide_png_cache, the oldest first
  told,       \* what the stream's or the relay's thread has written last
  unread,     \* states on their way, over the relay also images
  lastState,  \* the page's latest state
  phase,      \* connectionPhase
  shown,      \* the image on the page and lastImageUrl
  asked,      \* requests for images, equal ones at a time are one
  replies,    \* answers to those for the current slide
  pushing,    \* the slots an iteration of the relay's thread has yet to look at
  sent,       \* its last_asset_revisions
  assets,     \* relayState.assets of the page
  moves

officeVars == <<front, text, editing, show, at, paused, endless>>
pageVars == <<lastState, phase, shown>>
wireVars == <<told, unread, asked, replies>>
relayVars == <<pushing, sent, assets>>
slideVars == <<way, officeVars, cache, pageVars, wireVars, relayVars, moves>>

Slots == {"current", "next"}

-----------------------------------------------------------------------------
(* The office.                                                             *)

ShowSize == Len(Order)

\* XSlideShowController.getNextSlideIndex
OfficeNext ==
  IF at = -1 THEN -1
  ELSE IF at + 1 < ShowSize THEN at + 1
  ELSE IF endless THEN 0 ELSE -1

OfficePrevious ==
  IF at = -1 THEN ShowSize - 1
  ELSE IF at > 0 THEN at - 1
  ELSE IF endless THEN ShowSize - 1 ELSE 0

\* A show starts with the first slide from s on that is not hidden.
StartPosition(s) ==
  LET later == {i \in 1..ShowSize : Order[i] >= s}
  IN IF later = {} THEN 0 ELSE (CHOOSE i \in later : \A j \in later : i <= j) - 1

Starts(s) ==
  IF show = "off"
  THEN show' = "starting" /\ at' = StartPosition(s) /\ paused' = FALSE
  ELSE UNCHANGED <<show, at, paused>>

-----------------------------------------------------------------------------
(* What the controller reports.                                            *)

\* isRunning is told by the presentation, also before there is a controller.
Running == show # "off"
HasController == show = "on"

SlideCount == IF HasController THEN ShowSize ELSE DeckSize

CurrentIndex == IF HasController /\ at \in 0..(ShowSize - 1) THEN at ELSE editing

IsPaused == HasController /\ paused
IsEndless == HasController /\ endless

\* Variant that counts the slides of the document.
NextIndexInDocument == IF CurrentIndex + 1 < DeckSize THEN CurrentIndex + 1 ELSE -1

\* -1 stands for None.
NextIndex ==
  IF HasController /\ OfficeNext \in 0..(SlideCount - 1)
                   /\ (OfficeNext # CurrentIndex \/ IsEndless)
  THEN OfficeNext
  ELSE IF IsEndless THEN (CurrentIndex + 1) % SlideCount
  ELSE IF CurrentIndex + 1 < SlideCount THEN CurrentIndex + 1 ELSE -1

SlideAt(i) ==
  IF i = -1 THEN NoSlide
  ELSE IF HasController THEN IF i < ShowSize THEN Order[i + 1] ELSE NoSlide
  ELSE IF i < DeckSize THEN i ELSE NoSlide

\* A digest, without collisions.  The next slide's leaves the notes out.
RenderToken(i, running, isPaused) ==
  IF front # "impress" \/ SlideAt(i) = NoSlide THEN NoToken
  ELSE <<i, text[SlideAt(i)], running, isPaused>>

Index(slot) == IF slot = "current" THEN CurrentIndex ELSE NextIndex

Revision(slot) ==
  IF slot = "current" THEN RenderToken(CurrentIndex, Running, IsPaused)
                      ELSE RenderToken(NextIndex, FALSE, FALSE)

State == [current |-> Revision("current"), next |-> Revision("next"), running |-> Running]

Empty == [current |-> NoToken, next |-> NoToken, running |-> FALSE]

SlideInit ==
  /\ way \in Ways
  /\ front = "impress"
  /\ text = [s \in Slides |-> CHOOSE t \in Texts : TRUE]
  /\ editing = 0
  /\ show \in {"off", "on"} /\ at = 0 /\ paused = FALSE /\ endless \in BOOLEAN
  /\ cache = <<>>
  /\ told = Empty /\ unread = <<>>
  /\ lastState = Empty /\ phase = "live" /\ shown = NoImage
  /\ asked = {} /\ replies = {}
  /\ pushing = <<>>
  /\ sent = [slot \in Slots |-> NoToken]
  /\ assets = [slot \in Slots |-> NoImage]
  /\ moves = 0

-----------------------------------------------------------------------------
(* What the user does at the computer.                                     *)

Moves == moves < MaxMoves /\ moves' = moves + 1

OnlyOffice == UNCHANGED <<way, cache, pageVars, wireVars, relayVars>>

EditText(s, t) ==
  /\ Moves /\ text' = [text EXCEPT ![s] = t]
  /\ UNCHANGED <<front, editing, show, at, paused, endless>> /\ OnlyOffice

Browse(s) ==
  /\ Moves /\ show = "off" /\ editing' = s
  /\ UNCHANGED <<front, text, show, at, paused, endless>> /\ OnlyOffice

Focus(f) ==
  /\ Moves /\ front' = f
  /\ UNCHANGED <<text, editing, show, at, paused, endless>> /\ OnlyOffice

UserStarts ==
  /\ Moves /\ show = "off" /\ Starts(editing)
  /\ UNCHANGED <<front, text, editing, endless>> /\ OnlyOffice

ShowStarts ==
  /\ show = "starting" /\ show' = "on"
  /\ UNCHANGED <<front, text, editing, at, paused, endless, moves>> /\ OnlyOffice

UserMoves ==
  /\ Moves /\ show = "on"
  /\ \/ at' \in {OfficeNext, OfficePrevious} /\ UNCHANGED paused
     \/ paused' = ~paused /\ UNCHANGED at
  /\ UNCHANGED <<front, text, editing, show, endless>> /\ OnlyOffice

\* The editor goes to the slide the show ended with.
ShowEnds ==
  /\ Moves /\ show = "on"
  /\ show' = "off" /\ paused' = FALSE /\ at' = 0
  /\ editing' = IF at = -1 THEN editing ELSE Order[at + 1]
  /\ UNCHANGED <<front, text, endless>> /\ OnlyOffice

-----------------------------------------------------------------------------
(* ImpressController.command.                                              *)

\* _set_editing_slide
SetEditing(i) ==
  /\ editing' = IF i \in Slides THEN i ELSE editing
  /\ UNCHANGED <<show, at, paused>>

\* gotoNextEffect may play an effect and stay.
NextSlide ==
  IF HasController THEN at' \in {at, OfficeNext} /\ UNCHANGED <<editing, show, paused>>
                   ELSE SetEditing(editing + 1)

PreviousSlide ==
  IF HasController THEN at' \in {at, OfficePrevious} /\ UNCHANGED <<editing, show, paused>>
                   ELSE SetEditing(editing - 1)

GotoSlide(i) ==
  IF HasController
  THEN /\ at' = IF i \in 0..(ShowSize - 1) THEN i ELSE at
       /\ UNCHANGED <<editing, show, paused>>
  ELSE SetEditing(i)

\* Without a show there is no branch for it.
GotoLastSlide ==
  IF HasController THEN at' = ShowSize - 1 /\ UNCHANGED <<editing, show, paused>>
                   ELSE UNCHANGED <<editing, show, at, paused>>

StartPresentation == Starts(editing) /\ UNCHANGED editing

\* Without a dispatcher the editor is set first.
StartFromFirstSlide ==
  /\ Starts(0)
  /\ \/ UNCHANGED editing
     \/ editing' = 0

OnImpress(Step) ==
  /\ Moves
  /\ IF front = "impress" THEN Step ELSE UNCHANGED <<editing, show, at, paused>>
  /\ UNCHANGED <<front, text, endless>> /\ OnlyOffice

Command ==
  OnImpress(\/ NextSlide \/ PreviousSlide \/ GotoLastSlide
            \/ StartPresentation \/ StartFromFirstSlide
            \/ \E i \in 0..DeckSize : GotoSlide(i))

-----------------------------------------------------------------------------
(* States and images on their way to the page.                             *)

Reported == IF front = "impress" THEN State ELSE Empty

\* Variant that does not tell the elapsed time.
StreamStateOnChange ==
  /\ way = "direct"
  /\ Reported # told
  /\ Len(unread) < MaxUnread
  /\ told' = Reported /\ unread' = Append(unread, Reported)
  /\ UNCHANGED <<way, officeVars, cache, pageVars, asked, replies, relayVars, moves>>

\* The thread of the stream looks three times a second; in a show the elapsed
\* time makes every state a new one.
StreamState ==
  /\ way = "direct"
  /\ Reported # told \/ Reported.running
  /\ Len(unread) < MaxUnread
  /\ told' = Reported /\ unread' = Append(unread, Reported)
  /\ UNCHANGED <<way, officeVars, cache, pageVars, asked, replies, relayVars, moves>>

Wants(rev) == rev # NoToken /\ (shown = NoImage \/ shown.rev # rev)

Request(slot, rev) == [slot |-> slot, rev |-> rev]

\* renderState with updateSlideImage and preloadNextSlide; whether the next
\* slide has been loaded already is left open.
ReceiveState ==
  /\ way = "direct"
  /\ unread # <<>>
  /\ Cardinality(asked) + Cardinality(replies) <= MaxAsked
  /\ unread' = Tail(unread)
  /\ LET s == Head(unread)
         current == {Request("current", rev) : rev \in {v \in {s.current} : Wants(v)}}
         next == {Request("next", rev) : rev \in {s.next} \ {NoToken}}
     IN /\ lastState' = s
        /\ phase' = "live"
        /\ \E preload \in SUBSET next : asked' = asked \cup current \cup preload
        /\ shown' = IF s.current = NoToken THEN NoImage ELSE shown
  /\ UNCHANGED <<way, officeVars, cache, told, replies, relayVars, moves>>

\* Variant that serves what there is.
ValidIfAny(r) == front = "impress" /\ SlideAt(Index(r.slot)) # NoSlide

\* _validate_slide_revision
Valid(r) == front = "impress" /\ Revision(r.slot) = r.rev

Image(s) == [slide |-> s, text |-> text[s]]

IsCached(token) == \E i \in DOMAIN cache : cache[i].token = token
Place(token) == CHOOSE i \in DOMAIN cache : cache[i].token = token
Others(token) == IF IsCached(token) THEN RemoveAt(cache, Place(token)) ELSE cache

\* Variant that keeps one image too many.
RememberedOneMore(token, image) ==
  LET all == Append(Others(token), [token |-> token, image |-> image])
  IN IF Len(all) > CacheLimit + 1 THEN Tail(all) ELSE all

\* _remember_slide_png and move_to_end
Remembered(token, image) ==
  LET all == Append(Others(token), [token |-> token, image |-> image])
  IN IF Len(all) > CacheLimit THEN Tail(all) ELSE all

Answer(r, image) == [rev |-> r.rev, image |-> image]

\* current_slide_png_bytes and next_slide_png_bytes
ImageFor(slot, token) ==
  IF IsCached(token) THEN cache[Place(token)].image ELSE Image(SlideAt(Index(slot)))

\* _slide_bytes: validate, then take the image from the cache or render it.
\* The page keeps an image of the next slide in the browser's cache only; that
\* its answer is received is part of the step.
ServeImage(r) ==
  /\ r \in asked
  /\ asked' = asked \ {r}
  /\ LET token == Revision(r.slot)
         image == IF Valid(r) THEN ImageFor(r.slot, token) ELSE Refused
     IN /\ cache' = IF image = Refused THEN cache ELSE Remembered(token, image)
        /\ replies' = IF r.slot = "current" THEN replies \cup {Answer(r, image)} ELSE replies
        /\ phase' = IF r.slot = "next" /\ image = Refused THEN "offline" ELSE phase
  /\ UNCHANGED <<way, officeVars, lastState, shown, told, unread, relayVars, moves>>

\* Variant without the second look at lastState.
ReceiveImageAsAsked(m) ==
  /\ m \in replies
  /\ replies' = replies \ {m}
  /\ IF m.image = Refused THEN phase' = "offline" /\ UNCHANGED shown
                         ELSE shown' = m /\ UNCHANGED phase
  /\ UNCHANGED <<way, officeVars, cache, lastState, told, unread, asked, relayVars, moves>>

\* What follows the await in updateSlideImage.
ReceiveImage(m) ==
  /\ m \in replies
  /\ replies' = replies \ {m}
  /\ IF m.image = Refused THEN phase' = "offline" /\ UNCHANGED shown
     ELSE shown' = (IF lastState.current = m.rev THEN m ELSE shown) /\ UNCHANGED phase
  /\ UNCHANGED <<way, officeVars, cache, lastState, told, unread, asked, relayVars, moves>>

-----------------------------------------------------------------------------
(* Over the relay: what one iteration of the thread sends, a call to the   *)
(* office for the state and one for each image.                            *)

HasRoom == Len(unread) <= MaxUnread

\* The state has changed, or it was sent a second ago.
PushState ==
  /\ way = "relay"
  /\ pushing = <<>> /\ HasRoom
  /\ told' = Reported
  /\ \/ unread' = Append(unread, Reported)
     \/ Reported = told /\ unread' = unread
  /\ pushing' = <<"current", "next">>
  /\ UNCHANGED <<way, officeVars, cache, pageVars, asked, replies, sent, assets, moves>>

\* _relay_asset_payload; it looks at the state before and after, in one call.
AssetFor(slot, rev) ==
  IF Valid(Request(slot, rev)) THEN ImageFor(slot, rev) ELSE NoImage

Asset(slot, rev, image) == [slot |-> slot, rev |-> rev, image |-> image]

\* _send_asset_frames for one slot: an image that is not that of the state
\* any more is left for a later iteration.
PushAsset ==
  /\ pushing # <<>> /\ HasRoom
  /\ LET slot == Head(pushing)
         rev == told[slot]
         image == AssetFor(slot, rev)
     IN \/ /\ rev = NoToken
           /\ sent' = [sent EXCEPT ![slot] = NoToken]
           /\ UNCHANGED <<cache, unread>>
        \/ /\ rev # NoToken
           /\ sent[slot] = rev \/ image = NoImage
           /\ UNCHANGED <<sent, cache, unread>>
        \/ /\ rev \notin {NoToken, sent[slot]} /\ image # NoImage
           /\ sent' = [sent EXCEPT ![slot] = rev]
           /\ cache' = Remembered(rev, image)
           /\ unread' = Append(unread, Asset(slot, rev, image))
  /\ pushing' = Tail(pushing)
  /\ UNCHANGED <<way, officeVars, pageVars, told, asked, replies, assets, moves>>

IsAsset(m) == "slot" \in DOMAIN m

\* syncCurrentSlideAsset
Synced(rev, current) ==
  IF rev # NoToken /\ current # NoImage /\ current.rev = rev THEN current ELSE NoImage

\* renderState, or applyAssetPayload, with syncRenderedAssets.
ReceivePushed ==
  /\ way = "relay"
  /\ unread # <<>>
  /\ unread' = Tail(unread)
  /\ LET m == Head(unread) IN
       IF IsAsset(m)
       THEN /\ assets' = [assets EXCEPT ![m.slot] = Answer(m, m.image)]
            /\ shown' = Synced(lastState.current, assets'["current"])
            /\ UNCHANGED <<lastState, phase>>
       ELSE /\ lastState' = m /\ phase' = "live"
            /\ shown' = Synced(m.current, assets["current"])
            /\ UNCHANGED assets
  /\ UNCHANGED <<way, officeVars, cache, told, asked, replies, pushing, sent, moves>>

-----------------------------------------------------------------------------
SlideNext ==
  \/ \E s \in Slides : Browse(s) \/ \E t \in Texts : EditText(s, t)
  \/ \E f \in {"impress", "other"} : Focus(f)
  \/ UserStarts \/ ShowStarts \/ UserMoves \/ ShowEnds
  \/ Command
  \/ StreamState \/ ReceiveState
  \/ \E r \in asked : ServeImage(r)
  \/ \E m \in replies : ReceiveImage(m)
  \/ PushState \/ PushAsset \/ ReceivePushed

\* The show gets its controller, threads run, requests get through.
SlideSpec ==
  /\ SlideInit /\ [][SlideNext]_slideVars
  /\ WF_slideVars(ShowStarts)
  /\ WF_slideVars(StreamState) /\ WF_slideVars(ReceiveState)
  /\ \A slot \in Slots :
       WF_slideVars(\E r \in asked : r.slot = slot /\ ServeImage(r))
  /\ WF_slideVars(\E m \in replies : ReceiveImage(m))
  /\ WF_slideVars(PushState \/ PushAsset) /\ WF_slideVars(ReceivePushed)

-----------------------------------------------------------------------------
Revisions == Tokens \cup {NoToken}

States == [current : Revisions, next : Revisions, running : BOOLEAN]

Assets == [slot : Slots, rev : Tokens, image : Images]

OfficeTypeOK ==
  /\ front \in {"impress", "other"} /\ show \in {"off", "starting", "on"}
  /\ text \in [Slides -> Texts]
  /\ editing \in Slides /\ at \in -1..(ShowSize - 1)
  /\ paused \in BOOLEAN /\ endless \in BOOLEAN

CacheTypeOK ==
  /\ cache \in Seq([token : Tokens, image : Images]) /\ Len(cache) <= CacheLimit
  /\ \A i, j \in DOMAIN cache : cache[i].token = cache[j].token => i = j

WireTypeOK ==
  /\ told \in States /\ unread \in Seq(States \cup Assets)
  /\ Len(unread) <= MaxUnread + (IF way = "relay" THEN 1 ELSE 0)
  /\ asked \subseteq [slot : Slots, rev : Tokens]
  /\ replies \subseteq [rev : Tokens, image : Images \cup {Refused}]
  /\ pushing \in Seq(Slots)
  /\ sent \in [Slots -> Revisions]

PageTypeOK ==
  /\ way \in {"direct", "relay"}
  /\ lastState \in States /\ phase \in {"live", "offline"}
  /\ shown \in [rev : Tokens, image : Images] \cup {NoImage}
  /\ assets \in [Slots -> [rev : Tokens, image : Images] \cup {NoImage}]

SlideTypeOK == OfficeTypeOK /\ CacheTypeOK /\ WireTypeOK /\ PageTypeOK

(***************************************************************************)
(* An image goes out, and is shown, only under a revision that names the   *)
(* text it was rendered with, whatever was edited between the state, the   *)
(* request and the answer, or between the state and the image that is      *)
(* pushed after it (local_server.py 651-706, controller.py 380-396, app.js *)
(* 588-660).                                                               *)
(***************************************************************************)
ImagesMatchRevision ==
  /\ \A i \in DOMAIN cache : cache[i].image.text = cache[i].token[2]
  /\ \A m \in replies : m.image # Refused => m.image.text = m.rev[2]
  /\ shown # NoImage => shown.image.text = shown.rev[2]
  /\ \A i \in DOMAIN unread :
       IsAsset(unread[i]) => unread[i].image.text = unread[i].rev[2]

(***************************************************************************)
(* A page without the image of its latest state is waiting for it, or has  *)
(* said that it failed: no answer that comes late or out of order takes    *)
(* the image away again (app.js 572-603).  Over the relay, an image the    *)
(* thread takes for sent has arrived or is on its way (relay_client.py     *)
(* 379-402, app.js 632-652, 1421-1445).                                    *)
(***************************************************************************)
ShownOrOnItsWay ==
  LET rev == lastState.current
  IN rev # NoToken =>
       \/ shown # NoImage /\ shown.rev = rev
       \/ Request("current", rev) \in asked \/ \E m \in replies : m.rev = rev
       \/ phase = "offline"
       \/ way = "relay" /\ sent["current"] # rev
       \/ \E i \in DOMAIN unread :
            IsAsset(unread[i]) /\ unread[i].slot = "current" /\ unread[i].rev = rev

(***************************************************************************)
(* Where there is a next slide, the command next_slide leads to the one    *)
(* that was reported, or plays an effect of the current one: in the        *)
(* editor, in a show with hidden slides, and while a show starts           *)
(* (controller.py 311-333, 479-560).                                       *)
(***************************************************************************)
NextGoesWhereReported ==
  [][ (front = "impress" /\ at # -1 /\ NextIndex # -1 /\ OnImpress(NextSlide)) =>
        SlideAt(CurrentIndex)' \in {SlideAt(CurrentIndex), SlideAt(NextIndex)} ]_slideVars

(***************************************************************************)
(* In a show that is left alone the page ends up with the image of the     *)
(* current slide, whatever was refused or overtaken before (local_server   *)
(* 651-668, app.js 572-603).                                               *)
(***************************************************************************)
ImageCatchesUp ==
  <>[](front = "impress" /\ show = "on" /\ at # -1)
    => <>[](shown # NoImage /\ shown.rev = Revision("current"))

(***************************************************************************)
(* "Direct and local compatibility slide endpoints now reject stale slide  *)
(* render revisions instead of returning a mismatched current slide image" *)
(* (CHANGELOG.md 374): the image served for the current slide is of it.    *)
(***************************************************************************)
ServedImageIsOfItsSlide ==
  [][ \A m \in replies' \ replies :
        m.image # Refused => m.image.slide = SlideAt(CurrentIndex) ]_slideVars
=============================================================================
