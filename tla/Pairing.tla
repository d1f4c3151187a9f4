-------------------------------- MODULE Pairing --------------------------------
(***************************************************************************)
(* From Start Remote to the first phone, over a tunnel: the tunnel client  *)
(* and its threads (extension/python/localtunnel_client.py, 107-288), the  *)
(* pairing dialog with the thread that watches for the phone               *)
(* (office_ui.py, 963-1221), and what the first sign of a phone sets off   *)
(* (local_server.py, 933-956).                                             *)
(*                                                                         *)
(* The tunnel is the route whose URL comes and goes while the dialog is    *)
(* open; the URLs of the other routes are there from the start, as         *)
(* RemoteServer shows.  One session is modelled, from the moment its       *)
(* dialog opens.                                                           *)
(***************************************************************************)
EXTENDS Naturals, FiniteSets

CONSTANTS
  Workers,     \* the threads localtunnel-socket-n
  Pipes,       \* the threads that read from the tunnel, one for each connection
  Pictures,    \* names of temporary QR images
  NoPicture,
  MaxMishaps   \* bound of the model: failures of the network, the disk and calls to the office

ASSUME PairingAssumption == NoPicture \notin Pictures /\ MaxMishaps \in Nat

VARIABLES
  running,     \* RemoteServer.is_running()
  connected,   \* RemoteServer.client_connected
  status,      \* LocalTunnelClient._state
  url,         \* LocalTunnelClient.url is set
  stop,        \* LocalTunnelClient._stop_event
  bridge,      \* where the tunnel's main thread is
  worker,      \* where each worker is
  socket,      \* the two sockets of each worker: "none", "open" or "shut"
  pipe,        \* where each pipe thread is
  office,      \* where the office's thread is with the dialog
  monitor,     \* where the monitor thread is
  snapshot,    \* the monitor's snapshot
  pairing_url, \* current_pairing_url is set
  qr,          \* ImageURL shows the QR code
  qr_error,    \* the last export failed
  qr_path,     \* qr_image_path
  files,       \* QR images on disk
  told,        \* the status _last_pairing_error speaks of
  outlived,    \* history: the dialog's thread did not wait for the monitor's end
  outcome,     \* history: what became of the latest call that should start the show
  mishaps

serverVars == <<running, connected>>
tunnelVars == <<status, url, stop, bridge, worker, socket>>
callVars == <<pipe, outcome>>
dialogVars == <<office, monitor, snapshot, pairing_url, qr, qr_error, qr_path, files, told, outlived>>
vars == <<serverVars, tunnelVars, callVars, dialogVars, mishaps>>

\* runtime_snapshot; NoSnapshot stands for the one of a step that is over.
Snapshot == [running |-> running, connected |-> connected]
NoSnapshot == [running |-> TRUE, connected |-> FALSE]

\* The remote has just started: the dialog was filled once and is shown.
Init ==
  /\ running = TRUE /\ connected = FALSE
  /\ status = "connecting" /\ url = FALSE /\ stop = FALSE
  /\ bridge = "request"
  /\ worker = [w \in Workers |-> "none"]
  /\ socket = [w \in Workers |-> "none"]
  /\ pipe = [p \in Pipes |-> "reading"]
  /\ office = "executing"
  /\ monitor = "waiting"
  /\ snapshot = NoSnapshot
  /\ pairing_url = FALSE /\ qr = FALSE /\ qr_error = FALSE /\ qr_path = NoPicture
  /\ files = {}
  /\ told = "nothing"
  /\ outlived = FALSE /\ outcome = "none"
  /\ mishaps = 0

Mishap == mishaps < MaxMishaps /\ mishaps' = mishaps + 1

\* preview_route_urls for the tunnel.
Offered == running /\ url /\ status = "ready"

-----------------------------------------------------------------------------
(* LocalTunnelClient._run.                                                 *)

Request ==
  /\ bridge = "request"
  /\ \/ /\ url' = TRUE /\ status' = "ready"
        /\ bridge' = "watch"
        /\ worker' = [w \in Workers |-> "connect"]
        /\ UNCHANGED mishaps
     \/ /\ Mishap
        /\ url' = FALSE /\ status' = "retrying"
        /\ bridge' = "retry"
        /\ UNCHANGED worker
  /\ UNCHANGED <<serverVars, stop, socket, callVars, dialogVars>>

Watch ==
  /\ bridge = "watch"
  /\ stop \/ \A w \in Workers : worker[w] = "done"
  /\ bridge' = "retry"
  /\ UNCHANGED <<serverVars, status, url, stop, worker, socket, callVars, dialogVars, mishaps>>

RetryLater ==
  /\ bridge = "retry"
  /\ IF stop
       THEN bridge' = "done" /\ status' = "stopped" /\ UNCHANGED url
       ELSE bridge' = "request" /\ status' = "connecting" /\ url' = FALSE
  /\ UNCHANGED <<serverVars, stop, worker, socket, callVars, dialogVars, mishaps>>

(* _connection_loop of worker w: a connection to the tunnel and one to the *)
(* local listener.  One made while stop() runs is in no list stop() saw.   *)

WorkerConnects(w) ==
  /\ worker[w] = "connect"
  /\ IF stop
       THEN worker' = [worker EXCEPT ![w] = "done"]
       ELSE worker' = [worker EXCEPT ![w] = "dialling"]
  /\ UNCHANGED <<serverVars, status, url, stop, bridge, socket, callVars, dialogVars, mishaps>>

WorkerIsConnected(w) ==
  /\ worker[w] = "dialling"
  /\ \/ /\ worker' = [worker EXCEPT ![w] = "pipe"]
        /\ socket' = [socket EXCEPT ![w] = "open"]
        /\ UNCHANGED <<status, mishaps>>
     \/ /\ Mishap
        /\ worker' = [worker EXCEPT ![w] = "connect"]
        /\ status' = IF stop THEN status ELSE "error"
        /\ UNCHANGED socket
  /\ UNCHANGED <<serverVars, url, stop, bridge, callVars, dialogVars>>

PipeEndsByPeer(w) ==
  /\ worker[w] = "pipe"
  /\ socket[w] = "shut"
  /\ worker' = [worker EXCEPT ![w] = "connect"]
  /\ socket' = [socket EXCEPT ![w] = "none"]
  /\ UNCHANGED <<serverVars, status, url, stop, bridge, callVars, dialogVars, mishaps>>

\* _pipe_pair: a pipe has ended, or the tunnel is stopped.
PipeEnds(w) ==
  /\ worker[w] = "pipe"
  /\ stop \/ socket[w] = "shut"
  /\ worker' = [worker EXCEPT ![w] = "connect"]
  /\ socket' = [socket EXCEPT ![w] = "none"]
  /\ UNCHANGED <<serverVars, status, url, stop, bridge, callVars, dialogVars, mishaps>>

\* The phone or the tunnel service ends a connection.
PeerCloses(w) ==
  /\ socket[w] = "open"
  /\ socket' = [socket EXCEPT ![w] = "shut"]
  /\ UNCHANGED <<serverVars, status, url, stop, bridge, worker, callVars, dialogVars, mishaps>>

-----------------------------------------------------------------------------
(* mark_client_activity, on the thread that pipes from the tunnel.  Such a  *)
(* thread reports a phone once, and may outlive its connection doing so.   *)

TunnelIsOpen == \E w \in Workers : socket[w] = "open"

ReadsAfterSetting(p) ==
  /\ pipe[p] = "reading" /\ TunnelIsOpen
  /\ connected' = TRUE
  /\ pipe' = [pipe EXCEPT ![p] = "later"]
  /\ UNCHANGED <<running, tunnelVars, outcome, dialogVars, mishaps>>

\* Bytes of a phone arrive: first_client_connection is read.
Reads(p) ==
  /\ pipe[p] = "reading" /\ TunnelIsOpen
  /\ pipe' = [pipe EXCEPT ![p] = IF connected THEN "later" ELSE "first"]
  /\ UNCHANGED <<serverVars, tunnelVars, outcome, dialogVars, mishaps>>

Marks(p) ==
  /\ pipe[p] \in {"first", "later"}
  /\ connected' = TRUE
  /\ pipe' = [pipe EXCEPT ![p] = IF pipe[p] = "first" THEN "calling" ELSE "reported"]
  /\ UNCHANGED <<running, tunnelVars, outcome, dialogVars, mishaps>>

\* _start_presentation_for_client on the office's thread, in whatever state
\* the presenter has left the documents: a deck is an Impress document with
\* slides.  Nobody is told when its command fails.
OfficeStartsShow(found) ==
  \/ found = "no deck" /\ outcome' = "nothing to show" /\ UNCHANGED mishaps
  \/ found = "show" /\ outcome' = "shows" /\ UNCHANGED mishaps
  \/ found = "deck" /\ outcome' = "shows" /\ UNCHANGED mishaps
  \/ found = "deck" /\ outcome' = "failed" /\ Mishap

\* The thread's call of it, which may be refused, late or raise.
StartsShow(p) ==
  /\ pipe[p] = "calling"
  /\ pipe' = [pipe EXCEPT ![p] = "reported"]
  /\ \/ \E found \in {"no deck", "deck", "show"} : OfficeStartsShow(found)
     \/ outcome' = "no answer" /\ Mishap
  /\ UNCHANGED <<serverVars, tunnelVars, dialogVars>>

-----------------------------------------------------------------------------
(* RemoteServer.stop: by the user once the dialog is gone, or when the     *)
(* desktop terminates.                                                     *)

StopTunnel ==
  /\ ~stop
  /\ stop' = TRUE
  /\ socket' = [w \in Workers |-> IF socket[w] = "open" THEN "shut" ELSE socket[w]]
  /\ url' = FALSE /\ status' = "stopped"
  /\ UNCHANGED <<serverVars, bridge, worker, callVars, dialogVars, mishaps>>

StopServer ==
  /\ stop /\ running
  /\ running' = FALSE /\ connected' = FALSE
  /\ UNCHANGED <<tunnelVars, callVars, dialogVars, mishaps>>

-----------------------------------------------------------------------------
(* RemotePairingDialog._monitor_loop.  It waits 0.35 seconds first, by     *)
(* when the dialog executes.                                               *)

Closed == office # "executing"

MonitorAsks ==
  /\ monitor = "waiting"
  /\ IF Closed
       THEN monitor' = "done" /\ UNCHANGED snapshot
       ELSE monitor' = "pairing" /\ snapshot' = Snapshot
  /\ UNCHANGED <<serverVars, tunnelVars, callVars, office, pairing_url, qr, qr_error, qr_path,
                 files, told, outlived, mishaps>>

KeepsPicture == qr_path' = NoPicture /\ UNCHANGED files

\* _cleanup_qr_image
RemovesPicture == qr_path' = NoPicture /\ files' = files \ {qr_path}

\* _pairing_error_text: what is wrong with the tunnel, "nothing" if nothing.
PairingError ==
  IF Offered \/ status \in {"connecting", "retrying", "ready"} THEN "nothing" ELSE status

\* _refresh_pairing_from_snapshot up to the image, and a message that is new
\* when the URL has been missing for two seconds.
MonitorPairs ==
  /\ monitor = "pairing"
  /\ pairing_url' = Offered
  /\ IF Offered # pairing_url
       THEN RemovesPicture /\ qr' = FALSE /\ qr_error' = FALSE
       ELSE UNCHANGED <<qr, qr_error, qr_path, files>>
  /\ \/ Offered /\ ~pairing_url /\ monitor' = "drawing" /\ UNCHANGED told
     \/ (Offered => pairing_url) /\ monitor' = "closing" /\ UNCHANGED told
     \/ /\ PairingError \notin {"nothing", told}
        /\ monitor' = "message" /\ told' = PairingError
  /\ UNCHANGED <<serverVars, tunnelVars, callVars, office, snapshot, outlived, mishaps>>

\* export_qr_png_path and the image of the dialog, which takes none once it
\* is disposed.
MonitorDraws ==
  /\ monitor = "drawing"
  /\ \/ LET f == CHOOSE f \in Pictures \ files : TRUE IN
          /\ files' = files \cup {f} /\ qr_path' = f
          /\ qr' = (office # "gone") /\ qr_error' = (office = "gone")
          /\ UNCHANGED mishaps
     \/ Mishap /\ qr' = FALSE /\ qr_error' = TRUE /\ UNCHANGED <<files, qr_path>>
  /\ monitor' = "closing"
  /\ UNCHANGED <<serverVars, tunnelVars, callVars, office, snapshot, pairing_url, told, outlived>>

\* The message of show_error_message stays until the user closes it.
MonitorIsRead ==
  /\ monitor = "message"
  /\ monitor' = "closing"
  /\ UNCHANGED <<serverVars, tunnelVars, callVars, office, snapshot, pairing_url, qr, qr_error,
                 qr_path, files, told, outlived, mishaps>>

MonitorClosesForPhone ==
  /\ monitor = "closing"
  /\ IF snapshot.connected
       THEN monitor' = "done" /\ office' = IF office = "executing" THEN "joining" ELSE office
       ELSE monitor' = "waiting" /\ UNCHANGED office
  /\ snapshot' = NoSnapshot
  /\ UNCHANGED <<serverVars, tunnelVars, callVars, pairing_url, qr, qr_error, qr_path,
                 files, told, outlived, mishaps>>

\* endExecute when a phone has connected or the remote has stopped.
MonitorCloses ==
  /\ monitor = "closing"
  /\ IF snapshot.connected \/ ~snapshot.running
       THEN monitor' = "done" /\ office' = IF office = "executing" THEN "joining" ELSE office
       ELSE monitor' = "waiting" /\ UNCHANGED office
  /\ snapshot' = NoSnapshot
  /\ UNCHANGED <<serverVars, tunnelVars, callVars, pairing_url, qr, qr_error, qr_path,
                 files, told, outlived, mishaps>>

MonitorStep ==
  \/ MonitorAsks \/ MonitorPairs
  \/ MonitorDraws \/ MonitorIsRead \/ MonitorCloses

(* The end of RemotePairingDialog.show, on the office's thread.            *)

UserCloses ==
  /\ office = "executing"
  /\ office' = "joining"
  /\ UNCHANGED <<serverVars, tunnelVars, callVars, monitor, snapshot, pairing_url, qr, qr_error,
                 qr_path, files, told, outlived, mishaps>>

\* The monitor has ended, or one second is over.
CleansUp ==
  /\ office = "joining"
  /\ office' = "gone"
  /\ outlived' = (monitor # "done")
  /\ RemovesPicture
  /\ qr' = FALSE
  /\ UNCHANGED <<serverVars, tunnelVars, callVars, monitor, snapshot, pairing_url, qr_error, told,
                 mishaps>>

-----------------------------------------------------------------------------
WorkerStep(w) == WorkerConnects(w) \/ WorkerIsConnected(w) \/ PipeEnds(w)

PipeStep(p) == Marks(p) \/ StartsShow(p)

BridgeStep == Request \/ Watch \/ RetryLater

Next ==
  \/ BridgeStep
  \/ \E w \in Workers : WorkerStep(w) \/ PeerCloses(w)
  \/ \E p \in Pipes : Reads(p) \/ PipeStep(p)
  \/ StopTunnel \/ StopServer
  \/ MonitorStep
  \/ UserCloses \/ CleansUp

\* Threads go on, and a user reads messages.  Phones, the user and the end
\* of LibreOffice come when they like, or never.
Fairness ==
  /\ WF_vars(BridgeStep)
  /\ \A w \in Workers : WF_vars(WorkerStep(w))
  /\ \A p \in Pipes : WF_vars(PipeStep(p))
  /\ WF_vars(MonitorStep)
  /\ WF_vars(CleansUp)
  /\ WF_vars(StopServer)

PairingSpec == Init /\ [][Next]_vars /\ Fairness

-----------------------------------------------------------------------------
(* Properties.                                                             *)

\* A pairing dialog that stays open shows the QR code of the URL that is on
\* offer, or none when there is none, and its remote runs and still waits
\* for a phone (user-guide.md, 50).  A QR image that could not be written
\* is not tried again.
OpenDialogIsRight ==
  <>[](office = "executing" =>
         running /\ ~connected /\ (qr = Offered \/ qr_error))

\* Every QR image on disk is the one the dialog knows, so none is left when
\* the dialog is gone, unless its thread did not wait for the monitor's end.
QrImagesAreRemoved ==
  ~outlived => files \subseteq {qr_path} /\ (office = "gone" => files = {})

\* Once stopped, all threads of the tunnel end, also one that was just
\* connecting (localtunnel_client.py, 138-156).
TunnelEnds ==
  stop ~> (bridge = "done" /\ \A w \in Workers : worker[w] \in {"none", "done"})

\* However many threads take their phone for the first: once a phone has
\* connected and none of them is about to, the office has started the show or
\* found it running, but for a call that found nothing to show, a command
\* that failed and a call without an answer, after which nobody tries again
\* (local_server.py, 933-956).
FirstPhoneStartsShow ==
  connected /\ (\A p \in Pipes : pipe[p] \notin {"first", "later", "calling"}) =>
    outcome \in {"shows", "nothing to show", "failed", "no answer"}
=============================================================================
