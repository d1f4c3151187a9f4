------------------------------ MODULE UnoQueue ------------------------------
(***************************************************************************)
(* LibreOfficeCallbackQueue (extension/python/local_server.py, lines       *)
(* 84-162).                                                                *)
(*                                                                         *)
(* HTTP worker threads, the relay thread and the tunnel thread may not     *)
(* touch UNO objects.  Each hands its callback to the office thread:       *)
(* `call` puts a request in a table of at most _MAX_PENDING_REQUESTS       *)
(* entries, posts its id through com.sun.star.awt.AsyncCallback and waits  *)
(* at most five seconds; `_execute`, on the office thread, takes the       *)
(* request out of the table, runs it and sets its event.  A caller that    *)
(* stops waiting takes its own request out of the table.                   *)
(*                                                                         *)
(* One element of Calls is one use of `call`, on a thread of its own.      *)
(* Steps that hold _requests_lock are one action; everything between two   *)
(* of them interleaves.                                                    *)
(***************************************************************************)
EXTENDS Integers, Sequences, FiniteSets

CONSTANTS
  Calls,        \* the calls the worker threads make
  NoCall,       \* the office thread runs no callback
  MaxPending    \* _MAX_PENDING_REQUESTS

ASSUME CallsAssumption == NoCall \notin Calls
ASSUME MaxPendingAssumption == MaxPending \in Nat \ {0}

VARIABLES
  bridge,       \* what the constructor found: "async", "missing" or "none"
  pc,           \* where the thread of each call is
  requests,     \* _requests: the calls whose request is in the table
  posted,       \* ids posted to the native message queue, in order
  running,      \* the request _execute has taken from the table
  outcome,      \* result and error of each request ("none" before it ran)
  completed,    \* requests whose Event is set
  answer        \* what `call` returned or raised to each caller

vars == <<bridge, pc, requests, posted, running, outcome, completed, answer>>

Outcomes == {"ok", "error"}
Bridges  == {"async", "missing", "none"}
Places   == {"start", "posting", "waiting", "expired", "done"}

Init ==
  /\ bridge \in Bridges
  /\ pc = [c \in Calls |-> "start"]
  /\ requests = {}
  /\ posted = <<>>
  /\ running = NoCall
  /\ outcome = [c \in Calls |-> "none"]
  /\ completed = {}
  /\ answer = [c \in Calls |-> "none"]

\* The thread of c leaves `call`, with a result or an exception.
Leave(c, a) ==
  /\ pc' = [pc EXCEPT ![c] = "done"]
  /\ answer' = [answer EXCEPT ![c] = a]

-----------------------------------------------------------------------------
(* The calling thread: call().                                             *)

\* A context with a service manager but no usable AsyncCallback.
CallWithoutOffice(c) ==
  /\ pc[c] = "start"
  /\ bridge = "missing"
  /\ Leave(c, "unavailable")
  /\ UNCHANGED <<bridge, requests, posted, running, outcome, completed>>

\* A context without a service manager (tests): the callback runs in place.
CallInPlace(c) ==
  /\ pc[c] = "start"
  /\ bridge = "none"
  /\ \E o \in Outcomes :
       /\ outcome' = [outcome EXCEPT ![c] = o]
       /\ Leave(c, o)
  /\ UNCHANGED <<bridge, requests, posted, running, completed>>

\* The table is full: the call fails at once.
Refuse(c) ==
  /\ pc[c] = "start"
  /\ bridge = "async"
  /\ Cardinality(requests) >= MaxPending
  /\ Leave(c, "unavailable")
  /\ UNCHANGED <<bridge, requests, posted, running, outcome, completed>>

Insert(c) ==
  /\ pc[c] = "start"
  /\ bridge = "async"
  /\ Cardinality(requests) < MaxPending
  /\ requests' = requests \cup {c}
  /\ pc' = [pc EXCEPT ![c] = "posting"]
  /\ UNCHANGED <<bridge, posted, running, outcome, completed, answer>>

Post(c) ==
  /\ pc[c] = "posting"
  /\ posted' = Append(posted, c)
  /\ pc' = [pc EXCEPT ![c] = "waiting"]
  /\ UNCHANGED <<bridge, requests, running, outcome, completed, answer>>

\* Variant that leaves the entry in the table.
PostFailsKeepingSlot(c) ==
  /\ pc[c] = "posting"
  /\ Leave(c, "unavailable")
  /\ UNCHANGED <<bridge, requests, posted, running, outcome, completed>>

\* addCallback raises: the request leaves the table again.
PostFails(c) ==
  /\ pc[c] = "posting"
  /\ requests' = requests \ {c}
  /\ Leave(c, "unavailable")
  /\ UNCHANGED <<bridge, posted, running, outcome, completed>>

\* completed.wait returns True.
ReturnResult(c) ==
  /\ pc[c] = "waiting"
  /\ c \in completed
  /\ Leave(c, outcome[c])
  /\ UNCHANGED <<bridge, requests, posted, running, outcome, completed>>

\* Variant that waits without a timeout.
WaitForever(c) == FALSE /\ pc[c] = "waiting" /\ UNCHANGED vars

\* completed.wait returns False: five seconds passed and the event is not set.
WaitExpires(c) ==
  /\ pc[c] = "waiting"
  /\ c \notin completed
  /\ pc' = [pc EXCEPT ![c] = "expired"]
  /\ UNCHANGED <<bridge, requests, posted, running, outcome, completed, answer>>

\* Variant that leaves the abandoned request for the office thread to find.
AbandonWithoutPop(c) ==
  /\ pc[c] = "expired"
  /\ Leave(c, "unavailable")
  /\ UNCHANGED <<bridge, requests, posted, running, outcome, completed>>

\* The request may be in the table still, be running, or have completed since.
Abandon(c) ==
  /\ pc[c] = "expired"
  /\ requests' = requests \ {c}
  /\ Leave(c, "unavailable")
  /\ UNCHANGED <<bridge, posted, running, outcome, completed>>

-----------------------------------------------------------------------------
(* The office thread: notify() and _execute().                             *)

\* The next posted id; a request that has left the table is skipped.
Execute ==
  /\ running = NoCall
  /\ posted # <<>>
  /\ posted' = Tail(posted)
  /\ \/ /\ Head(posted) \in requests
        /\ requests' = requests \ {Head(posted)}
        /\ running' = Head(posted)
     \/ /\ Head(posted) \notin requests
        /\ UNCHANGED <<requests, running>>
  /\ UNCHANGED <<bridge, pc, outcome, completed, answer>>

\* The callback takes effect; its result or error is stored.
RunCallback ==
  /\ running # NoCall
  /\ outcome[running] = "none"
  /\ \E o \in Outcomes : outcome' = [outcome EXCEPT ![running] = o]
  /\ UNCHANGED <<bridge, pc, requests, posted, running, completed, answer>>

\* Variant that forgets which request ran before it sets the event.
SetCompletedTooLate ==
  /\ running # NoCall
  /\ outcome[running] # "none"
  /\ running' = NoCall
  /\ completed' = completed \cup {running'}
  /\ UNCHANGED <<bridge, pc, requests, posted, outcome, answer>>

\* The finally clause.
SetCompleted ==
  /\ running # NoCall
  /\ outcome[running] # "none"
  /\ completed' = completed \cup {running}
  /\ running' = NoCall
  /\ UNCHANGED <<bridge, pc, requests, posted, outcome, answer>>

-----------------------------------------------------------------------------
CallStep(c) ==
  \/ CallWithoutOffice(c) \/ CallInPlace(c) \/ Refuse(c) \/ Insert(c)
  \/ Post(c) \/ PostFails(c)
  \/ ReturnResult(c) \/ WaitExpires(c) \/ Abandon(c)

OfficeStep == Execute \/ RunCallback \/ SetCompleted

\* Every caller has its answer and the office thread has nothing left to do.
Finished ==
  /\ \A c \in Calls : pc[c] = "done"
  /\ posted = <<>>
  /\ running = NoCall
  /\ UNCHANGED vars

Next == (\E c \in Calls : CallStep(c)) \/ OfficeStep \/ Finished

Spec == Init /\ [][Next]_vars

(***************************************************************************)
(* A thread inside `call` keeps running, and its wait ends by the event or *)
(* by the clock.  The office thread gets no fairness: a modal dialog or a  *)
(* long load can block it for good.                                        *)
(***************************************************************************)
Fairness ==
  \A c \in Calls :
    WF_vars(Post(c) \/ PostFails(c) \/ ReturnResult(c) \/ WaitExpires(c) \/ Abandon(c))

FairSpec == Spec /\ Fairness

-----------------------------------------------------------------------------
TypeOK ==
  /\ bridge \in Bridges
  /\ pc \in [Calls -> Places]
  /\ requests \subseteq Calls
  /\ posted \in Seq(Calls)
  /\ running \in Calls \cup {NoCall}
  /\ outcome \in [Calls -> Outcomes \cup {"none"}]
  /\ completed \subseteq Calls
  /\ answer \in [Calls -> Outcomes \cup {"none", "unavailable"}]

(***************************************************************************)
(* No slot of the table is ever lost (local_server.py 134-149): an entry   *)
(* has a caller still inside `call` to take it out, and it has not been    *)
(* run.  A leaked entry would count against the limit until restart, and   *)
(* after MaxPending of them every phone command would be refused.          *)
(***************************************************************************)
NoSlotLeak ==
  \A c \in requests :
    /\ pc[c] \in {"posting", "waiting", "expired"}
    /\ outcome[c] = "none"
    /\ c # running

(***************************************************************************)
(* The table never holds more than the limit, whatever mix of timeouts,    *)
(* failed posts and late executions came before (lines 134-137).           *)
(***************************************************************************)
CapacityRespected == Cardinality(requests) <= MaxPending

(***************************************************************************)
(* The queue implements at-most-once calls: see OfficeCalls.  In           *)
(* particular a late notify for a request whose caller has given up        *)
(* starts nothing (lines 144-147, 153-156).                                *)
(***************************************************************************)
Phase ==
  [c \in Calls |->
     IF outcome[c] # "none" THEN outcome[c]
     ELSE IF c = running THEN "running" ELSE "unstarted"]

Office == INSTANCE OfficeCalls WITH phase <- Phase, answer <- answer

ImplementsOfficeCalls == Office!Spec

(***************************************************************************)
(* A thread that has entered `call` and put its request in the table       *)
(* leaves with an answer, even when the office thread never runs again     *)
(* (the wait of line 144 is bounded).                                      *)
(***************************************************************************)
EveryCallAnswered ==
  \A c \in Calls : (pc[c] = "posting") ~> (answer[c] # "none")
=============================================================================
