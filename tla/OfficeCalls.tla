----------------------------- MODULE OfficeCalls -----------------------------
(***************************************************************************)
(* What LibreOfficeCallbackQueue promises to the threads that use it       *)
(* (extension/python/local_server.py, lines 93-162): an office call is a   *)
(* remote call with at-most-once execution.                                *)
(*                                                                         *)
(* A call is executed at most once and only one call executes at a time    *)
(* on the office thread.  A call answered with "ok" or "error" was         *)
(* executed with that outcome.  A call answered "unavailable" either was   *)
(* never started, and then never will be, or had been started before the   *)
(* answer, and then it may still complete: the caller cannot tell which.   *)
(***************************************************************************)
CONSTANTS
  Calls,        \* the calls the worker threads make
  NoCall        \* no call

VARIABLES
  phase,        \* how far the execution of a call has come
  answer        \* what its caller was told

Phases  == {"unstarted", "running", "ok", "error"}
Answers == {"none", "ok", "error", "unavailable"}

Init ==
  /\ phase  = [c \in Calls |-> "unstarted"]
  /\ answer = [c \in Calls |-> "none"]

\* An execution starts only while somebody waits for it, one at a time.
Start(c) ==
  /\ phase[c] = "unstarted"
  /\ answer[c] = "none"
  /\ \A d \in Calls : phase[d] # "running"
  /\ phase' = [phase EXCEPT ![c] = "running"]
  /\ UNCHANGED answer

Finish(c, o) ==
  /\ phase[c] = "running"
  /\ phase' = [phase EXCEPT ![c] = o]
  /\ UNCHANGED answer

\* The callback runs on the calling thread itself (no office bridge at all).
RunInPlace(c, o) ==
  /\ phase[c] = "unstarted"
  /\ answer[c] = "none"
  /\ phase'  = [phase EXCEPT ![c] = o]
  /\ answer' = [answer EXCEPT ![c] = o]

\* The caller is given the outcome of an execution that is over.
Return(c) ==
  /\ answer[c] = "none"
  /\ phase[c] \in {"ok", "error"}
  /\ answer' = [answer EXCEPT ![c] = phase[c]]
  /\ UNCHANGED phase

\* The caller is told "unavailable", however far the execution has come.
GiveUp(c) ==
  /\ answer[c] = "none"
  /\ answer' = [answer EXCEPT ![c] = "unavailable"]
  /\ UNCHANGED phase

Next ==
  \E c \in Calls :
    \/ Start(c)
    \/ \E o \in {"ok", "error"} : Finish(c, o) \/ RunInPlace(c, o)
    \/ Return(c)
    \/ GiveUp(c)

vars == <<phase, answer>>

Spec == Init /\ [][Next]_vars
=============================================================================
