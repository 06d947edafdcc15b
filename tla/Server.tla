------------------------------- MODULE Server --------------------------------
(***************************************************************************)
(* cmd/server: the process, from main to its exit, and the voice calls it  *)
(* serves.  Calls to Apple, Kakao and the App Store can outlast the grace  *)
(* of a shutdown too; voice calls are the ones modelled.                   *)
(*                                                                         *)
(*   down -> listening -> serving -> draining -> down                      *)
(*                                                                         *)
(* The server listens in a goroutine of its own, before main asks for the  *)
(* signals it waits for.                                                   *)
(***************************************************************************)
EXTENDS VoiceParser

CONSTANT
  Grace         \* what Shutdown waits for requests, in sleeps of ParseVoice

ASSUME GraceIsTime == Grace \in Nat

VARIABLES
  main,         \* where the main goroutine is
  voiceSvc,     \* the service behind the voice endpoint
  waited        \* how long Shutdown has waited

process == <<main, voiceSvc, waited>>

vars == <<call, main, voiceSvc, waited>>

Init ==
  /\ call = [r \in Calls |-> NoCall]
  /\ main = "down" /\ voiceSvc = "noop" /\ waited = 0

\* Database, migration, secrets, clients and services.  A start that fails
\* exits at once, and is no step here.
Boot ==
  /\ main = "down" /\ main' = "listening"
  /\ voiceSvc' \in Services
  /\ UNCHANGED <<call, waited>>

Notify ==
  /\ main = "listening" /\ main' = "serving"
  /\ UNCHANGED <<call, voiceSvc, waited>>

\* Faulty variant: the listener is left open.
AcceptingToTheEnd == main # "down"

Accepting == main \in {"listening", "serving"}

Accept(r) == Accepting /\ ParseVoice(r, voiceSvc) /\ UNCHANGED process

Handle(r) == CallStep(r) /\ UNCHANGED process

Exit == main' = "down" /\ voiceSvc' = "noop" /\ waited' = 0

\* Listening fails, the process is killed, or a signal comes before Notify.
Die ==
  /\ main # "down" /\ Exit
  /\ call' = [r \in Calls |-> IF Running(r) THEN [NoCall EXCEPT !.pc = "lost"] ELSE call[r]]

\* SIGINT or SIGTERM: the worker's context is cancelled and Shutdown begins.
\* It closes the listener.  Another signal goes unheard.
Shutdown ==
  /\ main = "serving" /\ main' = "draining"
  /\ UNCHANGED <<call, voiceSvc, waited>>

\* Faulty variant: Shutdown has no deadline.
IdleOnly == \A r \in Calls : ~Running(r)

ShutdownReturns == (\A r \in Calls : ~Running(r)) \/ waited >= Grace

\* main returns, and with it ends every call.
Leave ==
  /\ main = "draining" /\ ShutdownReturns
  /\ Exit
  /\ call' = [r \in Calls |->
                IF Running(r) THEN [NoCall EXCEPT !.pc = "cut", !.age = call[r].age]
                ELSE call[r]]

\* main does not dwell between two statements.
Pass ==
  /\ \A r \in Calls : ~Overdue(r)
  /\ main # "listening" /\ ~(main = "draining" /\ ShutdownReturns)
  /\ call' = [r \in Calls |-> Older(call[r])]
  /\ waited' = IF main = "draining" THEN waited + 1 ELSE waited
  /\ UNCHANGED <<main, voiceSvc>>

Next ==
  \/ Boot \/ Notify \/ Shutdown \/ Leave \/ Die \/ Pass
  \/ \E r \in Calls : Accept(r)
  \/ \E r \in Calls : Handle(r)

Spec == Init /\ [][Next]_vars

\* Timers fire, goroutines that are not blocked run, and time goes on.
FairSpec ==
  /\ Spec
  /\ WF_vars(Pass) /\ WF_vars(Notify) /\ WF_vars(Leave)
  /\ \A r \in Calls : WF_vars(Return(r) /\ UNCHANGED process)

----------------------------------------------------------------------------
TypeOK ==
  /\ call \in [Calls -> Call]
  /\ main \in {"down", "listening", "serving", "draining"}
  /\ voiceSvc \in Services
  /\ waited \in Nat

(* A voice call is over when its deadline and the sleeps between its       *)
(* attempts are: forty seconds, ten more than llmTimeout, since the sleeps *)
(* run on when the deadline has passed (ParseVoice).                       *)
OverInTime == \A r \in Calls : Running(r) => call[r].age <= LLMTimeout + MaxRetries - 1

(* It goes on for the sleeps that are left, at most, when its client is no *)
(* longer there (ParseVoice: the context of the request cancels attempts). *)
NotLongAlone == \A r \in Calls : Running(r) => call[r].alone <= MaxRetries - 1

(* Whatever the calls in flight do, the process is gone a grace after the  *)
(* signal (main: the deadline of Shutdown).                                *)
StopsInTime == main = "draining" => waited <= Grace

(* A shutdown cuts no call that was accepted after the signal, or that     *)
(* could have been over within the grace (main, Shutdown).                 *)
OnlyLongCallsCut == \A r \in Calls : At(r, "cut") => call[r].age >= Grace

(* Every call comes to an end: no attempt and no sleep holds it for ever   *)
(* (ParseVoice).                                                           *)
CallsEnd == \A r \in Calls : Running(r) ~> ~Running(r)

----------------------------------------------------------------------------
(* The service the process gives, call by call.                            *)

Phase ==
  CASE main = "down"                     -> "down"
    [] main \in {"listening", "serving"} -> "open"
    [] main = "draining"                 -> "closing"

Outcomes == [r \in Calls |-> IF Running(r) THEN "pending" ELSE call[r].pc]

Service == INSTANCE ServiceLifecycle WITH phase <- Phase, outcome <- Outcomes

(* The process implements ServiceLifecycle: over signals, kills, restarts, *)
(* retries and clients that leave, a call is taken only while the listener *)
(* is open, none is pending in a process that is gone, and what became of  *)
(* a call is settled once (main, ParseVoice).                              *)
ImplementsService == Service!Spec
=============================================================================
