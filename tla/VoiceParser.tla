----------------------------- MODULE VoiceParser -----------------------------
(***************************************************************************)
(* ParseVoice of voiceParsingService and the Gemini client it calls.  A    *)
(* call makes up to MaxRetries attempts under one deadline and sleeps      *)
(* between two of them; a panic on the way is turned into a 500.           *)
(*                                                                         *)
(*   call -> answered     call -> sleep -> call -> ...                     *)
(*                                                                         *)
(* A call is cut when a shutdown does not wait for it, lost when the       *)
(* process dies.                                                           *)
(*                                                                         *)
(* An attempt ends when its context does: at the deadline, or when the     *)
(* client has gone away.  The sleep ends for neither.                      *)
(*                                                                         *)
(* The unit of time is one sleep.  Answers are their HTTP status.          *)
(***************************************************************************)
EXTENDS Integers

CONSTANTS
  Calls,        \* requests to POST /api/events/parse-voice
  MaxRetries,   \* attempts of a call
  LLMTimeout    \* llmTimeout, in sleeps

ASSUME VoiceBounds == MaxRetries \in Nat \ {0} /\ LLMTimeout \in Nat

\* What stands behind the endpoint: a client of Gemini, one whose time zone
\* does not exist, or the substitute for a missing API key.
Services == {"gemini", "badZone", "noop"}

Statuses == {200, 422, 500, 502}

VARIABLE call

Call == [pc      : {"none", "call", "sleep", "answered", "cut", "lost"},
         attempt : 0 .. MaxRetries,
         age     : Nat,            \* time since the call began
         nap     : 0 .. 1,         \* time slept
         gone    : BOOLEAN,        \* the client is no longer there
         alone   : Nat,            \* time since it went
         answer  : Statuses \cup {0}]

NoCall == [pc |-> "none", attempt |-> 0, age |-> 0, nap |-> 0, gone |-> FALSE, alone |-> 0,
           answer |-> 0]

FirstAttempt == [NoCall EXCEPT !.pc = "call", !.attempt = 1]

Running(r) == call[r].pc \in {"call", "sleep"}

At(r, pc) == call[r].pc = pc

Answer(r, status) ==
  call' = [call EXCEPT ![r] = [NoCall EXCEPT !.pc = "answered", !.answer = status]]

\* Faulty variants: no deadline, and a context that is not the request's.
RequestOnly(r) == call[r].gone
DeadlineOnly(r) == call[r].age >= LLMTimeout

ContextDone(r) == call[r].gone \/ call[r].age >= LLMTimeout

----------------------------------------------------------------------------
ParseVoice(r, service) ==
  /\ At(r, "none")
  /\ CASE service = "gemini"  -> call' = [call EXCEPT ![r] = FirstAttempt]
       [] service = "badZone" -> Answer(r, 500)
       [] service = "noop"    -> Answer(r, 502)

\* A function call with a title, a start and an end, or with something missing.
GeminiAnswers(r) ==
  /\ At(r, "call") /\ ~ContextDone(r)
  /\ \E status \in {200, 422} : Answer(r, status)

\* A candidate without content: reading its parts panics.
GeminiBlocks(r) ==
  /\ At(r, "call") /\ ~ContextDone(r)
  /\ Answer(r, 500)

\* Faulty variant: one attempt too many.
AttemptFailsOneMore(r) ==
  /\ At(r, "call")
  /\ IF call[r].attempt <= MaxRetries
     THEN call' = [call EXCEPT ![r].pc = "sleep", ![r].nap = 0]
     ELSE Answer(r, 502)

\* An error, no candidate, no function call, or no more time.
AttemptFails(r) ==
  /\ At(r, "call")
  /\ IF call[r].attempt < MaxRetries
     THEN call' = [call EXCEPT ![r].pc = "sleep", ![r].nap = 0]
     ELSE Answer(r, 502)

\* Faulty variant: nothing wakes a call that nobody waits for.
WakeIfPresent(r) ==
  /\ At(r, "sleep") /\ call[r].nap = 1 /\ ~call[r].gone
  /\ call' = [call EXCEPT ![r].pc = "call", ![r].attempt = @ + 1]

Wake(r) ==
  /\ At(r, "sleep") /\ call[r].nap = 1
  /\ call' = [call EXCEPT ![r].pc = "call", ![r].attempt = @ + 1]

\* The connection is closed, which cancels the context of the request.
ClientLeaves(r) ==
  /\ Running(r) /\ ~call[r].gone
  /\ call' = [call EXCEPT ![r].gone = TRUE]

CallStep(r) ==
  \/ GeminiAnswers(r)
  \/ GeminiBlocks(r)
  \/ AttemptFails(r)
  \/ Wake(r)
  \/ ClientLeaves(r)

\* No time passes between the end of a context, or of a sleep, and what
\* follows from it.
Overdue(r) == (At(r, "call") /\ ContextDone(r)) \/ (At(r, "sleep") /\ call[r].nap = 1)

Return(r) == Overdue(r) /\ (AttemptFails(r) \/ Wake(r))

Older(s) ==
  IF s.pc \notin {"call", "sleep"} THEN s
  ELSE [s EXCEPT !.age = @ + 1,
                 !.nap = IF s.pc = "sleep" THEN 1 ELSE @,
                 !.alone = IF s.gone THEN @ + 1 ELSE @]
=============================================================================
