---------------------------- MODULE ServerProofs -----------------------------
(***************************************************************************)
(* The safety of Server, for any number of calls, attempts, and any times. *)
(***************************************************************************)
EXTENDS Server, TLAPS

\* What an attempt and a sleep have left of the time of a call, and what a
\* call has had of it when a shutdown cuts it.
Punctual(s) ==
  /\ s.pc = "call" => /\ s.attempt >= 1
                      /\ s.age <= LLMTimeout + s.attempt - 1
                      /\ s.alone <= s.attempt - 1
  /\ s.pc = "sleep" => /\ s.attempt >= 1 /\ s.attempt < MaxRetries
                       /\ s.age - s.nap <= LLMTimeout + s.attempt - 1
                       /\ s.alone - s.nap <= s.attempt - 1
  /\ s.pc = "cut" => s.age >= Grace

Waiting ==
  /\ main # "draining" => waited = 0
  /\ main = "draining" => /\ waited <= Grace
                          /\ \A r \in Calls : Running(r) => call[r].age >= waited

IInv == TypeOK /\ (\A r \in Calls : Punctual(call[r])) /\ Waiting

----------------------------------------------------------------------------
LEMMA NoCallTyped == NoCall \in Call
BY VoiceBounds DEF NoCall, Call

LEMMA InitHolds == Init => IInv
<1> SUFFICES ASSUME Init PROVE IInv
  OBVIOUS
<1>1. NoCall \in Call /\ Punctual(NoCall)
  BY NoCallTyped DEF NoCall, Punctual
<1>2. \A r \in Calls : call[r] = NoCall
  BY DEF Init
<1>3. TypeOK
  BY <1>1 DEF Init, TypeOK, Services
<1> QED
  BY <1>1, <1>2, <1>3 DEF Init, IInv, Waiting

\* A step of one call leaves the others, and the process, as they were.
LEMMA OneCall ==
  ASSUME IInv, UNCHANGED process,
         NEW r \in Calls, NEW s \in Call,
         call' = [call EXCEPT ![r] = s],
         Punctual(s),
         main = "draining" /\ s.pc \in {"call", "sleep"} => s.age >= waited
  PROVE  IInv'
<1>1. \A q \in Calls : call'[q] = IF q = r THEN s ELSE call[q]
  BY DEF IInv, TypeOK
<1>2. TypeOK'
  BY DEF IInv, TypeOK, process
<1>3. \A q \in Calls : Punctual(call'[q])
  BY <1>1 DEF IInv
<1>4. Waiting'
  BY <1>1 DEF IInv, Waiting, Running, process
<1> QED
  BY <1>2, <1>3, <1>4 DEF IInv, Punctual

LEMMA AnswerKeeps ==
  ASSUME IInv, UNCHANGED process, NEW r \in Calls, NEW status \in Statuses,
         Answer(r, status)
  PROVE  IInv'
<1> DEFINE s == [NoCall EXCEPT !.pc = "answered", !.answer = status]
<1>1. s.pc = "answered"
  BY DEF NoCall
<1>2. call' = [call EXCEPT ![r] = s]
  BY DEF Answer
<1>3. s \in Call
  BY NoCallTyped DEF Call
<1> HIDE DEF s
<1>4. Punctual(s)
  BY <1>1 DEF Punctual
<1> QED
  BY <1>1, <1>2, <1>3, <1>4, OneCall

LEMMA AcceptKeeps ==
  ASSUME IInv, NEW r \in Calls, Accept(r)
  PROVE  IInv'
<1>1. CASE voiceSvc = "gemini"
  <2>0. 1 \in 0 .. MaxRetries
    BY VoiceBounds
  <2>1. FirstAttempt \in Call
    BY <2>0, NoCallTyped DEF Call, FirstAttempt
  <2>2. call' = [call EXCEPT ![r] = FirstAttempt]
    BY <1>1 DEF Accept, ParseVoice
  <2>3. /\ FirstAttempt.pc = "call" /\ FirstAttempt.attempt = 1
        /\ FirstAttempt.age = 0 /\ FirstAttempt.alone = 0
    BY DEF NoCall, FirstAttempt
  <2>4. Punctual(FirstAttempt)
    BY <2>3, VoiceBounds DEF Punctual
  <2>5. main # "draining"
    BY DEF Accept, Accepting
  <2> QED
    BY <2>1, <2>2, <2>4, <2>5, OneCall DEF Accept
<1>2. CASE voiceSvc = "badZone"
  BY <1>2, AnswerKeeps DEF Accept, ParseVoice, Statuses
<1>3. CASE voiceSvc = "noop"
  BY <1>3, AnswerKeeps DEF Accept, ParseVoice, Statuses
<1> QED
  BY <1>1, <1>2, <1>3 DEF IInv, TypeOK, Services

LEMMA GeminiKeeps ==
  ASSUME IInv, UNCHANGED process, NEW r \in Calls, GeminiAnswers(r) \/ GeminiBlocks(r)
  PROVE  IInv'
BY AnswerKeeps DEF GeminiAnswers, GeminiBlocks, Statuses

LEMMA AttemptFailsKeeps ==
  ASSUME IInv, UNCHANGED process, NEW r \in Calls, AttemptFails(r)
  PROVE  IInv'
<1>1. CASE call[r].attempt < MaxRetries
  <2> DEFINE s == [call[r] EXCEPT !.pc = "sleep", !.nap = 0]
  <2>1. call[r] \in Call /\ Punctual(call[r]) /\ At(r, "call")
    BY DEF IInv, TypeOK, AttemptFails
  <2>2. call' = [call EXCEPT ![r] = s]
    BY <1>1, <2>1 DEF AttemptFails, IInv, TypeOK
  <2>3. s \in Call
    <3>1. 0 \in 0 .. 1
      OBVIOUS
    <3> QED
      BY <2>1, <3>1 DEF Call
  <2>4. /\ s.pc = "sleep" /\ s.nap = 0
        /\ s.attempt = call[r].attempt /\ s.age = call[r].age /\ s.alone = call[r].alone
    BY <2>1 DEF Call
  <2> HIDE DEF s
  <2>5. Punctual(s)
    BY <1>1, <2>1, <2>4, VoiceBounds DEF Punctual, At, Call
  <2>6. main = "draining" => s.age >= waited
    BY <2>1, <2>4 DEF IInv, Waiting, Running, At
  <2> QED
    BY <2>2, <2>3, <2>5, <2>6, OneCall
<1>2. CASE ~(call[r].attempt < MaxRetries)
  BY <1>2, AnswerKeeps DEF AttemptFails, Statuses
<1> QED
  BY <1>1, <1>2

LEMMA WakeKeeps ==
  ASSUME IInv, UNCHANGED process, NEW r \in Calls, Wake(r)
  PROVE  IInv'
<1> DEFINE n == call[r].attempt + 1
           s == [call[r] EXCEPT !.pc = "call", !.attempt = n]
<1>1. call[r] \in Call /\ Punctual(call[r]) /\ At(r, "sleep") /\ call[r].nap = 1
  BY DEF IInv, TypeOK, Wake
<1>2. call' = [call EXCEPT ![r] = s]
  BY <1>1 DEF Wake, IInv, TypeOK
<1>3. n \in 0 .. MaxRetries
  BY <1>1, VoiceBounds DEF Punctual, At, Call
<1>4. s \in Call
  BY <1>1, <1>3 DEF Call
<1>5. /\ s.pc = "call" /\ s.attempt = n
      /\ s.age = call[r].age /\ s.alone = call[r].alone
  BY <1>1 DEF Call
<1> HIDE DEF s
<1>6. Punctual(s)
  BY <1>1, <1>5, VoiceBounds DEF Punctual, At, Call
<1>7. main = "draining" => s.age >= waited
  BY <1>1, <1>5 DEF IInv, Waiting, Running, At
<1> QED
  BY <1>2, <1>4, <1>6, <1>7, OneCall

LEMMA ClientLeavesKeeps ==
  ASSUME IInv, UNCHANGED process, NEW r \in Calls, ClientLeaves(r)
  PROVE  IInv'
<1> DEFINE s == [call[r] EXCEPT !.gone = TRUE]
<1>1. call[r] \in Call /\ Punctual(call[r]) /\ Running(r)
  BY DEF IInv, TypeOK, ClientLeaves
<1>2. call' = [call EXCEPT ![r] = s]
  BY <1>1 DEF ClientLeaves, IInv, TypeOK
<1>3. s \in Call
  BY <1>1 DEF Call
<1>4. /\ s.pc = call[r].pc /\ s.attempt = call[r].attempt /\ s.nap = call[r].nap
      /\ s.age = call[r].age /\ s.alone = call[r].alone
  BY <1>1 DEF Call
<1> HIDE DEF s
<1>5. Punctual(s)
  BY <1>1, <1>4 DEF Punctual
<1>6. main = "draining" => s.age >= waited
  BY <1>1, <1>4 DEF IInv, Waiting
<1> QED
  BY <1>2, <1>3, <1>5, <1>6, OneCall

LEMMA HandleKeeps ==
  ASSUME IInv, NEW r \in Calls, Handle(r)
  PROVE  IInv'
BY GeminiKeeps, AttemptFailsKeeps, WakeKeeps, ClientLeavesKeeps DEF Handle, CallStep

----------------------------------------------------------------------------
\* A step that ends what runs: f is how it leaves each call.
LEMMA ExitKeeps ==
  ASSUME IInv, Exit, call' \in [Calls -> Call],
         \A r \in Calls : Punctual(call'[r])
  PROVE  IInv'
BY DEF IInv, TypeOK, Exit, Services, Waiting, Punctual

LEMMA DieKeeps ==
  ASSUME IInv, Die
  PROVE  IInv'
<1> DEFINE s == [NoCall EXCEPT !.pc = "lost"]
<1>1. s \in Call
  BY NoCallTyped DEF Call
<1>2. Punctual(s)
  BY DEF NoCall, Punctual
<1>3. call' = [r \in Calls |-> IF Running(r) THEN s ELSE call[r]]
  BY DEF Die
<1> HIDE DEF s
<1>4. call' \in [Calls -> Call]
  BY <1>1, <1>3 DEF IInv, TypeOK
<1>5. \A r \in Calls : Punctual(call'[r])
  BY <1>2, <1>3 DEF IInv
<1> QED
  BY <1>4, <1>5, ExitKeeps DEF Die

LEMMA LeaveKeeps ==
  ASSUME IInv, Leave
  PROVE  IInv'
<1> DEFINE s(r) == [NoCall EXCEPT !.pc = "cut", !.age = call[r].age]
<1>1. ASSUME NEW r \in Calls PROVE s(r) \in Call
  <2>1. call[r].age \in Nat
    BY DEF IInv, TypeOK, Call
  <2> QED
    BY <2>1, NoCallTyped DEF Call
<1>2. ASSUME NEW r \in Calls PROVE s(r).pc = "cut" /\ s(r).age = call[r].age
  BY DEF NoCall
<1>3. call' = [r \in Calls |-> IF Running(r) THEN s(r) ELSE call[r]]
  BY DEF Leave
<1> HIDE DEF s
<1>4. call' \in [Calls -> Call]
  BY <1>1, <1>3 DEF IInv, TypeOK
<1>5. ASSUME NEW r \in Calls, Running(r) PROVE call[r].age >= Grace
  <2>1. waited >= Grace
    BY <1>5 DEF Leave, ShutdownReturns
  <2>2. call[r].age >= waited
    BY <1>5 DEF IInv, Waiting, Leave
  <2> QED
    BY <2>1, <2>2, GraceIsTime DEF IInv, TypeOK, Call
<1>6. ASSUME NEW r \in Calls PROVE Punctual(call'[r])
  BY <1>2, <1>3, <1>5 DEF IInv, Punctual
<1> QED
  BY <1>4, <1>6, ExitKeeps DEF Leave

\* A sleep, or an attempt whose time is not over, may last on.
LEMMA OlderPunctual ==
  ASSUME IInv, NEW r \in Calls, ~Overdue(r)
  PROVE  /\ Older(call[r]) \in Call
         /\ Punctual(Older(call[r]))
         /\ Older(call[r]).pc = call[r].pc
         /\ Running(r) => Older(call[r]).age = call[r].age + 1
<1>1. call[r] \in Call /\ Punctual(call[r])
  BY DEF IInv, TypeOK
<1>2. CASE ~Running(r)
  BY <1>1, <1>2 DEF Older, Running
<1>3. CASE Running(r)
  <2> DEFINE age == call[r].age + 1
             nap == IF call[r].pc = "sleep" THEN 1 ELSE call[r].nap
             alone == IF call[r].gone THEN call[r].alone + 1 ELSE call[r].alone
             s == [call[r] EXCEPT !.age = age, !.nap = nap, !.alone = alone]
  <2>1. Older(call[r]) = s
    BY <1>3 DEF Older, Running
  <2>2. age \in Nat /\ nap \in 0 .. 1 /\ alone \in Nat
    BY <1>1 DEF Call
  <2>3. s \in Call
    BY <1>1, <2>2 DEF Call
  <2>4. /\ s.pc = call[r].pc /\ s.attempt = call[r].attempt
        /\ s.age = age /\ s.nap = nap /\ s.alone = alone
    BY <1>1 DEF Call
  <2> HIDE DEF s
  <2>5. CASE At(r, "call")
    <3>1. ~call[r].gone /\ ~(call[r].age >= LLMTimeout)
      BY <2>5 DEF Overdue, ContextDone
    <3> QED
      BY <1>1, <2>1, <2>3, <2>4, <2>5, <3>1, VoiceBounds DEF Punctual, At, Call
  <2>6. CASE At(r, "sleep")
    <3>1. call[r].nap = 0
      BY <1>1, <2>6 DEF Overdue, Call
    <3> QED
      BY <1>1, <2>1, <2>2, <2>3, <2>4, <2>6, <3>1, VoiceBounds DEF Punctual, At, Call
  <2> QED
    BY <1>3, <2>5, <2>6 DEF Running, At
<1> QED
  BY <1>2, <1>3

LEMMA PassKeeps ==
  ASSUME IInv, Pass
  PROVE  IInv'
<1>1. \A r \in Calls : call'[r] = Older(call[r]) /\ ~Overdue(r)
  BY DEF Pass
<1>2. call' \in [Calls -> Call]
  BY <1>1, OlderPunctual DEF Pass
<1>3. TypeOK'
  BY <1>2 DEF Pass, IInv, TypeOK
<1>4. \A r \in Calls : Punctual(call'[r])
  BY <1>1, OlderPunctual
<1>5. Waiting'
  <2>1. CASE main = "draining"
    <3>1. waited' = waited + 1 /\ main' = main
      BY <2>1 DEF Pass
    <3>2. waited' <= Grace
      BY <2>1, <3>1, GraceIsTime DEF Pass, ShutdownReturns, IInv, TypeOK
    <3>3. ASSUME NEW r \in Calls, Running(r)' PROVE call'[r].age >= waited'
      <4>1. Running(r)
        BY <1>1, <3>3, OlderPunctual DEF Running
      <4>2. call'[r].age = call[r].age + 1
        BY <1>1, <4>1, OlderPunctual
      <4>3. call[r].age >= waited
        BY <2>1, <4>1 DEF IInv, Waiting
      <4> QED
        BY <3>1, <4>2, <4>3 DEF IInv, TypeOK, Call
    <3> QED
      BY <2>1, <3>1, <3>2, <3>3 DEF Waiting
  <2>2. CASE main # "draining"
    BY <2>2 DEF Pass, IInv, Waiting
  <2> QED
    BY <2>1, <2>2
<1> QED
  BY <1>3, <1>4, <1>5 DEF IInv, Punctual

\* Only Shutdown begins to drain; it has waited no time then.
LEMMA MainKeeps ==
  ASSUME IInv, Boot \/ Notify \/ Shutdown
  PROVE  IInv'
<1>1. call' = call /\ waited' = waited
  BY DEF Boot, Notify, Shutdown
<1>2. TypeOK'
  BY <1>1 DEF IInv, TypeOK, Boot, Notify, Shutdown
<1>3. waited = 0
  BY DEF IInv, Waiting, Boot, Notify, Shutdown
<1>4. \A r \in Calls : call[r].age \in Nat
  BY DEF IInv, TypeOK, Call
<1>5. Waiting'
  BY <1>1, <1>3, <1>4, GraceIsTime DEF Waiting, Running, Boot, Notify, Shutdown
<1> QED
  BY <1>1, <1>2, <1>5 DEF IInv, Punctual

LEMMA NextKeeps == IInv /\ [Next]_vars => IInv'
<1> SUFFICES ASSUME IInv, [Next]_vars PROVE IInv'
  OBVIOUS
<1>1. CASE UNCHANGED vars
  BY <1>1 DEF vars, IInv, TypeOK, Punctual, Waiting, Running
<1>2. CASE Boot \/ Notify \/ Shutdown
  BY <1>2, MainKeeps
<1>3. CASE Leave
  BY <1>3, LeaveKeeps
<1>4. CASE Die
  BY <1>4, DieKeeps
<1>5. CASE Pass
  BY <1>5, PassKeeps
<1>6. CASE \E r \in Calls : Accept(r)
  BY <1>6, AcceptKeeps
<1>7. CASE \E r \in Calls : Handle(r)
  BY <1>7, HandleKeeps
<1> QED
  BY <1>1, <1>2, <1>3, <1>4, <1>5, <1>6, <1>7 DEF Next

LEMMA Inductive == Spec => []IInv
BY InitHolds, NextKeeps, PTL DEF Spec

----------------------------------------------------------------------------
(* The calls and the process are of the types main and ParseVoice give.    *)
THEOREM TypeCorrect == Spec => []TypeOK
<1>1. IInv => TypeOK
  BY DEF IInv
<1> QED
  BY <1>1, Inductive, PTL

(* A voice call lasts its deadline and the sleeps between its attempts, at *)
(* most (ParseVoice).                                                      *)
THEOREM CallsAreOverInTime == Spec => []OverInTime
<1>1. ASSUME IInv, NEW r \in Calls, Running(r)
      PROVE  call[r].age <= LLMTimeout + MaxRetries - 1
  <2>1. call[r] \in Call /\ Punctual(call[r])
    BY <1>1 DEF IInv, TypeOK
  <2>2. CASE At(r, "call")
    BY <2>1, <2>2, VoiceBounds DEF Punctual, At, Call
  <2>3. CASE At(r, "sleep")
    BY <2>1, <2>3, VoiceBounds DEF Punctual, At, Call
  <2> QED
    BY <1>1, <2>2, <2>3 DEF Running, At
<1>2. IInv => OverInTime
  BY <1>1 DEF OverInTime
<1> QED
  BY <1>2, Inductive, PTL

(* A call outlives its client by its sleeps (ParseVoice).                  *)
THEOREM CallsAreNotLongAlone == Spec => []NotLongAlone
<1>1. ASSUME IInv, NEW r \in Calls, Running(r)
      PROVE  call[r].alone <= MaxRetries - 1
  <2>1. call[r] \in Call /\ Punctual(call[r])
    BY <1>1 DEF IInv, TypeOK
  <2>2. CASE At(r, "call")
    BY <2>1, <2>2, VoiceBounds DEF Punctual, At, Call
  <2>3. CASE At(r, "sleep")
    BY <2>1, <2>3, VoiceBounds DEF Punctual, At, Call
  <2> QED
    BY <1>1, <2>2, <2>3 DEF Running, At
<1>2. IInv => NotLongAlone
  BY <1>1 DEF NotLongAlone
<1> QED
  BY <1>2, Inductive, PTL

(* A shutdown lasts its grace, at most (main).                             *)
THEOREM TheProcessStopsInTime == Spec => []StopsInTime
<1>1. IInv => StopsInTime
  BY DEF IInv, Waiting, StopsInTime
<1> QED
  BY <1>1, Inductive, PTL

(* A shutdown cuts no call that is younger than its grace (main, Shutdown).*)
THEOREM ShutdownCutsLongCallsOnly == Spec => []OnlyLongCallsCut
<1>1. IInv => OnlyLongCallsCut
  BY DEF IInv, Punctual, OnlyLongCallsCut, At
<1> QED
  BY <1>1, Inductive, PTL

----------------------------------------------------------------------------
(* The service the process gives.                                          *)

\* What a step of one call makes of the outcomes.
LEMMA OneOutcome ==
  ASSUME IInv, NEW r \in Calls, NEW s, call' = [call EXCEPT ![r] = s]
  PROVE  Service!Become(r, IF s.pc \in {"call", "sleep"} THEN "pending" ELSE s.pc)
<1> DEFINE o == IF s.pc \in {"call", "sleep"} THEN "pending" ELSE s.pc
<1>1. \A q \in Calls : call'[q] = IF q = r THEN s ELSE call[q]
  BY DEF IInv, TypeOK
<1>2. Outcomes' = [q \in Calls |-> IF call'[q].pc \in {"call", "sleep"} THEN "pending"
                                  ELSE call'[q].pc]
  BY DEF Outcomes, Running
<1>3. Outcomes = [q \in Calls |-> IF call[q].pc \in {"call", "sleep"} THEN "pending"
                                 ELSE call[q].pc]
  BY DEF Outcomes, Running
<1>4. Outcomes' = [Outcomes EXCEPT ![r] = o]
  BY <1>1, <1>2, <1>3
<1> QED
  BY <1>4 DEF Service!Become

\* No call runs in a process that is gone.
NonePending == main = "down" => \A r \in Calls : ~Running(r)

LEMMA NonePendingKept ==
  ASSUME IInv, NonePending, Next
  PROVE  NonePending'
<1>1. CASE Die \/ Leave
  <2>1. /\ [NoCall EXCEPT !.pc = "lost"].pc = "lost"
        /\ \A age : [NoCall EXCEPT !.pc = "cut", !.age = age].pc = "cut"
    BY DEF NoCall
  <2>2. \A r \in Calls : call'[r].pc \notin {"call", "sleep"}
    BY <1>1, <2>1 DEF Die, Leave, Running
  <2> QED
    BY <2>2 DEF NonePending, Running
<1>2. CASE Boot \/ Notify \/ Shutdown
  BY <1>2 DEF Boot, Notify, Shutdown, NonePending
<1>3. CASE Pass
  <2>1. \A r \in Calls : call'[r] = Older(call[r]) /\ ~Overdue(r)
    BY <1>3 DEF Pass
  <2> QED
    BY <1>3, <2>1, OlderPunctual DEF Pass, NonePending, Running
<1>4. CASE \E r \in Calls : Accept(r)
  BY <1>4 DEF Accept, Accepting, process, NonePending
<1>5. ASSUME NEW r \in Calls, Handle(r)
      PROVE  NonePending'
  <2>1. Running(r) /\ main' = main
    BY <1>5 DEF Handle, CallStep, process, GeminiAnswers, GeminiBlocks, AttemptFails, Wake,
       ClientLeaves, At, Running
  <2> QED
    BY <2>1 DEF NonePending
<1> QED
  BY <1>1, <1>2, <1>3, <1>4, <1>5 DEF Next

LEMMA NoCallOutlives == Spec => []NonePending
<1>1. Init => NonePending
  <2>1. NoCall.pc = "none"
    BY DEF NoCall
  <2>2. ASSUME Init, NEW r \in Calls
        PROVE  call[r].pc = "none"
    BY <2>1, <2>2 DEF Init
  <2> QED
    BY <2>2 DEF NonePending, Running
<1>2. IInv /\ NonePending /\ [Next]_vars => NonePending'
  <2>1. UNCHANGED vars /\ NonePending => NonePending'
    BY DEF vars, NonePending, Running
  <2> QED
    BY <2>1, NonePendingKept
<1> QED
  BY <1>1, <1>2, Inductive, PTL DEF Spec

\* The outcomes of the calls, one by one.
LEMMA OutcomeCases ==
  ASSUME IInv, NEW r \in Calls
  PROVE  /\ Outcomes[r] = IF Running(r) THEN "pending" ELSE call[r].pc
         /\ Running(r) <=> Outcomes[r] = "pending"
<1>1. call[r].pc # "pending"
  BY DEF IInv, TypeOK, Call
<1>2. Outcomes[r] = IF call[r].pc \in {"call", "sleep"} THEN "pending" ELSE call[r].pc
  BY DEF Outcomes, Running
<1> QED
  BY <1>1, <1>2 DEF Running

LEMMA AcceptTakes ==
  ASSUME IInv, NEW r \in Calls, Accept(r)
  PROVE  Service!Take(r)
<1>1. /\ Phase = "open" /\ Outcomes[r] = "none" /\ Phase' = Phase
  BY OutcomeCases DEF Accept, Accepting, Phase, ParseVoice, At, Running, process
<1>2. PICK s : /\ call' = [call EXCEPT ![r] = s]
               /\ s.pc \in {"call", "answered"}
  <2>1. FirstAttempt.pc = "call"
    BY DEF FirstAttempt, NoCall
  <2>2. \A status : [NoCall EXCEPT !.pc = "answered", !.answer = status].pc = "answered"
    BY DEF NoCall
  <2>3. CASE voiceSvc = "gemini"
    BY <2>1, <2>3 DEF Accept, ParseVoice
  <2>4. CASE voiceSvc = "badZone"
    BY <2>2, <2>4 DEF Accept, ParseVoice, Answer
  <2>5. CASE voiceSvc = "noop"
    BY <2>2, <2>5 DEF Accept, ParseVoice, Answer
  <2> QED
    BY <2>3, <2>4, <2>5 DEF IInv, TypeOK, Services
<1>3. Service!Become(r, "pending") \/ Service!Become(r, "answered")
  BY <1>2, OneOutcome
<1> QED
  BY <1>1, <1>3 DEF Service!Take

LEMMA HandleFinishes ==
  ASSUME IInv, NonePending, NEW r \in Calls, Handle(r)
  PROVE  Service!Finish(r) \/ UNCHANGED <<Phase, Outcomes>>
<1>1. /\ Phase' = Phase /\ call[r] \in Call /\ Running(r)
  BY DEF Handle, CallStep, Phase, process, IInv, TypeOK, GeminiAnswers, GeminiBlocks, AttemptFails,
     Wake, ClientLeaves, At, Running
<1>2. ASSUME NEW status, Answer(r, status)
      PROVE  Service!Become(r, "answered")
  <2> DEFINE over == [NoCall EXCEPT !.pc = "answered", !.answer = status]
  <2>1. over.pc = "answered"
    BY DEF NoCall
  <2>2. call' = [call EXCEPT ![r] = over]
    BY <1>2 DEF Answer
  <2> HIDE DEF over
  <2>3. Service!Become(r, IF over.pc \in {"call", "sleep"} THEN "pending" ELSE over.pc)
    BY <2>2, OneOutcome
  <2> QED
    BY <2>1, <2>3
<1>3. ASSUME NEW s, call' = [call EXCEPT ![r] = s], s.pc \in {"call", "sleep"}
      PROVE  Outcomes' = Outcomes
  <2>1. Service!Become(r, "pending")
    BY <1>3, OneOutcome
  <2> QED
    BY <1>1, <2>1, OutcomeCases DEF Service!Become, Outcomes
<1>4. \/ \E status : Answer(r, status)
      \/ \E s : call' = [call EXCEPT ![r] = s] /\ s.pc \in {"call", "sleep"}
  <2> DEFINE asleep == [call[r] EXCEPT !.pc = "sleep", !.nap = 0]
             awake == [call[r] EXCEPT !.pc = "call", !.attempt = @ + 1]
             left == [call[r] EXCEPT !.gone = TRUE]
  <2>1. asleep.pc = "sleep" /\ awake.pc = "call" /\ left.pc = call[r].pc
    BY <1>1 DEF Call
  <2>2. \/ \E status : Answer(r, status)
        \/ call' = [call EXCEPT ![r] = asleep]
        \/ call' = [call EXCEPT ![r] = awake]
        \/ call' = [call EXCEPT ![r] = left]
    BY <1>1 DEF Handle, CallStep, GeminiAnswers, GeminiBlocks, AttemptFails, Wake, ClientLeaves,
       IInv, TypeOK
  <2> HIDE DEF asleep, awake, left
  <2> QED
    BY <1>1, <2>1, <2>2 DEF Running
<1>5. main # "down"
  BY <1>1 DEF NonePending
<1>6. Phase # "down"
  BY <1>5 DEF Phase, IInv, TypeOK
<1> QED
  BY <1>1, <1>2, <1>3, <1>4, <1>6, OutcomeCases DEF Service!Finish

\* What the end of the running calls makes of the outcomes.
LEMMA EndedCalls ==
  ASSUME IInv, NEW o \in {"cut", "lost"}, Phase' = "down",
         \A r \in Calls : call'[r].pc = IF Running(r) THEN o ELSE call[r].pc
  PROVE  Service!EndAll(o)
<1>1. \A r \in Calls :
         (IF call'[r].pc \in {"call", "sleep"} THEN "pending" ELSE call'[r].pc)
           = IF Outcomes[r] = "pending" THEN o ELSE Outcomes[r]
  BY OutcomeCases DEF Running
<1>2. Outcomes' = [r \in Calls |-> IF call'[r].pc \in {"call", "sleep"} THEN "pending"
                                  ELSE call'[r].pc]
  BY DEF Outcomes, Running
<1>3. Outcomes' = [r \in Calls |-> IF Outcomes[r] = "pending" THEN o ELSE Outcomes[r]]
  BY <1>1, <1>2
<1> QED
  BY <1>3 DEF Service!EndAll

LEMMA ExitEnds ==
  ASSUME IInv, Die \/ Leave
  PROVE  Service!Stop \/ Service!Fall
<1>1. /\ [NoCall EXCEPT !.pc = "lost"].pc = "lost"
      /\ \A age : [NoCall EXCEPT !.pc = "cut", !.age = age].pc = "cut"
  BY DEF NoCall
<1>2. Phase' = "down"
  BY DEF Die, Leave, Exit, Phase
<1>3. CASE Die
  <2>0. \A r \in Calls : call'[r].pc = IF Running(r) THEN "lost" ELSE call[r].pc
    BY <1>1, <1>3 DEF Die
  <2>1. Service!EndAll("lost")
    BY <1>2, <2>0, EndedCalls
  <2>2. Phase # "down"
    BY <1>3 DEF Die, Phase, IInv, TypeOK
  <2> QED
    BY <2>1, <2>2 DEF Service!Fall
<1>4. CASE Leave
  <2>0. \A r \in Calls : call'[r].pc = IF Running(r) THEN "cut" ELSE call[r].pc
    BY <1>1, <1>4 DEF Leave
  <2>1. Service!EndAll("cut")
    BY <1>2, <2>0, EndedCalls
  <2>2. Phase = "closing"
    BY <1>4 DEF Leave, Phase
  <2> QED
    BY <2>1, <2>2 DEF Service!Stop
<1> QED
  BY <1>3, <1>4

LEMMA PassChangesNothing ==
  ASSUME IInv, Pass
  PROVE  UNCHANGED <<Phase, Outcomes>>
<1>1. \A r \in Calls : call'[r].pc = call[r].pc
  BY OlderPunctual DEF Pass
<1> QED
  BY <1>1 DEF Pass, Phase, Outcomes, Running

(* For any number of calls, over signals, kills, restarts, retries and     *)
(* clients that leave: a call is taken only while the listener is open, is *)
(* answered, cut or lost, and none outlives its process (main, ParseVoice).*)
THEOREM ServerImplementsService == Spec => ImplementsService
<1>1. Init => Service!Init
  BY DEF Init, Service!Init, Phase, Outcomes, Running, NoCall
<1>2. IInv /\ NonePending /\ [Next]_vars => [Service!Next]_<<Phase, Outcomes>>
  <2> SUFFICES ASSUME IInv, NonePending, [Next]_vars
               PROVE  Service!Next \/ UNCHANGED <<Phase, Outcomes>>
    OBVIOUS
  <2>1. CASE UNCHANGED vars
    BY <2>1 DEF vars, Phase, Outcomes, Running
  <2>2. CASE Boot
    BY <2>2 DEF Boot, Phase, Outcomes, Running, Service!Next, Service!Start
  <2>3. CASE Notify
    BY <2>3 DEF Notify, Phase, Outcomes, Running
  <2>4. CASE Shutdown
    BY <2>4 DEF Shutdown, Phase, Outcomes, Running, Service!Next, Service!Close
  <2>5. CASE Die \/ Leave
    BY <2>5, ExitEnds DEF Service!Next
  <2>6. CASE Pass
    BY <2>6, PassChangesNothing
  <2>7. CASE \E r \in Calls : Accept(r)
    BY <2>7, AcceptTakes DEF Service!Next
  <2>8. CASE \E r \in Calls : Handle(r)
    BY <2>8, HandleFinishes DEF Service!Next
  <2> QED
    BY <2>1, <2>2, <2>3, <2>4, <2>5, <2>6, <2>7, <2>8 DEF Next
<1> QED
  BY <1>1, <1>2, Inductive, NoCallOutlives, PTL DEF Spec, ImplementsService, Service!Spec
=============================================================================
