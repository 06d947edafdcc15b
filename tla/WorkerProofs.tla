----------------------------- MODULE WorkerProofs -----------------------------
(***************************************************************************)
(* What is true of a pass of the notification worker as a whole: that it   *)
(* forgets no reminder and comes to an end.  These are the facts that the  *)
(* worker's liveness rests on, and unlike it they are proved.              *)
(***************************************************************************)
EXTENDS ReminderProofs, FiniteSetTheorems, WellFoundedInduction

\* Each step of the worker, and what becomes of the pass.
LEMMA PassSteps ==
  ASSUME Inv, Sending
  PROVE  \/ wk.pc = "idle" /\ InPass = {}
         \/ faults' = faults + 1 /\ wk' = IdleWorker
         \/ /\ wk.pc = "tokens" /\ wk'.pc = "send" /\ wk'.batch \subseteq wk.batch
            /\ wk'.cur = wk.cur /\ wk'.purge = wk.purge /\ InPass' = InPass
         \/ /\ wk.pc = "send" /\ wk'.pc \in {"purge", "write"} /\ wk.cur = Nil
            /\ \E n \in wk.batch : /\ wk'.batch = wk.batch \ {n} /\ wk'.cur = n.id
                                   /\ wk'.purge \subseteq Devices
            /\ InPass' = InPass
         \/ /\ wk.pc = "purge" /\ wk'.pc \in {"purge", "write"} /\ wk'.batch = wk.batch
            /\ wk'.cur = wk.cur
            /\ \E d \in wk.purge : wk'.purge = wk.purge \ {d}
            /\ InPass' = InPass
         \/ /\ wk.pc = "write" /\ wk'.pc = "send" /\ wk'.batch = wk.batch
            /\ wk'.cur = Nil /\ wk'.purge = {} /\ InPass \ InPass' \subseteq {wk.cur}
            /\ \/ faults' = faults + 1
               \/ MarkSent({wk.cur}) \/ IncrementRetries(wk.cur)
         \/ /\ wk.pc = "send" /\ wk' = IdleWorker /\ InPass = wk.silent
            /\ faults' = faults + 1 \/ MarkSent(wk.silent)
<1>0. TypeOK /\ PassInv /\ wk \in WorkerState
  BY DEF Inv, TypeOK
<1>1. CASE Poll
  BY <1>0, <1>1 DEF Poll, PassInv, InPass
<1>2. CASE FetchTokens
  <2> DEFINE silent == {n \in wk.batch : TokensOf(n.user) = {}}
             tokens == UNION {{u} \X TokensOf(u) : u \in {n.user : n \in wk.batch}}
  <2>1. CASE Fault /\ wk' = IdleWorker
    BY <2>1 DEF Fault
  <2>2. CASE wk' = [wk EXCEPT !.pc = "send", !.tokens = tokens,
                              !.silent = {n.id : n \in silent}, !.batch = @ \ silent]
    <3>1. /\ wk.pc = "tokens" /\ wk'.pc = "send" /\ wk'.batch = wk.batch \ silent
          /\ wk'.cur = wk.cur /\ wk'.purge = wk.purge
          /\ wk'.silent = {n.id : n \in silent}
      BY <1>0, <1>2, <2>2 DEF FetchTokens, WorkerState
    <3>2. InPass' = InPass
      BY <1>0, <3>1 DEF InPass, PassInv
    <3> QED
      BY <3>1, <3>2
  <2> QED
    BY <1>2, <2>1, <2>2 DEF FetchTokens
<1>3. ASSUME NEW n \in wk.batch, Send(n)
      PROVE  /\ wk.pc = "send" /\ wk'.pc \in {"purge", "write"} /\ wk.cur = Nil
             /\ wk'.batch = wk.batch \ {n} /\ wk'.cur = n.id /\ wk'.purge \subseteq Devices
             /\ InPass' = InPass
  <2>1. /\ wk'.cur = n.id /\ wk'.batch = wk.batch \ {n} /\ wk'.silent = wk.silent
        /\ wk.cur = Nil /\ wk' \in WorkerState /\ PassInv'
    BY <1>0, <1>3, SendTypes
  <2>2. n.id # Nil /\ wk'.purge \subseteq Devices
    BY <1>0, <2>1, NilFacts DEF WorkerState, Snapshot
  <2>3. wk'.pc \in {"purge", "write"} /\ wk.pc = "send"
    BY <1>3, <2>1, <2>2 DEF PassInv, Send
  <2>4. InPass' = InPass
    BY <2>1, <2>2 DEF InPass
  <2> QED
    BY <2>1, <2>2, <2>3, <2>4
<1>4. ASSUME NEW d \in wk.purge, PurgeToken(d)
      PROVE  /\ wk.pc = "purge" /\ wk'.pc \in {"purge", "write"} /\ wk'.batch = wk.batch
             /\ wk'.cur = wk.cur /\ wk'.purge = wk.purge \ {d} /\ InPass' = InPass
  BY <1>0, <1>4 DEF PurgeToken, WorkerState, InPass
<1>5. CASE WriteVerdict
  <2>1. /\ wk'.cur = Nil /\ wk'.batch = wk.batch /\ wk'.silent = wk.silent
        /\ wk'.pc = "send" /\ wk'.purge = {}
    BY <1>5 DEF WriteVerdict, IdleWorker
  <2>2. InPass \ InPass' \subseteq {wk.cur}
    BY <2>1 DEF InPass
  <2> QED
    BY <1>5, <2>1, <2>2 DEF WriteVerdict, Fault
<1>6. CASE FinishPass
  BY <1>0, <1>6 DEF FinishPass, InPass, PassInv, Fault
<1> QED
  BY <1>1, <1>2, <1>3, <1>4, <1>5, <1>6 DEF Sending, WorkerStep

(* Whatever the numbers of reminders, devices and accounts, a pass deals   *)
(* with every reminder it fetched: it leaves none as it was unless a       *)
(* statement failed or the process died.                                   *)
THEOREM NothingForgotten == Spec => NoneForgotten
<1>1. Inv /\ [Next]_vars =>
        [faults' = faults => \A n \in (InPass \ InPass') \cap DOMAIN notifs' :
           notifs'[n].sent \/ notifs'[n].retries > notifs[n].retries]_vars
  <2> SUFFICES ASSUME Inv, Next, faults' = faults,
                      NEW n \in (InPass \ InPass') \cap DOMAIN notifs'
               PROVE  notifs'[n].sent \/ notifs'[n].retries > notifs[n].retries
    OBVIOUS
  <2>0. TypeOK /\ faults + 1 # faults
    BY DEF Inv, TypeOK, TableTypes
  <2>1. CASE Sending
    <3>1. n \in DOMAIN notifs
      BY <2>1, WorkerTouches
    <3>2. notifs[n] \in NotifRow /\ notifs[n].retries \in Nat
      BY <2>0, <3>1, RowFacts
    <3>3. \/ n = wk.cur /\ (MarkSent({wk.cur}) \/ IncrementRetries(wk.cur))
          \/ n \in wk.silent /\ MarkSent(wk.silent)
      BY <2>0, <2>1, PassSteps
    <3> QED
      BY <3>1, <3>2, <3>3 DEF MarkSent, IncrementRetries, NotifRow
  <2>2. CASE Writing \/ Registering \/ TimePasses \/ Crash
    BY <2>0, <2>2, OthersKeep DEF Inv, InPass
  <2> QED
    BY <2>1, <2>2 DEF Next
<1> QED
  BY <1>1, Invariance, PTL DEF Spec, NoneForgotten

\* StepsLeft, element by element.
LEMMA Left ==
  ASSUME NEW x
  PROVE  x \in StepsLeft <=>
           \/ \E n \in wk.batch : \/ x = <<"send", n.id, Nil>> \/ x = <<"write", n.id, Nil>>
                                  \/ \E d \in Devices : x = <<"purge", n.id, d>>
           \/ \E d \in wk.purge : x = <<"purge", wk.cur, d>>
           \/ wk.cur # Nil /\ x = <<"write", wk.cur, Nil>>
           \/ wk.pc = "tokens" /\ x = <<"tokens", Nil, Nil>>
           \/ wk.pc # "idle" /\ x = <<"finish", Nil, Nil>>
  BY DEF StepsLeft

LEMMA LeftAfter ==
  ASSUME NEW x
  PROVE  x \in StepsLeft' <=>
           \/ \E n \in wk'.batch : \/ x = <<"send", n.id, Nil>> \/ x = <<"write", n.id, Nil>>
                                   \/ \E d \in Devices : x = <<"purge", n.id, d>>
           \/ \E d \in wk'.purge : x = <<"purge", wk'.cur, d>>
           \/ wk'.cur # Nil /\ x = <<"write", wk'.cur, Nil>>
           \/ wk'.pc = "tokens" /\ x = <<"tokens", Nil, Nil>>
           \/ wk'.pc # "idle" /\ x = <<"finish", Nil, Nil>>
  BY DEF StepsLeft

\* Nothing is left to an idle worker.
LEMMA NothingLeft ==
  ASSUME wk' = IdleWorker
  PROVE  StepsLeft' = {}
<1>1. wk'.batch = {} /\ wk'.purge = {} /\ wk'.cur = Nil /\ wk'.pc = "idle"
  BY DEF IdleWorker
<1> QED
  BY <1>1, LeftAfter

LEMMA SendingAdvances ==
  ASSUME Inv, Sending, wk.pc # "idle"
  PROVE  StepsLeft' \subseteq StepsLeft /\ StepsLeft' # StepsLeft
<1>0. PassInv /\ wk \in WorkerState
  BY DEF Inv, TypeOK
<1>1. CASE wk' = IdleWorker
  <2>1. <<"finish", Nil, Nil>> \in StepsLeft
    BY Left
  <2> QED
    BY <1>1, <2>1, NothingLeft
<1>2. CASE /\ wk.pc = "tokens" /\ wk'.pc = "send" /\ wk'.batch \subseteq wk.batch
           /\ wk'.cur = wk.cur /\ wk'.purge = wk.purge
  <2>1. <<"tokens", Nil, Nil>> \in StepsLeft \ StepsLeft'
    BY <1>2, Left, LeftAfter
  <2>2. StepsLeft' \subseteq StepsLeft
    BY <1>2, Left, LeftAfter
  <2> QED
    BY <2>1, <2>2
<1>3. ASSUME wk.pc = "send", wk'.pc \in {"purge", "write"}, NEW n \in wk.batch,
             wk.cur = Nil, wk'.batch = wk.batch \ {n}, wk'.cur = n.id,
             wk'.purge \subseteq Devices
      PROVE  StepsLeft' \subseteq StepsLeft /\ StepsLeft' # StepsLeft
  <2>1. \A m \in wk'.batch : m.id # n.id
    BY <1>0, <1>3 DEF PassInv
  <2>2. <<"send", n.id, Nil>> \in StepsLeft \ StepsLeft'
    BY <1>3, <2>1, Left, LeftAfter
  <2>3. StepsLeft' \subseteq StepsLeft
    BY <1>3, Left, LeftAfter
  <2> QED
    BY <2>2, <2>3
<1>4. ASSUME wk.pc = "purge", wk'.pc \in {"purge", "write"}, wk'.batch = wk.batch,
             wk'.cur = wk.cur, NEW d \in wk.purge, wk'.purge = wk.purge \ {d}
      PROVE  StepsLeft' \subseteq StepsLeft /\ StepsLeft' # StepsLeft
  <2>1. \A m \in wk.batch : m.id # wk.cur
    BY <1>0 DEF PassInv
  <2>2. <<"purge", wk.cur, d>> \in StepsLeft \ StepsLeft'
    BY <1>4, <2>1, Left, LeftAfter
  <2>3. StepsLeft' \subseteq StepsLeft
    BY <1>4, Left, LeftAfter
  <2> QED
    BY <2>2, <2>3
<1>5. CASE /\ wk.pc = "write" /\ wk'.pc = "send" /\ wk'.batch = wk.batch
           /\ wk'.cur = Nil /\ wk'.purge = {}
  <2>1. wk.cur # Nil /\ \A m \in wk.batch : m.id # wk.cur
    BY <1>0, <1>5 DEF PassInv
  <2>2. <<"write", wk.cur, Nil>> \in StepsLeft \ StepsLeft'
    BY <1>5, <2>1, Left, LeftAfter
  <2>3. StepsLeft' \subseteq StepsLeft
    BY <1>5, Left, LeftAfter
  <2> QED
    BY <2>2, <2>3
<1> QED
  BY <1>1, <1>2, <1>3, <1>4, <1>5, PassSteps

(* A pass of whatever size comes to an end: each of its steps takes        *)
(* something off what was left of it when it began, and no step of         *)
(* another, no failure and no restart adds to that.                        *)
THEOREM PassesComeToAnEnd == Spec => PassAdvances
<1>1. Inv /\ [Next]_vars =>
        [wk.pc # "idle" =>
           /\ StepsLeft' \subseteq StepsLeft
           /\ Sending => StepsLeft' # StepsLeft]_vars
  <2> SUFFICES ASSUME Inv, Next, wk.pc # "idle"
               PROVE  StepsLeft' \subseteq StepsLeft /\ (Sending => StepsLeft' # StepsLeft)
    OBVIOUS
  <2>1. CASE Sending
    BY <2>1, SendingAdvances
  <2>2. CASE ~Sending
    <3>1. wk' = wk \/ wk' = IdleWorker
      BY <2>2, OthersKeep DEF Next, Inv
    <3>2. CASE wk' = wk
      BY <2>2, <3>2 DEF StepsLeft
    <3>3. CASE wk' = IdleWorker
      BY <2>2, <3>3, NothingLeft
    <3> QED
      BY <3>1, <3>2, <3>3
  <2> QED
    BY <2>1, <2>2
<1> QED
  BY <1>1, Invariance, PTL DEF Spec, PassAdvances

----------------------------------------------------------------------------
(* A pass is finite, and can always go on.                                 *)

FiniteInv == IsFiniteSet(DOMAIN notifs) /\ IsFiniteSet(wk.batch)

\* The rows of a table come from finitely many lists of offsets.
LEMMA RowsFinite ==
  ASSUME Inv, Next, IsFiniteSet(DOMAIN notifs)
  PROVE  IsFiniteSet(DOMAIN notifs')
<1>0. TypeOK /\ RequestInv
  BY DEF Inv
<1>1. CASE DOMAIN notifs' \subseteq DOMAIN notifs
  BY <1>1, FS_Subset
<1>2. ASSUME NEW r \in Requests, CreateBatch(NewReminders(r))
      PROVE  IsFiniteSet(DOMAIN notifs')
  <2>1. DOMAIN NewReminders(r) = {r} \X req[r].slots
    BY DEF NewReminders
  <2>2. req[r].slots \subseteq 1 .. MaxOffsets
    BY <1>0 DEF TypeOK, WriterTypes, RequestState, Slots
  <2>3. IsFiniteSet(req[r].slots)
    <3>1. MaxOffsets \in Int
      BY BoundsAssumption
    <3>2. IsFiniteSet(1 .. MaxOffsets)
      BY <3>1, FS_Interval
    <3> QED
      BY <2>2, <3>2, FS_Subset
  <2>4. IsFiniteSet({r} \X req[r].slots)
    BY <2>3, FS_Singleton, FS_Product
  <2>5. DOMAIN notifs' = DOMAIN notifs \cup DOMAIN NewReminders(r)
    BY <1>2 DEF CreateBatch
  <2>6. IsFiniteSet(DOMAIN notifs \cup ({r} \X req[r].slots))
    BY <2>4, FS_Union
  <2>7. DOMAIN notifs' = DOMAIN notifs \cup ({r} \X req[r].slots)
    BY <2>1, <2>5, Zenon
  <2> QED
    BY <2>6, <2>7, Zenon
<1>3. CASE Sending
  BY <1>1, <1>3, WorkerTouches
<1>4. ASSUME NEW r \in Requests, RequestStep(r)
      PROVE  \/ DOMAIN notifs' \subseteq DOMAIN notifs
             \/ CreateBatch(NewReminders(r))
  BY <1>4 DEF RequestStep, Creating, Updating, Deleting, CreateEvent, FindForUpdate, DeleteEvent,
     SaveEvent, CancelForEvent, ScheduleForEvent, InsertReminders, tables, DeleteByEventID, Restrict
<1>5. CASE Writing
  BY <1>1, <1>2, <1>4, <1>5 DEF Writing
<1>6. CASE Registering \/ TimePasses \/ Crash
  <2>1. UNCHANGED notifs
    BY <1>6 DEF Registering, DeviceStep, RegisterDevice, UnregisterDevice, DeleteAccountTokens,
       TimePasses, Crash, tables
  <2> QED
    BY <1>1, <2>1
<1> QED
  BY <1>3, <1>5, <1>6 DEF Next

\* What Poll fetches is a row each.
LEMMA BatchFinite ==
  ASSUME Inv, Next, FiniteInv
  PROVE  IsFiniteSet(wk'.batch)
<1>0. IsFiniteSet(wk.batch) /\ IsFiniteSet({}) /\ TypeOK
  BY FS_EmptySet DEF FiniteInv, Inv
<1>1. CASE wk'.batch \subseteq wk.batch
  BY <1>0, <1>1, FS_Subset
<1>2. ASSUME NEW S \in FindPending,
             wk' = [wk EXCEPT
                      !.pc = "tokens",
                      !.batch = {[id |-> n, user |-> notifs[n].user,
                                  notifyAt |-> notifs[n].notifyAt] : n \in S}]
      PROVE  IsFiniteSet(wk'.batch)
  <2> DEFINE B == {[id |-> n, user |-> notifs[n].user, notifyAt |-> notifs[n].notifyAt] : n \in S}
             f == [b \in B |-> b.id]
  <2>1. S \subseteq DOMAIN notifs
    BY FoundPending
  <2>2. IsFiniteSet(S)
    BY <2>1, FS_Subset DEF FiniteInv
  <2>3. f \in [B -> S] /\ \A b, c \in B : f[b] = f[c] => b = c
    OBVIOUS
  <2>4. f \in Injection(B, S)
    BY <2>3 DEF Injection, IsInjective
  <2>5. IsFiniteSet(B)
    BY <2>2, <2>4, FS_Injection
  <2>6. wk'.batch = B
    BY <1>0, <1>2 DEF TypeOK, WorkerState
  <2> QED
    BY <2>5, <2>6
<1>3. CASE Sending
  <2>1. CASE Poll
    BY <1>1, <1>2, <2>1 DEF Poll
  <2>2. CASE wk.pc # "idle"
    BY <1>0, <1>1, <1>3, <2>2, PassSteps DEF IdleWorker
  <2>3. wk.pc = "idle" => Poll
    BY <1>3 DEF Sending, WorkerStep, FetchTokens, Send, PurgeToken, WriteVerdict, FinishPass
  <2> QED
    BY <2>1, <2>2, <2>3
<1>4. CASE Writing \/ Registering \/ TimePasses \/ Crash
  BY <1>0, <1>4, OthersKeep DEF Inv, IdleWorker
<1> QED
  BY <1>3, <1>4 DEF Next

LEMMA Finiteness == Spec => []FiniteInv
<1>1. Init => FiniteInv
  BY FS_EmptySet DEF Init, StoreInit, WorkerInit, IdleWorker, FiniteInv
<1>2. Inv /\ FiniteInv /\ [Next]_vars => FiniteInv'
  <2> SUFFICES ASSUME Inv, FiniteInv, [Next]_vars PROVE FiniteInv'
    OBVIOUS
  <2>1. CASE UNCHANGED vars
    BY <2>1 DEF vars, FiniteInv
  <2>2. CASE Next
    BY <2>2, RowsFinite, BatchFinite DEF FiniteInv
  <2> QED
    BY <2>1, <2>2
<1> QED
  BY <1>1, <1>2, Invariance, PTL DEF Spec

(* What is left of a pass is finite, so that the sets PassAdvances makes   *)
(* ever smaller run out: no chain of smaller finite sets goes on for ever  *)
(* (FS_StrictSubsetOrderingWellFounded).                                   *)
THEOREM PassesAreFinite ==
  ASSUME IsFiniteSet(Devices)
  PROVE  Spec => []IsFiniteSet(StepsLeft)
<1>1. Inv /\ FiniteInv => IsFiniteSet(StepsLeft)
  <2> SUFFICES ASSUME Inv, FiniteInv PROVE IsFiniteSet(StepsLeft)
    OBVIOUS
  <2> DEFINE unsent == {n.id : n \in wk.batch}
             f == [n \in wk.batch |-> n.id]
  <2>1. f \in Surjection(wk.batch, unsent)
    BY DEF Surjection
  <2>2. IsFiniteSet(unsent)
    BY <2>1, FS_Surjection DEF FiniteInv
  <2>3. IsFiniteSet(wk.purge)
    <3>1. wk.purge \in SUBSET Devices
      BY DEF Inv, TypeOK, WorkerState
    <3> QED
      BY <3>1, FS_Subset
  <2>4. ASSUME NEW a, NEW b
        PROVE  IsFiniteSet({a}) /\ IsFiniteSet({a, b})
    <3>1. IsFiniteSet({a}) /\ IsFiniteSet({b})
      BY FS_Singleton
    <3>2. IsFiniteSet({a} \cup {b})
      BY <3>1, FS_Union
    <3>3. {a, b} = {a} \cup {b}
      OBVIOUS
    <3> QED
      BY <3>1, <3>2, <3>3
  <2>5. IsFiniteSet({wk.cur} \ {Nil})
    BY <2>4, FS_Difference
  <2>6. IsFiniteSet(IF wk.pc = "tokens" THEN {"tokens"} ELSE {})
        /\ IsFiniteSet(IF wk.pc = "idle" THEN {} ELSE {"finish"})
    BY <2>4, FS_EmptySet
  <2> DEFINE Triples(A, B, C) == A \X B \X C
  <2>7. ASSUME NEW A, NEW B, NEW C, IsFiniteSet(A), IsFiniteSet(B), IsFiniteSet(C)
        PROVE  IsFiniteSet(Triples(A, B, C))
    <3> DEFINE g == [p \in (A \X B) \X C |-> <<p[1][1], p[1][2], p[2]>>]
    <3>1. IsFiniteSet((A \X B) \X C)
      BY <2>7, FS_Product
    <3>2. g \in Surjection((A \X B) \X C, A \X B \X C)
      <4>1. g \in [(A \X B) \X C -> A \X B \X C]
        OBVIOUS
      <4>2. ASSUME NEW t \in A \X B \X C
            PROVE  \E p \in (A \X B) \X C : g[p] = t
        <5>1. PICK a \in A, b \in B, c \in C : t = <<a, b, c>>
          OBVIOUS
        <5>2. <<<<a, b>>, c>> \in (A \X B) \X C /\ g[<<<<a, b>>, c>>] = t
          BY <5>1
        <5> QED
          BY <5>2
      <4> QED
        BY <4>1, <4>2 DEF Surjection
    <3> QED
      BY <3>1, <3>2, FS_Surjection
  <2> HIDE DEF Triples, unsent
  <2>8. StepsLeft = Triples({"send", "write"}, unsent, {Nil})
                      \cup Triples({"purge"}, unsent, Devices)
                      \cup Triples({"purge"}, {wk.cur}, wk.purge)
                      \cup Triples({"write"}, {wk.cur} \ {Nil}, {Nil})
                      \cup Triples(IF wk.pc = "tokens" THEN {"tokens"} ELSE {}, {Nil}, {Nil})
                      \cup Triples(IF wk.pc = "idle" THEN {} ELSE {"finish"}, {Nil}, {Nil})
    BY DEF StepsLeft, Triples, unsent
  <2> QED
    BY <2>2, <2>3, <2>4, <2>5, <2>6, <2>7, <2>8, FS_Union
<1> QED
  BY <1>1, Invariance, Finiteness, PTL

----------------------------------------------------------------------------
(* Among finitely many instants there is an earliest one.                  *)
LEMMA Earliest ==
  ASSUME NEW P, IsFiniteSet(P), P # {}, NEW at \in [P -> Int]
  PROVE  \E n \in P : \A m \in P : at[n] <= at[m]
<1> DEFINE E(n) == {m \in P : at[m] <= at[n]}
           T == {E(n) : n \in P}
           R == StrictSubsetOrdering(P)
<1>1. T \subseteq FiniteSubsetsOf(P) /\ T # {}
  <2>1. \A n \in P : E(n) \subseteq P /\ IsFiniteSet(E(n))
    BY FS_Subset
  <2> QED
    BY <2>1 DEF FiniteSubsetsOf
<1>2. IsWellFoundedOn(R, FiniteSubsetsOf(P))
  BY FS_StrictSubsetOrderingWellFounded
<1> HIDE DEF R
<1>3. PICK X \in T : \A Y \in T : <<Y, X>> \notin R
  BY <1>1, <1>2, WFMin
<1>4. PICK n \in P : X = E(n)
  OBVIOUS
<1>5. ASSUME NEW m \in P, ~(at[n] <= at[m])
      PROVE  FALSE
  <2>1. at[m] < at[n] /\ at[m] \in Int /\ at[n] \in Int
    BY <1>5
  <2>2. E(m) \subseteq E(n) /\ n \in E(n) /\ n \notin E(m)
    BY <2>1
  <2>3. E(m) \in T /\ <<E(m), E(n)>> \in R
    BY <2>2 DEF R, StrictSubsetOrdering
  <2> QED
    BY <1>3, <1>4, <2>3
<1> QED
  BY <1>5

\* ORDER BY ... LIMIT k has an answer, for every finite set of rows.
LEMMA FirstOnes ==
  ASSUME NEW P, IsFiniteSet(P), NEW at \in [P -> Int], NEW k \in Nat
  PROVE  \E S \in SUBSET P :
           /\ Cardinality(S) = IF Cardinality(P) < k THEN Cardinality(P) ELSE k
           /\ \A n \in S, m \in P \ S : at[n] <= at[m]
<1> DEFINE First(S) == Cardinality(S) <= k /\ \A n \in S, m \in P \ S : at[n] <= at[m]
           T == {P \ S : S \in {U \in SUBSET P : First(U)}}
           R == StrictSubsetOrdering(P)
<1>0. Cardinality(P) \in Nat
  BY FS_CardinalityType
<1>1. P \ {} \in T
  BY FS_EmptySet
<1>2. T \subseteq FiniteSubsetsOf(P)
  BY FS_Subset DEF FiniteSubsetsOf
<1>3. IsWellFoundedOn(R, FiniteSubsetsOf(P))
  BY FS_StrictSubsetOrderingWellFounded
<1> HIDE DEF R
<1>4. PICK X \in T : \A Y \in T : <<Y, X>> \notin R
  BY <1>1, <1>2, <1>3, WFMin
<1>5. PICK S \in SUBSET P : X = P \ S /\ First(S)
  OBVIOUS
<1>6. IsFiniteSet(S) /\ Cardinality(S) \in Nat /\ Cardinality(S) <= Cardinality(P)
  BY FS_Subset, FS_CardinalityType
<1>7. CASE S = P
  BY <1>0, <1>5, <1>7
<1>8. CASE S # P /\ Cardinality(S) = k
  BY <1>0, <1>5, <1>6, <1>8
<1>9. CASE S # P /\ Cardinality(S) # k
  <2> DEFINE rest == P \ S
             at2 == [n \in rest |-> at[n]]
  <2>1. IsFiniteSet(rest) /\ rest # {} /\ at2 \in [rest -> Int]
    BY <1>9, FS_Difference
  <2>2. PICK n \in rest : \A m \in rest : at2[n] <= at2[m]
    <3> HIDE DEF rest, at2
    <3> QED
      BY <2>1, Earliest
  <2>3. Cardinality(S \cup {n}) = Cardinality(S) + 1
    BY <1>6, FS_AddElement
  <2>4. First(S \cup {n})
    BY <1>5, <1>6, <1>9, <2>2, <2>3
  <2>5. S \cup {n} \in SUBSET P
    OBVIOUS
  <2>6. P \ (S \cup {n}) \in T
    BY <2>4, <2>5
  <2>7. <<P \ (S \cup {n}), X>> \in R
    <3>1. n \in X /\ n \notin P \ (S \cup {n}) /\ P \ (S \cup {n}) \subseteq X /\ X \subseteq P
      BY <1>5
    <3> QED
      BY <3>1 DEF R, StrictSubsetOrdering
  <2> QED
    BY <1>4, <2>6, <2>7
<1> QED
  BY <1>7, <1>8, <1>9

(* The worker is never stuck.  A pass starts when a reminder is pending;   *)
(* whatever its batch, one of its reminders is next, for the accounts come *)
(* one after another and each account's reminders in the order of their    *)
(* times; and purging ends.  Its other steps ask nothing.                  *)
NeverStuck ==
  /\ wk.pc = "idle" /\ PendingIds # {} => FindPending \ {{}} # {}
  /\ wk.pc = "send" /\ wk.batch # {} => \E n \in wk.batch : NextUp(n)
  /\ wk.pc = "purge" => wk.purge # {}

\* The account whose reminders are being sent has one left, and the purge a
\* token; an account is remembered only while it is being served.
TurnInv ==
  /\ wk.pc = "send" /\ wk.user # Nil => \E n \in wk.batch : n.user = wk.user
  /\ wk.pc \in {"idle", "tokens"} => wk.user = Nil
  /\ wk.pc = "purge" => wk.purge # {}

LEMMA TurnKept ==
  ASSUME Inv, TurnInv, Next
  PROVE  TurnInv'
<1>0. wk \in WorkerState /\ PassInv
  BY DEF Inv, TypeOK
<1>1. CASE wk' = wk \/ wk' = IdleWorker
  BY <1>1 DEF TurnInv, IdleWorker
<1>2. CASE Poll
  <2>1. wk' = wk \/ (wk'.pc = "tokens" /\ wk'.user = wk.user)
    BY <1>0, <1>2 DEF Poll, WorkerState
  <2> QED
    BY <1>1, <1>2, <2>1 DEF TurnInv, Poll
<1>3. CASE FetchTokens
  <2>1. wk' = IdleWorker \/ (wk'.pc = "send" /\ wk'.user = wk.user)
    BY <1>0, <1>3 DEF FetchTokens, WorkerState
  <2> QED
    BY <1>1, <1>3, <2>1 DEF TurnInv, FetchTokens
<1>4. ASSUME NEW n \in wk.batch, Send(n)
      PROVE  TurnInv'
  <2> DEFINE T == TokensByUser(n.user)
             sending == [wk EXCEPT !.batch = @ \ {n}, !.user = n.user, !.cur = n.id]
  <2>1. wk'.pc \in {"write", "purge"} /\ (wk'.pc = "purge" => wk'.purge # {})
    <3>1. CASE wk' = [sending EXCEPT !.pc = "write", !.verdict = "retry"]
      BY <1>0, <3>1 DEF WorkerState
    <3>2. ASSUME NEW invalid, NEW accepted, NEW v,
                 wk' = [sending EXCEPT
                          !.pc = IF invalid = {} THEN "write" ELSE "purge",
                          !.accepted = accepted, !.invalid = invalid, !.purge = invalid,
                          !.verdict = v]
          PROVE  wk'.pc \in {"write", "purge"} /\ (wk'.pc = "purge" => wk'.purge # {})
      BY <1>0, <3>2 DEF WorkerState
    <3> HIDE DEF sending, T
    <3>3. \/ wk' = [sending EXCEPT !.pc = "write", !.verdict = "retry"]
          \/ \E invalid \in SUBSET T : \E accepted \in SUBSET (T \ invalid) :
               wk' = [sending EXCEPT
                        !.pc = IF invalid = {} THEN "write" ELSE "purge",
                        !.accepted = accepted, !.invalid = invalid, !.purge = invalid,
                        !.verdict = Verdict(T, invalid)]
      BY <1>4 DEF Send, sending, T
    <3> QED
      BY <3>1, <3>2, <3>3
  <2> QED
    BY <2>1 DEF TurnInv
<1>5. ASSUME NEW d \in wk.purge, PurgeToken(d)
      PROVE  TurnInv'
  <2>1. wk'.purge = wk.purge \ {d} /\ wk'.pc = IF wk.purge = {d} THEN "write" ELSE "purge"
    BY <1>0, <1>5 DEF PurgeToken, WorkerState
  <2> QED
    BY <1>5, <2>1 DEF TurnInv
<1>6. CASE WriteVerdict
  <2>1. /\ wk'.pc = "send" /\ wk'.batch = wk.batch
        /\ wk'.user = IF \E m \in wk.batch : m.user = wk.user THEN wk.user ELSE Nil
    BY <1>6 DEF WriteVerdict, IdleWorker
  <2> QED
    BY <2>1 DEF TurnInv
<1>7. CASE FinishPass
  BY <1>1, <1>7 DEF FinishPass
<1>8. CASE Writing \/ Registering \/ TimePasses \/ Crash
  BY <1>1, <1>8, OthersKeep DEF Inv
<1> QED
  BY <1>2, <1>3, <1>4, <1>5, <1>6, <1>7, <1>8 DEF Next, Sending, WorkerStep

(* For any batch size, any accounts and any answers of FCM, the worker is  *)
(* never stuck.                                                            *)
THEOREM WorkerNeverStuck == Spec => []NeverStuck
<1>1. Init => TurnInv
  BY DEF Init, WorkerInit, IdleWorker, TurnInv
<1>2. Inv /\ TurnInv /\ [Next]_vars => TurnInv'
  <2>1. UNCHANGED vars /\ TurnInv => TurnInv'
    BY DEF vars, TurnInv
  <2> QED
    BY <2>1, TurnKept
<1>3. Inv /\ FiniteInv /\ TurnInv => NeverStuck
  <2> SUFFICES ASSUME Inv, FiniteInv, TurnInv PROVE NeverStuck
    OBVIOUS
  <2>0. TypeOK
    BY DEF Inv
  <2>1. ASSUME PendingIds # {}
        PROVE  FindPending \ {{}} # {}
    <3> DEFINE at == [n \in PendingIds |-> notifs[n].notifyAt]
    <3>1. PendingIds \subseteq DOMAIN notifs
      BY DEF PendingIds
    <3>2. IsFiniteSet(PendingIds) /\ at \in [PendingIds -> Int]
      BY <2>0, <3>1, FS_Subset, RowFacts DEF FiniteInv
    <3>3. PICK S \in SUBSET PendingIds :
            /\ Cardinality(S) = IF Cardinality(PendingIds) < BatchSize
                                THEN Cardinality(PendingIds) ELSE BatchSize
            /\ \A n \in S, m \in PendingIds \ S : at[n] <= at[m]
      <4> HIDE DEF at
      <4> QED
        BY <3>2, FirstOnes, BoundsAssumption
    <3>4. S \in FindPending
      BY <3>3 DEF FindPending
    <3>5. S # {}
      BY <2>1, <3>2, <3>3, FS_EmptySet, BoundsAssumption
    <3> QED
      BY <3>4, <3>5
  <2>2. ASSUME wk.pc = "send", wk.batch # {}
        PROVE  \E n \in wk.batch : NextUp(n)
    <3>1. wk.batch \subseteq Snapshot
      BY <2>0 DEF TypeOK, WorkerState
    <3>2. PICK u : /\ wk.user \in {Nil, u}
                   /\ \E n \in wk.batch : n.user = u
      BY <2>2 DEF TurnInv
    <3> DEFINE B == {n \in wk.batch : n.user = u}
               at == [n \in B |-> n.notifyAt]
    <3>3. B # {} /\ IsFiniteSet(B) /\ at \in [B -> Int]
      BY <3>1, <3>2, FS_Subset DEF FiniteInv, Snapshot
    <3>4. PICK n \in B : \A m \in B : at[n] <= at[m]
      <4> HIDE DEF B, at
      <4> QED
        BY <3>3, Earliest
    <3> QED
      BY <3>2, <3>4 DEF NextUp
  <2> QED
    BY <2>1, <2>2 DEF NeverStuck, TurnInv
<1> QED
  BY <1>1, <1>2, <1>3, Invariance, Finiteness, PTL DEF Spec
=============================================================================
