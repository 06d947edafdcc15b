---------------------------- MODULE ReminderProofs ----------------------------
(***************************************************************************)
(* Theorems about Reminders for every value of its constants, with their   *)
(* TLAPS proofs.                                                           *)
(***************************************************************************)
EXTENDS Reminders, TLAPS

(***************************************************************************)
(* What a request carries at each statement: the types alone would let it  *)
(* save or schedule no event at all.                                       *)
(***************************************************************************)
RequestInv ==
  \A r \in Requests :
    /\ req[r].pc \in Running => req[r].event \in EventIds
    /\ req[r].pc \in {"save", "schedule", "insert"} => req[r].row \in EventRow
    /\ req[r].pc = "cancel" /\ req[r].op = "update" => req[r].row \in EventRow
    /\ req[r].pc = "insert" => req[r].slots \subseteq DOMAIN req[r].row.offsets

----------------------------------------------------------------------------
(* The operators the model is built from *)

LEMMA OffsetListFacts ==
  ASSUME NEW s \in OffsetLists, NEW i \in DOMAIN s
  PROVE  i \in Slots /\ s[i] \in Int
  BY BoundsAssumption DEF OffsetLists, Slots

LEMMA DefaultList == <<DefaultOffset>> \in OffsetLists
  BY BoundsAssumption DEF OffsetLists

LEMMA RowOfType ==
  ASSUME NEW u \in Users, NEW f \in Forms
  PROVE  RowOf(u, f) \in EventRow
<1>1. f \in FormType
  BY FormsAssumption
<1>2. Offsets(f) \in OffsetLists
  BY <1>1, DefaultList DEF Offsets, FormType
<1> QED
  BY <1>1, <1>2 DEF RowOf, EventRow, FormType

LEMMA NewRemindersType ==
  ASSUME NEW r \in Requests, TypeOK, RequestInv, req[r].pc = "insert"
  PROVE  /\ NewReminders(r) \in [DOMAIN NewReminders(r) -> NotifRow]
         /\ DOMAIN NewReminders(r) = {r} \X req[r].slots
         /\ DOMAIN NewReminders(r) \subseteq NotifIds
         /\ \A n \in DOMAIN NewReminders(r) :
              /\ NewReminders(r)[n].sent = FALSE
              /\ NewReminders(r)[n].retries = 0
              /\ NewReminders(r)[n].tries = 0
<1> DEFINE N == NewReminders(r)
<1>1. req[r].row \in EventRow /\ req[r].event \in EventIds
      /\ req[r].slots \subseteq DOMAIN req[r].row.offsets
  BY DEF RequestInv, Running
<1>2. DOMAIN N = {r} \X req[r].slots
  BY DEF NewReminders
<1>3. req[r].row.offsets \in OffsetLists /\ req[r].row.start \in Int
      /\ req[r].row.user \in Users
  BY <1>1 DEF EventRow
<1>4. ASSUME NEW n \in DOMAIN N
      PROVE  /\ N[n] \in NotifRow /\ n \in NotifIds
             /\ ~N[n].sent /\ N[n].retries = 0 /\ N[n].tries = 0
  <2>1. n[1] = r /\ n[2] \in req[r].slots /\ n = <<r, n[2]>>
    BY <1>2
  <2>2. n[2] \in DOMAIN req[r].row.offsets
    BY <1>1, <2>1
  <2>3. n[2] \in Slots /\ req[r].row.offsets[n[2]] \in Int
    BY <1>3, <2>2, OffsetListFacts
  <2>4. NotifyAt(req[r].row, n[2]) \in Int
    BY <1>3, <2>3 DEF NotifyAt
  <2>5. N[n] = [event |-> req[r].event, user |-> req[r].row.user,
                notifyAt |-> NotifyAt(req[r].row, n[2]),
                sent |-> FALSE, retries |-> 0, tries |-> 0]
    BY <1>2 DEF NewReminders
  <2>6. N[n] \in NotifRow
    BY <1>1, <1>3, <2>4, <2>5 DEF NotifRow
  <2> QED
    BY <2>1, <2>3, <2>5, <2>6 DEF NotifIds
<1>5. N \in [DOMAIN N -> NotifRow]
  BY <1>4 DEF NewReminders
<1> QED
  BY <1>2, <1>4, <1>5

----------------------------------------------------------------------------
(* The statements keep the tables well typed *)

LEMMA PutEventType ==
  ASSUME TypeOK, NEW e \in EventIds, NEW row \in EventRow, PutEvent(e, row)
  PROVE  events' \in [DOMAIN events' -> EventRow] /\ DOMAIN events' \subseteq EventIds
  BY DEF TypeOK, TableTypes, PutEvent

LEMMA DeleteEventRowType ==
  ASSUME TypeOK, NEW e, DeleteEventRow(e)
  PROVE  events' \in [DOMAIN events' -> EventRow] /\ DOMAIN events' \subseteq EventIds
  BY DEF TypeOK, TableTypes, DeleteEventRow, Restrict

LEMMA NotifsTypes ==
  ASSUME TypeOK
  PROVE  /\ \A e : DeleteByEventID(e) =>
              /\ notifs' \in [DOMAIN notifs' -> NotifRow]
              /\ DOMAIN notifs' \subseteq DOMAIN notifs
         /\ \A S : MarkSent(S) =>
              notifs' \in [DOMAIN notifs' -> NotifRow] /\ DOMAIN notifs' = DOMAIN notifs
         /\ \A i : IncrementRetries(i) =>
              notifs' \in [DOMAIN notifs' -> NotifRow] /\ DOMAIN notifs' = DOMAIN notifs
         /\ \A i : CountTry(i) =>
              notifs' \in [DOMAIN notifs' -> NotifRow] /\ DOMAIN notifs' = DOMAIN notifs
<1>1. notifs \in [DOMAIN notifs -> NotifRow]
  BY DEF TypeOK, TableTypes
<1>2. ASSUME NEW e, DeleteByEventID(e)
      PROVE  /\ notifs' \in [DOMAIN notifs' -> NotifRow]
             /\ DOMAIN notifs' \subseteq DOMAIN notifs
  BY <1>1, <1>2 DEF DeleteByEventID, Restrict
<1>3. ASSUME NEW S, MarkSent(S)
      PROVE  notifs' \in [DOMAIN notifs' -> NotifRow] /\ DOMAIN notifs' = DOMAIN notifs
  BY <1>1, <1>3 DEF MarkSent, NotifRow
<1>4. ASSUME NEW i, IncrementRetries(i)
      PROVE  notifs' \in [DOMAIN notifs' -> NotifRow] /\ DOMAIN notifs' = DOMAIN notifs
  BY <1>1, <1>4 DEF IncrementRetries, NotifRow
<1>5. ASSUME NEW i, CountTry(i)
      PROVE  notifs' \in [DOMAIN notifs' -> NotifRow] /\ DOMAIN notifs' = DOMAIN notifs
  BY <1>1, <1>5 DEF CountTry, NotifRow
<1> QED
  BY <1>2, <1>3, <1>4, <1>5

LEMMA DevicesTypes ==
  ASSUME TypeOK
  PROVE  /\ \A u \in Users, d \in Devices : Upsert(u, d) =>
              devices' \in [DOMAIN devices' -> Users] /\ DOMAIN devices' \subseteq Devices
         /\ \A D : DeleteTokens(D) =>
              devices' \in [DOMAIN devices' -> Users] /\ DOMAIN devices' \subseteq Devices
  BY DEF TypeOK, TableTypes, Upsert, DeleteTokens, Restrict

LEMMA FaultType ==
  ASSUME TypeOK, Fault
  PROVE  faults' \in 0 .. MaxFaults /\ faults' = faults + 1
  BY BoundsAssumption DEF TypeOK, TableTypes, Fault

----------------------------------------------------------------------------
(* Requests *)

LEMMA RefuseTypes ==
  ASSUME TypeOK, RequestInv, NEW r \in Requests,
         NEW op \in {"create", "update", "delete"}, NEW result \in Results,
         Refuse(r, op, result)
  PROVE  WriterTypes' /\ RequestInv'
<1>1. req' = [req EXCEPT ![r] = [IdleRequest EXCEPT !.pc = "done", !.op = op,
                                                    !.result = result]]
      /\ clean' = clean
  BY DEF Refuse
<1>2. [IdleRequest EXCEPT !.pc = "done", !.op = op, !.result = result] \in RequestState
  BY DEF IdleRequest, RequestState
<1>3. WriterTypes'
  BY <1>1, <1>2 DEF TypeOK, WriterTypes
<1>4. RequestInv'
  BY <1>1 DEF TypeOK, WriterTypes, RequestInv, IdleRequest, Running
<1> QED
  BY <1>3, <1>4

LEMMA AnswerTypes ==
  ASSUME TypeOK, RequestInv, NEW r \in Requests, NEW logged \in BOOLEAN,
         req[r].pc \in Running, Answer(r, logged)
  PROVE  WriterTypes' /\ RequestInv'
<1>1. req' = [req EXCEPT ![r] = [IdleRequest EXCEPT !.pc = "done", !.op = req[r].op,
                                                    !.result = "ok"]]
  BY DEF Answer
<1>2. [IdleRequest EXCEPT !.pc = "done", !.op = req[r].op, !.result = "ok"]
        \in RequestState
  BY DEF IdleRequest, RequestState, Results, TypeOK, WriterTypes
<1>3. clean' \subseteq EventIds
  BY DEF Answer, TypeOK, WriterTypes, RequestInv
<1>4. RequestInv'
  BY <1>1 DEF TypeOK, WriterTypes, RequestInv, IdleRequest, Running
<1> QED
  BY <1>1, <1>2, <1>3, <1>4 DEF TypeOK, WriterTypes

LEMMA BeginTypes ==
  ASSUME TypeOK, RequestInv, NEW r \in Requests,
         NEW op \in {"create", "update", "delete"}, NEW e \in EventIds,
         NEW row \in EventRow \cup {Nil}, NEW pc \in Running \ {"insert"},
         row \in EventRow \/ (pc = "cancel" /\ op = "delete"),
         Begin(r, op, e, row, pc), UNCHANGED clean
  PROVE  WriterTypes' /\ RequestInv'
<1> DEFINE new == [IdleRequest EXCEPT !.pc = pc, !.op = op, !.event = e, !.row = row,
                                      !.raced = Writers(e) # {}]
<1>1. new \in RequestState /\ new.pc = pc /\ new.op = op /\ new.event = e /\ new.row = row
  BY DEF IdleRequest, RequestState
<1>2. req' = [q \in Requests |->
                IF q = r THEN new ELSE [req[q] EXCEPT !.raced = @ \/ q \in Writers(e)]]
  BY DEF Begin
<1>3. ASSUME NEW q \in Requests
      PROVE  /\ req'[q] \in RequestState
             /\ q = r => req'[q] = new
             /\ q # r => /\ req'[q].pc = req[q].pc /\ req'[q].op = req[q].op
                         /\ req'[q].event = req[q].event /\ req'[q].row = req[q].row
                         /\ req'[q].slots = req[q].slots
  <2>1. CASE q = r
    BY <1>1, <1>2, <2>1
  <2>2. CASE q # r
    <3> DEFINE b == req[q].raced \/ q \in Writers(e)
    <3>1. req'[q] = [req[q] EXCEPT !.raced = b]
      BY <1>2, <2>2
    <3>2. b \in BOOLEAN
      OBVIOUS
    <3>3. req[q] \in RequestState
      BY SMTT(30) DEF TypeOK, WriterTypes
    <3> HIDE DEF b
    <3> QED
      BY <2>2, <3>1, <3>2, <3>3 DEF RequestState
  <2> QED
    BY <2>1, <2>2
<1>4. req' \in [Requests -> RequestState]
  BY <1>2, <1>3
<1>5. RequestInv'
  BY <1>1, <1>3, ZenonT(40) DEF RequestInv, Running
<1> QED
  BY <1>4, <1>5 DEF TypeOK, WriterTypes

LEMMA GotoTypes ==
  ASSUME TypeOK, RequestInv, NEW r \in Requests,
         \/ req[r].pc = "save" /\ Goto(r, "cancel")
         \/ req[r].pc = "cancel" /\ req[r].op = "update" /\ Goto(r, "schedule"),
         UNCHANGED clean
  PROVE  WriterTypes' /\ RequestInv'
  BY DEF TypeOK, WriterTypes, RequestState, RequestInv, Running, Goto

LEMMA CreateEventTypes ==
  ASSUME TypeOK, RequestInv, NEW r \in Requests, NEW u \in Users, NEW f \in Forms,
         CreateEvent(r, u, f)
  PROVE  TableTypes' /\ WriterTypes' /\ RequestInv'
<1>0. UNCHANGED <<notifs, devices, now>> /\ TableTypes /\ WriterTypes
  BY DEF CreateEvent, TypeOK
<1>1. CASE Refuse(r, "create", "invalid") /\ UNCHANGED <<events, faults>>
  BY <1>0, <1>1, RefuseTypes DEF TableTypes, Results
<1>2. CASE /\ PutEvent(r, RowOf(u, f))
           /\ Begin(r, "create", r, RowOf(u, f), "schedule")
           /\ UNCHANGED <<faults, clean>>
  <2>1. RowOf(u, f) \in EventRow
    BY RowOfType
  <2>2. WriterTypes' /\ RequestInv'
    BY <1>2, <2>1, BeginTypes DEF Running, EventIds
  <2>3. events' \in [DOMAIN events' -> EventRow] /\ DOMAIN events' \subseteq EventIds
    BY <1>2, <2>1, PutEventType DEF EventIds
  <2> QED
    BY <1>0, <1>2, <2>2, <2>3 DEF TableTypes
<1>3. CASE Fault /\ Refuse(r, "create", "db_error") /\ UNCHANGED events
  BY <1>0, <1>3, RefuseTypes, FaultType DEF TableTypes, Results
<1> QED
  BY <1>1, <1>2, <1>3 DEF CreateEvent

LEMMA FindForUpdateTypes ==
  ASSUME TypeOK, RequestInv, NEW r \in Requests, NEW u \in Users, NEW e \in Requests,
         NEW f \in Forms, FindForUpdate(r, u, e, f)
  PROVE  TableTypes' /\ WriterTypes' /\ RequestInv'
<1>0. UNCHANGED <<tables, now>> /\ TableTypes /\ WriterTypes
  BY DEF FindForUpdate, TypeOK
<1>1. CASE Refuse(r, "update", "not_found") /\ UNCHANGED faults
  BY <1>0, <1>1, RefuseTypes DEF TableTypes, tables, Results
<1>2. CASE Refuse(r, "update", "invalid") /\ UNCHANGED faults
  BY <1>0, <1>2, RefuseTypes DEF TableTypes, tables, Results
<1>3. CASE Begin(r, "update", e, RowOf(u, f), "save") /\ UNCHANGED <<faults, clean>>
  <2>1. WriterTypes' /\ RequestInv'
    BY <1>3, RowOfType, BeginTypes DEF Running, EventIds
  <2> QED
    BY <1>0, <1>3, <2>1 DEF TableTypes, tables
<1>4. CASE Fault /\ Refuse(r, "update", "db_error")
  BY <1>0, <1>4, RefuseTypes, FaultType DEF TableTypes, tables, Results
<1> QED
  BY <1>1, <1>2, <1>3, <1>4 DEF FindForUpdate

LEMMA SaveEventTypes ==
  ASSUME TypeOK, RequestInv, NEW r \in Requests, SaveEvent(r)
  PROVE  TableTypes' /\ WriterTypes' /\ RequestInv'
<1>0. UNCHANGED <<notifs, devices, now, clean>> /\ TableTypes /\ WriterTypes
      /\ req[r].pc = "save"
  BY DEF SaveEvent, At, TypeOK
<1>1. CASE PutEvent(req[r].event, req[r].row) /\ Goto(r, "cancel") /\ UNCHANGED faults
  <2>1. req[r].event \in EventIds /\ req[r].row \in EventRow
    BY <1>0 DEF RequestInv, Running
  <2>2. events' \in [DOMAIN events' -> EventRow] /\ DOMAIN events' \subseteq EventIds
    BY <1>1, <2>1, PutEventType
  <2>3. WriterTypes' /\ RequestInv'
    BY <1>0, <1>1, GotoTypes
  <2> QED
    BY <1>0, <1>1, <2>2, <2>3 DEF TableTypes
<1>2. CASE Fault /\ Refuse(r, "update", "db_error") /\ UNCHANGED events
  BY <1>0, <1>2, RefuseTypes, FaultType DEF TableTypes, Results
<1> QED
  BY <1>1, <1>2 DEF SaveEvent

LEMMA DeleteEventTypes ==
  ASSUME TypeOK, RequestInv, NEW r \in Requests, NEW u \in Users, NEW e \in Requests,
         DeleteEvent(r, u, e)
  PROVE  TableTypes' /\ WriterTypes' /\ RequestInv'
<1>0. UNCHANGED <<notifs, devices, now>> /\ TableTypes /\ WriterTypes
  BY DEF DeleteEvent, TypeOK
<1>1. CASE \E result \in {"not_found", "refused"} :
             Refuse(r, "delete", result) /\ UNCHANGED <<events, faults>>
  BY <1>0, <1>1, RefuseTypes DEF TableTypes, Results
<1>2. CASE DeleteEventRow(e) /\ Begin(r, "delete", e, Nil, "cancel")
           /\ UNCHANGED <<faults, clean>>
  <2>1. events' \in [DOMAIN events' -> EventRow] /\ DOMAIN events' \subseteq EventIds
    BY <1>2, DeleteEventRowType
  <2>2. WriterTypes' /\ RequestInv'
    BY <1>2, BeginTypes DEF Running, EventIds
  <2> QED
    BY <1>0, <1>2, <2>1, <2>2 DEF TableTypes
<1>3. CASE Fault /\ Refuse(r, "delete", "db_error") /\ UNCHANGED events
  BY <1>0, <1>3, RefuseTypes, FaultType DEF TableTypes, Results
<1> QED
  BY <1>1, <1>2, <1>3 DEF DeleteEvent

LEMMA CancelForEventTypes ==
  ASSUME TypeOK, RequestInv, NEW r \in Requests, CancelForEvent(r)
  PROVE  TableTypes' /\ WriterTypes' /\ RequestInv'
<1>0. UNCHANGED <<events, devices, now>> /\ TableTypes /\ WriterTypes
      /\ req[r].pc = "cancel" /\ req[r].pc \in Running
  BY DEF CancelForEvent, At, TypeOK, Running
<1>1. CASE DeleteByEventID(req[r].event) /\ UNCHANGED faults
  <2>1. notifs' \in [DOMAIN notifs' -> NotifRow] /\ DOMAIN notifs' \subseteq NotifIds
    BY <1>1, NotifsTypes DEF TypeOK, TableTypes
  <2>2. WriterTypes' /\ RequestInv'
    <3>1. \/ req[r].op = "update" /\ Goto(r, "schedule") /\ UNCHANGED clean
          \/ Answer(r, FALSE)
          \/ Answer(r, TRUE)
      BY DEF CancelForEvent
    <3> QED
      BY <1>0, <3>1, GotoTypes, AnswerTypes
  <2> QED
    BY <1>0, <1>1, <2>1, <2>2 DEF TableTypes
<1>2. CASE Fault /\ Answer(r, TRUE) /\ UNCHANGED notifs
  BY <1>0, <1>2, AnswerTypes, FaultType DEF TableTypes
<1> QED
  BY <1>1, <1>2 DEF CancelForEvent

LEMMA ScheduleForEventTypes ==
  ASSUME TypeOK, RequestInv, NEW r \in Requests, ScheduleForEvent(r)
  PROVE  TableTypes' /\ WriterTypes' /\ RequestInv'
<1> DEFINE S == FutureSlots(req[r].row)
<1>0. UNCHANGED <<tables, now, faults>> /\ TableTypes /\ WriterTypes
      /\ req[r].pc = "schedule" /\ req[r].pc \in Running
  BY DEF ScheduleForEvent, At, TypeOK, Running
<1>1. TableTypes'
  BY <1>0 DEF TableTypes, tables
<1>2. CASE Answer(r, FALSE)
  BY <1>0, <1>1, <1>2, AnswerTypes
<1>3. CASE req' = [req EXCEPT ![r].pc = "insert", ![r].slots = S] /\ UNCHANGED clean
  <2>1. req[r].row \in EventRow /\ req[r].event \in EventIds
    BY <1>0 DEF RequestInv
  <2>2. S \subseteq DOMAIN req[r].row.offsets
    BY DEF FutureSlots
  <2>3. S \subseteq Slots
    BY <2>1, <2>2, OffsetListFacts DEF EventRow
  <2> HIDE DEF S
  <2>4. WriterTypes'
    <3>1. [req[r] EXCEPT !.pc = "insert", !.slots = S] \in RequestState
      BY <1>0, <2>3, ZenonT(40) DEF WriterTypes, RequestState, Running
    <3>2. req' = [req EXCEPT ![r] = [req[r] EXCEPT !.pc = "insert", !.slots = S]]
      BY <1>0, <1>3 DEF WriterTypes
    <3> QED
      BY <1>0, <1>3, <3>1, <3>2 DEF WriterTypes
  <2>5. RequestInv'
    BY <1>0, <1>3, <2>1, <2>2 DEF WriterTypes, RequestState, RequestInv, Running
  <2> QED
    BY <1>1, <2>4, <2>5
<1> QED
  BY <1>2, <1>3 DEF ScheduleForEvent

LEMMA InsertRemindersTypes ==
  ASSUME TypeOK, RequestInv, NEW r \in Requests, InsertReminders(r)
  PROVE  TableTypes' /\ WriterTypes' /\ RequestInv'
<1>0. UNCHANGED <<events, devices, now>> /\ TableTypes /\ WriterTypes
      /\ req[r].pc = "insert" /\ req[r].pc \in Running
  BY DEF InsertReminders, At, TypeOK, Running
<1>1. CASE CreateBatch(NewReminders(r)) /\ Answer(r, FALSE) /\ UNCHANGED faults
  <2>1. notifs' \in [DOMAIN notifs' -> NotifRow] /\ DOMAIN notifs' \subseteq NotifIds
    <3> DEFINE N == NewReminders(r)
    <3>1. N \in [DOMAIN N -> NotifRow] /\ DOMAIN N \subseteq NotifIds
      BY <1>0, NewRemindersType
    <3>2. CreateBatch(N)
      BY <1>1
    <3> HIDE DEF N
    <3> QED
      BY <1>0, <3>1, <3>2 DEF CreateBatch, TableTypes
  <2> QED
    BY <1>0, <1>1, <2>1, AnswerTypes DEF TableTypes
<1>2. CASE Answer(r, TRUE) /\ UNCHANGED <<notifs, faults>>
  BY <1>0, <1>2, AnswerTypes DEF TableTypes
<1>3. CASE Fault /\ Answer(r, TRUE) /\ UNCHANGED notifs
  BY <1>0, <1>3, AnswerTypes, FaultType DEF TableTypes
<1> QED
  BY <1>1, <1>2, <1>3 DEF InsertReminders

LEMMA WritingTypes ==
  ASSUME TypeOK, RequestInv, Writing
  PROVE  TypeOK' /\ RequestInv'
<1>1. PICK r \in Requests : RequestStep(r)
  BY DEF Writing
<1>2. TableTypes' /\ WriterTypes' /\ RequestInv'
  BY <1>1, CreateEventTypes, FindForUpdateTypes, SaveEventTypes, DeleteEventTypes,
     CancelForEventTypes, ScheduleForEventTypes, InsertRemindersTypes DEF RequestStep, Creating, Updating, Deleting
<1> QED
  BY <1>2 DEF Writing, TypeOK

----------------------------------------------------------------------------
(* The worker *)

(***************************************************************************)
(* The shape of a pass: no reminder is in it twice.                        *)
(***************************************************************************)
PassInv ==
  /\ wk.pc = "idle" => wk.batch = {}
  /\ wk.pc \in {"idle", "tokens"} => wk.silent = {}
  /\ wk.cur # Nil <=> wk.pc \in {"purge", "write"}
  /\ \A n, m \in wk.batch : n.id = m.id => n = m
  /\ \A n \in wk.batch : n.id # wk.cur /\ n.id \notin wk.silent
  /\ wk.cur \notin wk.silent
  /\ wk.cur = Nil => wk.accepted = {} /\ wk.invalid = {} /\ wk.purge = {}

LEMMA NilFacts == Nil \notin NotifIds /\ Nil \notin Users /\ Nil \notin Requests
  BY NilAssumption DEF NotifIds

LEMMA IdleWorkerFacts ==
  ASSUME wk' = IdleWorker
  PROVE  wk' \in WorkerState /\ PassInv'
  BY DEF IdleWorker, WorkerState, PassInv

LEMMA FoundPending ==
  ASSUME NEW S \in FindPending
  PROVE  /\ S \subseteq DOMAIN notifs
         /\ \A n \in S : Unsettled(n) /\ Due(n)
  BY DEF FindPending, PendingIds

LEMMA PollTypes ==
  ASSUME TypeOK, PassInv, Poll
  PROVE  TableTypes' /\ wk' \in WorkerState /\ PassInv'
<1>0. UNCHANGED <<tables, now>> /\ TableTypes /\ wk \in WorkerState /\ wk.pc = "idle"
  BY DEF Poll, TypeOK
<1>1. ASSUME NEW S \in FindPending, UNCHANGED faults,
             wk' = [wk EXCEPT
                      !.pc = "tokens",
                      !.batch = {[id |-> n, user |-> notifs[n].user,
                                  notifyAt |-> notifs[n].notifyAt] : n \in S}]
      PROVE  TableTypes' /\ wk' \in WorkerState /\ PassInv'
  <2> DEFINE B == {[id |-> n, user |-> notifs[n].user,
                    notifyAt |-> notifs[n].notifyAt] : n \in S}
  <2>1. S \subseteq DOMAIN notifs
    BY FoundPending
  <2>2. B \in SUBSET Snapshot
    BY <1>0, <2>1 DEF TableTypes, NotifRow, Snapshot
  <2>3. \A n, m \in B : n.id = m.id => n = m
    OBVIOUS
  <2>4. \A n \in B : n.id # Nil
    BY <1>0, <2>1, NilFacts DEF TableTypes
  <2>5. wk' = [wk EXCEPT !.pc = "tokens", !.batch = B]
    BY <1>1
  <2> HIDE DEF B
  <2>6. wk' \in WorkerState
    BY <1>0, <2>2, <2>5 DEF WorkerState
  <2>7. PassInv'
    BY <1>0, <2>3, <2>4, <2>5 DEF WorkerState, PassInv
  <2> QED
    BY <1>0, <1>1, <2>6, <2>7 DEF TableTypes, tables
<1>2. CASE Fault /\ UNCHANGED wk
  BY <1>0, <1>2, FaultType DEF TableTypes, tables, PassInv
<1> QED
  BY <1>1, <1>2 DEF Poll

LEMMA FetchTokensTypes ==
  ASSUME TypeOK, PassInv, FetchTokens
  PROVE  TableTypes' /\ wk' \in WorkerState /\ PassInv'
<1> DEFINE owners == {n.user : n \in wk.batch}
           silent == {n \in wk.batch : TokensOf(n.user) = {}}
           tokens == UNION {{u} \X TokensOf(u) : u \in owners}
           ids == {n.id : n \in silent}
<1>0. UNCHANGED <<tables, now>> /\ TableTypes /\ wk \in WorkerState /\ wk.pc = "tokens"
  BY DEF FetchTokens, TypeOK
<1>1. CASE /\ wk' = [wk EXCEPT !.pc = "send", !.tokens = tokens, !.silent = ids,
                               !.batch = @ \ silent]
           /\ UNCHANGED faults
  <2>1. wk.batch \subseteq Snapshot /\ wk.cur = Nil
    BY <1>0 DEF WorkerState, PassInv
  <2>2. tokens \subseteq Users \X Devices
    BY <1>0, <2>1 DEF TokensOf, TableTypes, Snapshot
  <2>3. ids \subseteq NotifIds /\ Nil \notin ids
    BY <2>1, NilFacts DEF Snapshot
  <2>4. \A n \in wk.batch \ silent : n.id \notin ids
    BY DEF PassInv
  <2> HIDE DEF owners, silent, tokens, ids
  <2>5. wk' \in WorkerState
    BY <1>0, <1>1, <2>2, <2>3 DEF WorkerState
  <2>6. PassInv'
    BY <1>0, <1>1, <2>1, <2>3, <2>4 DEF WorkerState, PassInv
  <2> QED
    BY <1>0, <1>1, <2>5, <2>6 DEF TableTypes, tables
<1>2. CASE Fault /\ wk' = IdleWorker
  BY <1>0, <1>2, FaultType, IdleWorkerFacts DEF TableTypes, tables
<1> QED
  BY <1>1, <1>2 DEF FetchTokens

LEMMA SendTypes ==
  ASSUME TypeOK, PassInv, NEW n \in wk.batch, Send(n)
  PROVE  TableTypes' /\ wk' \in WorkerState /\ PassInv'
         /\ wk'.cur = n.id /\ wk'.batch = wk.batch \ {n} /\ wk'.silent = wk.silent
         /\ wk.cur = Nil
<1> DEFINE T == TokensByUser(n.user)
<1>0. /\ UNCHANGED <<events, devices, now, faults>> /\ CountTry(n.id)
      /\ TableTypes /\ wk \in WorkerState /\ wk.pc = "send"
  BY DEF Send, TypeOK
<1>1. n \in Snapshot /\ wk.cur = Nil
  BY <1>0 DEF WorkerState, PassInv
<1>2. T \subseteq Devices
  BY <1>0 DEF TokensByUser, WorkerState
<1>3. PICK pc \in {"purge", "write"}, verdict \in {"sent", "retry"},
           accepted \in SUBSET Devices, invalid \in SUBSET Devices :
        wk' = [wk EXCEPT !.batch = @ \ {n}, !.user = n.user, !.cur = n.id, !.pc = pc,
                         !.accepted = accepted, !.invalid = invalid, !.purge = invalid,
                         !.verdict = verdict]
  <2> DEFINE sending == [wk EXCEPT !.batch = @ \ {n}, !.user = n.user, !.cur = n.id]
             Outcome(pc, verdict, accepted, invalid) ==
               wk' = [wk EXCEPT !.batch = @ \ {n}, !.user = n.user, !.cur = n.id,
                                !.pc = pc, !.accepted = accepted, !.invalid = invalid,
                                !.purge = invalid, !.verdict = verdict]
             Goal == \E pc \in {"purge", "write"}, verdict \in {"sent", "retry"},
                        accepted \in SUBSET Devices, invalid \in SUBSET Devices :
                       Outcome(pc, verdict, accepted, invalid)
  <2>1. ASSUME wk' = [sending EXCEPT !.pc = "write", !.verdict = "retry"]
        PROVE  Goal
    <3>1. wk.accepted = {} /\ wk.invalid = {} /\ wk.purge = {}
      BY <1>0 DEF PassInv
    <3>2. Outcome("write", "retry", {}, {})
      BY <1>0, <2>1, <3>1 DEF WorkerState
    <3> HIDE DEF Outcome
    <3> QED
      BY <3>2
  <2>2. ASSUME NEW invalid \in SUBSET T, NEW accepted \in SUBSET (T \ invalid),
               wk' = [sending EXCEPT
                        !.pc = IF invalid = {} THEN "write" ELSE "purge",
                        !.accepted = accepted, !.invalid = invalid, !.purge = invalid,
                        !.verdict = Verdict(T, invalid)]
        PROVE  Goal
    <3> DEFINE p == IF invalid = {} THEN "write" ELSE "purge"
               v == Verdict(T, invalid)
    <3>1. p \in {"purge", "write"} /\ v \in {"sent", "retry"}
      BY DEF Verdict
    <3>2. Outcome(p, v, accepted, invalid)
      BY <1>0, <2>2 DEF WorkerState
    <3>3. accepted \in SUBSET Devices /\ invalid \in SUBSET Devices
      BY <1>2
    <3> HIDE DEF Outcome, p, v
    <3> QED
      BY <3>1, <3>2, <3>3
  <2>3. Goal
    <3>1. \/ wk' = [sending EXCEPT !.pc = "write", !.verdict = "retry"]
          \/ \E invalid \in SUBSET T : \E accepted \in SUBSET (T \ invalid) :
               wk' = [sending EXCEPT
                        !.pc = IF invalid = {} THEN "write" ELSE "purge",
                        !.accepted = accepted, !.invalid = invalid, !.purge = invalid,
                        !.verdict = Verdict(T, invalid)]
      BY DEF Send
    <3> HIDE DEF Goal, sending, T
    <3> QED
      BY <2>1, <2>2, <3>1
  <2> QED
    BY <2>3
<1>4. wk' \in WorkerState
  BY <1>0, <1>1, <1>3 DEF WorkerState, Snapshot
<1>5. wk'.cur = n.id /\ wk'.batch = wk.batch \ {n} /\ wk'.silent = wk.silent
  BY <1>0, <1>3 DEF WorkerState
<1>6. PassInv'
  BY <1>0, <1>1, <1>3, <1>5, NilFacts DEF WorkerState, PassInv, Snapshot
<1>7. TableTypes'
  BY <1>0, NotifsTypes DEF TableTypes
<1> QED
  BY <1>1, <1>4, <1>5, <1>6, <1>7

LEMMA PurgeTokenTypes ==
  ASSUME TypeOK, PassInv, NEW d \in wk.purge, PurgeToken(d)
  PROVE  TableTypes' /\ wk' \in WorkerState /\ PassInv'
         /\ wk'.cur = wk.cur /\ wk'.batch = wk.batch /\ wk'.silent = wk.silent
<1>0. UNCHANGED <<events, notifs, now>> /\ TableTypes /\ wk \in WorkerState
      /\ wk.pc = "purge"
  BY DEF PurgeToken, TypeOK
<1>1. wk' \in WorkerState /\ wk'.pc \in {"purge", "write"}
      /\ wk'.cur = wk.cur /\ wk'.batch = wk.batch /\ wk'.silent = wk.silent
  BY <1>0 DEF PurgeToken, WorkerState
<1>2. PassInv'
  BY <1>0, <1>1 DEF PassInv
<1>3. TableTypes'
  BY <1>0, DevicesTypes, FaultType DEF PurgeToken, TableTypes
<1> QED
  BY <1>1, <1>2, <1>3

LEMMA WriteVerdictTypes ==
  ASSUME TypeOK, PassInv, WriteVerdict
  PROVE  TableTypes' /\ wk' \in WorkerState /\ PassInv'
         /\ wk'.cur = Nil /\ wk'.batch = wk.batch /\ wk'.silent = wk.silent
<1>0. UNCHANGED <<events, devices, now>> /\ TableTypes /\ wk \in WorkerState
      /\ wk.pc = "write"
  BY DEF WriteVerdict, TypeOK
<1>1. wk' \in WorkerState /\ wk'.pc = "send"
      /\ wk'.cur = Nil /\ wk'.batch = wk.batch /\ wk'.silent = wk.silent
      /\ wk'.accepted = {} /\ wk'.invalid = {} /\ wk'.purge = {}
  BY <1>0 DEF WriteVerdict, WorkerState, IdleWorker
<1>2. PassInv'
  BY <1>0, <1>1, NilFacts DEF PassInv, WorkerState, Snapshot
<1>3. TableTypes'
  BY <1>0, NotifsTypes, FaultType DEF WriteVerdict, TableTypes
<1> QED
  BY <1>1, <1>2, <1>3

LEMMA FinishPassTypes ==
  ASSUME TypeOK, PassInv, FinishPass
  PROVE  TableTypes' /\ wk' \in WorkerState /\ PassInv'
<1>0. UNCHANGED <<events, devices, now>> /\ TableTypes /\ wk' = IdleWorker
  BY DEF FinishPass, TypeOK
<1>1. TableTypes'
  BY <1>0, NotifsTypes, FaultType DEF FinishPass, TableTypes
<1> QED
  BY <1>0, <1>1, IdleWorkerFacts

LEMMA WorkerTypes ==
  ASSUME TypeOK, PassInv, Sending
  PROVE  TypeOK' /\ PassInv'
<1>1. TableTypes' /\ wk' \in WorkerState /\ PassInv'
  BY PollTypes, FetchTokensTypes, SendTypes, PurgeTokenTypes, WriteVerdictTypes,
     FinishPassTypes DEF Sending, WorkerStep
<1> QED
  BY <1>1 DEF Sending, TypeOK, WriterTypes

----------------------------------------------------------------------------
(* What the worker may rely on while others move: every step of another    *)
(* actor, and a crash, keeps the reminders that stay, adds only reminders  *)
(* whose request was about to insert them, and lets no finished request    *)
(* run again.                                                              *)

Finished(r) == req[r].pc \in {"done", "dead"}

NotifsKept ==
  /\ \A n \in DOMAIN notifs \cap DOMAIN notifs' : notifs'[n] = notifs[n]
  /\ \A n \in DOMAIN notifs' \ DOMAIN notifs :
       /\ n \in NotifIds
       /\ req[n[1]].pc = "insert" /\ req'[n[1]].pc = "done"
       /\ ~notifs'[n].sent /\ notifs'[n].retries = 0 /\ notifs'[n].tries = 0
  /\ \A r \in Requests : Finished(r) => req'[r].pc = req[r].pc
  /\ now' >= now
  /\ faults' >= faults

LEMMA FaultsGrow ==
  ASSUME TypeOK, Fault \/ UNCHANGED faults
  PROVE  faults' >= faults
  BY DEF TypeOK, TableTypes, Fault

(***************************************************************************)
(* A reminder that has a row, or is in a pass, was inserted by a request   *)
(* that has since finished.                                                *)
(***************************************************************************)
PlacedInv == \A n \in InPass \cup DOMAIN notifs : n \in NotifIds /\ req[n[1]].pc = "done"

LEMMA InsertKeeps ==
  ASSUME TypeOK, RequestInv, PlacedInv, NEW r \in Requests, InsertReminders(r)
  PROVE  NotifsKept
<1>0. UNCHANGED <<events, devices, now>> /\ req[r].pc = "insert" /\ now \in Int
      /\ req \in [Requests -> RequestState]
  BY DEF InsertReminders, At, TypeOK, TableTypes, WriterTypes
<1>1. req'[r].pc = "done" /\ \A q \in Requests \ {r} : req'[q] = req[q]
  BY <1>0 DEF InsertReminders, Answer, IdleRequest
<1>2. faults' >= faults
  BY FaultsGrow DEF InsertReminders
<1>3. CASE UNCHANGED notifs
  BY <1>0, <1>1, <1>2, <1>3 DEF NotifsKept, Finished
<1>4. CASE CreateBatch(NewReminders(r))
  <2> DEFINE N == NewReminders(r)
  <2>1. /\ DOMAIN N = {r} \X req[r].slots /\ DOMAIN N \subseteq NotifIds
        /\ \A n \in DOMAIN N : N[n].sent = FALSE /\ N[n].retries = 0 /\ N[n].tries = 0
    BY <1>0, NewRemindersType
  <2>2. \A n \in DOMAIN N : n[1] = r
    BY <2>1
  <2>3. CreateBatch(N)
    BY <1>4
  <2>4. \A n \in DOMAIN N : n \notin DOMAIN notifs
    BY <1>0, <2>2 DEF PlacedInv
  <2> HIDE DEF N
  <2>5. /\ DOMAIN notifs' = DOMAIN notifs \cup DOMAIN N
        /\ \A n \in DOMAIN notifs : notifs'[n] = notifs[n]
        /\ \A n \in DOMAIN N : notifs'[n] = N[n]
    BY <2>3, <2>4 DEF CreateBatch
  <2> QED
    BY <1>0, <1>1, <1>2, <2>1, <2>2, <2>5 DEF NotifsKept, Finished
<1> QED
  BY <1>3, <1>4 DEF InsertReminders

LEMMA OtherRequestStepsKeep ==
  ASSUME TypeOK, RequestInv, NEW r \in Requests, RequestStep(r), ~InsertReminders(r)
  PROVE  NotifsKept
<1>0. now \in Int /\ faults \in Int /\ req \in [Requests -> RequestState]
  BY DEF TypeOK, TableTypes, WriterTypes
<1>1. req[r].pc \notin {"done", "dead"} /\ now' = now /\ (Fault \/ UNCHANGED faults)
  BY DEF RequestStep, Creating, Updating, Deleting, CreateEvent, FindForUpdate, DeleteEvent, SaveEvent, CancelForEvent,
     ScheduleForEvent, At
<1>2. UNCHANGED notifs \/ DeleteByEventID(req[r].event)
  BY DEF RequestStep, Creating, Updating, Deleting, CreateEvent, FindForUpdate, DeleteEvent, SaveEvent, CancelForEvent,
     ScheduleForEvent, tables
<1>3. DOMAIN notifs' \subseteq DOMAIN notifs
      /\ \A n \in DOMAIN notifs' : notifs'[n] = notifs[n]
  BY <1>2 DEF DeleteByEventID, Restrict
<1>4. ASSUME NEW q \in Requests \ {r}
      PROVE  req'[q].pc = req[q].pc
  <2>1. \A op, result : Refuse(r, op, result) => req'[q].pc = req[q].pc
    BY <1>0 DEF Refuse
  <2>2. \A op, e, row, pc : Begin(r, op, e, row, pc) => req'[q].pc = req[q].pc
    <3>1. req[q] \in RequestState
      BY <1>0
    <3>2. ASSUME NEW b \in BOOLEAN
          PROVE  [req[q] EXCEPT !.raced = b].pc = req[q].pc
      BY <3>1 DEF RequestState
    <3>3. ASSUME NEW op, NEW e, NEW row, NEW pc, Begin(r, op, e, row, pc)
          PROVE  req'[q].pc = req[q].pc
      <4> DEFINE b == req[q].raced \/ q \in Writers(e)
      <4>1. req'[q] = [req[q] EXCEPT !.raced = b]
        BY <3>3 DEF Begin
      <4>2. b \in BOOLEAN
        OBVIOUS
      <4> HIDE DEF b
      <4> QED
        BY <3>2, <4>1, <4>2
    <3> QED
      BY <3>3
  <2>3. \A logged : Answer(r, logged) => req'[q].pc = req[q].pc
    BY <1>0 DEF Answer
  <2>4. \A pc : Goto(r, pc) => req'[q].pc = req[q].pc
    BY <1>0 DEF Goto
  <2>5. ScheduleForEvent(r) => req'[q].pc = req[q].pc
    BY <1>0, <2>3 DEF ScheduleForEvent
  <2> QED
    BY <2>1, <2>2, <2>3, <2>4, <2>5
    DEF RequestStep, Creating, Updating, Deleting, CreateEvent, FindForUpdate, DeleteEvent, SaveEvent, CancelForEvent
<1>5. faults' >= faults
  BY <1>1, FaultsGrow
<1> QED
  BY <1>0, <1>1, <1>3, <1>4, <1>5 DEF NotifsKept, Finished

LEMMA OthersKeep ==
  ASSUME TypeOK, RequestInv, PlacedInv, Writing \/ Registering \/ TimePasses \/ Crash
  PROVE  NotifsKept /\ (wk' = wk \/ (wk' = IdleWorker /\ faults' = faults + 1))
<1>0. now \in Int /\ faults \in Int /\ req \in [Requests -> RequestState]
  BY DEF TypeOK, TableTypes, WriterTypes
<1>1. CASE Writing
  BY <1>1, InsertKeeps, OtherRequestStepsKeep DEF Writing
<1>2. CASE Registering
  <2>1. UNCHANGED <<notifs, now, faults, req, wk>>
    BY <1>2 DEF Registering, DeviceStep, RegisterDevice, UnregisterDevice,
       DeleteAccountTokens
  <2> QED
    BY <1>0, <2>1 DEF NotifsKept
<1>3. CASE TimePasses
  BY <1>0, <1>3 DEF TimePasses, Tick, tables, NotifsKept
<1>4. CASE Crash
  <2>1. UNCHANGED <<notifs, now>> /\ wk' = IdleWorker /\ faults' = faults + 1
    BY <1>4 DEF Crash, Fault, tables
  <2>2. \A r \in Requests : Finished(r) => req'[r].pc = req[r].pc
    BY <1>0, <1>4 DEF Crash, WritersDie, Finished, Running
  <2> QED
    BY <1>0, <2>1, <2>2 DEF NotifsKept
<1> QED
  BY <1>1, <1>2, <1>3, <1>4

----------------------------------------------------------------------------
(* The inductive invariant *)

(***************************************************************************)
(* The heart of the argument: a pass works on snapshots, yet whatever it   *)
(* has not dealt with is still unsettled and due in the table, because     *)
(* only the one pass settles reminders.                                    *)
(***************************************************************************)
FreshInv == \A n \in InPass \cap DOMAIN notifs : Unsettled(n) /\ Due(n)

(***************************************************************************)
(* Each attempt is paid for by a retry, by a fault, or by the status write *)
(* that ends it or is about to.                                            *)
(***************************************************************************)
CountInv ==
  \A n \in DOMAIN notifs :
    /\ notifs[n].tries <= notifs[n].retries + faults + 1
    /\ ~notifs[n].sent /\ n # wk.cur => notifs[n].tries <= notifs[n].retries + faults
    /\ notifs[n].retries <= RetryLimit
    /\ notifs[n].sent => notifs[n].retries < RetryLimit
    /\ notifs[n].sent \/ notifs[n].retries > 0 \/ notifs[n].tries > 0 => Due(n)

Inv == TypeOK /\ RequestInv /\ PassInv /\ PlacedInv /\ FreshInv /\ CountInv

LEMMA RowFacts ==
  ASSUME TypeOK, NEW n \in DOMAIN notifs
  PROVE  /\ n \in NotifIds
         /\ notifs[n] \in NotifRow
         /\ notifs[n].tries \in Nat /\ notifs[n].retries \in Nat
         /\ notifs[n].sent \in BOOLEAN /\ notifs[n].notifyAt \in Int
         /\ now \in Int /\ faults \in Nat
  BY BoundsAssumption DEF TypeOK, TableTypes, NotifRow

LEMMA InitInv == Init => Inv
<1> SUFFICES ASSUME Init PROVE Inv
  OBVIOUS
<1>1. TableTypes
  BY BoundsAssumption DEF Init, StoreInit, TableTypes
<1>2. IdleRequest \in RequestState /\ IdleRequest.pc = "idle"
  BY DEF IdleRequest, RequestState
<1>3. WriterTypes
  BY <1>2 DEF Init, WriterInit, WriterTypes
<1>4. wk = IdleWorker
  BY DEF Init, WorkerInit
<1>5. wk \in WorkerState /\ PassInv /\ InPass = {}
  BY <1>4 DEF IdleWorker, WorkerState, PassInv, InPass
<1>6. RequestInv
  BY <1>2 DEF Init, WriterInit, RequestInv, Running
<1>7. DOMAIN notifs = {}
  BY DEF Init, StoreInit
<1>8. PlacedInv /\ FreshInv /\ CountInv
  BY <1>5, <1>7 DEF PlacedInv, FreshInv, CountInv
<1> QED
  BY <1>1, <1>3, <1>5, <1>6, <1>8 DEF TypeOK, Inv

LEMMA NotTried ==
  ASSUME NEW f \in Nat
  PROVE  0 <= 0 + f /\ 0 <= 0 + f + 1 /\ ~(0 > 0)
  OBVIOUS

LEMMA OthersKeepInv ==
  ASSUME Inv, TypeOK', Writing \/ Registering \/ TimePasses \/ Crash
  PROVE  PassInv' /\ PlacedInv' /\ FreshInv' /\ CountInv'
<1>1. NotifsKept /\ (wk' = wk \/ (wk' = IdleWorker /\ faults' = faults + 1))
  BY OthersKeep DEF Inv
<1>2. TypeOK /\ RequestInv /\ PassInv /\ PlacedInv /\ FreshInv /\ CountInv
  BY DEF Inv
<1>3. PassInv' /\ InPass' \subseteq InPass /\ wk'.cur \in {wk.cur, Nil}
  <2>1. CASE wk' = wk
    BY <1>2, <2>1 DEF PassInv, InPass
  <2>2. CASE wk' = IdleWorker
    BY <2>2, IdleWorkerFacts DEF IdleWorker, InPass
  <2> QED
    BY <1>1, <2>1, <2>2
<1>4. \A n \in InPass \cup DOMAIN notifs : n \in NotifIds /\ req'[n[1]].pc = "done"
  BY <1>1, <1>2 DEF NotifsKept, PlacedInv, Finished, NotifIds
<1>5. PlacedInv'
  BY <1>1, <1>3, <1>4 DEF NotifsKept, PlacedInv
<1>6. \A n \in DOMAIN notifs' \ DOMAIN notifs : n \notin InPass
  BY <1>1, <1>2 DEF NotifsKept, PlacedInv
<1>7. ASSUME NEW n \in InPass' \cap DOMAIN notifs'
      PROVE  (Unsettled(n) /\ Due(n))'
  <2>1. n \in InPass \cap DOMAIN notifs /\ notifs'[n] = notifs[n] /\ now' >= now
    BY <1>1, <1>3, <1>6 DEF NotifsKept
  <2>2. Unsettled(n) /\ Due(n)
    BY <1>2, <2>1 DEF FreshInv
  <2>3. now' \in Int
    BY DEF TypeOK, TableTypes
  <2> QED
    BY <1>2, <2>1, <2>2, <2>3, RowFacts DEF Unsettled, Due
<1>8. ASSUME NEW n \in DOMAIN notifs'
      PROVE  /\ notifs'[n].tries <= notifs'[n].retries + faults' + 1
             /\ ~notifs'[n].sent /\ n # wk'.cur =>
                  notifs'[n].tries <= notifs'[n].retries + faults'
             /\ notifs'[n].retries <= RetryLimit
             /\ notifs'[n].sent => notifs'[n].retries < RetryLimit
             /\ notifs'[n].sent \/ notifs'[n].retries > 0 \/ notifs'[n].tries > 0 => Due(n)'
  <2>0. now' \in Int /\ faults' \in Nat /\ now' >= now /\ faults' >= faults
    BY <1>1, BoundsAssumption DEF TypeOK, TableTypes, NotifsKept
  <2>1. CASE n \in DOMAIN notifs
    <3>1. notifs'[n] = notifs[n]
      BY <1>1, <2>1 DEF NotifsKept
    <3>2. /\ notifs[n].tries \in Nat /\ notifs[n].retries \in Nat
          /\ notifs[n].notifyAt \in Int /\ now \in Int /\ faults \in Nat
      BY <1>2, <2>1, RowFacts
    <3>3. /\ notifs[n].tries <= notifs[n].retries + faults + 1
          /\ ~notifs[n].sent /\ n # wk.cur => notifs[n].tries <= notifs[n].retries + faults
          /\ notifs[n].retries <= RetryLimit
          /\ notifs[n].sent => notifs[n].retries < RetryLimit
          /\ notifs[n].sent \/ notifs[n].retries > 0 \/ notifs[n].tries > 0 => Due(n)
      BY <1>2, <2>1 DEF CountInv
    <3>4. wk'.cur # wk.cur => faults' = faults + 1
      BY <1>1
    <3>5. Due(n) => Due(n)'
      BY <2>0, <3>1, <3>2 DEF Due
    <3> QED
      BY <2>0, <3>1, <3>2, <3>3, <3>4, <3>5
  <2>2. CASE n \notin DOMAIN notifs
    <3>1. ~notifs'[n].sent /\ notifs'[n].retries = 0 /\ notifs'[n].tries = 0
      BY <1>1, <2>2 DEF NotifsKept
    <3>2. 0 <= 0 + faults' /\ 0 <= 0 + faults' + 1 /\ ~(0 > 0)
      BY <2>0, NotTried, Zenon
    <3>3. 0 <= RetryLimit
      BY BoundsAssumption
    <3> QED
      BY <3>1, <3>2, <3>3, Zenon
  <2> QED
    BY <2>1, <2>2
<1> QED
  BY <1>3, <1>5, <1>7, <1>8 DEF FreshInv, CountInv

----------------------------------------------------------------------------
(* The worker's own steps *)

\* No row is touched, and nothing new enters the pass.
LEMMA QuietWorkerStep ==
  ASSUME Inv, TypeOK', UNCHANGED <<notifs, now, req>>, faults' >= faults,
         wk'.cur = wk.cur, \A n \in InPass' : n \in InPass \/ n \in PendingIds
  PROVE  PlacedInv' /\ FreshInv' /\ CountInv'
<1>1. TypeOK /\ PlacedInv /\ FreshInv /\ CountInv
  BY DEF Inv
<1>2. PlacedInv'
  BY <1>1 DEF PlacedInv, PendingIds
<1>3. FreshInv'
  BY <1>1 DEF FreshInv, PendingIds, Unsettled, Due
<1>4. ASSUME NEW n \in DOMAIN notifs
      PROVE  /\ notifs[n].tries <= notifs[n].retries + faults' + 1
             /\ ~notifs[n].sent /\ n # wk.cur => notifs[n].tries <= notifs[n].retries + faults'
  <2>1. notifs[n].tries \in Nat /\ notifs[n].retries \in Nat /\ faults \in Nat
        /\ faults' \in Nat
    BY <1>1, RowFacts, BoundsAssumption DEF TypeOK, TableTypes
  <2> QED
    BY <1>1, <2>1 DEF CountInv
<1>5. CountInv'
  BY <1>1, <1>4 DEF CountInv, Due
<1> QED
  BY <1>2, <1>3, <1>5

LEMMA PollInv ==
  ASSUME Inv, TypeOK', Poll, UNCHANGED <<req, clean>>
  PROVE  PlacedInv' /\ FreshInv' /\ CountInv'
<1>1. UNCHANGED <<notifs, now, req>> /\ faults' >= faults /\ wk \in WorkerState
      /\ wk.pc = "idle" /\ wk.silent = {} /\ wk.cur = Nil
  BY FaultsGrow DEF Poll, tables, Inv, TypeOK, PassInv
<1>2. CASE UNCHANGED wk
  BY <1>1, <1>2, QuietWorkerStep DEF InPass
<1>3. ASSUME NEW S \in FindPending,
             wk' = [wk EXCEPT
                      !.pc = "tokens",
                      !.batch = {[id |-> n, user |-> notifs[n].user,
                                  notifyAt |-> notifs[n].notifyAt] : n \in S}]
      PROVE  PlacedInv' /\ FreshInv' /\ CountInv'
  <2>1. wk'.cur = Nil /\ wk'.silent = {}
        /\ wk'.batch = {[id |-> n, user |-> notifs[n].user,
                         notifyAt |-> notifs[n].notifyAt] : n \in S}
    BY <1>1, <1>3 DEF WorkerState
  <2>2. \A b \in wk'.batch : b.id \in S
    BY <2>1
  <2>3. \A n \in InPass' : n \in PendingIds
    BY <2>1, <2>2 DEF InPass, FindPending
  <2> QED
    BY <1>1, <2>1, <2>3, QuietWorkerStep
<1> QED
  BY <1>2, <1>3 DEF Poll

LEMMA FetchTokensInv ==
  ASSUME Inv, TypeOK', FetchTokens, UNCHANGED <<req, clean>>
  PROVE  PlacedInv' /\ FreshInv' /\ CountInv'
<1>1. UNCHANGED <<notifs, now, req>> /\ faults' >= faults /\ wk \in WorkerState
      /\ wk.pc = "tokens" /\ wk.cur = Nil
  BY FaultsGrow DEF FetchTokens, tables, Inv, TypeOK, PassInv
<1>2. wk'.cur = Nil /\ \A n \in InPass' : n \in InPass
  <2> DEFINE silent == {n \in wk.batch : TokensOf(n.user) = {}}
             tokens == UNION {{u} \X TokensOf(u) : u \in {n.user : n \in wk.batch}}
  <2>1. CASE wk' = IdleWorker
    BY <2>1 DEF IdleWorker, InPass
  <2>2. CASE wk' = [wk EXCEPT !.pc = "send", !.tokens = tokens,
                              !.silent = {n.id : n \in silent}, !.batch = @ \ silent]
    <3>1. wk'.cur = Nil /\ wk'.silent = {n.id : n \in silent}
          /\ wk'.batch = wk.batch \ silent
      BY <1>1, <2>2 DEF WorkerState
    <3> QED
      BY <3>1 DEF InPass
  <2> QED
    BY <2>1, <2>2 DEF FetchTokens
<1> QED
  BY <1>1, <1>2, QuietWorkerStep

LEMMA SendInv ==
  ASSUME Inv, TypeOK', NEW n \in wk.batch, Send(n), UNCHANGED <<req, clean>>
  PROVE  PlacedInv' /\ FreshInv' /\ CountInv'
<1>0. TypeOK /\ PassInv /\ PlacedInv /\ FreshInv /\ CountInv
  BY SMTT(30) DEF Inv
<1>1. /\ UNCHANGED <<now, faults, req>>
      /\ CountTry(n.id)
      /\ wk'.cur = n.id /\ wk'.batch = wk.batch \ {n} /\ wk'.silent = wk.silent
      /\ wk.cur = Nil
  BY <1>0, SendTypes DEF Send
<1>2. /\ DOMAIN notifs' = DOMAIN notifs
      /\ \A m \in DOMAIN notifs :
           /\ m # n.id => notifs'[m] = notifs[m]
           /\ m = n.id => notifs'[m] = [notifs[m] EXCEPT !.tries = @ + 1]
  BY <1>1 DEF CountTry
<1>3. n.id \in InPass /\ \A m \in InPass' : m \in InPass
  BY <1>1 DEF InPass
<1>4. PlacedInv'
  BY <1>0, <1>1, <1>2, <1>3 DEF PlacedInv
<1>5. ASSUME NEW m \in DOMAIN notifs
      PROVE  /\ notifs'[m].sent = notifs[m].sent /\ notifs'[m].retries = notifs[m].retries
             /\ notifs'[m].notifyAt = notifs[m].notifyAt
             /\ notifs'[m].tries = IF m = n.id THEN notifs[m].tries + 1 ELSE notifs[m].tries
  BY <1>0, <1>2, RowFacts DEF NotifRow
<1>6. FreshInv'
  BY <1>0, <1>1, <1>2, <1>3, <1>5 DEF FreshInv, Unsettled, Due
<1>7. ASSUME NEW m \in DOMAIN notifs
      PROVE  /\ notifs'[m].tries <= notifs'[m].retries + faults + 1
             /\ ~notifs'[m].sent /\ m # n.id => notifs'[m].tries <= notifs'[m].retries + faults
             /\ notifs'[m].sent \/ notifs'[m].retries > 0 \/ notifs'[m].tries > 0 => Due(m)
  <2>1. notifs[m].tries \in Nat /\ notifs[m].retries \in Nat /\ faults \in Nat
    BY <1>0, RowFacts
  <2>2. /\ notifs[m].tries <= notifs[m].retries + faults + 1
        /\ ~notifs[m].sent /\ m # wk.cur => notifs[m].tries <= notifs[m].retries + faults
        /\ notifs[m].sent \/ notifs[m].retries > 0 \/ notifs[m].tries > 0 => Due(m)
    BY <1>0 DEF CountInv
  <2>3. CASE m = n.id
    <3>1. Unsettled(m) /\ Due(m) /\ m # wk.cur
      BY <1>0, <1>3, <2>3 DEF FreshInv, PassInv
    <3> QED
      BY <1>5, <2>1, <2>2, <2>3, <3>1 DEF Unsettled
  <2>4. CASE m # n.id
    <3>1. m # wk.cur
      BY <1>0, <1>1, NilFacts, RowFacts
    <3> QED
      BY <1>5, <2>1, <2>2, <2>4, <3>1
  <2> QED
    BY <2>3, <2>4
<1>8. CountInv'
  BY <1>0, <1>1, <1>2, <1>5, <1>7 DEF CountInv, Due
<1> QED
  BY <1>4, <1>6, <1>8

LEMMA PurgeTokenInv ==
  ASSUME Inv, TypeOK', NEW d \in wk.purge, PurgeToken(d), UNCHANGED <<req, clean>>
  PROVE  PlacedInv' /\ FreshInv' /\ CountInv'
<1>1. UNCHANGED <<notifs, now, req>> /\ faults' >= faults
  BY FaultsGrow DEF PurgeToken, Inv
<1>2. wk'.cur = wk.cur /\ wk'.batch = wk.batch /\ wk'.silent = wk.silent
  BY PurgeTokenTypes DEF Inv
<1> QED
  BY <1>1, <1>2, QuietWorkerStep DEF InPass

\* Reminders are settled only while they are in the pass, and leave it.
LEMMA SettlingStep ==
  ASSUME Inv, TypeOK', NEW S \in SUBSET InPass,
         UNCHANGED <<now, req>>, wk'.cur = Nil, InPass' \subseteq InPass \ S,
         \/ UNCHANGED notifs /\ faults' = faults + 1
         \/ MarkSent(S) /\ UNCHANGED faults
         \/ \E i \in S : S = {i} /\ IncrementRetries(i) /\ UNCHANGED faults,
         wk.cur = Nil \/ wk.cur \in S
  PROVE  PlacedInv' /\ FreshInv' /\ CountInv'
<1>0. TypeOK /\ PassInv /\ PlacedInv /\ FreshInv /\ CountInv
  BY DEF Inv
<1>1. /\ DOMAIN notifs' = DOMAIN notifs
      /\ \A n \in DOMAIN notifs \ S : notifs'[n] = notifs[n]
  BY DEF MarkSent, IncrementRetries
<1>2. PlacedInv'
  BY <1>0, <1>1 DEF PlacedInv
<1>3. FreshInv'
  BY <1>0, <1>1 DEF FreshInv, Unsettled, Due
<1>4. ASSUME NEW n \in DOMAIN notifs
      PROVE  /\ notifs'[n].tries <= notifs'[n].retries + faults' + 1
             /\ ~notifs'[n].sent => notifs'[n].tries <= notifs'[n].retries + faults'
             /\ notifs'[n].retries <= RetryLimit
             /\ notifs'[n].sent => notifs'[n].retries < RetryLimit
             /\ notifs'[n].sent \/ notifs'[n].retries > 0 \/ notifs'[n].tries > 0 => Due(n)'
  <2>1. /\ notifs[n].tries \in Nat /\ notifs[n].retries \in Nat /\ faults \in Nat
        /\ notifs[n] \in NotifRow
    BY <1>0, RowFacts
  <2>2. /\ notifs[n].tries <= notifs[n].retries + faults + 1
        /\ ~notifs[n].sent /\ n # wk.cur => notifs[n].tries <= notifs[n].retries + faults
        /\ notifs[n].retries <= RetryLimit
        /\ notifs[n].sent => notifs[n].retries < RetryLimit
        /\ notifs[n].sent \/ notifs[n].retries > 0 \/ notifs[n].tries > 0 => Due(n)
    BY <1>0 DEF CountInv
  <2>3. n \in S => Unsettled(n) /\ Due(n)
    BY <1>0 DEF FreshInv
  <2>4. notifs'[n].notifyAt = notifs[n].notifyAt
    BY <1>1, <2>1 DEF MarkSent, IncrementRetries, NotifRow
  <2>5. Due(n)' <=> Due(n)
    BY <2>4 DEF Due
  <2>6. CASE UNCHANGED notifs /\ faults' = faults + 1
    BY <2>1, <2>2, <2>5, <2>6
  <2>7. CASE MarkSent(S) /\ UNCHANGED faults
    <3>1. CASE n \in S
      <4>1. notifs'[n].sent = TRUE /\ notifs'[n].retries = notifs[n].retries
            /\ notifs'[n].tries = notifs[n].tries
        BY <2>1, <2>7, <3>1 DEF MarkSent, NotifRow
      <4> QED
        BY <2>1, <2>2, <2>3, <2>5, <2>7, <3>1, <4>1 DEF Unsettled
    <3>2. CASE n \notin S
      <4>1. notifs'[n] = notifs[n] /\ n # wk.cur
        BY <1>0, <1>1, <3>2, NilFacts, RowFacts
      <4> QED
        BY <2>1, <2>2, <2>5, <2>7, <4>1
    <3> QED
      BY <3>1, <3>2
  <2>8. ASSUME NEW i \in S, S = {i}, IncrementRetries(i), UNCHANGED faults
        PROVE  /\ notifs'[n].tries <= notifs'[n].retries + faults' + 1
               /\ ~notifs'[n].sent => notifs'[n].tries <= notifs'[n].retries + faults'
               /\ notifs'[n].retries <= RetryLimit
               /\ notifs'[n].sent => notifs'[n].retries < RetryLimit
               /\ notifs'[n].sent \/ notifs'[n].retries > 0 \/ notifs'[n].tries > 0 => Due(n)'
    <3>1. CASE n = i
      <4>1. notifs'[n].sent = notifs[n].sent /\ notifs'[n].retries = notifs[n].retries + 1
            /\ notifs'[n].tries = notifs[n].tries
        BY <2>1, <2>8, <3>1 DEF IncrementRetries, NotifRow
      <4>2. ~notifs[n].sent /\ notifs[n].retries < RetryLimit /\ Due(n)
        BY <2>3, <3>1 DEF Unsettled
      <4> QED
        BY <2>1, <2>2, <2>5, <2>8, <4>1, <4>2, BoundsAssumption
    <3>2. CASE n # i
      <4>1. notifs'[n] = notifs[n] /\ n # wk.cur
        BY <1>0, <1>1, <2>8, <3>2, NilFacts, RowFacts
      <4> QED
        BY <2>1, <2>2, <2>5, <2>8, <4>1
    <3> QED
      BY <3>1, <3>2
  <2> QED
    BY <2>6, <2>7, <2>8
<1>5. CountInv'
  BY <1>1, <1>4 DEF CountInv
<1> QED
  BY <1>2, <1>3, <1>5

LEMMA WriteVerdictInv ==
  ASSUME Inv, TypeOK', WriteVerdict, UNCHANGED <<req, clean>>
  PROVE  PlacedInv' /\ FreshInv' /\ CountInv'
<1>0. TypeOK /\ PassInv /\ wk.pc = "write" /\ wk.cur # Nil
  BY DEF Inv, WriteVerdict, PassInv
<1>1. wk'.cur = Nil /\ wk'.batch = wk.batch /\ wk'.silent = wk.silent
  BY <1>0, WriteVerdictTypes
<1>2. {wk.cur} \subseteq InPass /\ InPass' \subseteq InPass \ {wk.cur}
  BY <1>0, <1>1 DEF InPass, PassInv
<1>3. \/ UNCHANGED notifs /\ faults' = faults + 1
      \/ MarkSent({wk.cur}) /\ UNCHANGED faults
      \/ IncrementRetries(wk.cur) /\ UNCHANGED faults
  BY DEF WriteVerdict, Fault
<1> QED
  BY <1>1, <1>2, <1>3, SettlingStep DEF WriteVerdict

LEMMA FinishPassInv ==
  ASSUME Inv, TypeOK', FinishPass, UNCHANGED <<req, clean>>
  PROVE  PlacedInv' /\ FreshInv' /\ CountInv'
<1>0. TypeOK /\ PassInv /\ wk.pc = "send" /\ wk.cur = Nil
  BY DEF Inv, FinishPass, PassInv
<1>1. wk'.cur = Nil /\ InPass' = {}
  BY DEF FinishPass, IdleWorker, InPass
<1>2. wk.silent \in SUBSET InPass
  BY DEF InPass
<1>3. \/ UNCHANGED notifs /\ faults' = faults + 1
      \/ MarkSent(wk.silent) /\ UNCHANGED faults
  BY DEF FinishPass, Fault
<1> QED
  BY <1>0, <1>1, <1>2, <1>3, SettlingStep DEF FinishPass

LEMMA SendingInv ==
  ASSUME Inv, Sending
  PROVE  Inv'
<1>1. TypeOK /\ PassInv /\ RequestInv /\ UNCHANGED <<req, clean>>
  BY DEF Inv, Sending
<1>2. TypeOK' /\ PassInv'
  BY <1>1, WorkerTypes
<1>3. RequestInv'
  BY <1>1 DEF RequestInv
<1>4. PlacedInv' /\ FreshInv' /\ CountInv'
  BY <1>1, <1>2, PollInv, FetchTokensInv, SendInv, PurgeTokenInv, WriteVerdictInv,
     FinishPassInv DEF Sending, WorkerStep
<1> QED
  BY <1>2, <1>3, <1>4 DEF Inv

LEMMA OthersInv ==
  ASSUME Inv, Writing \/ Registering \/ TimePasses \/ Crash
  PROVE  Inv'
<1>0. TypeOK /\ RequestInv
  BY DEF Inv
<1>1. TypeOK' /\ RequestInv'
  <2>1. CASE Writing
    BY <1>0, <2>1, WritingTypes
  <2>2. CASE Registering
    <3>1. UNCHANGED <<events, notifs, now, faults, req, clean, wk>>
      BY <2>2 DEF Registering, DeviceStep, RegisterDevice, UnregisterDevice,
         DeleteAccountTokens
    <3>2. devices' \in [DOMAIN devices' -> Users] /\ DOMAIN devices' \subseteq Devices
      BY <1>0, <2>2, DevicesTypes DEF Registering, DeviceStep, RegisterDevice,
         UnregisterDevice, DeleteAccountTokens
    <3> QED
      BY <1>0, <3>1, <3>2 DEF TypeOK, TableTypes, WriterTypes, RequestInv
  <2>3. CASE TimePasses
    <3>1. UNCHANGED <<events, notifs, devices, faults, req, clean, wk>>
          /\ now' \in 0 .. MaxTime
      BY <1>0, <2>3, BoundsAssumption DEF TimePasses, Tick, tables, TypeOK, TableTypes
    <3> QED
      BY <1>0, <3>1 DEF TypeOK, TableTypes, WriterTypes, RequestInv
  <2>4. CASE Crash
    <3>1. UNCHANGED <<events, notifs, devices, now>> /\ wk' = IdleWorker
          /\ faults' \in 0 .. MaxFaults
      BY <1>0, <2>4, FaultType DEF Crash, tables
    <3>2. TableTypes' /\ wk' \in WorkerState
      BY <1>0, <3>1, IdleWorkerFacts DEF TypeOK, TableTypes
    <3>3. ASSUME NEW r \in Requests
          PROVE  /\ req'[r] \in RequestState
                 /\ req'[r].pc \notin Running
      <4>1. req[r] \in RequestState
        BY <1>0 DEF TypeOK, WriterTypes
      <4>2. [IdleRequest EXCEPT !.pc = "dead", !.op = req[r].op] \in RequestState
        BY <4>1 DEF IdleRequest, RequestState
      <4>3. [IdleRequest EXCEPT !.pc = "dead", !.op = req[r].op].pc = "dead"
        BY DEF IdleRequest
      <4> QED
        BY <2>4, <4>1, <4>2, <4>3 DEF Crash, WritersDie, Running
    <3>4. WriterTypes'
      BY <1>0, <2>4, <3>3 DEF Crash, WritersDie, TypeOK, WriterTypes
    <3> QED
      BY <3>2, <3>3, <3>4 DEF TypeOK, RequestInv, Running
  <2> QED
    BY <2>1, <2>2, <2>3, <2>4
<1> QED
  BY <1>1, OthersKeepInv DEF Inv

----------------------------------------------------------------------------
(* The theorems *)

(* The inductive invariant holds of every run of the subsystem.            *)
THEOREM Invariance == Spec => []Inv
<1>1. Inv /\ [Next]_vars => Inv'
  <2> SUFFICES ASSUME Inv, [Next]_vars PROVE Inv'
    OBVIOUS
  <2>1. CASE UNCHANGED vars
    BY <2>1 DEF vars, Inv, TypeOK, TableTypes, WriterTypes, RequestInv, PassInv, PlacedInv,
       FreshInv, CountInv, InPass, Unsettled, Due
  <2> QED
    BY <2>1, SendingInv, OthersInv DEF Next
<1> QED
  BY <1>1, InitInv, PTL DEF Spec

(* Every table, request and worker snapshot keeps its type.                *)
THEOREM TypeCorrect == Spec => []TypeOK
<1>1. Inv => TypeOK
  BY DEF Inv
<1> QED
  BY <1>1, Invariance, PTL

(* FCM is called for a reminder at most RetryLimit times, plus once a      *)
(* fault, for any number of users, devices, requests and reminders and any *)
(* batch size: no interleaving with writers, device changes and restarts   *)
(* makes a reminder go out more often.                                     *)
THEOREM AttemptsAreBounded == Spec => []AttemptsBounded
<1>1. Inv => AttemptsBounded
  <2> SUFFICES ASSUME Inv, NEW n \in DOMAIN notifs
               PROVE  notifs[n].tries <= RetryLimit + faults
    BY DEF AttemptsBounded
  <2>1. /\ notifs[n].tries <= notifs[n].retries + faults + 1
        /\ ~notifs[n].sent /\ n # wk.cur => notifs[n].tries <= notifs[n].retries + faults
        /\ notifs[n].retries <= RetryLimit
        /\ notifs[n].sent => notifs[n].retries < RetryLimit
    BY DEF Inv, CountInv
  <2>2. notifs[n].tries \in Nat /\ notifs[n].retries \in Nat /\ faults \in Nat
        /\ n \in NotifIds
    BY RowFacts DEF Inv
  <2>3. n = wk.cur => notifs[n].retries < RetryLimit
    <3>1. n = wk.cur => n \in InPass
      BY <2>2, NilFacts DEF InPass
    <3> QED
      BY <3>1 DEF Inv, FreshInv, Unsettled
  <2> QED
    BY <2>1, <2>2, <2>3, BoundsAssumption
<1> QED
  BY <1>1, Invariance, PTL

(* No reminder is tried, counted or marked before its time.                *)
THEOREM NothingEarly == Spec => []NeverEarly
<1>1. Inv => NeverEarly
  BY SMTT(30) DEF Inv, CountInv, NeverEarly
<1> QED
  BY <1>1, Invariance, PTL

\* The worker touches only what is in its pass.
LEMMA WorkerTouches ==
  ASSUME Inv, Sending
  PROVE  /\ DOMAIN notifs' = DOMAIN notifs
         /\ \A n \in DOMAIN notifs : n \notin InPass => notifs'[n] = notifs[n]
<1>1. CASE UNCHANGED notifs
  BY <1>1
<1>2. ASSUME NEW n \in wk.batch, CountTry(n.id)
      PROVE  /\ DOMAIN notifs' = DOMAIN notifs
             /\ \A m \in DOMAIN notifs : m \notin InPass => notifs'[m] = notifs[m]
  BY <1>2 DEF CountTry, InPass
<1>3. CASE WriteVerdict
  <2>1. wk.cur # Nil
    BY <1>3 DEF WriteVerdict, Inv, PassInv
  <2> QED
    BY <1>3, <2>1 DEF WriteVerdict, MarkSent, IncrementRetries, InPass
<1>4. CASE FinishPass
  BY <1>4 DEF FinishPass, MarkSent, InPass
<1> QED
  BY <1>1, <1>2, <1>3, <1>4
  DEF Sending, WorkerStep, Poll, FetchTokens, Send, PurgeToken, tables

(* A reminder that is settled is never touched again, only deleted.        *)
THEOREM SettledForGood == Spec => SettledIsFinal
<1>1. Inv /\ [Next]_vars =>
        [\A n \in DOMAIN notifs \cap DOMAIN notifs' :
           ~Unsettled(n) => notifs'[n] = notifs[n]]_vars
  <2> SUFFICES ASSUME Inv, Next, NEW n \in DOMAIN notifs \cap DOMAIN notifs',
                      ~Unsettled(n)
               PROVE  notifs'[n] = notifs[n]
    OBVIOUS
  <2>1. CASE Sending
    BY <2>1, WorkerTouches DEF Inv, FreshInv
  <2>2. CASE Writing \/ Registering \/ TimePasses \/ Crash
    BY <2>2, OthersKeep DEF Inv, NotifsKept
  <2> QED
    BY <2>1, <2>2 DEF Next
<1> QED
  BY <1>1, Invariance, PTL DEF Spec, SettledIsFinal

----------------------------------------------------------------------------
(* Refinement of ReminderLifecycle *)

LEMMA StageFacts ==
  ASSUME NEW n \in NotifIds
  PROVE  /\ StageOf(n) \in Lifecycle!Stages
         /\ StageOf(n)' \in Lifecycle!Stages
  BY DEF StageOf, Lifecycle!Stages

LEMMA MoveStep ==
  ASSUME NEW S \in SUBSET NotifIds, NEW from, NEW to,
         \A n \in S : StageOf(n) \in from /\ StageOf(n)' \in to,
         \A n \in NotifIds \ S : StageOf(n)' = StageOf(n)
  PROVE  Lifecycle!Move(S, from, to)
  BY StageFacts DEF Lifecycle!Move

LEMMA DropStep ==
  ASSUME \A n \in NotifIds : StageOf(n)' \in {StageOf(n), "gone"}
  PROVE  Lifecycle!Next
<1> DEFINE S == {n \in NotifIds : StageOf(n)' # StageOf(n)}
<1>1. Lifecycle!Move(S, Lifecycle!Stages, {"gone"})
  BY StageFacts, MoveStep
<1> QED
  BY <1>1 DEF Lifecycle!Next, Lifecycle!Drop

\* Requests that end without inserting, deletions and crashes.
LEMMA OthersDrop ==
  ASSUME Inv, NotifsKept, now' = now, DOMAIN notifs' \subseteq DOMAIN notifs,
         \A r \in Requests : req[r].pc = "done" => req'[r].pc = "done"
  PROVE  Lifecycle!Next
<1>1. ASSUME NEW n \in NotifIds
      PROVE  StageOf(n)' \in {StageOf(n), "gone"}
  <2>1. n[1] \in Requests
    BY DEF NotifIds
  <2>2. CASE n \in DOMAIN notifs'
    BY <2>2 DEF NotifsKept, StageOf, Unsettled, Due
  <2>3. CASE n \in DOMAIN notifs /\ n \notin DOMAIN notifs'
    BY <2>1, <2>3 DEF Inv, PlacedInv, StageOf
  <2>4. CASE n \notin DOMAIN notifs
    BY <2>1, <2>4 DEF NotifsKept, Finished, StageOf
  <2> QED
    BY <2>2, <2>3, <2>4
<1> QED
  BY <1>1, DropStep

LEMMA InsertSchedules ==
  ASSUME Inv, NEW r \in Requests, InsertReminders(r)
  PROVE  Lifecycle!Next
<1>0. /\ TypeOK /\ RequestInv /\ PlacedInv /\ NotifsKept
      /\ req[r].pc = "insert" /\ now' = now
      /\ req'[r].pc = "done" /\ \A q \in Requests \ {r} : req'[q] = req[q]
  BY InsertKeeps DEF Inv, InsertReminders, At, Answer, IdleRequest, TypeOK, WriterTypes
<1> DEFINE S == DOMAIN notifs' \ DOMAIN notifs
           D == {n \in NotifIds : n[1] = r} \ S
<1>1. DOMAIN notifs \subseteq DOMAIN notifs'
  BY DEF InsertReminders, CreateBatch
<1>2. ASSUME NEW n \in NotifIds, n[1] = r
      PROVE  n \notin DOMAIN notifs /\ StageOf(n) = "none"
  BY <1>0, <1>2 DEF PlacedInv, StageOf
<1>3. ASSUME NEW n \in S
      PROVE  n \in NotifIds /\ StageOf(n) = "none" /\ StageOf(n)' \in {"waiting", "due"}
  <2>1. /\ n \in NotifIds /\ req[n[1]].pc = "insert" /\ req'[n[1]].pc = "done"
        /\ n[1] \in Requests
        /\ ~notifs'[n].sent /\ notifs'[n].retries = 0
    BY <1>0 DEF NotifsKept, NotifIds
  <2>2. n[1] = r
    BY <1>0, <2>1
  <2>3. Unsettled(n)'
    BY <2>1, BoundsAssumption DEF Unsettled
  <2> QED
    BY <1>2, <2>1, <2>2, <2>3 DEF StageOf
<1>4. ASSUME NEW n \in D
      PROVE  n \in NotifIds /\ StageOf(n) = "none" /\ StageOf(n)' = "gone"
  BY <1>0, <1>2 DEF StageOf
<1>5. ASSUME NEW n \in NotifIds \ (S \cup D)
      PROVE  StageOf(n)' = StageOf(n)
  <2>1. n[1] \in Requests \ {r} /\ req'[n[1]] = req[n[1]]
    BY <1>0 DEF NotifIds
  <2>2. n \in DOMAIN notifs <=> n \in DOMAIN notifs'
    BY <1>1
  <2>3. n \in DOMAIN notifs => notifs'[n] = notifs[n]
    BY <1>0, <2>2 DEF NotifsKept
  <2> QED
    BY <1>0, <2>1, <2>2, <2>3 DEF StageOf, Unsettled, Due
<1>6. S \in SUBSET NotifIds /\ D \in SUBSET (NotifIds \ S)
  BY <1>3
<1> HIDE DEF S, D
<1>7. Lifecycle!Schedule(S, D)
  BY <1>3, <1>4, <1>5, <1>6, StageFacts DEF Lifecycle!Schedule
<1> QED
  BY <1>6, <1>7 DEF Lifecycle!Next

LEMMA WritingStages ==
  ASSUME Inv, Writing
  PROVE  Lifecycle!Next
<1>0. TypeOK /\ RequestInv /\ PlacedInv
  BY DEF Inv
<1>1. PICK r \in Requests : RequestStep(r)
  BY DEF Writing
<1>2. CASE InsertReminders(r)
  BY <1>2, InsertSchedules
<1>3. CASE ~InsertReminders(r)
  <2>1. NotifsKept
    BY <1>0, <1>1, <1>3, OtherRequestStepsKeep
  <2>2. now' = now
    BY <1>1 DEF RequestStep, Creating, Updating, Deleting, CreateEvent, FindForUpdate, DeleteEvent, SaveEvent,
       CancelForEvent, ScheduleForEvent, InsertReminders
  <2>3. UNCHANGED notifs \/ DeleteByEventID(req[r].event)
    BY <1>1, <1>3 DEF RequestStep, Creating, Updating, Deleting, CreateEvent, FindForUpdate, DeleteEvent, SaveEvent,
       CancelForEvent, ScheduleForEvent, tables
  <2>4. DOMAIN notifs' \subseteq DOMAIN notifs
    BY <2>3 DEF DeleteByEventID, Restrict
  <2> QED
    BY <2>1, <2>2, <2>4, OthersDrop DEF NotifsKept, Finished
<1> QED
  BY <1>2, <1>3

LEMMA SameStages ==
  ASSUME UNCHANGED now, \A r \in Requests : req'[r].pc = req[r].pc,
         DOMAIN notifs' = DOMAIN notifs,
         \A n \in DOMAIN notifs : notifs'[n].sent = notifs[n].sent
                               /\ notifs'[n].retries = notifs[n].retries
                               /\ notifs'[n].notifyAt = notifs[n].notifyAt
  PROVE  Lifecycle!Next
<1>1. ASSUME NEW n \in NotifIds
      PROVE  StageOf(n)' = StageOf(n)
  <2>1. n[1] \in Requests
    BY DEF NotifIds
  <2> QED
    BY <2>1 DEF StageOf, Unsettled, Due
<1> QED
  BY <1>1, DropStep

LEMMA TimeStages ==
  ASSUME Inv, TimePasses
  PROVE  Lifecycle!Next
<1>0. TypeOK /\ UNCHANGED <<notifs, req>> /\ now' = now + 1
  BY DEF Inv, TimePasses, Tick, tables
<1> DEFINE S == {n \in NotifIds : StageOf(n)' # StageOf(n)}
<1>1. ASSUME NEW n \in S
      PROVE  StageOf(n) = "waiting" /\ StageOf(n)' = "due"
  <2>1. n \in DOMAIN notifs
    BY <1>0 DEF StageOf
  <2>2. Due(n) => Due(n)'
    BY <1>0, <2>1, RowFacts DEF Due
  <2> QED
    BY <1>0, <2>1, <2>2 DEF StageOf, Unsettled
<1>2. Lifecycle!Move(S, {"waiting"}, {"due"})
  BY <1>1, MoveStep
<1> QED
  BY <1>2 DEF Lifecycle!Next, Lifecycle!FallDue

\* A status write settles the reminders in question, or leaves them due.
LEMMA SettleStages ==
  ASSUME Inv, NEW S \in SUBSET InPass, UNCHANGED <<now, req>>,
         \/ MarkSent(S)
         \/ \E i \in S : S = {i} /\ IncrementRetries(i)
  PROVE  Lifecycle!Next
<1>0. TypeOK /\ FreshInv
  BY DEF Inv
<1> DEFINE M == {n \in NotifIds : StageOf(n)' # StageOf(n)}
<1>1. DOMAIN notifs' = DOMAIN notifs /\ \A n \in DOMAIN notifs \ S : notifs'[n] = notifs[n]
  BY DEF MarkSent, IncrementRetries
<1>2. ASSUME NEW n \in M
      PROVE  StageOf(n) = "due" /\ StageOf(n)' \in {"sent", "givenUp"}
  <2>1. n \in DOMAIN notifs /\ n \in S
    BY <1>1 DEF StageOf, Unsettled, Due
  <2>2. Unsettled(n) /\ Due(n)
    BY <1>0, <2>1 DEF FreshInv
  <2>3. notifs[n] \in NotifRow
    BY <1>0, <2>1, RowFacts
  <2>4. notifs'[n].notifyAt = notifs[n].notifyAt
    BY <2>1, <2>3 DEF MarkSent, IncrementRetries, NotifRow
  <2>5. Due(n)'
    BY <2>2, <2>4 DEF Due
  <2>6. StageOf(n) = "due"
    BY <2>1, <2>2 DEF StageOf, Unsettled
  <2>7. StageOf(n)' \in {"sent", "givenUp", "due"}
    BY <1>1, <2>1, <2>5 DEF StageOf
  <2> QED
    BY <2>6, <2>7
<1>3. Lifecycle!Move(M, {"due"}, {"sent", "givenUp"})
  BY <1>2, MoveStep, SMTT(30)
<1> QED
  BY <1>3 DEF Lifecycle!Next, Lifecycle!Settle

LEMMA SendingStages ==
  ASSUME Inv, Sending
  PROVE  Lifecycle!Next
<1>0. TypeOK /\ PassInv /\ UNCHANGED <<now, req>>
  BY DEF Inv, Sending, WorkerStep, Poll, FetchTokens, Send, PurgeToken, WriteVerdict,
     FinishPass
<1>1. CASE UNCHANGED notifs
  BY <1>0, <1>1, SameStages
<1>2. ASSUME NEW n \in wk.batch, CountTry(n.id)
      PROVE  Lifecycle!Next
  <2>1. DOMAIN notifs' = DOMAIN notifs
    BY <1>2 DEF CountTry
  <2>2. \A m \in DOMAIN notifs : notifs'[m].sent = notifs[m].sent
                               /\ notifs'[m].retries = notifs[m].retries
                               /\ notifs'[m].notifyAt = notifs[m].notifyAt
    BY <1>0, <1>2, RowFacts DEF CountTry, NotifRow
  <2> QED
    BY <1>0, <2>1, <2>2, SameStages
<1>3. CASE WriteVerdict
  <2>1. wk.cur # Nil /\ {wk.cur} \in SUBSET InPass
    BY <1>0, <1>3 DEF WriteVerdict, PassInv, InPass
  <2>2. UNCHANGED notifs \/ MarkSent({wk.cur}) \/ IncrementRetries(wk.cur)
    BY <1>3 DEF WriteVerdict
  <2> QED
    BY <1>0, <1>1, <2>1, <2>2, SettleStages
<1>4. CASE FinishPass
  <2>1. wk.silent \in SUBSET InPass
    BY DEF InPass
  <2>2. UNCHANGED notifs \/ MarkSent(wk.silent)
    BY <1>4 DEF FinishPass
  <2> QED
    BY <1>0, <1>1, <2>1, <2>2, SettleStages
<1> QED
  BY <1>1, <1>2, <1>3, <1>4
  DEF Sending, WorkerStep, Poll, FetchTokens, Send, PurgeToken, tables

(* Reminders implements ReminderLifecycle: every step of the tables, the   *)
(* requests and the worker moves reminders along their stages or leaves    *)
(* them where they are.                                                    *)
THEOREM Refinement == Spec => ImplementsLifecycle
<1>1. Init => Lifecycle!Init
  <2> SUFFICES ASSUME Init, NEW n \in NotifIds PROVE StageOf(n) = "none"
    BY DEF Lifecycle!Init
  <2>1. n \notin DOMAIN notifs /\ req[n[1]].pc = "idle"
    BY DEF Init, StoreInit, WriterInit, IdleRequest, NotifIds
  <2> QED
    BY <2>1 DEF StageOf
<1>2. Inv /\ [Next]_vars => [Lifecycle!Next]_([n \in NotifIds |-> StageOf(n)])
  <2> SUFFICES ASSUME Inv, [Next]_vars PROVE Lifecycle!Next
    OBVIOUS
  <2>0. TypeOK /\ RequestInv /\ PlacedInv
    BY DEF Inv
  <2>1. CASE UNCHANGED vars
    BY <2>1, SameStages DEF vars
  <2>2. CASE Writing
    BY <2>2, WritingStages
  <2>3. CASE Sending
    BY <2>3, SendingStages
  <2>4. CASE Registering
    <3>1. UNCHANGED <<notifs, now, req>>
      BY <2>4 DEF Registering, DeviceStep, RegisterDevice, UnregisterDevice,
         DeleteAccountTokens
    <3> QED
      BY <3>1, SameStages
  <2>5. CASE TimePasses
    BY <2>5, TimeStages
  <2>6. CASE Crash
    <3>1. NotifsKept /\ UNCHANGED <<notifs, now>>
      BY <2>0, <2>6, OthersKeep DEF Crash, tables
    <3> QED
      BY <3>1, OthersDrop DEF NotifsKept, Finished
  <2> QED
    BY <2>1, <2>2, <2>3, <2>4, <2>5, <2>6 DEF Next
<1> QED
  BY <1>1, <1>2, Invariance, PTL DEF Spec, ImplementsLifecycle, Lifecycle!Spec

----------------------------------------------------------------------------
(* Listings *)

\* No stored event, and none about to be saved, ends before it starts.
Ordered(row) == ~(row.end < row.start)

OrderedInv ==
  /\ \A e \in DOMAIN events : Ordered(events[e])
  /\ \A r \in Requests : req[r].pc = "save" => Ordered(req[r].row)

LEMMA ValidOrdered ==
  ASSUME NEW u \in Users, NEW f \in Forms, Validate(f)
  PROVE  Ordered(RowOf(u, f))
BY DEF Validate, RowOf, Ordered

LEMMA PutOrdered ==
  ASSUME OrderedInv, NEW e, NEW row, Ordered(row), PutEvent(e, row)
  PROVE  \A x \in DOMAIN events' : Ordered(events'[x])
BY DEF OrderedInv, PutEvent

\* A request begins, in order, and leaves the others where they are.
LEMMA BeginOrdered ==
  ASSUME TypeOK, OrderedInv, NEW r \in Requests,
         NEW op, NEW e, NEW row, NEW pc,
         Begin(r, op, e, row, pc), pc = "save" => Ordered(row)
  PROVE  \A q \in Requests : req'[q].pc = "save" => Ordered(req'[q].row)
<1>0. req \in [Requests -> RequestState]
  BY DEF TypeOK, WriterTypes
<1>1. SUFFICES ASSUME NEW q \in Requests, req'[q].pc = "save"
               PROVE  Ordered(req'[q].row)
  OBVIOUS
<1>2. CASE q = r
  BY <1>1, <1>2 DEF Begin, IdleRequest
<1>3. CASE q # r
  <2>1. req'[q].pc = req[q].pc /\ req'[q].row = req[q].row
    BY <1>0, <1>3 DEF Begin, RequestState
  <2> QED
    BY <1>1, <2>1 DEF OrderedInv
<1> QED
  BY <1>2, <1>3

\* What its other steps do.
LEMMA RequestsKeep ==
  ASSUME TypeOK, OrderedInv, NEW r \in Requests, NEW op, NEW result, NEW logged,
         \/ Refuse(r, op, result)
         \/ Answer(r, logged)
         \/ Goto(r, "cancel") \/ Goto(r, "schedule")
         \/ \E S : req' = [req EXCEPT ![r].pc = "insert", ![r].slots = S]
         \/ UNCHANGED req
  PROVE  \A q \in Requests : req'[q].pc = "save" => Ordered(req'[q].row)
<1>0. req \in [Requests -> RequestState]
  BY DEF TypeOK, WriterTypes
<1>1. SUFFICES ASSUME NEW q \in Requests, req'[q].pc = "save"
               PROVE  Ordered(req'[q].row)
  OBVIOUS
<1>2. CASE Refuse(r, op, result)
  BY <1>0, <1>1, <1>2 DEF Refuse, IdleRequest, OrderedInv
<1>3. CASE Answer(r, logged)
  BY <1>0, <1>1, <1>3 DEF Answer, IdleRequest, OrderedInv
<1>4. CASE Goto(r, "cancel") \/ Goto(r, "schedule")
  BY <1>0, <1>1, <1>4 DEF Goto, OrderedInv, RequestState
<1>5. CASE \E S : req' = [req EXCEPT ![r].pc = "insert", ![r].slots = S]
  BY <1>0, <1>1, <1>5 DEF OrderedInv, RequestState
<1>6. CASE UNCHANGED req
  BY <1>1, <1>6 DEF OrderedInv
<1> QED
  BY <1>2, <1>3, <1>4, <1>5, <1>6

LEMMA CreateOrdered ==
  ASSUME TypeOK, OrderedInv, NEW r \in Requests, NEW u \in Users, NEW f \in Forms,
         CreateEvent(r, u, f)
  PROVE  OrderedInv'
<1>1. \A x \in DOMAIN events' : Ordered(events'[x])
  BY ValidOrdered, PutOrdered DEF CreateEvent, OrderedInv
<1>2. CASE Refuse(r, "create", "invalid") \/ Refuse(r, "create", "db_error")
  BY <1>1, <1>2, RequestsKeep DEF OrderedInv
<1>3. CASE Begin(r, "create", r, RowOf(u, f), "schedule")
  <2>1. \A q \in Requests : req'[q].pc = "save" => Ordered(req'[q].row)
    BY <1>3, BeginOrdered
  <2> QED
    BY <1>1, <2>1 DEF OrderedInv
<1> QED
  BY <1>2, <1>3 DEF CreateEvent

LEMMA FindForUpdateOrdered ==
  ASSUME TypeOK, OrderedInv, NEW r \in Requests, NEW u \in Users, NEW e \in Requests,
         NEW f \in Forms, FindForUpdate(r, u, e, f)
  PROVE  OrderedInv'
<1>1. UNCHANGED events
  BY DEF FindForUpdate, tables
<1>2. CASE \E result : Refuse(r, "update", result)
  BY <1>1, <1>2, RequestsKeep DEF OrderedInv
<1>3. CASE Validate(f) /\ Begin(r, "update", e, RowOf(u, f), "save")
  <2>1. \A q \in Requests : req'[q].pc = "save" => Ordered(req'[q].row)
    BY <1>3, BeginOrdered, ValidOrdered
  <2> QED
    BY <1>1, <2>1 DEF OrderedInv
<1> QED
  BY <1>2, <1>3 DEF FindForUpdate

LEMMA SaveOrdered ==
  ASSUME TypeOK, OrderedInv, NEW r \in Requests, SaveEvent(r)
  PROVE  OrderedInv'
<1>1. Ordered(req[r].row)
  BY DEF SaveEvent, At, OrderedInv
<1>2. \A x \in DOMAIN events' : Ordered(events'[x])
  BY <1>1, PutOrdered DEF SaveEvent, OrderedInv
<1>3. \A q \in Requests : req'[q].pc = "save" => Ordered(req'[q].row)
  BY RequestsKeep DEF SaveEvent
<1> QED
  BY <1>2, <1>3 DEF OrderedInv

LEMMA DeleteOrdered ==
  ASSUME TypeOK, OrderedInv, NEW r \in Requests, NEW u \in Users, NEW e \in Requests,
         DeleteEvent(r, u, e)
  PROVE  OrderedInv'
<1>1. \A x \in DOMAIN events' : Ordered(events'[x])
  BY DEF DeleteEvent, DeleteEventRow, Restrict, OrderedInv
<1>2. CASE \E result : Refuse(r, "delete", result)
  BY <1>1, <1>2, RequestsKeep DEF OrderedInv
<1>3. CASE Begin(r, "delete", e, Nil, "cancel")
  <2>1. \A q \in Requests : req'[q].pc = "save" => Ordered(req'[q].row)
    BY <1>3, BeginOrdered
  <2> QED
    BY <1>1, <2>1 DEF OrderedInv
<1> QED
  BY <1>2, <1>3 DEF DeleteEvent

LEMMA SchedulingOrdered ==
  ASSUME TypeOK, OrderedInv, NEW r \in Requests,
         CancelForEvent(r) \/ ScheduleForEvent(r) \/ InsertReminders(r)
  PROVE  OrderedInv'
<1>1. UNCHANGED events
  BY DEF CancelForEvent, ScheduleForEvent, InsertReminders, tables
<1>2. \A q \in Requests : req'[q].pc = "save" => Ordered(req'[q].row)
  BY RequestsKeep DEF CancelForEvent, ScheduleForEvent, InsertReminders
<1> QED
  BY <1>1, <1>2 DEF OrderedInv

LEMMA CrashOrdered ==
  ASSUME TypeOK, OrderedInv, Crash
  PROVE  OrderedInv'
<1>1. UNCHANGED events
  BY DEF Crash, tables
<1>2. ASSUME NEW q \in Requests, req'[q].pc = "save"
      PROVE  Ordered(req'[q].row)
  BY <1>2 DEF Crash, WritersDie, OrderedInv, IdleRequest
<1> QED
  BY <1>1, <1>2 DEF OrderedInv

LEMMA OthersOrdered ==
  ASSUME OrderedInv, Sending \/ Registering \/ TimePasses
  PROVE  OrderedInv'
<1>1. UNCHANGED <<events, req>>
  BY DEF Sending, WorkerStep, Poll, FetchTokens, Send, PurgeToken, WriteVerdict, FinishPass,
         Registering, DeviceStep, RegisterDevice, UnregisterDevice, DeleteAccountTokens,
         TimePasses, tables
<1> QED
  BY <1>1 DEF OrderedInv

LEMMA NextOrdered ==
  ASSUME TypeOK, OrderedInv, [Next]_vars
  PROVE  OrderedInv'
<1>1. CASE UNCHANGED vars
  BY <1>1 DEF vars, OrderedInv
<1>2. CASE Writing
  BY <1>2, CreateOrdered, FindForUpdateOrdered, SaveOrdered, DeleteOrdered, SchedulingOrdered
  DEF Writing, RequestStep, Creating, Updating, Deleting
<1>3. CASE Sending \/ Registering \/ TimePasses
  BY <1>3, OthersOrdered
<1>4. CASE Crash
  BY <1>4, CrashOrdered
<1> QED
  BY <1>1, <1>2, <1>3, <1>4 DEF Next

LEMMA MeetingRanges ==
  ASSUME TypeOK, OrderedInv, NEW u \in Users,
         NEW a \in Int, NEW m \in Int, NEW b \in Int, a < m, m < b
  PROVE  FindByDateRange(u, a, b) =
           FindByDateRange(u, a, m) \cup FindByDateRange(u, m, b)
             \cup {e \in EventsOf(u) : events[e].start = m /\ events[e].end = m}
<1>1. ASSUME NEW e \in EventsOf(u)
      PROVE  /\ events[e].start \in Int /\ events[e].end \in Int
             /\ ~(events[e].end < events[e].start)
  BY DEF EventsOf, TypeOK, TableTypes, EventRow, OrderedInv, Ordered
<1> QED
  BY <1>1 DEF FindByDateRange

(* Two listings whose ranges meet miss no event that has a length, between *)
(* any steps of any writers, deletions and crashes: both writers compare   *)
(* the times of an event before it is stored (Validate, FindByDateRange).  *)
THEOREM ListingsAlwaysMeet == Spec => []ListingsMeet
<1>1. Init => OrderedInv
  BY DEF Init, StoreInit, WriterInit, IdleRequest, OrderedInv
<1>2. TypeOK /\ OrderedInv /\ [Next]_vars => OrderedInv'
  BY NextOrdered
<1>3. TypeOK /\ OrderedInv => ListingsMeet
  <2>1. MaxTime \in Nat
    BY BoundsAssumption
  <2>2. \A i \in Instants : i \in Int
    BY <2>1 DEF Instants
  <2> QED
    BY <2>2, MeetingRanges DEF ListingsMeet
<1> QED
  BY <1>1, <1>2, <1>3, TypeCorrect, PTL DEF Spec
=============================================================================
