----------------------------- MODULE EventWriter -----------------------------
(***************************************************************************)
(* POST, PUT and DELETE of /api/events: eventService's writer and the      *)
(* notificationScheduler it calls.  Every request runs in a goroutine of   *)
(* its own, so the requests interleave between any two statements; req[r]  *)
(* holds the local state of request r and its pc the statement it is at:   *)
(*                                                                         *)
(*   create  -> schedule -> insert                                         *)
(*   find -> save -> cancel -> schedule -> insert                          *)
(*   delete  -> cancel                                                     *)
(*                                                                         *)
(* The first statement is part of the action that starts the request.      *)
(***************************************************************************)
EXTENDS ReminderStore

VARIABLES
  req,            \* request -> its local state
  clean           \* history: the events whose last writer ran alone and
                  \* to the end with no error logged

Running == {"save", "cancel", "schedule", "insert"}

Results == {"ok", "invalid", "not_found", "db_error", "refused"}

RequestState ==
  [pc     : Running \cup {"idle", "done", "dead"},
   op     : {"create", "update", "delete", Nil},
   event  : EventIds \cup {Nil},
   row    : EventRow \cup {Nil},    \* the *model.Event being written
   slots  : SUBSET Slots,           \* the reminders about to be inserted
   raced  : BOOLEAN,                \* history: overlapped another writer
   result : Results \cup {Nil}]

IdleRequest ==
  [pc |-> "idle", op |-> Nil, event |-> Nil, row |-> Nil, slots |-> {},
   raced |-> FALSE, result |-> Nil]

WriterTypes ==
  /\ req \in [Requests -> RequestState]
  /\ clean \subseteq EventIds

WriterInit ==
  /\ req = [r \in Requests |-> IdleRequest]
  /\ clean = {}

Writers(e) == {r \in Requests : req[r].pc \in Running /\ req[r].event = e}

\* Request r goes on beyond its first statement; it races with whatever else
\* is writing the event.
Begin(r, op, e, row, pc) ==
  req' = [q \in Requests |->
            IF q = r
            THEN [IdleRequest EXCEPT !.pc = pc, !.op = op, !.event = e, !.row = row,
                                     !.raced = Writers(e) # {}]
            ELSE [req[q] EXCEPT !.raced = @ \/ q \in Writers(e)]]

\* The request ends with its first statements, having written nothing.
Refuse(r, op, result) ==
  /\ req' = [req EXCEPT ![r] = [IdleRequest EXCEPT !.pc = "done", !.op = op,
                                                   !.result = result]]
  /\ UNCHANGED clean

\* The request answers the client once it has written; errors of the
\* scheduler are logged and do not reach the client.
Answer(r, logged) ==
  /\ req' = [req EXCEPT ![r] = [IdleRequest EXCEPT !.pc = "done", !.op = req[r].op,
                                                   !.result = "ok"]]
  /\ clean' = IF logged \/ req[r].raced THEN clean \ {req[r].event}
              ELSE clean \cup {req[r].event}

At(r, pc) == req[r].pc = pc
Goto(r, pc) == req' = [req EXCEPT ![r].pc = pc]

----------------------------------------------------------------------------

\* Faulty variant: no default for a body without offsets.
OffsetsAsSent(f) == f.offsets

\* applyDefaults and Event.Validate.
Offsets(f) == IF f.offsets = Nil THEN <<DefaultOffset>> ELSE f.offsets

RowOf(u, f) == [user |-> u, start |-> f.start, end |-> f.end, offsets |-> Offsets(f)]

\* Faulty variant: the times are not compared.
LabelledOnly(f) == f.labelled

Validate(f) == f.labelled /\ ~(f.end < f.start)

NotifyAt(row, i) == row.start - row.offsets[i]

FutureSlots(row) == {i \in DOMAIN row.offsets : ~(NotifyAt(row, i) < now)}

NewReminders(r) ==
  [n \in {r} \X req[r].slots |->
     [event |-> req[r].event, user |-> req[r].row.user,
      notifyAt |-> NotifyAt(req[r].row, n[2]),
      sent |-> FALSE, retries |-> 0, tries |-> 0]]

----------------------------------------------------------------------------
(* eventService.CreateEvent *)

CreateEvent(r, u, f) ==
  /\ At(r, "idle")
  /\ UNCHANGED <<notifs, devices, now>>
  /\ \/ /\ ~Validate(f)
        /\ Refuse(r, "create", "invalid")
        /\ UNCHANGED <<events, faults>>
     \/ /\ Validate(f)
        /\ PutEvent(r, RowOf(u, f))
        /\ Begin(r, "create", r, RowOf(u, f), "schedule")
        /\ UNCHANGED <<faults, clean>>
     \/ /\ Validate(f)
        /\ Fault
        /\ Refuse(r, "create", "db_error")
        /\ UNCHANGED events

(* eventService.UpdateEvent, up to the Save *)

FindForUpdate(r, u, e, f) ==
  /\ At(r, "idle")
  /\ UNCHANGED <<tables, now>>
  /\ \/ /\ e \notin EventsOf(u)
        /\ Refuse(r, "update", "not_found")
        /\ UNCHANGED faults
     \/ /\ e \in EventsOf(u) /\ ~Validate(f)
        /\ Refuse(r, "update", "invalid")
        /\ UNCHANGED faults
     \/ /\ e \in EventsOf(u) /\ Validate(f)
        /\ Begin(r, "update", e, RowOf(u, f), "save")
        /\ UNCHANGED <<faults, clean>>
     \/ /\ Fault
        /\ Refuse(r, "update", "db_error")

\* gorm's Save updates every column by primary key and inserts the row when
\* there is none: an event deleted since FindByID comes back.
SaveEvent(r) ==
  /\ At(r, "save")
  /\ UNCHANGED <<notifs, devices, now, clean>>
  /\ \/ /\ PutEvent(req[r].event, req[r].row)
        /\ Goto(r, "cancel")
        /\ UNCHANGED faults
     \/ /\ Fault
        /\ Refuse(r, "update", "db_error")
        /\ UNCHANGED events

(* eventService.DeleteEvent, up to the Delete *)

DeleteEvent(r, u, e) ==
  /\ At(r, "idle")
  /\ UNCHANGED <<notifs, devices, now>>
  /\ \/ /\ e \notin EventsOf(u)
        /\ Refuse(r, "delete", "not_found")
        /\ UNCHANGED <<events, faults>>
     \/ /\ e \in EventsOf(u) /\ DeleteRefused(e)
        /\ Refuse(r, "delete", "refused")
        /\ UNCHANGED <<events, faults>>
     \/ /\ e \in EventsOf(u) /\ ~DeleteRefused(e)
        /\ DeleteEventRow(e)
        /\ Begin(r, "delete", e, Nil, "cancel")
        /\ UNCHANGED <<faults, clean>>
     \/ /\ Fault
        /\ Refuse(r, "delete", "db_error")
        /\ UNCHANGED events

(* notificationScheduler *)

CancelForEvent(r) ==
  /\ At(r, "cancel")
  /\ UNCHANGED <<events, devices, now>>
  /\ \/ /\ DeleteByEventID(req[r].event)
        /\ IF req[r].op = "update"
           THEN Goto(r, "schedule") /\ UNCHANGED clean
           ELSE Answer(r, FALSE)
        /\ UNCHANGED faults
     \/ /\ Fault
        /\ Answer(r, TRUE)
        /\ UNCHANGED notifs

\* ScheduleForEvent reads the clock and keeps the offsets not yet past ...
ScheduleForEvent(r) ==
  /\ At(r, "schedule")
  /\ LET S == FutureSlots(req[r].row) IN
     IF S = {}
     THEN Answer(r, FALSE)
     ELSE /\ req' = [req EXCEPT ![r].pc = "insert", ![r].slots = S]
          /\ UNCHANGED clean
  /\ UNCHANGED <<tables, now, faults>>

\* ... and inserts a reminder for each, in one statement.
InsertReminders(r) ==
  /\ At(r, "insert")
  /\ UNCHANGED <<events, devices, now>>
  /\ \/ /\ EnforceFK => req[r].event \in DOMAIN events
        /\ CreateBatch(NewReminders(r))
        /\ Answer(r, FALSE)
        /\ UNCHANGED faults
     \/ /\ EnforceFK /\ req[r].event \notin DOMAIN events
        /\ Answer(r, TRUE)
        /\ UNCHANGED <<notifs, faults>>
     \/ /\ Fault
        /\ Answer(r, TRUE)
        /\ UNCHANGED notifs

\* The process dies under its requests.
WritersDie ==
  /\ req' = [r \in Requests |->
               IF req[r].pc \in Running
               THEN [IdleRequest EXCEPT !.pc = "dead", !.op = req[r].op] ELSE req[r]]
  /\ clean' = clean \ {req[r].event : r \in {q \in Requests : req[q].pc \in Running}}
=============================================================================
