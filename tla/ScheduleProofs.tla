---------------------------- MODULE ScheduleProofs ----------------------------
(***************************************************************************)
(* The reminders of an event match it: the proof follows each writer from  *)
(* statement to statement, for an event the writer has to itself.          *)
(***************************************************************************)
EXTENDS ReminderProofs

\* The offsets of row that are not past at time t.
FutureAt(row, t) == {i \in DOMAIN row.offsets : ~(NotifyAt(row, i) < t)}

(***************************************************************************)
(* What RemindersMatchEvent asks of event e.                               *)
(***************************************************************************)
Matches(e) ==
  /\ e \notin DOMAIN events => RemindersOf(e) = {}
  /\ e \in DOMAIN events =>
       /\ \A n \in RemindersOf(e) :
            /\ n[2] \in DOMAIN events[e].offsets
            /\ notifs[n].notifyAt = NotifyAt(events[e], n[2])
            /\ \A m \in RemindersOf(e) : m[1] = n[1]
       /\ \A i \in FutureAt(events[e], now) : \E n \in RemindersOf(e) : n[2] = i

(***************************************************************************)
(* What writer r of event e, which nobody raced, has done so far.          *)
(***************************************************************************)
Own(r, e) ==
  /\ \A q \in Writers(e) : q = r
  /\ req[r].pc = "cancel" /\ req[r].op # "update" => e \notin DOMAIN events
  /\ req[r].pc \in {"schedule", "insert"} \/ (req[r].pc = "cancel" /\ req[r].op = "update") =>
       e \in DOMAIN events /\ events[e] = req[r].row
  /\ req[r].pc \in {"schedule", "insert"} => RemindersOf(e) = {}
  /\ req[r].pc = "insert" => FutureAt(req[r].row, now) \subseteq req[r].slots

(***************************************************************************)
(* An event nobody made has left no trace.  The tables agree on a clean    *)
(* event until one of its writers writes.                                  *)
(***************************************************************************)
EventInv(e) ==
  /\ req[e].pc = "idle" =>
       e \notin clean \cup DOMAIN events /\ RemindersOf(e) = {} /\ Writers(e) = {}
  /\ e \in clean /\ (\A r \in Writers(e) : req[r].pc = "save") => Matches(e)
  /\ \A r \in Writers(e) : req[r].pc = "save" => req[r].op = "update"
  /\ \A r \in Writers(e) : ~req[r].raced => Own(r, e)

ScheduleInv == \A e \in EventIds : EventInv(e)

----------------------------------------------------------------------------
(* Events a step has nothing to do with *)

Untouched(e) ==
  /\ now' >= now
  /\ e \in DOMAIN events' <=> e \in DOMAIN events
  /\ e \in DOMAIN events => events'[e] = events[e]
  /\ RemindersOf(e)' = RemindersOf(e)
  /\ \A n \in RemindersOf(e) : notifs'[n].notifyAt = notifs[n].notifyAt
  /\ e \in clean' => e \in clean
  /\ \A q \in Requests : req'[q] = req[q] \/ (q \notin Writers(e) /\ q \notin Writers(e)')
  /\ req'[e].pc = "idle" => req[e].pc = "idle"

\* Offsets only ever become past.
LEMMA FutureShrinks ==
  ASSUME NEW row \in EventRow, NEW s \in Int, NEW t \in Int, t >= s
  PROVE  FutureAt(row, t) \subseteq FutureAt(row, s)
<1>1. row.start \in Int /\ row.offsets \in OffsetLists
  BY DEF EventRow
<1>2. \A i \in DOMAIN row.offsets : NotifyAt(row, i) \in Int
  BY <1>1, OffsetListFacts DEF NotifyAt
<1> QED
  BY <1>2 DEF FutureAt

LEMMA Typed ==
  ASSUME Inv
  PROVE  /\ now \in Int /\ req \in [Requests -> RequestState]
         /\ \A e \in DOMAIN events : events[e] \in EventRow /\ e \in EventIds
         /\ \A n \in DOMAIN notifs : notifs[n].event \in EventIds
         /\ \A r \in Requests : req[r].pc \in Running => req[r].event \in EventIds
         /\ \A r \in Requests : req[r].pc \in {"save", "schedule", "insert"} =>
              req[r].row \in EventRow
         /\ \A r \in Requests : req[r].pc = "insert" =>
              req[r].slots \subseteq DOMAIN req[r].row.offsets
<1>1. TypeOK /\ RequestInv
  BY DEF Inv
<1>2. MaxTime \in Nat
  BY BoundsAssumption
<1> QED
  BY <1>1, <1>2 DEF TypeOK, TableTypes, WriterTypes, NotifRow, RequestInv

LEMMA MatchesKept ==
  ASSUME Inv, NEW e \in EventIds, Matches(e), Untouched(e), now' \in Int
  PROVE  Matches(e)'
<1>1. now \in Int /\ (e \in DOMAIN events => events[e] \in EventRow)
  BY Typed
<1>2. CASE e \notin DOMAIN events
  BY <1>2 DEF Matches, Untouched
<1>3. CASE e \in DOMAIN events
  <2> DEFINE row == events[e]
  <2>1. e \in DOMAIN events' /\ events'[e] = row
    BY <1>3 DEF Untouched
  <2>2. FutureAt(row, now') \subseteq FutureAt(row, now)
    BY <1>1, <1>3, FutureShrinks DEF Untouched
  <2>3. \A n \in RemindersOf(e)' : /\ n[2] \in DOMAIN row.offsets
                                   /\ notifs'[n].notifyAt = NotifyAt(row, n[2])
                                   /\ \A m \in RemindersOf(e)' : m[1] = n[1]
    BY <1>3 DEF Matches, Untouched
  <2>4. \A i \in FutureAt(row, now') : \E n \in RemindersOf(e)' : n[2] = i
    BY <1>3, <2>2 DEF Matches, Untouched
  <2> HIDE DEF row
  <2> QED
    BY <2>1, <2>3, <2>4 DEF Matches, FutureAt, NotifyAt
<1> QED
  BY <1>2, <1>3

LEMMA OwnKept ==
  ASSUME Inv, NEW e \in EventIds, NEW r \in Writers(e), Own(r, e), Untouched(e), now' \in Int
  PROVE  Own(r, e)'
<1>1. r \in Requests /\ req'[r] = req[r] /\ now \in Int
  BY Typed DEF Untouched, Writers
<1>2. \A q \in Writers(e)' : q \in Writers(e)
  BY DEF Untouched, Writers
<1>3. req[r].pc = "insert" => FutureAt(req[r].row, now') \subseteq FutureAt(req[r].row, now)
  BY <1>1, Typed, FutureShrinks DEF Untouched
<1>4. req'[r].pc = "insert" => FutureAt(req[r].row, now') \subseteq req'[r].slots
  BY <1>1, <1>3 DEF Own
<1>5. FutureAt(req[r].row, now)' = FutureAt(req[r].row, now')
  BY <1>1 DEF FutureAt, NotifyAt
<1> QED
  BY <1>1, <1>2, <1>4, <1>5 DEF Own, Untouched

LEMMA UntouchedKeeps ==
  ASSUME Inv, NEW e \in EventIds, EventInv(e), Untouched(e), now' \in Int
  PROVE  EventInv(e)'
<1>1. \A q \in Writers(e)' : q \in Writers(e) /\ req'[q] = req[q]
  BY DEF Untouched, Writers
<1>2. \A q \in Writers(e) : q \in Writers(e)' /\ req'[q] = req[q]
  BY DEF Untouched, Writers
<1>3. (req[e].pc = "idle" =>
         e \notin clean \cup DOMAIN events /\ RemindersOf(e) = {} /\ Writers(e) = {})'
  BY <1>1 DEF EventInv, Untouched
<1>4. (e \in clean /\ (\A r \in Writers(e) : req[r].pc = "save") => Matches(e))'
  BY <1>2, MatchesKept DEF EventInv, Untouched
<1>5. \A r \in Writers(e)' : req'[r].pc = "save" => req'[r].op = "update"
  BY <1>1 DEF EventInv
<1>6. \A r \in Writers(e)' : ~req'[r].raced => Own(r, e)'
  BY <1>1, OwnKept DEF EventInv
<1> QED
  BY <1>3, <1>4, <1>5, <1>6 DEF EventInv

----------------------------------------------------------------------------
(* A request leaves all events but its own alone *)

RequestsApart(e) ==
  /\ \A q \in Requests : req'[q].pc = "idle" => req[q].pc = "idle"
  /\ \A f \in EventIds \ {e} :
       /\ f \in clean' => f \in clean
       /\ \A q \in Requests : req'[q] = req[q] \/ (q \notin Writers(f) /\ q \notin Writers(f)')

TablesApart(e) ==
  \A f \in EventIds \ {e} :
    /\ f \in DOMAIN events' <=> f \in DOMAIN events
    /\ f \in DOMAIN events => events'[f] = events[f]
    /\ RemindersOf(f)' = RemindersOf(f)
    /\ \A n \in RemindersOf(f) : notifs'[n].notifyAt = notifs[n].notifyAt

LEMMA ApartKeeps ==
  ASSUME Inv, ScheduleInv, NEW e \in EventIds, RequestsApart(e), TablesApart(e), UNCHANGED now,
         EventInv(e)'
  PROVE  ScheduleInv'
<1>1. now \in Int
  BY Typed
<1>2. ASSUME NEW f \in EventIds \ {e}
      PROVE  EventInv(f)'
  <2>1. Untouched(f)
    BY <1>1 DEF RequestsApart, TablesApart, Untouched, EventIds
  <2> QED
    BY <1>1, <2>1, UntouchedKeeps DEF ScheduleInv
<1> QED
  BY <1>2 DEF ScheduleInv

LEMMA MovesApart ==
  ASSUME Inv, NEW r \in Requests, req[r].pc \in Running,
         NEW op, NEW result, NEW logged, NEW pc \in Running, NEW S,
         \/ Refuse(r, op, result)
         \/ Answer(r, logged)
         \/ Goto(r, pc) /\ UNCHANGED clean
         \/ req' = [req EXCEPT ![r].pc = "insert", ![r].slots = S] /\ UNCHANGED clean
  PROVE  RequestsApart(req[r].event)
<1>1. req \in [Requests -> RequestState]
  BY Typed
<1>2. \A q \in Requests \ {r} : req'[q] = req[q]
  BY <1>1 DEF Refuse, Answer, Goto
<1>3. req'[r].pc # "idle" /\ (req'[r].pc \in Running => req'[r].event = req[r].event)
  <2>1. CASE Refuse(r, op, result) \/ Answer(r, logged)
    <3>1. req'[r].pc = "done"
      BY <1>1, <2>1 DEF Refuse, Answer, IdleRequest
    <3> QED
      BY <3>1 DEF Running
  <2>2. CASE Goto(r, pc)
    BY <1>1, <2>2 DEF Goto, Running, RequestState
  <2>3. CASE req' = [req EXCEPT ![r].pc = "insert", ![r].slots = S]
    BY <1>1, <2>3 DEF Running, RequestState
  <2> QED
    BY <2>1, <2>2, <2>3
<1>4. \A f \in EventIds \ {req[r].event} : f \in clean' => f \in clean
  BY DEF Refuse, Answer
<1> QED
  BY <1>2, <1>3, <1>4 DEF RequestsApart, Writers

LEMMA Begun ==
  ASSUME Inv, NEW r \in Requests, req[r].pc = "idle", NEW op, NEW e, NEW row, NEW pc \in Running,
         Begin(r, op, e, row, pc)
  PROVE  /\ req'[r].pc = pc /\ req'[r].op = op /\ req'[r].event = e /\ req'[r].row = row
         /\ req'[r].raced = (Writers(e) # {})
         /\ \A q \in Requests \ {r} : /\ req'[q].pc = req[q].pc /\ req'[q].event = req[q].event
                                      /\ req'[q].op = req[q].op
                                      /\ q \notin Writers(e) => req'[q] = req[q]
                                      /\ q \in Writers(e) => req'[q].raced
         /\ Writers(e)' = Writers(e) \cup {r} /\ r \notin Writers(e)
<1>1. req \in [Requests -> RequestState]
  BY Typed
<1>2. /\ req'[r].pc = pc /\ req'[r].op = op /\ req'[r].event = e /\ req'[r].row = row
      /\ req'[r].raced = (Writers(e) # {})
  BY DEF Begin, IdleRequest
<1>3. ASSUME NEW q \in Requests \ {r}
      PROVE  /\ req'[q].pc = req[q].pc /\ req'[q].event = req[q].event
             /\ req'[q].op = req[q].op
             /\ q \notin Writers(e) => req'[q] = req[q]
             /\ q \in Writers(e) => req'[q].raced
  <2> DEFINE b == req[q].raced \/ q \in Writers(e)
  <2>1. req'[q] = [req[q] EXCEPT !.raced = b]
    BY DEF Begin
  <2>2. req[q] \in RequestState
    BY <1>1
  <2>3. (q \notin Writers(e) => b = req[q].raced) /\ (q \in Writers(e) => b)
    BY <2>2, Zenon DEF RequestState
  <2> HIDE DEF b
  <2>4. req'[q].pc = req[q].pc /\ req'[q].event = req[q].event /\ req'[q].op = req[q].op
        /\ req'[q].raced = b /\ (b = req[q].raced => req'[q] = req[q])
    BY <2>1, <2>2 DEF RequestState
  <2> QED
    BY <2>3, <2>4
<1>4. Writers(e)' = Writers(e) \cup {r} /\ r \notin Writers(e)
  BY <1>2, <1>3 DEF Writers, Running
<1> QED
  BY <1>2, <1>3, <1>4

LEMMA BeginsApart ==
  ASSUME Inv, NEW r \in Requests, req[r].pc = "idle", NEW op, NEW e, NEW row, NEW pc \in Running,
         Begin(r, op, e, row, pc), UNCHANGED clean
  PROVE  RequestsApart(e)
<1>1. /\ req'[r].pc = pc /\ req'[r].event = e
      /\ \A q \in Requests \ {r} : /\ req'[q].pc = req[q].pc /\ req'[q].event = req[q].event
                                   /\ q \notin Writers(e) => req'[q] = req[q]
  BY Begun
<1> QED
  BY <1>1 DEF RequestsApart, Writers, Running

\* A request that writes nothing at all.
LEMMA RefusedKeeps ==
  ASSUME Inv, ScheduleInv, NEW r \in Requests, req[r].pc = "idle", NEW op, NEW result,
         Refuse(r, op, result), UNCHANGED <<events, notifs, now>>
  PROVE  ScheduleInv'
<1>1. req \in [Requests -> RequestState] /\ now \in Int
  BY Typed
<1>2. (\A q \in Requests \ {r} : req'[q] = req[q]) /\ req'[r].pc = "done"
  BY <1>1 DEF Refuse, IdleRequest
<1>3. ASSUME NEW e \in EventIds
      PROVE  Untouched(e)
  BY <1>1, <1>2 DEF Refuse, Untouched, Writers, Running, RemindersOf
<1> QED
  BY <1>1, <1>3, UntouchedKeeps DEF ScheduleInv

----------------------------------------------------------------------------
(* A writer and its event *)

LEMMA WriterFacts ==
  ASSUME Inv, ScheduleInv, NEW r \in Requests, req[r].pc \in Running
  PROVE  /\ req[r].event \in EventIds /\ r \in Writers(req[r].event)
         /\ EventInv(req[r].event) /\ req[req[r].event].pc # "idle"
<1>1. req[r].event \in EventIds /\ r \in Writers(req[r].event)
  BY Typed DEF Writers
<1> QED
  BY <1>1 DEF ScheduleInv, EventInv

\* An event has one writer, or each of them is raced.
LEMMA OthersRaced ==
  ASSUME Inv, ScheduleInv, NEW r \in Requests, req[r].pc \in Running,
         NEW q \in Writers(req[r].event), q # r
  PROVE  req[q].raced
BY WriterFacts DEF EventInv, Own

\* A writer that is done leaves tables that match, unless it lost a race or
\* logged an error.
LEMMA AnswerKeeps ==
  ASSUME Inv, ScheduleInv, NEW r \in Requests, req[r].pc \in Running, NEW logged \in BOOLEAN,
         NEW e, e = req[r].event,
         Answer(r, logged), ~logged /\ ~req[r].raced => Matches(e)'
  PROVE  EventInv(e)'
<1>1. req \in [Requests -> RequestState]
  BY Typed
<1>2. req'[r].pc = "done" /\ \A q \in Requests \ {r} : req'[q] = req[q]
  BY <1>1 DEF Answer, IdleRequest
<1>3. e \in EventIds /\ req[e].pc # "idle" /\ req'[e].pc # "idle"
  BY <1>2, WriterFacts DEF EventIds
<1>4. e \in clean' => ~logged /\ ~req[r].raced
  BY DEF Answer
<1>5. \A q \in Writers(e)' : q \in Writers(e) /\ q # r /\ req'[q] = req[q]
  BY <1>2 DEF Writers, Running
<1>6. \A q \in Writers(e)' : req'[q].raced /\ (req'[q].pc = "save" => req'[q].op = "update")
  BY <1>5, OthersRaced, WriterFacts DEF EventInv
<1> QED
  BY <1>3, <1>4, <1>6 DEF EventInv

\* A writer goes on to the next statement.
LEMMA MoveKeeps ==
  ASSUME Inv, ScheduleInv, NEW r \in Requests, req[r].pc \in Running,
         NEW e, e = req[r].event,
         \A q \in Requests \ {r} : req'[q] = req[q],
         req'[r].pc \in Running \ {"save"}, req'[r].event = e,
         req'[r].raced = req[r].raced,
         ~req[r].raced => Own(r, e)'
  PROVE  EventInv(e)'
<1>1. e \in EventIds /\ req[e].pc # "idle" /\ r \in Writers(e)
  BY WriterFacts
<1>2. r \in Writers(e)' /\ req'[e].pc # "idle"
  BY <1>1 DEF Writers, Running, EventIds
<1>3. \A q \in Writers(e)' : q # r => q \in Writers(e) /\ req'[q] = req[q]
  BY DEF Writers
<1>4. \A q \in Writers(e)' : q # r => req'[q].raced /\ (req'[q].pc = "save" => req'[q].op = "update")
  BY <1>3, OthersRaced, WriterFacts DEF EventInv
<1>5. \A q \in Writers(e)' : req'[q].pc = "save" => req'[q].op = "update"
  BY <1>4
<1>6. \A q \in Writers(e)' : ~req'[q].raced => Own(q, e)'
  BY <1>4
<1> QED
  BY <1>2, <1>5, <1>6 DEF EventInv

\* A writer that has the event to itself still has.
LEMMA Alone ==
  ASSUME Inv, ScheduleInv, NEW r \in Requests, req[r].pc \in Running, ~req[r].raced,
         NEW e, e = req[r].event,
         \A q \in Requests \ {r} : req'[q] = req[q]
  PROVE  Own(r, e) /\ \A q \in Writers(e)' : q = r
<1>1. Own(r, e)
  BY WriterFacts DEF EventInv
<1> QED
  BY <1>1 DEF Own, Writers

----------------------------------------------------------------------------
(* The statements of a writer *)

LEMMA SaveKeeps ==
  ASSUME Inv, ScheduleInv, NEW r \in Requests, SaveEvent(r)
  PROVE  ScheduleInv'
<1>1. PICK e : e = req[r].event
  OBVIOUS
<1>2. req[r].pc = "save" /\ req[r].pc \in Running /\ req \in [Requests -> RequestState]
  BY Typed DEF SaveEvent, At, Running
<1>3. e \in EventIds /\ r \in Writers(e) /\ EventInv(e) /\ req[e].pc # "idle"
  BY <1>1, <1>2, WriterFacts
<1>4. CASE PutEvent(e, req[r].row) /\ Goto(r, "cancel")
  <2>1. RequestsApart(e)
    BY <1>1, <1>2, <1>4, MovesApart DEF SaveEvent, Running
  <2>2. TablesApart(e)
    BY <1>4 DEF SaveEvent, TablesApart, PutEvent, RemindersOf
  <2>3. /\ \A q \in Requests \ {r} : req'[q] = req[q]
        /\ req'[r].pc = "cancel" /\ req'[r].event = e /\ req'[r].raced = req[r].raced
        /\ req'[r].op = "update" /\ req'[r].row = req[r].row
    BY <1>1, <1>2, <1>3, <1>4 DEF Goto, RequestState, EventInv
  <2>4. ASSUME ~req[r].raced
        PROVE  Own(r, e)'
    <3>1. \A q \in Writers(e)' : q = r
      BY <1>1, <1>2, <2>3, <2>4, Alone
    <3>2. e \in DOMAIN events' /\ events'[e] = req'[r].row
      BY <1>4, <2>3 DEF PutEvent
    <3> QED
      BY <2>3, <3>1, <3>2 DEF Own
  <2>5. EventInv(e)'
    BY <1>1, <1>2, <2>3, <2>4, MoveKeeps DEF Running
  <2> QED
    BY <1>3, <2>1, <2>2, <2>5, ApartKeeps DEF SaveEvent
<1>5. CASE Refuse(r, "update", "db_error") /\ UNCHANGED events
  <2>1. RequestsApart(e)
    BY <1>1, <1>2, <1>5, MovesApart
  <2>2. TablesApart(e)
    BY <1>5 DEF SaveEvent, TablesApart, RemindersOf
  <2>3. req'[r].pc = "done" /\ \A q \in Requests \ {r} : req'[q] = req[q]
    BY <1>2, <1>5 DEF Refuse, IdleRequest
  <2>4. \A q \in Writers(e)' : q \in Writers(e) /\ q # r /\ req'[q] = req[q]
    BY <2>3 DEF Writers, Running
  <2>5. \A q \in Writers(e) : q # r => q \in Writers(e)' /\ req'[q] = req[q]
    BY <2>3 DEF Writers
  <2>6. \A q \in Writers(e)' : req'[q].raced
    BY <1>1, <1>2, <2>4, OthersRaced
  <2>7. Matches(e)' <=> Matches(e)
    BY <1>5 DEF SaveEvent, Matches, RemindersOf, FutureAt, NotifyAt
  <2>8. EventInv(e)'
    <3>1. req'[e].pc # "idle"
      BY <1>3, <2>3 DEF EventIds
    <3>2. clean' = clean
      BY DEF SaveEvent
    <3>3. (e \in clean /\ (\A q \in Writers(e) : req[q].pc = "save") => Matches(e))'
      BY <1>2, <1>3, <2>5, <2>7, <3>2 DEF EventInv
    <3> QED
      BY <1>3, <2>4, <2>6, <3>1, <3>3 DEF EventInv
  <2> QED
    BY <1>3, <2>1, <2>2, <2>8, ApartKeeps DEF SaveEvent
<1> QED
  BY <1>1, <1>4, <1>5 DEF SaveEvent

LEMMA CreateKeeps ==
  ASSUME Inv, ScheduleInv, NEW r \in Requests, NEW u \in Users, NEW f \in Forms,
         CreateEvent(r, u, f)
  PROVE  ScheduleInv'
<1>1. req[r].pc = "idle" /\ r \in EventIds /\ UNCHANGED <<notifs, now>>
  BY DEF CreateEvent, At, EventIds
<1>2. CASE \E result : Refuse(r, "create", result) /\ UNCHANGED events
  BY <1>1, <1>2, RefusedKeeps
<1>3. CASE PutEvent(r, RowOf(u, f)) /\ Begin(r, "create", r, RowOf(u, f), "schedule")
           /\ UNCHANGED clean
  <2> DEFINE row == RowOf(u, f)
  <2>1. RemindersOf(r) = {} /\ Writers(r) = {} /\ r \notin clean
    BY <1>1 DEF ScheduleInv, EventInv
  <2>2. "schedule" \in Running
    BY DEF Running
  <2>3. RequestsApart(r)
    BY <1>1, <1>3, <2>2, BeginsApart
  <2>4. TablesApart(r)
    BY <1>1, <1>3 DEF TablesApart, PutEvent, RemindersOf
  <2>5. /\ req'[r].pc = "schedule" /\ req'[r].row = row /\ Writers(r)' = {r}
    BY <1>1, <1>3, <2>1, <2>2, Begun
  <2>6. r \in DOMAIN events' /\ events'[r] = row
    BY <1>3 DEF PutEvent
  <2>7. RemindersOf(r)' = {}
    BY <1>1, <2>1 DEF RemindersOf
  <2>8. Own(r, r)'
    BY <2>5, <2>6, <2>7 DEF Own
  <2>9. EventInv(r)'
    BY <2>5, <2>8 DEF EventInv
  <2> QED
    BY <1>1, <2>3, <2>4, <2>9, ApartKeeps
<1> QED
  BY <1>2, <1>3 DEF CreateEvent

LEMMA FindKeeps ==
  ASSUME Inv, ScheduleInv, NEW r \in Requests, NEW u \in Users, NEW e \in Requests,
         NEW f \in Forms, FindForUpdate(r, u, e, f)
  PROVE  ScheduleInv'
<1>1. req[r].pc = "idle" /\ e \in EventIds /\ UNCHANGED <<events, notifs, now>>
  BY DEF FindForUpdate, At, EventIds, tables
<1>2. CASE \E result : Refuse(r, "update", result)
  BY <1>1, <1>2, RefusedKeeps
<1>3. CASE e \in EventsOf(u) /\ Begin(r, "update", e, RowOf(u, f), "save") /\ UNCHANGED clean
  <2>1. EventInv(e) /\ e \in DOMAIN events /\ req[e].pc # "idle"
    BY <1>1, <1>3 DEF ScheduleInv, EventInv, EventsOf
  <2>2. "save" \in Running
    BY DEF Running
  <2>3. RequestsApart(e)
    BY <1>1, <1>3, <2>2, BeginsApart
  <2>4. TablesApart(e)
    BY <1>1 DEF TablesApart, RemindersOf
  <2>5. /\ req'[r].pc = "save" /\ req'[r].op = "update"
        /\ req'[r].raced = (Writers(e) # {})
        /\ \A q \in Requests \ {r} : /\ req'[q].pc = req[q].pc /\ req'[q].op = req[q].op
                                     /\ q \in Writers(e) => req'[q].raced
        /\ Writers(e)' = Writers(e) \cup {r} /\ r \notin Writers(e)
    BY <1>1, <1>3, <2>2, Begun
  <2>6. Matches(e)' <=> Matches(e)
    BY <1>1 DEF Matches, RemindersOf, FutureAt, NotifyAt
  <2>7. \A q \in Writers(e) : q \in Requests \ {r}
    BY <2>5 DEF Writers
  <2>8. \A q \in Writers(e)' : req'[q].pc = "save" => req'[q].op = "update"
    BY <2>1, <2>5, <2>7 DEF EventInv
  <2>9. ASSUME NEW q \in Writers(e)', ~req'[q].raced
        PROVE  Own(q, e)'
    <3>1. q = r /\ Writers(e) = {}
      BY <2>5, <2>7, <2>9
    <3> QED
      BY <2>5, <3>1 DEF Own
  <2>10. (e \in clean /\ (\A q \in Writers(e) : req[q].pc = "save") => Matches(e))'
    BY <1>3, <2>1, <2>5, <2>6, <2>7 DEF EventInv
  <2>11. req'[e].pc # "idle"
    BY <1>1, <2>1, <2>5 DEF EventIds
  <2>12. EventInv(e)'
    BY <2>8, <2>9, <2>10, <2>11 DEF EventInv
  <2> QED
    BY <1>1, <2>3, <2>4, <2>12, ApartKeeps
<1> QED
  BY <1>2, <1>3 DEF FindForUpdate

LEMMA DeleteKeeps ==
  ASSUME Inv, ScheduleInv, NEW r \in Requests, NEW u \in Users, NEW e \in Requests,
         DeleteEvent(r, u, e)
  PROVE  ScheduleInv'
<1>1. req[r].pc = "idle" /\ e \in EventIds /\ UNCHANGED <<notifs, now>>
  BY DEF DeleteEvent, At, EventIds
<1>2. CASE \E result : Refuse(r, "delete", result) /\ UNCHANGED events
  BY <1>1, <1>2, RefusedKeeps
<1>3. CASE e \in EventsOf(u) /\ DeleteEventRow(e) /\ Begin(r, "delete", e, Nil, "cancel")
           /\ UNCHANGED clean
  <2>1. EventInv(e) /\ e \in DOMAIN events /\ req[e].pc # "idle"
    BY <1>1, <1>3 DEF ScheduleInv, EventInv, EventsOf
  <2>2. "cancel" \in Running
    BY DEF Running
  <2>3. RequestsApart(e)
    BY <1>1, <1>3, <2>2, BeginsApart
  <2>4. TablesApart(e)
    BY <1>1, <1>3 DEF TablesApart, RemindersOf, DeleteEventRow, Restrict
  <2>5. /\ req'[r].pc = "cancel" /\ req'[r].op = "delete"
        /\ req'[r].raced = (Writers(e) # {})
        /\ \A q \in Requests \ {r} : /\ req'[q].pc = req[q].pc /\ req'[q].op = req[q].op
                                     /\ q \in Writers(e) => req'[q].raced
        /\ Writers(e)' = Writers(e) \cup {r} /\ r \notin Writers(e)
    BY <1>1, <1>3, <2>2, Begun
  <2>6. e \notin DOMAIN events'
    BY <1>3 DEF DeleteEventRow, Restrict
  <2>7. \A q \in Writers(e) : q \in Requests \ {r}
    BY <2>5 DEF Writers
  <2>8. \A q \in Writers(e)' : req'[q].pc = "save" => req'[q].op = "update"
    BY <2>1, <2>5, <2>7 DEF EventInv
  <2>9. ASSUME NEW q \in Writers(e)', ~req'[q].raced
        PROVE  Own(q, e)'
    <3>1. q = r /\ Writers(e) = {}
      BY <2>5, <2>7, <2>9
    <3> QED
      BY <2>5, <2>6, <3>1 DEF Own
  <2>10. req'[e].pc # "idle"
    BY <1>1, <2>1, <2>5 DEF EventIds
  <2>11. EventInv(e)'
    BY <2>5, <2>8, <2>9, <2>10 DEF EventInv
  <2> QED
    BY <1>1, <2>3, <2>4, <2>11, ApartKeeps
<1> QED
  BY <1>2, <1>3 DEF DeleteEvent

\* Deleting the reminders of one event.
LEMMA Deleted ==
  ASSUME Inv, NEW e, DeleteByEventID(e), UNCHANGED events
  PROVE  RemindersOf(e)' = {} /\ TablesApart(e)
<1>1. RemindersOf(e)' = {}
  BY DEF DeleteByEventID, Restrict, RemindersOf
<1>2. ASSUME NEW f \in EventIds \ {e}
      PROVE  /\ RemindersOf(f)' = RemindersOf(f)
             /\ \A n \in RemindersOf(f) : notifs'[n].notifyAt = notifs[n].notifyAt
  BY <1>2 DEF DeleteByEventID, Restrict, RemindersOf
<1> QED
  BY <1>1, <1>2 DEF TablesApart

LEMMA CancelKeeps ==
  ASSUME Inv, ScheduleInv, NEW r \in Requests, CancelForEvent(r)
  PROVE  ScheduleInv'
<1>1. PICK e : e = req[r].event
  OBVIOUS
<1>2. req[r].pc = "cancel" /\ req[r].pc \in Running /\ req \in [Requests -> RequestState]
      /\ UNCHANGED <<events, now>>
  BY Typed DEF CancelForEvent, At, Running
<1>3. e \in EventIds /\ EventInv(e)
  BY <1>1, <1>2, WriterFacts
<1>4. CASE DeleteByEventID(e) /\ req[r].op = "update" /\ Goto(r, "schedule") /\ UNCHANGED clean
  <2>1. RequestsApart(e)
    BY <1>1, <1>2, <1>4, MovesApart DEF Running
  <2>2. TablesApart(e) /\ RemindersOf(e)' = {}
    BY <1>2, <1>4, Deleted
  <2>3. /\ \A q \in Requests \ {r} : req'[q] = req[q]
        /\ req'[r].pc = "schedule" /\ req'[r].event = e /\ req'[r].raced = req[r].raced
        /\ req'[r].row = req[r].row
    BY <1>1, <1>2, <1>4 DEF Goto, RequestState
  <2>4. ASSUME ~req[r].raced
        PROVE  Own(r, e)'
    <3>1. Own(r, e) /\ \A q \in Writers(e)' : q = r
      BY <1>1, <1>2, <2>3, <2>4, Alone
    <3>2. e \in DOMAIN events' /\ events'[e] = req'[r].row
      BY <1>2, <1>4, <2>3, <3>1 DEF Own
    <3> QED
      BY <2>2, <2>3, <3>1, <3>2 DEF Own
  <2>5. EventInv(e)'
    BY <1>1, <1>2, <2>3, <2>4, MoveKeeps DEF Running
  <2> QED
    BY <1>2, <1>3, <2>1, <2>2, <2>5, ApartKeeps
<1>5. CASE DeleteByEventID(e) /\ req[r].op # "update" /\ Answer(r, FALSE)
  <2>1. RequestsApart(e)
    BY <1>1, <1>2, <1>5, MovesApart DEF Running
  <2>2. TablesApart(e) /\ RemindersOf(e)' = {}
    BY <1>2, <1>5, Deleted
  <2>3. ASSUME ~req[r].raced
        PROVE  Matches(e)'
    <3>1. e \notin DOMAIN events
      BY <1>1, <1>2, <1>5, <2>3, WriterFacts DEF EventInv, Own
    <3> QED
      BY <1>2, <2>2, <3>1 DEF Matches
  <2>4. EventInv(e)'
    BY <1>1, <1>2, <1>5, <2>3, AnswerKeeps
  <2> QED
    BY <1>2, <1>3, <2>1, <2>2, <2>4, ApartKeeps
<1>6. CASE Answer(r, TRUE) /\ UNCHANGED notifs
  <2>1. RequestsApart(e) /\ EventInv(e)'
    BY <1>1, <1>2, <1>6, MovesApart, AnswerKeeps DEF Running
  <2>2. TablesApart(e)
    BY <1>2, <1>6 DEF TablesApart, RemindersOf
  <2> QED
    BY <1>2, <1>3, <2>1, <2>2, ApartKeeps
<1> QED
  BY <1>1, <1>4, <1>5, <1>6 DEF CancelForEvent

LEMMA SchedulingKeeps ==
  ASSUME Inv, ScheduleInv, NEW r \in Requests, ScheduleForEvent(r)
  PROVE  ScheduleInv'
<1>1. PICK e : e = req[r].event
  OBVIOUS
<1>2. req[r].pc = "schedule" /\ req[r].pc \in Running /\ req \in [Requests -> RequestState]
      /\ UNCHANGED <<events, notifs, now>>
  BY Typed DEF ScheduleForEvent, At, Running, tables
<1>3. e \in EventIds /\ EventInv(e)
  BY <1>1, <1>2, WriterFacts
<1>4. PICK S : S = FutureSlots(req[r].row)
  OBVIOUS
<1>5. S = FutureAt(req[r].row, now)
  BY <1>4 DEF FutureSlots, FutureAt
<1>6. TablesApart(e)
  BY <1>2 DEF TablesApart, RemindersOf
<1>7. CASE S = {} /\ Answer(r, FALSE)
  <2>1. RequestsApart(e)
    BY <1>1, <1>2, <1>7, MovesApart DEF Running
  <2>2. ASSUME ~req[r].raced
        PROVE  Matches(e)'
    <3>1. e \in DOMAIN events /\ events[e] = req[r].row /\ RemindersOf(e) = {}
      BY <1>1, <1>2, <2>2, WriterFacts DEF EventInv, Own
    <3>2. e \in DOMAIN events' /\ RemindersOf(e)' = {}
      BY <1>2, <3>1 DEF RemindersOf
    <3>3. FutureAt(events[e], now)' = {}
      BY <1>2, <1>5, <1>7, <3>1 DEF FutureAt, NotifyAt
    <3> QED
      BY <3>2, <3>3 DEF Matches
  <2>3. EventInv(e)'
    BY <1>1, <1>2, <1>7, <2>2, AnswerKeeps
  <2> QED
    BY <1>2, <1>3, <1>6, <2>1, <2>3, ApartKeeps
<1>8. CASE req' = [req EXCEPT ![r].pc = "insert", ![r].slots = S] /\ UNCHANGED clean
  <2>1. RequestsApart(e)
    BY <1>1, <1>2, <1>8, MovesApart DEF Running
  <2>2. /\ \A q \in Requests \ {r} : req'[q] = req[q]
        /\ req'[r].pc = "insert" /\ req'[r].event = e /\ req'[r].raced = req[r].raced
        /\ req'[r].row = req[r].row /\ req'[r].slots = S
    BY <1>1, <1>2, <1>8 DEF RequestState
  <2>3. ASSUME ~req[r].raced
        PROVE  Own(r, e)'
    <3>1. Own(r, e) /\ \A q \in Writers(e)' : q = r
      BY <1>1, <1>2, <2>2, <2>3, Alone
    <3>2. e \in DOMAIN events' /\ events'[e] = req'[r].row
      BY <1>2, <2>2, <3>1 DEF Own
    <3>3. RemindersOf(e)' = {}
      BY <1>2, <3>1 DEF Own, RemindersOf
    <3>4. FutureAt(req[r].row, now)' \subseteq req'[r].slots
      BY <1>2, <1>5, <2>2 DEF FutureAt, NotifyAt
    <3> QED
      BY <2>2, <3>1, <3>2, <3>3, <3>4 DEF Own
  <2>4. EventInv(e)'
    BY <1>1, <1>2, <2>2, <2>3, MoveKeeps DEF Running
  <2> QED
    BY <1>2, <1>3, <1>6, <2>1, <2>4, ApartKeeps
<1> QED
  BY <1>4, <1>7, <1>8 DEF ScheduleForEvent

\* What one insertion adds: nothing that was there is written over.
LEMMA Inserted ==
  ASSUME Inv, NEW r \in Requests, req[r].pc = "insert", CreateBatch(NewReminders(r)),
         UNCHANGED events, NEW e, e = req[r].event
  PROVE  /\ TablesApart(e)
         /\ RemindersOf(e) = {} =>
              /\ RemindersOf(e)' = {r} \X req[r].slots
              /\ \A n \in RemindersOf(e)' : notifs'[n].notifyAt = NotifyAt(req[r].row, n[2])
<1> DEFINE N == NewReminders(r)
<1>1. DOMAIN N = {r} \X req[r].slots
      /\ \A n \in DOMAIN N : N[n].event = e /\ N[n].notifyAt = NotifyAt(req[r].row, n[2])
  BY DEF NewReminders
<1>2. \A n \in DOMAIN N : n \notin DOMAIN notifs
  BY <1>1 DEF Inv, PlacedInv
<1> HIDE DEF N
<1>3. DOMAIN notifs' = DOMAIN notifs \cup DOMAIN N
      /\ (\A n \in DOMAIN notifs : notifs'[n] = notifs[n])
      /\ (\A n \in DOMAIN N : notifs'[n] = N[n])
  BY <1>2 DEF CreateBatch, N
<1>4. TablesApart(e)
  BY <1>1, <1>3 DEF TablesApart, RemindersOf
<1>5. RemindersOf(e)' = RemindersOf(e) \cup DOMAIN N
  BY <1>1, <1>3 DEF RemindersOf
<1> QED
  BY <1>1, <1>3, <1>4, <1>5

LEMMA InsertingKeeps ==
  ASSUME Inv, ScheduleInv, NEW r \in Requests, InsertReminders(r)
  PROVE  ScheduleInv'
<1>1. PICK e : e = req[r].event
  OBVIOUS
<1>2. req[r].pc = "insert" /\ req[r].pc \in Running /\ UNCHANGED <<events, now>>
      /\ req[r].slots \subseteq DOMAIN req[r].row.offsets
  BY Typed DEF InsertReminders, At, Running
<1>3. e \in EventIds /\ EventInv(e)
  BY <1>1, <1>2, WriterFacts
<1>4. CASE CreateBatch(NewReminders(r)) /\ Answer(r, FALSE)
  <2>1. RequestsApart(e)
    BY <1>1, <1>2, <1>4, MovesApart DEF Running
  <2>2. TablesApart(e)
    BY <1>1, <1>2, <1>4, Inserted
  <2>3. ASSUME ~req[r].raced
        PROVE  Matches(e)'
    <3>1. e \in DOMAIN events /\ events[e] = req[r].row /\ RemindersOf(e) = {}
          /\ FutureAt(req[r].row, now) \subseteq req[r].slots
      BY <1>1, <1>2, <2>3, WriterFacts DEF EventInv, Own
    <3>2. /\ RemindersOf(e)' = {r} \X req[r].slots
          /\ \A n \in RemindersOf(e)' : notifs'[n].notifyAt = NotifyAt(events[e], n[2])
      BY <1>1, <1>2, <1>4, <3>1, Inserted
    <3>3. e \in DOMAIN events' /\ events'[e] = events[e]
      BY <1>2, <3>1
    <3>4. FutureAt(events[e], now)' = FutureAt(events[e], now)
      BY <1>2 DEF FutureAt, NotifyAt
    <3>5. \A n \in RemindersOf(e)' :
            /\ n[2] \in DOMAIN events'[e].offsets
            /\ \A m \in RemindersOf(e)' : m[1] = n[1]
      BY <1>2, <3>1, <3>2, <3>3
    <3>6. \A i \in FutureAt(events[e], now)' : \E n \in RemindersOf(e)' : n[2] = i
      <4>1. SUFFICES ASSUME NEW i \in FutureAt(events[e], now)
                     PROVE  \E n \in RemindersOf(e)' : n[2] = i
        BY <3>4
      <4>2. <<r, i>> \in RemindersOf(e)'
        BY <3>1, <3>2, <4>1
      <4> QED
        BY <4>2
    <3> QED
      BY <3>2, <3>3, <3>5, <3>6 DEF Matches, NotifyAt
  <2>4. EventInv(e)'
    BY <1>1, <1>2, <1>4, <2>3, AnswerKeeps
  <2> QED
    BY <1>2, <1>3, <2>1, <2>2, <2>4, ApartKeeps
<1>5. CASE Answer(r, TRUE) /\ UNCHANGED notifs
  <2>1. RequestsApart(e) /\ EventInv(e)'
    BY <1>1, <1>2, <1>5, MovesApart, AnswerKeeps DEF Running
  <2>2. TablesApart(e)
    BY <1>2, <1>5 DEF TablesApart, RemindersOf
  <2> QED
    BY <1>2, <1>3, <2>1, <2>2, ApartKeeps
<1> QED
  BY <1>4, <1>5 DEF InsertReminders

----------------------------------------------------------------------------
(* Everybody else *)

\* The worker, the devices and the clock leave events, requests, and the
\* places and times of reminders as they are.
LEMMA OthersKeepSchedule ==
  ASSUME Inv, Inv', ScheduleInv,
         UNCHANGED <<events, req, clean>>, now' >= now, DOMAIN notifs' = DOMAIN notifs,
         \A n \in DOMAIN notifs : /\ notifs'[n].event = notifs[n].event
                                  /\ notifs'[n].notifyAt = notifs[n].notifyAt
  PROVE  ScheduleInv'
<1>1. now' \in Int
  <2>1. now' \in 0 .. MaxTime /\ MaxTime \in Nat
    BY BoundsAssumption DEF Inv, TypeOK, TableTypes
  <2> QED
    BY <2>1
<1>2. ASSUME NEW e \in EventIds
      PROVE  Untouched(e)
  BY DEF Untouched, RemindersOf
<1> QED
  BY <1>1, <1>2, UntouchedKeeps DEF ScheduleInv

\* What the worker does to reminders.
LEMMA WorkerKeepsPlaces ==
  ASSUME Inv, WorkerStep
  PROVE  /\ UNCHANGED <<events, now>> /\ DOMAIN notifs' = DOMAIN notifs
         /\ \A n \in DOMAIN notifs : /\ notifs'[n].event = notifs[n].event
                                     /\ notifs'[n].notifyAt = notifs[n].notifyAt
<1>1. \A n \in DOMAIN notifs : notifs[n] \in NotifRow
  BY DEF Inv, TypeOK, TableTypes
<1>2. /\ UNCHANGED <<events, now>>
      /\ \/ UNCHANGED notifs
         \/ \E S : MarkSent(S)
         \/ \E i : IncrementRetries(i) \/ CountTry(i)
  BY DEF WorkerStep, Poll, FetchTokens, Send, PurgeToken, WriteVerdict, FinishPass, tables
<1>3. CASE UNCHANGED notifs
  BY <1>2, <1>3
<1>4. ASSUME NEW S, MarkSent(S)
      PROVE  /\ DOMAIN notifs' = DOMAIN notifs
             /\ \A n \in DOMAIN notifs : /\ notifs'[n].event = notifs[n].event
                                         /\ notifs'[n].notifyAt = notifs[n].notifyAt
  BY <1>1, <1>4 DEF MarkSent, NotifRow
<1>5. ASSUME NEW i, IncrementRetries(i) \/ CountTry(i)
      PROVE  /\ DOMAIN notifs' = DOMAIN notifs
             /\ \A n \in DOMAIN notifs : /\ notifs'[n].event = notifs[n].event
                                         /\ notifs'[n].notifyAt = notifs[n].notifyAt
  BY <1>1, <1>5 DEF IncrementRetries, CountTry, NotifRow
<1> QED
  BY <1>2, <1>3, <1>4, <1>5

\* A crash takes every event that is being written out of the account.
LEMMA CrashKeepsSchedule ==
  ASSUME Inv, ScheduleInv, Crash
  PROVE  ScheduleInv'
<1>1. UNCHANGED <<events, notifs, now>> /\ req \in [Requests -> RequestState]
  BY Typed DEF Crash, tables
<1>2. \A q \in Requests : /\ req[q].pc \in Running => req'[q].pc = "dead"
                          /\ req[q].pc \notin Running => req'[q] = req[q]
  BY DEF Crash, WritersDie, IdleRequest
<1>3. \A e \in clean' : e \in clean /\ Writers(e) = {}
  BY DEF Crash, WritersDie, Writers
<1>4. ASSUME NEW e \in EventIds
      PROVE  EventInv(e)'
  <2>1. EventInv(e)
    BY DEF ScheduleInv
  <2>2. Writers(e)' = {}
    BY <1>2 DEF Writers, Running
  <2>3. RemindersOf(e)' = RemindersOf(e) /\ (Matches(e)' <=> Matches(e))
    BY <1>1 DEF Matches, RemindersOf, FutureAt, NotifyAt
  <2>4. req'[e].pc = "idle" => req[e].pc = "idle"
    BY <1>2 DEF EventIds
  <2> QED
    BY <1>1, <1>3, <2>1, <2>2, <2>3, <2>4 DEF EventInv
<1> QED
  BY <1>4 DEF ScheduleInv

----------------------------------------------------------------------------
(* Once nobody is writing an event, its reminders are those of the stored  *)
(* event, if its last writer ran alone and logged no error: for any number *)
(* of writers, faults and restarts (RescheduleForEvent, CancelForEvent).   *)
THEOREM RemindersAlwaysMatch == Spec => []RemindersMatchEvent
<1>1. Init => ScheduleInv
  BY DEF Init, StoreInit, WriterInit, IdleRequest, ScheduleInv, EventInv, RemindersOf, Writers,
         Running, EventIds
<1>2. Inv /\ Inv' /\ ScheduleInv /\ [Next]_vars => ScheduleInv'
  <2> SUFFICES ASSUME Inv, Inv', ScheduleInv, [Next]_vars PROVE ScheduleInv'
    OBVIOUS
  <2>0. now \in Int
    BY Typed
  <2>1. CASE Writing
    BY <2>1, CreateKeeps, FindKeeps, SaveKeeps, DeleteKeeps, CancelKeeps, SchedulingKeeps,
       InsertingKeeps DEF Writing, RequestStep, Creating, Updating, Deleting
  <2>2. CASE Sending
    BY <2>0, <2>2, WorkerKeepsPlaces, OthersKeepSchedule DEF Sending
  <2>3. CASE Registering \/ TimePasses \/ UNCHANGED vars
    <3>1. UNCHANGED <<events, notifs, req, clean>> /\ now' >= now
      <4>1. CASE Registering
        <5>1. UNCHANGED <<events, notifs, now, req, clean>>
          BY <4>1 DEF Registering, DeviceStep, RegisterDevice, UnregisterDevice,
             DeleteAccountTokens
        <5> QED
          BY <2>0, <5>1
      <4>2. CASE TimePasses
        BY <2>0, <4>2 DEF TimePasses, Tick, tables
      <4>3. CASE UNCHANGED vars
        BY <2>0, <4>3 DEF vars
      <4> QED
        BY <2>3, <4>1, <4>2, <4>3
    <3> QED
      BY <3>1, OthersKeepSchedule
  <2>4. CASE Crash
    BY <2>4, CrashKeepsSchedule
  <2> QED
    BY <2>1, <2>2, <2>3, <2>4 DEF Next
<1>3. Inv /\ ScheduleInv => RemindersMatchEvent
  <2> SUFFICES ASSUME Inv, ScheduleInv, NEW e \in clean, Writers(e) = {}
               PROVE  /\ e \notin DOMAIN events => RemindersOf(e) = {}
                      /\ e \in DOMAIN events =>
                           /\ \A n \in RemindersOf(e) :
                                /\ n[2] \in DOMAIN events[e].offsets
                                /\ notifs[n].notifyAt = NotifyAt(events[e], n[2])
                                /\ \A m \in RemindersOf(e) : m[1] = n[1]
                           /\ \A i \in FutureSlots(events[e]) :
                                \E n \in RemindersOf(e) : n[2] = i
    BY DEF RemindersMatchEvent
  <2>1. e \in EventIds
    BY DEF Inv, TypeOK, WriterTypes
  <2>2. Matches(e)
    BY <2>1 DEF ScheduleInv, EventInv
  <2> QED
    BY <2>2 DEF Matches, FutureSlots, FutureAt
<1> QED
  BY <1>1, <1>2, <1>3, Invariance, PTL DEF Spec
=============================================================================
