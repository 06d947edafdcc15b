---------------------------- MODULE ReminderStore ----------------------------
(***************************************************************************)
(* The three tables the reminder subsystem shares, and the statements the  *)
(* repositories run on them (internal/repository, internal/model).         *)
(*                                                                         *)
(*   events   one row per calendar event, keyed by event id                *)
(*   notifs   one row per scheduled reminder, keyed by notification id     *)
(*   devices  one row per FCM token: the column is unique, so a function   *)
(*                                                                         *)
(* A table is a function whose domain is the set of keys that have a row.  *)
(* Each repository method is one SQL statement and so one atomic step; no  *)
(* transaction spans two of them.  A statement that fails has no effect,   *)
(* and Fault accounts for it.                                              *)
(*                                                                         *)
(* Identifiers are UUIDs made when a row is: the event a request creates   *)
(* is named by that request, and a reminder by the request that scheduled  *)
(* it and the position of its offset in the event's list.                  *)
(***************************************************************************)
EXTENDS Integers, Sequences, FiniteSets, Functions

CONSTANTS
  Users,          \* accounts
  Devices,        \* FCM registration tokens
  Requests,       \* HTTP requests that write an event, each served once
  Forms,          \* request bodies
  RetryLimit,     \* retries after which FindPending skips a reminder (3)
  BatchSize,      \* workerBatchSize (100)
  DefaultOffset,  \* reminder offset of a body that names none (180 minutes)
  EnforceFK,      \* TRUE for PostgreSQL; FALSE for SQLite, which leaves
                  \* foreign keys unchecked unless asked
  MaxOffsets,     \* bound: length of an offset list
  MaxTime,        \* bound: the last instant of the clock
  MaxFaults,      \* bound: failed statements and crashes
  Nil             \* no value

Slots == 1 .. MaxOffsets
OffsetLists == {s \in Seq(Int) : Len(s) <= MaxOffsets}

\* "labelled": the title is not blank and the time zone is known.
FormType == [start : Int, end : Int, offsets : OffsetLists \cup {Nil},
             labelled : BOOLEAN]

ASSUME BoundsAssumption ==
  /\ RetryLimit \in Nat \ {0}
  /\ BatchSize \in Nat \ {0}
  /\ MaxOffsets \in Nat \ {0}
  /\ MaxTime \in Nat
  /\ MaxFaults \in Nat
  /\ DefaultOffset \in Int
  /\ EnforceFK \in BOOLEAN

ASSUME FormsAssumption == Forms \subseteq FormType

ASSUME NilAssumption ==
  Nil \notin Users \cup Requests \cup Seq(Int) \cup (Requests \X Slots)

EventIds == Requests
NotifIds == Requests \X Slots

EventRow == [user : Users, start : Int, end : Int, offsets : OffsetLists]

\* tries is not a column: it counts the FCM calls made for the reminder.
NotifRow == [event : EventIds, user : Users, notifyAt : Int,
             sent : BOOLEAN, retries : Nat, tries : Nat]

VARIABLES
  events,
  notifs,
  devices,
  now,            \* the wall clock
  faults          \* failed statements and crashes so far

tables == <<events, notifs, devices>>

TableTypes ==
  /\ events \in [DOMAIN events -> EventRow] /\ DOMAIN events \subseteq EventIds
  /\ notifs \in [DOMAIN notifs -> NotifRow] /\ DOMAIN notifs \subseteq NotifIds
  /\ devices \in [DOMAIN devices -> Users] /\ DOMAIN devices \subseteq Devices
  /\ now \in 0 .. MaxTime
  /\ faults \in 0 .. MaxFaults

StoreInit ==
  /\ events = << >>
  /\ notifs = << >>
  /\ devices \in UNION {[D -> Users] : D \in SUBSET Devices}
  /\ now = 0
  /\ faults = 0

Tick ==
  /\ now < MaxTime
  /\ now' = now + 1

\* A statement fails, or the process is killed.
Fault ==
  /\ faults < MaxFaults
  /\ faults' = faults + 1

----------------------------------------------------------------------------
(* events *)

PutEvent(e, row) ==
  events' = [x \in DOMAIN events \cup {e} |-> IF x = e THEN row ELSE events[x]]

EventsOf(u) == {e \in DOMAIN events : events[e].user = u}

\* Without the order the statement asks for, which no property is about.
FindByDateRange(u, start, end) ==
  {e \in EventsOf(u) : events[e].start < end /\ events[e].end > start}

RemindersOf(e) == {n \in DOMAIN notifs : notifs[n].event = e}

\* The foreign key notifications.event_id -> events.id has no ON DELETE rule.
DeleteRefused(e) == EnforceFK /\ RemindersOf(e) # {}

DeleteEventRow(e) == events' = Restrict(events, DOMAIN events \ {e})

----------------------------------------------------------------------------
(* notifications *)

CreateBatch(rows) ==
  notifs' = [n \in DOMAIN notifs \cup DOMAIN rows |->
               IF n \in DOMAIN rows THEN rows[n] ELSE notifs[n]]

\* Faulty variant: reminders already sent are kept.
DeleteUnsentByEventID(e) ==
  notifs' = Restrict(notifs, {n \in DOMAIN notifs : notifs[n].event # e \/ notifs[n].sent})

DeleteByEventID(e) ==
  notifs' = Restrict(notifs, {n \in DOMAIN notifs : notifs[n].event # e})

\* Faulty variant: retries <= RetryLimit.
UnsettledOneMore(n) == ~notifs[n].sent /\ notifs[n].retries <= RetryLimit

Unsettled(n) == ~notifs[n].sent /\ notifs[n].retries < RetryLimit

Due(n) == notifs[n].notifyAt <= now

\* Faulty variants: without notify_at <= now, and without sent = false.
PendingAnyTime == {n \in DOMAIN notifs : Unsettled(n)}
PendingSentToo == {n \in DOMAIN notifs : notifs[n].retries < RetryLimit /\ Due(n)}

PendingIds == {n \in DOMAIN notifs : Unsettled(n) /\ Due(n)}

\* ORDER BY notify_at LIMIT BatchSize, ties in any order.
FindPending ==
  {S \in SUBSET PendingIds :
     /\ Cardinality(S) = IF Cardinality(PendingIds) < BatchSize
                         THEN Cardinality(PendingIds) ELSE BatchSize
     /\ \A n \in S, m \in PendingIds \ S : notifs[n].notifyAt <= notifs[m].notifyAt}

MarkSent(S) ==
  notifs' = [n \in DOMAIN notifs |->
               IF n \in S THEN [notifs[n] EXCEPT !.sent = TRUE] ELSE notifs[n]]

IncrementRetries(i) ==
  notifs' = [n \in DOMAIN notifs |->
               IF n = i THEN [notifs[n] EXCEPT !.retries = @ + 1] ELSE notifs[n]]

CountTry(i) ==
  notifs' = [n \in DOMAIN notifs |->
               IF n = i THEN [notifs[n] EXCEPT !.tries = @ + 1] ELSE notifs[n]]

----------------------------------------------------------------------------
(* device_tokens *)

TokensOf(u) == {d \in DOMAIN devices : devices[d] = u}

\* INSERT ... ON CONFLICT (token) DO UPDATE SET user_id.
Upsert(u, d) ==
  devices' = [x \in DOMAIN devices \cup {d} |-> IF x = d THEN u ELSE devices[x]]

DeleteTokens(D) == devices' = Restrict(devices, DOMAIN devices \ D)
=============================================================================
