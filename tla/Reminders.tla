------------------------------ MODULE Reminders ------------------------------
(***************************************************************************)
(* The reminder subsystem: event writers, device endpoints and the         *)
(* notification worker over one database, a clock, and a process that may  *)
(* be killed and started again at any time.                                *)
(***************************************************************************)
EXTENDS EventWriter, DeviceTokens, NotificationWorker

vars == <<events, notifs, devices, now, faults, req, clean, wk>>

Init == StoreInit /\ WriterInit /\ WorkerInit

\* POST, PUT and DELETE of /api/events, for whoever is signed in.
Creating(r) == \E u \in Users, f \in Forms : CreateEvent(r, u, f)

Updating(r) ==
  \/ \E u \in Users, e \in Requests, f \in Forms : FindForUpdate(r, u, e, f)
  \/ SaveEvent(r)

Deleting(r) == \E u \in Users, e \in Requests : DeleteEvent(r, u, e)

RequestStep(r) ==
  \/ Creating(r)
  \/ Updating(r)
  \/ Deleting(r)
  \/ CancelForEvent(r)
  \/ ScheduleForEvent(r)
  \/ InsertReminders(r)

\* The process is killed and started again: the tables survive, requests in
\* flight and the worker's snapshots do not.  The time it is down is the time
\* until the next Poll.
Crash ==
  /\ Fault
  /\ WritersDie
  /\ wk' = IdleWorker
  /\ UNCHANGED <<tables, now>>

Writing == (\E r \in Requests : RequestStep(r)) /\ UNCHANGED wk
Sending == WorkerStep /\ UNCHANGED <<req, clean>>
Registering == DeviceStep /\ UNCHANGED <<req, clean, wk>>
TimePasses == Tick /\ UNCHANGED <<tables, faults, req, clean, wk>>

Next == Writing \/ Sending \/ Registering \/ TimePasses \/ Crash

Spec == Init /\ [][Next]_vars

\* The worker is in a call to FCM, or about to make one.
AtFCM == wk.pc = "send" /\ wk.batch # {}

\* The ticker keeps firing, statements return, and a pass that has begun goes
\* on, but for its calls to FCM: they have no deadline, and may never return.
FairSpec == Spec /\ WF_vars(~AtFCM /\ Sending)

----------------------------------------------------------------------------
TypeOK == TableTypes /\ WriterTypes /\ wk \in WorkerState

(* However passes, crashes and failed statements interleave, FCM is called *)
(* for a reminder at most RetryLimit times, plus once for every statement  *)
(* or process that failed: only a lost status write can cause a repeat     *)
(* (notification_worker.go, sendNotification).                             *)
AttemptsBounded ==
  \A n \in DOMAIN notifs : notifs[n].tries <= RetryLimit + faults

(* No reminder is tried, counted or marked before its time, though the     *)
(* worker acts on a snapshot (FindPending's notify_at condition).          *)
NeverEarly ==
  \A n \in DOMAIN notifs :
    notifs[n].sent \/ notifs[n].retries > 0 \/ notifs[n].tries > 0 => Due(n)

(* Once a reminder is sent, or its retries are used up, no step changes    *)
(* its row again: a stale batch never sends it anew, counts another retry  *)
(* or reverts it.  It can only be deleted.                                 *)
SettledIsFinal ==
  [][\A n \in DOMAIN notifs \cap DOMAIN notifs' :
       ~Unsettled(n) => notifs'[n] = notifs[n]]_vars

(* A pass forgets nothing it has fetched: unless a statement fails or the  *)
(* process dies, a reminder leaves the pass sent, or with one retry fewer  *)
(* left, or deleted under the pass.  So no reminder can be fetched again   *)
(* and again without end (sendNotification, noDeviceIDs).                  *)
NoneForgotten ==
  [][faults' = faults => \A n \in (InPass \ InPass') \cap DOMAIN notifs' :
       notifs'[n].sent \/ notifs'[n].retries > notifs[n].retries]_vars

(* What the pass in hand has before it, at most.                           *)
StepsLeft ==
  LET unsent == {n.id : n \in wk.batch} IN
  ({"send", "write"} \X unsent \X {Nil})
    \cup ({"purge"} \X unsent \X Devices)
    \cup ({"purge"} \X {wk.cur} \X wk.purge)
    \cup ({"write"} \X ({wk.cur} \ {Nil}) \X {Nil})
    \cup ((IF wk.pc = "tokens" THEN {"tokens"} ELSE {}) \X {Nil} \X {Nil})
    \cup ((IF wk.pc = "idle" THEN {} ELSE {"finish"}) \X {Nil} \X {Nil})

(* A pass comes to an end, and its length is settled when it begins: every *)
(* step of the worker takes something off what is left, and nothing adds   *)
(* to it, no reminder that falls due, no device and no failure             *)
(* (processPending).                                                       *)
PassAdvances ==
  [][wk.pc # "idle" =>
       /\ StepsLeft' \subseteq StepsLeft
       /\ Sending => StepsLeft' # StepsLeft]_vars

(* The two tables agree on every event whose last writer ran alone and     *)
(* logged no error, once nobody is writing it: its reminders come from one *)
(* scheduling, stand at the offsets of the stored event, and leave out no  *)
(* offset still to come; a deleted event has none (RescheduleForEvent,     *)
(* CancelForEvent).                                                        *)
RemindersMatchEvent ==
  \A e \in clean : Writers(e) = {} =>
    /\ e \notin DOMAIN events => RemindersOf(e) = {}
    /\ e \in DOMAIN events =>
         /\ \A n \in RemindersOf(e) :
              /\ n[2] \in DOMAIN events[e].offsets
              /\ notifs[n].notifyAt = NotifyAt(events[e], n[2])
              /\ \A m \in RemindersOf(e) : m[1] = n[1]
         /\ \A i \in FutureSlots(events[e]) : \E n \in RemindersOf(e) : n[2] = i

(* A calendar that lists its events month by month misses none: two ranges *)
(* that meet list together what one over both does, but for an event that  *)
(* has no length and stands where they meet (FindByDateRange, for what     *)
(* CreateEvent and UpdateEvent let in).                                    *)
Instants == -1 .. MaxTime + 1

ListingsMeet ==
  \A u \in Users, a, m, b \in Instants : a < m /\ m < b =>
    FindByDateRange(u, a, b) =
      FindByDateRange(u, a, m) \cup FindByDateRange(u, m, b)
        \cup {e \in EventsOf(u) : events[e].start = m /\ events[e].end = m}

(* Every reminder that is due is settled or deleted in the end, however    *)
(* small the batch, if FCM answers every call: every attempt that fails    *)
(* uses up a retry, and faults run out.  One call that FCM never answers   *)
(* holds up all the reminders behind it (SendMulticast).                   *)
FCMAnswers == []<>~AtFCM

DueReminderSettles ==
  FCMAnswers =>
    \A n \in NotifIds :
      (n \in DOMAIN notifs /\ n \in PendingIds) ~> (n \in DOMAIN notifs => ~Unsettled(n))

----------------------------------------------------------------------------
(* The lifecycle the tables go through, reminder by reminder.              *)

StageOf(n) ==
  IF n \in DOMAIN notifs
  THEN IF notifs[n].sent THEN "sent"
       ELSE IF ~Unsettled(n) THEN "givenUp"
       ELSE IF Due(n) THEN "due" ELSE "waiting"
  ELSE IF req[n[1]].pc \in {"done", "dead"} THEN "gone" ELSE "none"

Lifecycle == INSTANCE ReminderLifecycle
               WITH Ids <- NotifIds, stage <- [n \in NotifIds |-> StageOf(n)]

(* The detailed system implements ReminderLifecycle: over all statements   *)
(* and restarts each reminder keeps to its stages.                         *)
ImplementsLifecycle == Lifecycle!Spec

----------------------------------------------------------------------------
(* What the repository's texts say and the code does not do.               *)

(* docs/api.md, DELETE /api/events/:id: a caller deletes an event of its   *)
(* own.  Under a foreign key the statement is refused while the event has  *)
(* a reminder, which DeleteEvent cancels only afterwards.                  *)
DeleteNotRefused ==
  \A r \in Requests : req[r].op = "delete" => req[r].result # "refused"

(* notification_worker.go:151, "If all tokens succeeded or all were        *)
(* invalid, mark as sent."                                                 *)
SentMeansHandled ==
  wk.pc = "write" /\ wk.verdict = "sent" =>
    TokensByUser(wk.user) \in {wk.accepted, wk.invalid}
=============================================================================
