-------------------------- MODULE NotificationWorker --------------------------
(***************************************************************************)
(* The background worker: one goroutine that runs processPending once at   *)
(* start and then at every tick, never two passes at a time.  A pass works *)
(* on snapshots, wk.batch and wk.tokens, while requests go on changing the *)
(* tables they were read from.                                             *)
(*                                                                         *)
(*   idle -> tokens -> send <-> purge, write                               *)
(*             |         |                                                 *)
(*             v         v                                                 *)
(*            idle      idle                                               *)
(*                                                                         *)
(* What FCM answers for a token is its choice: the token accepted the      *)
(* message, is unregistered, or failed for some other reason.  The worker  *)
(* is there only if the server is started with FCM enabled.                *)
(***************************************************************************)
EXTENDS ReminderStore

VARIABLE wk

\* What a pass keeps of a fetched row.
Snapshot == [id : NotifIds, user : Users, notifyAt : Int]

WorkerState ==
  [pc       : {"idle", "tokens", "send", "purge", "write"},
   batch    : SUBSET Snapshot,           \* yet to send
   silent   : SUBSET NotifIds,           \* noDeviceIDs
   tokens   : SUBSET (Users \X Devices),
   user     : Users \cup {Nil},          \* whose reminders are being sent
   cur      : NotifIds \cup {Nil},       \* the reminder being sent
   accepted : SUBSET Devices,            \* FCM's answer for cur
   invalid  : SUBSET Devices,
   purge    : SUBSET Devices,            \* invalid tokens yet to delete
   verdict  : {"sent", "retry", Nil}]

IdleWorker ==
  [pc |-> "idle", batch |-> {}, silent |-> {}, tokens |-> {}, user |-> Nil,
   cur |-> Nil, accepted |-> {}, invalid |-> {}, purge |-> {}, verdict |-> Nil]

WorkerInit == wk = IdleWorker

\* Every reminder the pass has fetched and not dealt with.
InPass == {n.id : n \in wk.batch} \cup wk.silent \cup ({wk.cur} \ {Nil})

\* tokensByUser
TokensByUser(u) == {t[2] : t \in {x \in wk.tokens : x[1] = u}}

----------------------------------------------------------------------------
\* FindPending.  With nothing pending, or when the query fails, the pass
\* ends there.
Poll ==
  /\ wk.pc = "idle"
  /\ UNCHANGED <<tables, now>>
  /\ \/ \E S \in FindPending \ {{}} :
          /\ wk' = [wk EXCEPT
                      !.pc = "tokens",
                      !.batch = {[id |-> n, user |-> notifs[n].user,
                                  notifyAt |-> notifs[n].notifyAt] : n \in S}]
          /\ UNCHANGED faults
     \/ Fault /\ UNCHANGED wk

\* One query for the tokens of every user in the batch.  The reminders of
\* users who have none are set aside; which user comes first does not matter,
\* for nothing is written before all users are done.
FetchTokens ==
  LET owners == {n.user : n \in wk.batch}
      silent == {n \in wk.batch : TokensOf(n.user) = {}}
  IN
  /\ wk.pc = "tokens"
  /\ UNCHANGED <<tables, now>>
  /\ \/ /\ wk' = [wk EXCEPT
                    !.pc = "send",
                    !.tokens = UNION {{u} \X TokensOf(u) : u \in owners},
                    !.silent = {n.id : n \in silent},
                    !.batch = @ \ silent]
        /\ UNCHANGED faults
     \/ Fault /\ wk' = IdleWorker

\* User by user, in the random order of a Go map; each user's reminders in
\* the order of the query.
NextUp(n) ==
  /\ wk.user \in {Nil, n.user}
  /\ \A m \in wk.batch : m.user = n.user => n.notifyAt <= m.notifyAt

\* All tokens unregistered, or none.
Verdict(tokens, invalid) == IF invalid \in {tokens, {}} THEN "sent" ELSE "retry"

\* SendMulticast.
Send(n) ==
  LET tokens == TokensByUser(n.user)
      sending == [wk EXCEPT !.batch = @ \ {n}, !.user = n.user, !.cur = n.id]
  IN
  /\ wk.pc = "send" /\ n \in wk.batch
  /\ NextUp(n)
  /\ CountTry(n.id)
  /\ UNCHANGED <<events, devices, now, faults>>
  /\ \/ wk' = [sending EXCEPT !.pc = "write", !.verdict = "retry"]
     \/ \E invalid \in SUBSET tokens :
        \E accepted \in SUBSET (tokens \ invalid) :
          wk' = [sending EXCEPT
                   !.pc = IF invalid = {} THEN "write" ELSE "purge",
                   !.accepted = accepted, !.invalid = invalid, !.purge = invalid,
                   !.verdict = Verdict(tokens, invalid)]

\* DeleteByToken for each unregistered token; a failure is logged.
PurgeToken(d) ==
  /\ wk.pc = "purge" /\ d \in wk.purge
  /\ wk' = [wk EXCEPT !.purge = @ \ {d},
                      !.pc = IF wk.purge = {d} THEN "write" ELSE "purge"]
  /\ UNCHANGED <<events, notifs, now>>
  /\ \/ DeleteTokens({d}) /\ UNCHANGED faults
     \/ Fault /\ UNCHANGED devices

\* Faulty variant: a reminder that failed is tried again in the same pass.
WriteVerdictAgain ==
  LET again == [id |-> wk.cur, user |-> wk.user, notifyAt |-> now] IN
  /\ wk.pc = "write"
  /\ wk' = [IdleWorker EXCEPT
              !.pc = "send", !.silent = wk.silent, !.tokens = wk.tokens,
              !.batch = wk.batch \cup (IF wk.verdict = "retry" THEN {again} ELSE {})]
  /\ UNCHANGED <<events, devices, now, faults>>
  /\ IF wk.verdict = "sent" THEN MarkSent({wk.cur}) ELSE IncrementRetries(wk.cur)

\* MarkSent or IncrementRetries; a failure is logged, and the reminder stays
\* as it was.  Neither minds that the row is gone.
WriteVerdict ==
  /\ wk.pc = "write"
  /\ wk' = [IdleWorker EXCEPT
              !.pc = "send", !.batch = wk.batch, !.silent = wk.silent, !.tokens = wk.tokens,
              !.user = IF \E m \in wk.batch : m.user = wk.user THEN wk.user ELSE Nil]
  /\ UNCHANGED <<events, devices, now>>
  /\ \/ /\ IF wk.verdict = "sent" THEN MarkSent({wk.cur}) ELSE IncrementRetries(wk.cur)
        /\ UNCHANGED faults
     \/ Fault /\ UNCHANGED notifs

\* Faulty variant: reminders of users without devices are left as they are.
FinishPassSkipping ==
  /\ wk.pc = "send" /\ wk.batch = {}
  /\ wk' = IdleWorker
  /\ UNCHANGED <<tables, now, faults>>

\* MarkSentBatch, and the pass ends.
FinishPass ==
  /\ wk.pc = "send" /\ wk.batch = {}
  /\ wk' = IdleWorker
  /\ UNCHANGED <<events, devices, now>>
  /\ \/ MarkSent(wk.silent) /\ UNCHANGED faults
     \/ wk.silent # {} /\ Fault /\ UNCHANGED notifs

WorkerStep ==
  \/ Poll
  \/ FetchTokens
  \/ \E n \in wk.batch : Send(n)
  \/ \E d \in wk.purge : PurgeToken(d)
  \/ WriteVerdict
  \/ FinishPass
=============================================================================
