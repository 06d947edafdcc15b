# Haru: TLA+ models and proofs

This directory holds the formal model of the Haru server (`src/`, Go): what its
request handlers and its background worker do to the shared database, and how
the process serves long calls and stops, checked with TLC on small instances.
Every safety property of the passing runs, and every refinement, is also proved
with TLAPS, for every instance; so are the facts that the worker's liveness rests
on.

Contents: [1. The system](#1-the-system) · [2. Modules](#2-modules) ·
[3. Runs](#3-runs) · [4. Disagreements found](#4-disagreements-found) ·
[5. Proofs](#5-proofs) · [6. Abstractions](#6-abstractions) ·
[7. Not modelled](#7-not-modelled) · [8. Plan](#8-plan)

## 1. The system

One process (`cmd/server/main.go`) serves an HTTP API, one goroutine a request,
and runs one notification worker in a goroutine of its own. All state that
outlives a request is in a SQL database, PostgreSQL or SQLite, through gorm.
**No transaction spans two statements anywhere in the code**: every repository
method is one statement, so the statements of requests and of the worker
interleave freely, any of them may fail, and the process may die between two.
Failing statements are no rarity: every statement runs under the request's
context, which is cancelled when the client goes away. (Two components keep
their state in memory: a voice call, which waits and retries, and the process
itself, from its start to its exit.)

| component | state it keeps | operations | code |
|---|---|---|---|
| Event writing | `events` rows; `notifications` rows through the scheduler | create, update, delete an event; cancel and insert its reminders | `internal/service/event_writer.go`, `notification_service.go` |
| Notification worker | snapshots of a pass; `sent` and `retries` of `notifications` | poll, fetch tokens, send, purge tokens, mark sent or count a retry | `internal/service/notification_worker.go` |
| Device tokens | `device_tokens` rows | upsert, delete by owner, delete all of an account | `internal/service/device_token_service.go` |
| Event reading | none | list by range, get one | `internal/service/event_reader.go` |
| Sessions | `users` and `refresh_tokens` rows | sign in with Apple or Kakao, refresh, log out, delete the account | `internal/service/auth_service.go` |
| Subscriptions | subscription and quota columns of `users` | verify a purchase, handle App Store notifications, check and count voice parses, report the status | `internal/service/subscription_*.go` |
| Voice parsing | for each call its attempt, its deadline and its client | check the quota, ask Gemini up to three times, count | `internal/handler/voice_handler.go`, `internal/service/voice_*.go`, `pkg/gemini` |
| Access tokens, routing | none | sign and check a JWT, log, recover | `pkg/jwt`, `internal/middleware`, `internal/router` |
| Clients of Apple, Kakao, App Store, FCM | cached keys | HTTP calls | `pkg/` |
| Server and set-up | the process: starting, listening, draining | configuration, migration, wiring, signals, shutdown | `cmd/server`, `config`, `pkg/database` |

The components meet in the tables. The worker reads `notifications` and
`device_tokens` while event requests rewrite the one and device requests the
other. Sign-in, purchase verification, App Store notifications and the voice
quota each read a whole `users` row, change a column or two of their copy and
save the whole copy; between a read and its save a handler may wait for a
remote service. The App Store is an actor of its own: it decides about a
subscription, and tells the server in notifications that come when they come.
Voice calls meet the shutdown of the process, which waits for them only so long.

What is hard here, and what a correct system owes its users:

- *Event writing.* Create is two statements, update four, delete two, and the
  errors of the scheduler are logged and not returned. Owed: once nobody is
  writing an event, its reminders are those of the stored event
  (`RemindersMatchEvent`).
- *Worker.* It acts on a batch read long before. A message may be accepted and
  the status write lost. Owed: no reminder early, none settled twice, a bounded
  number of attempts, and none forgotten (`NeverEarly`, `SettledIsFinal`,
  `AttemptsBounded`, `NoneForgotten`, `PassAdvances`, `DueReminderSettles`).
- *Event reading.* A calendar is listed range by range. Owed: ranges that meet
  miss no event (`ListingsMeet`).
- *Sessions.* Refresh and deletion are several statements with requests of the
  same account in between. Owed: a session forks by a race only, an exchanged
  token is found no more, and a deleted account leaves nothing (`ForkOnlyByRace`,
  `ExchangedIsRevoked`, `DeletedLeavesNothing`).
- *Subscriptions.* The last writer of a row wins with everything it read, check
  and count of the quota are apart, and notifications are late, overtake one
  another, come again after a crash or are answered without being recorded.
  Owed: the status follows the store, a transaction stays with its account, the
  quota is kept over changes of day and of subscription, and every premium row
  can be found by its notifications, each request being as one step
  (`ImplementsLedger`, `StatusFollowsStore`, `TransactionKept`, `QuotaExact`,
  `PremiumHasTransaction`).
- *Voice calls and shutdown.* Attempts share one deadline, the sleeps between
  them heed neither the deadline nor the client, and a shutdown lasts five
  seconds where a call may last forty. Owed: no call goes on for ever or long
  after its time, the process stops in time, and cuts no call it could have
  waited for; each call is taken while the server is open and settled once (`CallsEnd`, `OverInTime`,
  `NotLongAlone`, `StopsInTime`, `OnlyLongCallsCut`, `ImplementsService`).

`PROJECT.json` lists every hazard at its line of the code, with the properties
that watch it or the reason none does.

## 2. Modules

```
ReminderStore ── EventWriter ────────┐              AccountStore ── Sessions ─────┐
      ├───────── DeviceTokens ───────┼─ Reminders         └───────── Subscriptions ┴─ Accounts
      └───────── NotificationWorker ─┘   │    │                                       │ │ │
                 ReminderLifecycle ──────┘    ├─ MCReminders             MCAccounts ──┘ │ └── AccountLedger
                 (refined by Reminders)       └─ ReminderProofs          AccountProofs ─┘     (refined by
                                                 │          │                  │               Accounts)
                                          ScheduleProofs  WorkerProofs  SubscriptionProofs
                                                                               │
VoiceParser ── Server ─┬─ MCServer                                        LedgerProofs
                       ├─ ServerProofs
                       └─ ServiceLifecycle (refined by Server)
```

### The reminder subsystem

| module | models | state |
|---|---|---|
| `ReminderStore` | the tables and one operator a repository method (`internal/repository`, `internal/model`) | `events`, `notifs`, `devices` (functions from keys that have a row), `now`, `faults` |
| `EventWriter` | `eventService`'s writer and `notificationScheduler` | `req`: for each request its local variables and the statement it is at; `clean`: a history variable |
| `DeviceTokens` | the device endpoints; the token statements of logout and account deletion | – |
| `NotificationWorker` | `processPending` and `sendNotification` | `wk`: the pass's batch, tokens, current reminder and FCM's answer |
| `Reminders` | the three together, the clock, a crash and restart; the properties | – |
| `ReminderLifecycle` | the abstract specification: what each reminder goes through | `stage` |
| `MCReminders` | instances for TLC | – |
| `ReminderProofs`, `ScheduleProofs`, `WorkerProofs` | theorems and proofs | – |

| action | code |
|---|---|
| `CreateEvent` | `eventService.CreateEvent`: validation and `repo.Create`, with the failure of each |
| `FindForUpdate`, `SaveEvent` | `UpdateEvent`: `FindByID` and validation; `repo.Update` (gorm's `Save`, which inserts a row that is gone) |
| `DeleteEvent` | `DeleteEvent`: `repo.Delete`, refused under a foreign key while the event has reminders |
| `CancelForEvent` | `notifRepo.DeleteByEventID`, alone or as the first half of `RescheduleForEvent` |
| `ScheduleForEvent`, `InsertReminders` | `ScheduleForEvent`: reading the clock and choosing the offsets to come; `CreateBatch` |
| `RegisterDevice`, `UnregisterDevice`, `DeleteAccountTokens` | `Upsert`, `Delete`, `DeleteByUserID` of `device_token_repository.go` |
| `Poll`, `FetchTokens`, `Send`, `PurgeToken`, `WriteVerdict`, `FinishPass` | the statements and the FCM call of a pass, in the code's order |
| `FindByDateRange`, `RemindersOf`, … | reading changes nothing, so a repository's query is an operator; what a listing shows is the subject of `ListingsMeet` |
| `Crash` | the process is killed and started again: tables stay, everything else goes |
| `Tick` | time passes, between any two statements |

Requests and worker passes interleave between any two statements. A statement
that fails (`Fault`) has no effect, and the handler then does what its error
branch does: answer an error, or log and go on.

`tries` in a reminder's row and `clean`, `raced` are history: the code does not
keep them and no guard reads them, except that `clean` is computed from
`raced`. `tries` counts the FCM calls made for a reminder; `clean` holds the
events whose last writer had them to itself and logged no error.

`ReminderLifecycle` says what the subsystem promises for one reminder, whatever
happens around it: *none → waiting → due → sent or given up*, and from any
stage to *gone*, each at most once. `Reminders` is shown to implement it under
the mapping `StageOf`, which reads a stage off the reminder's row and the clock
(and, for a row that is not there, off whether its request is finished).

### Accounts

| module | models | state |
|---|---|---|
| `AccountStore` | `users` and `refresh_tokens`, their unique indexes and foreign key; requests in flight, failures, crash, clock | `users`, `tokens`, `lastUser`, `lastToken`, `now`, `faults`, `job`, `disturbed` (history) |
| `Sessions` | `authService` | `parent`, `shared`, `deleted` (all history) |
| `Subscriptions` | `subscriptionService`, the voice endpoint's use of it, the status response; the App Store | `issued`, `mail` (the App Store's); `astray`, `answered`, `straddled` (history) |
| `Accounts` | the two over one `users` table; the properties | – |
| `AccountLedger` | the abstract specification: the rows of accounts that no two requests work on at once | `row`, `past` |
| `MCAccounts` | instances for TLC | – |
| `AccountProofs`, `SubscriptionProofs`, `LedgerProofs` | theorems and proofs | – |

| action | code |
|---|---|
| `Login`, `CreateUser`, `SaveLogin`, `IssueToken` | `AppleLogin`, `KakaoLogin`: find; create or save; `jwtManager.GenerateTokenPair` and `tokenRepo.Create` |
| `RefreshToken`, `Rotate`, `IssueToken` | `RefreshToken`: find and check expiry; delete; store the new one |
| `Logout` | `Logout`: `DeleteByUserID` of the refresh tokens |
| `DeleteAccount`, `DropTokens`, `DropUser` | `DeleteAccount`: find; (the provider's revocation) delete the tokens; delete the row |
| `VerifyAndActivate`, `Activate`, `SaveSubscription` | `VerifyAndActivate`: find; the App Store's answer; save |
| `Issue` | the App Store: a subscription begins, goes on or ends, and a notification of it is in the mail |
| `HandleNotification`, `SaveSubscription` | `HandleNotification`: find by transaction; save the new status |
| `IgnoreNotification` | `HandleNotification` finds no account; the answer is 200 nevertheless |
| `CheckVoiceParseLimit`, `IncrementVoiceParseCount`, `SaveSubscription` | `voice_handler.go`: check; Gemini's answer; read again (`CountParse`, `LeaveUncounted`); save the count |
| `AppleRefuses`, `StoreRefuses`, `ParseFails` | `RevokeByAuthCode`, `VerifyTransaction` and `ParseVoice` (after its three attempts) return an error |
| `StatementFails`, `Crash`, `Tick` | the error branches, a restart, time |

Each handler's local copy of a row is `job[c].row`, taken at its read and
written back whole at its save, as gorm's `Save` does. A request comes from one
of the `Clients`; a client's requests follow one another, different clients'
overlap. `disturbed` marks accounts on which two requests have been in flight
at once, or whose voice parse was answered without being counted. The code
does lose updates on such accounts (section 4), so the guarantees below are for
the others, and those that hold of every account (`PremiumHasTransaction`,
`ForkOnlyByRace`, `ExchangedIsRevoked`) do not mention it.

A count reads the clock twice: for the day it adds to (`todayParseCount`,
`subscription_writer.go:95`) and for the stamp it leaves (line 83). `CountParse`
keeps the two apart, so that a count may meet 09:00 in Korea and carry the number
of the old day into the new; `straddled` is the history of the accounts it
happened to. `QuotaExact` says of the others that the count *is* the number of the
free parses answered that day, and of all that it is no lower, and never above the
limit. The limit is whatever integer `VOICE_PARSE_FREE_LIMIT` holds
(`config.go:114`, unchecked): `FreeParses` is 0 for one below zero. At zero the
status endpoint tells a premium account that none are left while the check lets
it parse (`dto/subscription.go:35`, `subscription_writer.go:58`), which is why
`QuotaExact` speaks of what a free account is shown.

`AccountLedger` says what all of these handlers together promise for a row that
each request had to itself: that the request is **one step**, as though it had read
and saved the row at the same instant. A first sign-in opens an account, a
verified purchase, a notification and a voice parse each change their columns of
the row *as it is at the save*, a later sign-in changes nothing, a deletion closes
the account for good. `Accounts` implements it under `row <- Undisturbed`, the
rows of accounts not in `disturbed`, and `past <- Closed`, the accounts that are
deleted or disturbed: from the moment two requests work on it the ledger promises
nothing of an account, as the code keeps nothing.

The App Store is part of `Subscriptions`. `issued[x]` is what it has said of
transaction `x`, in order; `mail` the notifications still on their way, a set,
since nothing keeps their order. The server answers 200 whatever becomes of a
notification (`subscription_handler.go`, 87–93), so each is delivered once,
unless the process dies before it answers: then it is back in the mail.
`astray` records the transactions about which a word of the store was lost on
the server's side: verified after it lapsed, handled out of order, handled
while a verification of it waited to be saved, or failed to be recorded. Those
are the ways in which a status can go wrong for good; `StatusFollowsStore` says
that there is no other. A verification looks at the transaction the client
presents, not at the subscription: `Unrevoked` holds while one of the purchases
and renewals under the original transaction id has not been revoked, be it an old
one.

### The server and its voice calls

| module | models | state |
|---|---|---|
| `VoiceParser` | `voiceParsingService.ParseVoice` and the Gemini client | `call`: for each call where it is, its attempt, its age, how long it has slept, whether its client is there and for how long it has not been |
| `Server` | `main`: start, signal, shutdown, exit | `main`, `voiceSvc` (what stands behind the endpoint), `waited` |
| `ServiceLifecycle` | the abstract specification: what becomes of the calls | `phase`, `outcome` |
| `MCServer` | the instance for TLC | – |
| `ServerProofs` | theorems and proofs | – |

| action | code |
|---|---|
| `Boot` | `main` up to the goroutine that listens; the choice of the voice service |
| `Notify` | `signal.Notify`, after the server has begun to listen |
| `Accept` (`ParseVoice`) | a request reaches the handler: the first attempt begins, or the time zone does not load, or there is no API key |
| `GeminiAnswers`, `GeminiBlocks`, `AttemptFails` | `GenerateWithFunctionCall` and what is made of its answer; a candidate without content panics, and `Recovery` answers 500 |
| `Wake` | the sleep between two attempts is over |
| `ClientLeaves` | the connection closes, which cancels the request's context |
| `Shutdown`, `Leave` | a signal; `srv.Shutdown` returns, idle or after its grace, and `main` with it |
| `Die` | listening fails, the process is killed, or a signal comes before `Notify` |
| `Pass` | time passes, by one sleep of `ParseVoice` (five seconds) |

Time is explicit, because the properties are about it. `Pass` is not enabled
while a call is overdue or `main` has something to do at once: code takes no
time here, only waiting does.

`ServiceLifecycle` is what a client of the server can rely on: the service is
*down*, *open* or *closing*; a call is taken only while it is open, becomes
*answered*, *cut* (by a shutdown) or *lost* (with the process) once, and is pending
in no process that is gone. `Server` implements it, its attempts, sleeps and absent
clients being steps that nobody outside sees.

## 3. Runs

Run a configuration with `tlc -workers 2 -config MCxxx.cfg <module>`. Deadlock
is not checked: requests are finite in number, the clock and the faults are
bounded, and a system with nothing left to do stops. (`MCServer` checks it:
a process that is up can always end, and one that is down be started.)

| run | properties | states | what it shows |
|---|---|---|---|
| `MCWriters` | `TypeOK`, `RemindersMatchEvent`, `ListingsMeet` | 115 k | three event requests, statement by statement, with a worker, a fault or a crash, and no foreign keys: the reminders of every event whose last writer ran alone match the event, and listings miss no event |
| `MCDelivery` | `AttemptsBounded`, `NeverEarly`, `SettledIsFinal`, `DueReminderSettles`, `NoneForgotten`, `PassAdvances`, `ImplementsLifecycle` | 94 k | two devices, batches of one, tokens and events that change under a pass, lost status writes, restarts: nothing early, nothing too often, every due reminder settled in the end if FCM answers, none forgotten by a pass that fetched it, and no pass without an end; the lifecycle is implemented |
| `MCSessions` | `TypeOK`, `ForkOnlyByRace`, `ExchangedIsRevoked`, `DeletedLeavesNothing` | 773 k | two clients, two identities, expiry, a fault or a crash, no foreign keys: sessions fork by a race only, an exchanged token is found no more, a deleted account leaves nothing |
| `MCSubscriptions` | `StatusFollowsStore`, `QuotaExact`, `ImplementsLedger` | 1.6 M | one account over two days, an App Store with two words to say, verifications, two free parses a day, counts that meet the end of a day, sign-ins, a fault or a crash; the quota is kept and the ledger is implemented |
| `MCContest` | `StatusFollowsStore`, `PremiumHasTransaction`, `TransactionKept` | 3.5 M | two accounts lay claim to one transaction while its three notifications, sign-ins, deletions and parses beyond a quota of none go on: the one that has it keeps it and follows the store, no premium row is out of the reach of its notifications |
| `MCServer` | `TypeOK`, `OverInTime`, `NotLongAlone`, `StopsInTime`, `OnlyLongCallsCut`, `CallsEnd`, `ImplementsService` | 78 k | two voice calls with failing attempts and clients that leave, a shutdown, kills and restarts; the service is implemented |

The six remaining runs exhibit the disagreements of section 4 and are expected
to be violated.

**Bounds, and why they are enough.** Every bound is a constant.

- *Writers.* Three requests are the fewest in which a racing pair is followed by
  a request that has the event to itself. Their bodies have two reminders of
  which one may be past, none, or the default one, so that rescheduling adds,
  removes and skips reminders. Foreign keys are off, for they only refuse
  steps. One fault puts a failure or a crash at any single statement.
  `ListingsMeet` looks at every range from before the first instant to after the
  last, and one body asks for an event of no length, one for an event that ends
  before it starts.
- *Delivery.* Two requests and two devices give a pass with every mixture of
  accepted, unregistered and failed tokens, while the other request reschedules
  or deletes. `RetryLimit` is 2 instead of 3 and `BatchSize` 1 instead of 100:
  the limit is reached, and a batch is smaller than what is due, so that liveness
  has to do with reminders that wait for one another. `tries` may reach
  `RetryLimit + MaxFaults`, and does. There is no symmetry, for which liveness
  would not be sound.
- *Sessions.* Two clients race on one token, one identity and one account;
  three tokens are a first pair and two exchanges of it. The clock jumps from 0
  to 721 hours, past the 720 of a refresh token.
- *Subscriptions.* Two notifications are the fewest that can be lost, late or in
  the wrong order; the types sent are one that activates and one that
  revokes, which a verification looks at; expiry joins them in `MCContest`, and
  the other types do to a row what these do. A limit of 2 gives a count that
  neither begins nor exhausts the quota. Hours 0 and 25 are in different days of
  the quota, whichever zone one counts in, and a count may read its clock at 0 and
  its stamp at 25; the day boundary itself is the subject of `MCMidnightReset`.
  There is one account, so that the unique indexes refuse nothing here, and it is
  not deleted: deletions meet purchases in `MCContest` and sign-ins in
  `MCSessions`.
- *Contest.* Two identities, one transaction: the smallest contention for the
  unique index, with the refusals. Three notifications let a subscription lapse
  and begin again in other hands. The limit of free parses is 0, a value the
  configuration accepts.
- *Server.* The times are those of the code in units of five seconds: a deadline
  of 6, a grace of 1, three attempts. Two calls are the fewest of which a
  shutdown can wait for one and cut the other.

**Fairness.** `FairSpec` of `Reminders` has `WF_vars(~AtFCM /\ Sending)` and nothing
else: outside its calls to FCM, the worker goroutine takes a step whenever it
can. `Start` loops on a ticker until its context is cancelled
(`notification_worker.go`, 41–58), and the process that was killed is started
again. A pass does wait in two places, and what is assumed of each is this.

- *FCM.* `SendEachForMulticast` (`pkg/fcm/client.go:54`) runs under a context
  without a deadline (`cmd/server/main.go:156`) and the code sets no other: a call
  need never return. No fairness is asked of it; `DueReminderSettles` has the
  premise `FCMAnswers`, that the worker is infinitely often not in such a call.
  Without it the property is false of the code: one call that never answers
  stops every later reminder of every account. An error is an answer.
- *The database.* A statement is answered or fails. Failing statements are
  bounded by `MaxFaults`; with a database that never answers nothing is promised.

The worker exists only with `FCM_ENABLED=true` (`main.go:148`, off by default);
`Reminders` models a server that has it. No fairness is asked of requests,
devices or the clock.

`FairSpec` of `Server` has `WF_vars` on `Pass` (time goes on), `Notify`, `Leave`
(main does not dwell between two statements) and, for each call, `Return`: an
attempt returns when its context is done, a sleeper wakes. That is what
`http.NewRequestWithContext` and `time.Sleep` promise. Gemini need never answer,
no client need leave and no signal need come.

**Reading the properties.** `RemindersMatchEvent` asks for the offsets still to
come only, since `ScheduleForEvent` skips those past: a reminder that is due and
not yet sent when its event is edited is dropped, not sent late.
`DueReminderSettles` assumes that FCM answers, and says *settled*, not
*delivered*: a reminder of an account
without devices is marked sent, and one that fails `RetryLimit` times is given
up silently. `ListingsMeet` leaves out an event of no length that stands where
two ranges meet: `FindByDateRange` lists it in neither (`start_at < end AND
end_at > start`), and `Validate` lets it in (section 4). `ExchangedIsRevoked` is
about the table: a request that found the token before it was deleted goes on
with it, which is `MCRefreshTwice`. `StatusFollowsStore` excuses `astray`
transactions and, like `QuotaExact` and `ImplementsLedger`, accounts that two
requests worked on at once: it says what goes wrong by such overlaps only, and the
hazards in `PROJECT.json` that are such an overlap have no property.

Every property of a passing run has a mutant in `PROJECT.json`: a small change
of a mapped definition, written next to it as a *faulty variant*, under which the
run's own configuration finds the property violated.

## 4. Disagreements found

Each is a run that TLC is expected to violate; the trace is the scenario.

| run | what the text says | what the code does |
|---|---|---|
| `MCDeleteRefused` | `docs/api.md:650`: `DELETE /api/events/:id` answers 204 | the event row is deleted before its reminders (`event_writer.go:95`), so PostgreSQL's foreign key refuses while one exists and the answer is 500; the integration test passes on SQLite, which does not enforce it |
| `MCSentMeansHandled` | `notification_worker.go:151`: "If all tokens succeeded or all were invalid, mark as sent" | also when every token failed for another reason: no device got the message and it is never retried |
| `MCRefreshTwice` | `docs/api.md:278`: the old refresh token is revoked at once | two overlapping refreshes both read it before either deletes it, and both get a pair |
| `MCDeletedReturns` | `docs/api.md:380`: deletes the account | a sign-in that read the row before saves it back |
| `MCLapsedPremium` | `docs/api.md:936`: EXPIRED makes the account free; `internal/model/user.go:27`: premium is an active subscription | a transaction whose expiry date has passed is verified all the same (`subscription_writer.go:30` looks at its revocation only), and the store, having said that it expired, says nothing more: the account stays premium. One client suffices, and no notification need be late |
| `MCMidnightReset` | `docs/api.md:966`: three parses a day, reset at midnight in Korea | `Truncate(24 * time.Hour)` counts days in UTC: the reset is at 09:00 in Korea. One client suffices |

`ForkOnlyByRace`, `DeletedLeavesNothing` and `StatusFollowsStore` say the rest of
the story: those races are the *only* ways in which sessions fork, deleted
accounts come back and statuses go wrong, failures and crashes included.

Three smaller disagreements need no run to be seen. `docs/api.md:1028` says that
`endAt` must be after `startAt`, and `event.go:70` refuses only an end before
the start, which is how events of no length come to be. `docs/api.md:1020` gives
502 for a Gemini error; an answer that Gemini blocks has a candidate without
content, whose parts `pkg/gemini/client.go:67` reads, so that the call ends in
`Recovery`'s 500. And a SIGTERM between the start of the listener and
`signal.Notify` (`main.go:171–181`) kills the process without a drain.

## 5. Proofs

`tlapm M.tla` checks the proofs of module `M`: `ReminderProofs`, and
`ScheduleProofs` and `WorkerProofs` that rest on it; `AccountProofs`,
`SubscriptionProofs` that rests on it, and `LedgerProofs` that rests on both; and
`ServerProofs`.

### Reminders

The theorems of `ReminderProofs`, `ScheduleProofs` and `WorkerProofs` hold for any
sets of accounts, devices and requests, any retry limit and batch size, with or
without foreign keys, any number of faults, crashes and instants.

| theorem | statement |
|---|---|
| `Invariance` | `Spec => []Inv` |
| `TypeCorrect` | `Spec => []TypeOK` |
| `AttemptsAreBounded` | `Spec => []AttemptsBounded` |
| `NothingEarly` | `Spec => []NeverEarly` |
| `SettledForGood` | `Spec => SettledIsFinal` |
| `Refinement` | `Spec => ImplementsLifecycle` |
| `ListingsAlwaysMeet` | `Spec => []ListingsMeet` |
| `RemindersAlwaysMatch` | `Spec => []RemindersMatchEvent` |
| `NothingForgotten` | `Spec => NoneForgotten` |
| `PassesComeToAnEnd` | `Spec => PassAdvances` |
| `PassesAreFinite` | `Spec => []IsFiniteSet(StepsLeft)`, for finitely many devices |
| `WorkerNeverStuck` | `Spec => []NeverStuck` |

*Assumptions*, all in `ReminderStore`: `BoundsAssumption` (the limits are natural
numbers, those of retries, batch and offsets positive), `FormsAssumption` (request
bodies are of their type), `NilAssumption` (`Nil` is no account, request, offset
list or reminder). TLC evaluates them in every run.

*The inductive invariant.* None of the properties is inductive: each speaks of
tables the worker writes from snapshots it took earlier.

```
Inv == TypeOK /\ RequestInv /\ PassInv /\ PlacedInv /\ FreshInv /\ CountInv
```

- `RequestInv`: what a request carries at each statement. The types let the
  fields be `Nil` at any time, and saving `Nil` would break `TypeOK`.
- `PassInv`: the shape of a pass. No reminder is in the batch, set aside and
  being sent at once, and one is being sent exactly between the FCM call and
  the status write.
- `PlacedInv`: a reminder that has a row, or is in a pass, was inserted by a
  request that has finished. Ids are therefore never inserted twice, and a
  reminder deleted under a pass does not come back under the same id.
- `FreshInv`, the heart: whatever a pass has fetched and not dealt with is still
  unsettled and due in the table, or has no row any more. It holds because one
  worker alone settles reminders, and `PassInv` keeps it from doing so twice in
  a pass. This is where running two server processes would break the argument.
- `CountInv`: every attempt is paid for by a retry, by a fault, or by the status
  write that is about to end it.

Each conjunct is shown to survive each action: the writers, devices, clock and
crash together in `OthersInv` (they leave rows of reminders alone, add fresh
ones or remove them, `NotifsKept`), the worker's actions one by one
(`PollInv` … `FinishPassInv`) in `SendingInv`.

*Properties from it.* `AttemptsAreBounded` and `NothingEarly` follow from
`CountInv`. `SettledForGood` follows from `FreshInv`: the worker touches only the
rows of its pass, which are unsettled. `Refinement` maps each step: an insert is
a `Schedule`, a tick a `FallDue`, a status write a `Settle`, a cancel, a refused
request or a crash a `Drop`, and every other step a stutter; that a `Settle`
starts from *due* is `FreshInv`, and that a `Schedule` starts from *none* is
`PlacedInv`. `ListingsAlwaysMeet` has an invariant of its own, `OrderedInv`: no
stored event, and none in the hands of an update, ends before it starts.

*The two tables.* `RemindersMatchEvent` speaks of events nobody is writing; its
proof (`ScheduleProofs`) follows their writers from statement to statement, event
by event:

```
ScheduleInv == \A e \in EventIds : EventInv(e)
```

- An event whose id is not yet made has no row, no reminder and no writer.
- An event whose last writer ran alone goes on matching its reminders until a
  writer of it gets past its `FindByID`.
- A writer that nobody raced is the only one (`Own`), and what it has done so
  far is known: a save has stored its row, a delete has removed it, a cancel has
  left no reminder, and the offsets it chose are all those still to come, which
  time can only make fewer.

A step touches one event (`ApartKeeps`; the others are `Untouched`), so each
action is looked at for its own event alone. That an insertion writes over no
reminder of another event is `PlacedInv` again.

*The worker's passes.* `DueReminderSettles` itself is temporal and stays with TLC;
`WorkerProofs` proves the four facts it rests on, for every instance.

- A pass that has something to do has a next step (`WorkerNeverStuck`): what is due
  has a batch, a batch has an earliest reminder of the user it is at. The fairness
  of `FairSpec` takes the step, and `FCMAnswers` the step at FCM.
- Every step takes something off what is left of the pass, and no step of anybody
  else adds to it (`PassesComeToAnEnd`). `StepsLeft` is that measure, a set rather
  than a number: the reminders not yet sent with all that sending each may cost,
  the tokens still to purge, the statement at hand.
- The set is finite (`PassesAreFinite`), so that it runs out.
- A reminder leaves a pass settled, or with one retry fewer left, or deleted by
  others, unless a statement fails (`NothingForgotten`); retries and faults are
  both bounded.

That together they give `DueReminderSettles` is an induction over time, which the
prover can not do. Finiteness needs an invariant of its own, `FiniteInv`: each
insertion is of finitely many reminders.

### Accounts

The theorems of `AccountProofs`, `SubscriptionProofs` and `LedgerProofs` hold for any clients,
identities and transactions, any mix of endpoints, with or without foreign keys,
any number of notifications, faults, crashes and instants.

| theorem | statement |
|---|---|
| `Invariance` | `Spec => []Inv` |
| `AccountTypes` | `Spec => []TypeOK` |
| `RotationForksOnlyByRace` | `Spec => []ForkOnlyByRace` |
| `ExchangedTokensAreRevoked` | `Spec => []ExchangedIsRevoked` |
| `DeletionLeavesNothing` | `Spec => []DeletedLeavesNothing` |
| `PremiumIsMatched` | `Spec => []PremiumHasTransaction` |
| `MoreInvariance` | `Spec => [](Inv /\ More)` |
| `TransactionsAreKept` | `Spec => TransactionKept` |
| `QuotaIsExact` | `Spec => []QuotaExact` |
| `StatusFollows` | `Spec => []StatusFollowsStore` |
| `AccountsImplementLedger` | `Spec => ImplementsLedger` |
| `LedgerIsSound` | `Ledger!Spec => []Ledger!Sound` |
| `UndisturbedRowsAreSound` | `Spec => []Ledger!Sound` |

*Assumptions*, both in `AccountStore`: `AccountBounds` (the limits are natural
numbers, that of voice parses any integer, the hours are natural numbers, the
notification types are those that change a row) and `AccountNil` (`Nil` is no
endpoint, notification, transaction, hour or id).

*The inductive invariant.*

```
Inv == TypeOK /\ JobInv /\ PremiumHasTransaction /\ ForkInv /\ DeletedInv
```

- `JobInv`: what a request carries at each statement. `PremiumHasTransaction`
  speaks of the table, and a request that read a row long ago will overwrite it:
  the copies in flight must have the property too.
- `ForkInv`: an exchanged token is in no table, and a client that still holds
  one, or holds one another client holds, presented it while the other did. That
  a second pair is issued from it is then already recorded in `shared`.
- `DeletedInv`: two requests at work on one account have disturbed it; a request
  about to delete the row of an undisturbed account has left it no token; and no
  request works on an undisturbed account once it is deleted, so that none can
  bring it back. gorm's `Save`, which inserts, is why that last part is needed.

The proof groups the actions: those that only move a request on or end it
(`QuietStepKeeps`), those that start one (`StartStepKeeps`), and the three that
make or remove an account or a token (`CreateUserKeeps`, `IssueTokenKeeps`,
`DropUserKeeps`).

*The status and the quota.* What `SubscriptionProofs` adds is what the copy in a
request's hands has to do with the row, for an account that the request has to
itself:

```
More == OneOwner /\ CopyInv /\ QuotaInv /\ ExactInv /\ MailInv /\ WordInv /\ StatusInv
```

- `CopyInv`: a copy taken from an undisturbed account is the row, but for the
  columns the request is about to change. That is why the last writer, who saves
  them all, takes nothing away there. For a verification this needs
  `OneOwner`, no two rows with one transaction, which is the unique index
  (`SaveRefused`) and holds of the table only: a copy that claims another's
  transaction is refused at its save.
- `QuotaInv`: the count of a row is within the limit and no less than the parses
  answered on the day of its stamp. With `CopyInv`, that the check still holds when
  the count is saved: an earlier day's count is no greater today (`CountsFall`,
  `ClockKeeps`).
- `ExactInv`: it is their number, on an account that is not `straddled`.
- `MailInv`: what is in the mail or in a webhook's hands is what the store said,
  and a webhook's copy carries its transaction.
- `WordInv`: a status about to be saved is the store's last word, or that word is
  still in the mail and will be handled after it, unless the transaction is
  `astray`.
- `StatusInv`: the same of a saved status.

The proof is one lemma a kind of step: those that carry a request on
(`CarryStep`), that save (`SaveStep`), and the few that start a request, issue or
handle a notification, or restart the process.

*The ledger.* `LedgerProofs` shows that `Accounts` implements `AccountLedger`. The
work was done above: `CopyInv` says that the copy a request saves is the row but
for its own columns, so that the save is the ledger's step on the row of that
instant. Two facts have to be added (`LedgerInv`): only accounts that were made
can be disturbed, or a first sign-in would open a closed account; and a copy about
to be inserted is a blank row, one about to be counted that of a free account. The
ledger's `Count` has two instants, as the code has: the day it adds to and the
stamp. A save maps to `Open`, `Activate`, `Notify` or `Count`, or,
for a returning sign-in, to a stutter; a deletion, and any step that lets two
requests meet on an account or leaves a parse uncounted, to `Close`; every other step, failures and restarts
included, to a stutter. `LedgerIsSound` is about the abstract specification alone
and takes a few lines, since nothing is in flight there; with the refinement it
gives the same of the code's rows (`UndisturbedRowsAreSound`).

### The server

The theorems of `ServerProofs` hold for any number of calls and attempts, any
deadline and any grace.

| theorem | statement |
|---|---|
| `TypeCorrect` | `Spec => []TypeOK` |
| `CallsAreOverInTime` | `Spec => []OverInTime` |
| `CallsAreNotLongAlone` | `Spec => []NotLongAlone` |
| `TheProcessStopsInTime` | `Spec => []StopsInTime` |
| `ShutdownCutsLongCallsOnly` | `Spec => []OnlyLongCallsCut` |
| `ServerImplementsService` | `Spec => ImplementsService` |

*Assumptions*: `VoiceBounds` (at least one attempt, times are natural numbers) and
`GraceIsTime`.

*The inductive invariant* is `TypeOK /\ (\A r \in Calls : Punctual(call[r])) /\
Waiting`. `Punctual` gives a call at its k-th attempt the deadline and k − 1
sleeps, and a sleeper the time it has slept on top: the bounds of `OverInTime`
and `NotLongAlone` alone do not say how much of it is already spent. `Waiting`
says that a call still running is at least as old as the shutdown that waits for
it, which is how a call that is cut comes to be as old as the grace.

`ServerImplementsService` maps a signal to `Close`, the return of `main` to `Stop`, a
kill to `Fall`, a call's acceptance to `Take`, its last step to `Finish`, and the
attempts, sleeps, departures and the passing of time to stutters. It needs one more
invariant, `NonePending`: no call runs in a process that is gone.

### Only model-checked

`DueReminderSettles` and `CallsEnd`: liveness is out of the prover's reach (for the
first, `WorkerProofs` comes as near to it as the prover allows). Every other
property of the passing runs is stated by a theorem above.

## 6. Abstractions

- **Data.** Titles, notes, places, names, e-mail addresses, tokens' text and the
  wording of notifications are left out. The preloaded `Event` of a fetched
  reminder affects only that wording.
- **Ids** are UUIDs and never clash: an event is named after the request that
  creates it, a reminder after its request and its offset's position, accounts
  and refresh tokens by number.
- **Time** is an integer. `FindPending` reads the clock just before its
  statement; the model reads it with the statement.
- **Integers** are unbounded: `time.Duration(offsetMin) * time.Minute` wraps
  beyond about 153 million minutes, which nothing rejects. This is listed as a
  hazard and not modelled.
- **Statements.** A statement that fails has no effect. (One whose commit
  succeeds and whose answer is lost is not modelled.)
- **Remote services** answer as they please: FCM any mixture per token or a
  failure of the whole call, Gemini an event, something incomplete, a blocked
  answer or an error, the others yes or no. The App Store sends a notification for
  each change of a subscription; the types that change no row are left out.
- **Requests that find nothing**, are over the limit or fail at their first
  statement change nothing, and in `Accounts` are no step. (A webhook whose find
  fails is answered 200 and its notification lost, as when it finds the account
  and the save fails: `HandleNotification` and `StatementFails`.) Refusals that an
  event request may meet are kept, because `DeleteNotRefused` looks at them.
- **Sign-in** changes columns (last login, e-mail, nickname, profile image) that
  no property looks at; of what it saves, the modelled columns are
  those it read. The subscription's expiry date is stored and shown but read by
  no decision (`IsPremium` looks at the status alone), so it is left out.
- **Logout's device token** is a statement on `device_tokens` and is in
  `DeviceTokens`; the `refresh_tokens` half is in `Sessions`. Account deletion
  is divided in the same way, and leaves events and reminders behind.
- **Apple and Kakao** name an identity or refuse before a sign-in's first
  statement. Access tokens are checked without any state.
- **Listings** are sets: the order of an answer is left out.
- **Voice calls** are in two places. `Server` has their time, `Subscriptions` their
  statements (the check before and the count after); what a call does for
  its time does not depend on the row, nor the other way round.
- **Requests under a shutdown** are voice calls in `Server`. Sign-in, deletion and
  verification ask Kakao, Apple or the App Store and may outlast the grace too;
  what a cut does to their rows is the `Crash` of `Accounts`.
- **Shutdown** ends requests and the worker's pass wherever they are; what the
  tables can see of that is the `Crash` of `Reminders` and `Accounts`. A start
  that fails exits at once and is no step.
- **Foreign keys** are a constant: PostgreSQL enforces them, SQLite as opened
  here does not.
- **One process.** The code has no leader election or row locking; two server
  processes would run two workers, and nothing here speaks of that.

## 7. Not modelled

JWT signing and the middleware (stateless), what the HTTP clients of Apple,
Kakao, App Store and FCM do to get an answer (requests, keys, signatures,
decoding), configuration, migration and wiring, transfer objects (formatting).
`PROJECT.json` gives the reason for each, and the hazards that no property
covers: the unsynchronised `jwksVerifier` (`pkg/oauth/apple.go:230`), whose every
value is valid; a token deleted by value after it was registered
anew; a logout that stops at its device token; a call to FCM that never returns;
overlaps that the code does not recover from (section 3); and offsets that wrap.

## 8. Plan

1. *Device tokens under a pass*: a token registered anew between the read and
   the purge, and what its owner loses. It needs an FCM that knows which tokens
   it has unregistered, and when.
2. *Logout as one request*: its statement on `device_tokens` and the one on
   `refresh_tokens` over one database, with the failure between them.
3. *Offset arithmetic* with its 64-bit width.
4. *The clients of the identity providers*: keys fetched once and shared by
   sign-ins.
