# Formal models of the parish birthday alerts

TLA+ models of this repository: an Express API on PostgreSQL that keeps a
directory of parish members and tells staff by WhatsApp or SMS who has a
birthday, and a React client. The modules here are read beside the code; every
definition says in `PROJECT.json` ("map") which lines it stands for. Paths below
are relative to `src/`.

Contents: 1 the system, 2 the modules, 3 the runs, 4 fairness, 5 the proofs,
6 where the code and its documents disagree, 7 what is not modelled, 8 the plan.

## 1. The system

One database, any number of Node processes. A web service (`server/index.ts`)
answers HTTP and, with `SCHEDULER_ENABLED`, also runs a cron; a worker
(`server/worker.ts`) runs the cron only. Nothing is shared between processes but
the database, and nearly every function awaits it several times, so that two
requests, two ticks or a request and a tick interleave at every statement. There
are few transactions and almost no locks.

| component | state | operations | talks to |
|---|---|---|---|
| scheduler (`scheduler.ts`, `worker.ts`, `index.ts`) | `lastRunMinute` per process, in memory | one tick a minute: read the rule, run the digest in the alert minute, drain the outbox | rule, digest, outbox |
| alert rule (`notification-pg.ts` 716-748) | one row: enabled, alert time, lead days, channel, SMS fallback, 29 February policy | read, update by an owner | read anew by ticks, runs and fallbacks |
| calendar (`domain/calendar.ts`) | none | Lagos date and clock, `addDays`, `birthdayMatchesDate` | called by runs and views |
| digest run (`notification-pg.ts` 409-491) | `notifications` with a unique key | for each recipient: select an endpoint, insert the notification, queue its job | endpoints, members, outbox |
| outbox (`notification-pg.ts` 547-689) | `outbox_jobs`: status, attempts, due time | claim (transaction, SKIP LOCKED), send, complete, fail, retry, park, queue an SMS fallback | provider, notifications |
| provider callbacks (`applyProviderStatus`, `services/webhooks.ts`) | `provider_events` | record a status once, update the notification, queue a fallback | notifications, outbox |
| staff accounts and invitations (`auth-pg.ts` 261-556, `bootstrap-owner.ts`) | `users`, `staff_invitations` | invite, mail, accept, revoke, deactivate, bootstrap | the guards of every route |
| multi-factor authentication (`auth-pg.ts` 60-255), passkeys (`services/passkeys.ts`) | secrets, recovery codes, credentials, one challenge of a kind per session | enrol, confirm, verify, regenerate, begin and complete a ceremony | sessions, the sign-in pages |
| sessions and guards (`http/`) | `user_sessions` | sign in in stages, sign out, CSRF token | every route |
| member directory (`services/members.ts`, `MemberModal.tsx`) | `members`, `member_code_sequence` | create, edit, archive, list | imports, runs |
| CSV import (`services/imports.ts`, `domain/csv-import.ts`) | the preview, held by the page | preview, commit row by row | member directory |
| endpoints (`services/endpoints.ts`) | `admin_endpoints`, `endpoint_verifications` | create, send a code, confirm, enable, disable | provider; read by runs and workers |
| views (dashboard, birthdays, audit, log) | none | queries of several statements, outside a transaction | read by the pages |
| client requests (`client/src/api`, `app/session.tsx`) | in each tab a CSRF token, the shared fetch of one, a mirror of the session | requests with one retry; sign-in, sign-out, 401 | sessions, every page |
| client pages (`client/src/features`, `hooks/useAsync.ts`) | one `useAsync` per view, filters and page numbers, forms | load, filter, leaf through, press a button, load again | API |
| database, crypto, config, logging, migrations | | | |

What is hard, and what must be true in spite of it:

* **Sending.** A worker claims, sends and records in separate statements. It may
  die or stall at each of them, an answer may be lost after the message went out,
  callbacks arrive in any order and more than once, and a stale claim is taken
  over by a second worker. Required: a bounded number of messages, no lost job, no
  false "delivered", no second worker on a live claim, a fallback that comes.
* **Writing the digest.** Ticks of several processes and "run now" race for a
  unique key while rule and endpoints change. Required: one job per
  notification, nobody left out.
* **Time.** The alert minute may fall into a restart, ticks may outlast their
  minute or the day, 29 February exists in some years. Required: everybody is
  congratulated once a year, on the right day.
* **Accounts.** Checks and writes of one request are separated by other requests.
  Required: an invitation is used once, what was revoked stays so, an owner remains.
* **Directory.** Checks for duplicates are not locked, forms and previews are
  stale when they are submitted, an import may fail after a row was saved.
  Required: one code per member, duplicates only where they cannot be avoided.

* **Endpoints.** Requests for a code and attempts at one interleave, a message may
  fail after the old code is gone. Required: a bounded number of guesses, no code
  that outlives its successor, and a right code that works.
* **Second factor.** Enrolments, regenerations and sign-ins of one account run side
  by side in several browsers. Required: a recovery code is good once, whoever must
  pass a second factor has one, old codes go when new ones come.
* **Client.** Tabs share a cookie and nothing else; tokens and sessions change under
  a request, answers are lost, or arrive in another order than the questions.
  Required: nothing is done twice, the user is told what happened, the page shows
  the answer to what it asks now, and nothing waits for ever.

`PROJECT.json` lists the single hazards with their lines and the properties that
watch them.

## 2. The modules

| module | models | abstracts from |
|---|---|---|
| `Delivery` | `processOutboxJobs`, `attemptNotification`, the fallback, `applyProviderStatus` | texts, addresses, the kinds of provider |
| `JobLifecycle` | the promise of the outbox for a job, whoever works on it | workers |
| `AlertRule` | the row of the alert rule and `updateNotificationRule`, for `Digest` and `Schedule` | texts; a rule has the fields its readers read |
| `Digest` | `runBirthdayNotifications` and its helpers | calendar (days are numbers), members (a predicate says whether a user has somebody to congratulate) |
| `Calendar` | `domain/calendar.ts` | instants and formatting |
| `Schedule` | `scheduledTick` in several processes, on `Calendar` | the steps of a run (in `Digest`) and of a drain (in `Delivery`) |
| `Accounts` | invitations, acceptance, revocation, deactivation, bootstrap | passwords, tokens; roles are owner and others |
| `Directory` | member form, `createMember`, `updateMember`, `archiveMember`, preview and commit of imports | names, birthdays, consents |
| `Endpoints` | `services/endpoints.ts` and its routes, with the pages of one person | masks, labels, priorities |
| `Mfa` | TOTP, recovery codes, passkeys and the stages of a session, with the pages that enrol and sign in | wrong passwords, the WebAuthn ceremony, the window of a TOTP code |
| `Client` | `request()`, the CSRF token, the mirror of the session in every tab, against the session and its guards | what the calls are about |
| `UserCalls` | what `request()` promises of a call | tokens, sessions, retries |
| `Access` | capabilities, navigation and buttons of the client; the guards of the routers | |
| `Workspace` | `useAsync`, the pages and their buttons against the server's reads, on `Access` | the contents of every resource but the directory's |
| `MC*` | small instances for TLC | |
| `*Proofs` | theorems; `BirthdayProofs` has those about `Calendar`, `Schedule` and `Digest` | |

One step of a module is one database statement, one transaction, one call of a
provider or one thing a user does. Names of actions are those of the functions
where a function is one step. Two modules implement abstract ones (`Delivery`
`JobLifecycle`, `Client` `UserCalls`); `Workspace` composes the client's table of
roles with the server's, `Schedule` stands on `Calendar`, and `Schedule` and `Digest`
share `AlertRule`. `Delivery` has an action of its own for the rule: it reads other
fields of it and sets no bound to the changes.

**Delivery.** A notification and its only job share a name. `batch[w][n]` is the
row a worker holds, as the number of the attempt its claim is; it is what
`job.attempts + 1` computes from the row read before the claim's UPDATE. `ripe`
stands for `due_at <= now` and, for a job in processing, for the ten minutes after
which a claim is stale. `Claim` is the claim transaction; `LoadNotification` to
`failOutboxJob` are the statements of the loop, in their order, with its early
exits (already delivered, endpoint gone). `SendAccepted` has three outcomes: the
answer with a message id, the answer without one, and no answer. `StatementFails`
follows the `try` blocks of the code, so that a failing success UPDATE counts as a
refusal; `Crash` forgets what a worker or a request knew. Digests are queued at the
start; fallbacks are queued by the model.

**JobLifecycle** is refined by Delivery (`ImplementsLifecycle`), with
`status <- jobStatus, attempts <- jobAttempts`, under the condition that no live
worker outlives its claim (`~SlowBatches`). The condition is needed and the code
does not enforce it: 25 jobs of a batch with the default timeout of 10 s take at
most about 250 s, but with the largest timeout the configuration accepts, 30 s
(`server/config.ts:58`), they take up to 750 s, more than the 600 s of a claim.
`SlowBatches = TRUE` drops the condition; what is true then is checked separately.

**Digest.** A run fixes the date, reads the rule and the recipients once, and then
goes from user to user. The key of a notification holds birthday, lead, user and
channel, as in line 447. `jobs[k]` counts the jobs that refer to a notification, so
that a second one would be seen.

**Calendar and Schedule.** Dates are records; `addDays` passes one end of a month
at most, which is exact for the leads the rule's schema allows (0 to 14).
A tick keeps the minute it began in, as the code does, and reads rule and date
again when it comes to the run. `NextMinute` is the cron's clock: it waits for the
processes to fire, and `delays` counts the minutes that begin while a tick is
still under way. `FallAsleep` forgets `lastRunMinute`, as a restart does.

**Accounts.** A slot of `Requests` is a request being answered; its record is what
the handler keeps in variables across an await. The guards of a route are part of
its first step. Acceptance is one transaction; everything else is not.

**Directory.** A slot is an open page, form or import, or a request that its page has
left behind: closing the page under it is the same as ending it and then closing, and
an answer that is lost after a save is an error after a save. It keeps what was typed or
previewed, is answered in several steps, and stays open after an error for another
try. `reviewed` is history: whether the phone was saved with
`confirmPotentialDuplicate`.

**Endpoints.** Codes are numbered by `requested_at`; a number stands for the row,
the digits and the SMS that brings them. A slot is one request from the click to its
answer: `Find` is the handler's first read and the draw of the code, `Clear` and
`Insert` the two statements of its transaction (the DELETE sees what is committed,
so that two transactions may miss one another), `Send` the provider and what is
written after it; `Read`, `Count` and `Judge` are the three steps of a confirmation.
`remote` says whether the provider makes and compares the codes, known to a request
only if the row it read had the provider written down. The provider may accept the
right digits (`Judge`) or not (`Deny`: an error, an answer that cannot be read, a
missing key, all of which `verifyTermiiOtp` makes a no); a call that throws is `Break`. `acked`, `alone`, `dead` and
`tries` are history for the properties: what the page was told of, whose request met
no other, what a later request has replaced, and the comparisons.

**Mfa.** One account, several browsers, two requests at a time. `session[b]` is the
stage the cookie of a browser has reached and the challenges it holds, `page[b]` what
is on its screen, `phone` the secrets the app has scanned. A confirmation locks the
row of the user between its UPDATE and its commit (`UserLocked`); a regeneration does
not, which is why `Delete` and `Commit` are separate: each DELETE sees what is
committed. `Recover` and `Spend` are the SELECT and the guarded UPDATE of
`useRecoveryCode`. `Declined` and the choice of the passkey steps leave the ceremony
to the library.

**Client and UserCalls.** A call is one use of `request()`; its record is what its
closure and its promise hold, its `at` where it is between the browser and the
handler. The tabs share `cookie`; each has its token (`cached`), the fetch its calls
share (`fetching`) and its `SessionStatus`. `Set-Cookie` takes effect when the answer
arrives. `Lose` is the `catch` around `fetch`: with a token it takes everybody along
who waits for it. `performed` and `told` are what `UserCalls` speaks of: it says of a
call only that it is done at most once before the user is told, and that "done" and
"turned away" are true. `steady` is history: whether session or cookie moved since
the token of a call was last looked up.

**Access and Workspace.** `Holders`, `Nav` and the pages of `Access` are
`lib/status.ts`, `AppShell.tsx` and the pages; the `*Router` functions are the guards
of the routers, copied by hand from the other side, as in the code. `Workspace` opens
pages, asks, leafs through, reloads and presses their buttons. A load (`flights`) keeps
the token `useAsync` gave it, the question it was asked and whether the effect started
it (`own`: only those does the effect abort); `Land` is the reducer. The request of a
button (`sent`) keeps the number of the mounting it was pressed on (`turn`): it goes on
when the page is left, changes the data, and is told in a toast on whatever page is
there, but only the page it was pressed on loads again. `Shows` says, by the queries of
the services, which loads show what a request has written; what the pages load again is
`Reloads`, so that a page that forgot one would be seen.
`asOf` is the version of the data at the load's first query, so that it is the older
one of all that a page shows. The directory alone has rows: `listMembers` with its
filter, count and offset, and the buttons of `MembersPage` that read the last answer.

## 3. The runs

| run | shows | bounds | distinct states |
|---|---|---|---|
| `DeliveryLease` | `TypeOK`, `Exclusive`, `CompletedIsHonest`, `ResendNeedsReport`, `ImplementsLifecycle`, `FallbackFollows` when claims are kept | 2 workers, 1 webhook request at a time, a digest and its fallback, 2 attempts, 1 fault, 1 callback, endpoint and rule change freely | 708,908 |
| `DeliverySlow` | `SendsWithinBudget`, `JobsSettle` when they are not | 2 workers, one SMS digest, 3 attempts, 1 fault, 1 callback | 363,998 |
| `DigestRuns` | `DigestTypeOK`, `OneJobPerNotification`, `RunCovers`, `QueuedUnlessKilled` | 2 runners, 2 users, 2 runs, 1 change, 1 death, four rules | 110,177 |
| `ScheduleDays` | `TypeOK`, `CelebratedOnce`, `NobodyForgotten`, `DigestIsExact` | a web service and a worker, four days around the end of February 2027, 2028, 2100 and around New Year, 2 minutes a day, one delay, nap, failure and change each | 2,310,631 |
| `AccountsStaff` | `TypeOK`, `SingleUse`, `DeadStaysDead` | 2 requests at a time, 2 owners, 3 addresses, 2 invitations | 252,111 |
| `AccountsLastOwner` | violated, see 6 | the same | |
| `DirectorySaves` | `TypeOK`, `CodesUnique`, `DuplicatesOverlap` | 2 requests in flight at once, 3 members, 3 codes, 2 phones, uploads of two rows | 1,348,660 |
| `EndpointsCodes` | `TypeOK`, `TriesBounded`, `OldCodeDead`, `RightCodeWorks` | 2 endpoints, 2 requests at a time, 3 requests and 3 codes in all, a limit of 1 attempt | 2,228,263 |
| `MfaFactors` | `TypeOK`, `OneCodeOneUse`, `NeverLockedOut`, `OneBatch` | 2 browsers, 2 requests at a time, 5 things asked for, 2 secrets, 3 batches of one code | 1,649,917 |
| `ClientTabs` | `TypeOK`, `WorkspaceIsLive`, `RetryIsEnough`, `PromiseKept`, `CallsEnd` | 2 tabs, one of them with two calls at a time, 2 calls in all, 2 faults | 54,047 |
| `ClientLogin` | violated, see 6 | 1 tab | |
| `WorkspacePages` | `TypeOK`, `ShownAnswersAsked`, `ReadYourWrites`, `NavNeverRefused`, `LoadsSettle` | every role and page, one page opened after the dashboard, 3 loads of the directory and 2 of everything else, 2 members on pages of one, 1 change | 1,369,174 |

Why the bounds are enough to be interesting:

* Every race in the code is between two actors over one row or one key; two
  workers, runners, processes, requests or pages show it, and a crash lets one of
  them come back as a third. Two or three attempts have a first, a last and (in
  `DeliverySlow`) a middle one. With one fault and one callback every single
  failure is explored at every statement; several at a time are covered only where
  section 5 proves the property for all bounds.
* Two minutes a day are a midnight and a last minute: the two ends where a late
  tick meets the next day. Four days pass each end of month with leads 0 and 2. The
  four starts are an ordinary year, a leap year, a century that is none, and a
  turn of the year; members are born on 29 February, 1 March and 1 January.
* Two rows of one phone in an upload are the case the validation tells apart;
  three members are one more than pages, so that `DuplicatesOverlap` could be broken.
* In `EndpointsCodes` two confirmations race for one attempt, which is the overrun
  `TriesBounded` allows and no more; two codes of one endpoint and one of the other
  are enough for two DELETEs that miss each other and for one that hits a stranger. A
  right code after a wrong one needs a second attempt, which this run does not have; that
  it is not called wrong for the first one is `RightCodesWork`, for every limit.
* In `MfaFactors` five things asked for are a sign-in in each browser, an enrolment
  or regeneration in each, and a code spent; one code makes a batch, since the codes
  of a batch come and go together until one of them is used.
* In `ClientTabs` two faults let a session lapse and an answer be lost in one
  behaviour, and a call needs two exchanges with the server before its retry. The
  third call is the other tab's.
* In `WorkspacePages` three loads of the directory are a first one, Next, and
  Previous or a refresh while the second is under way; one change is enough to make
  an answer old. A page is opened after the dashboard, so that a request of the dashboard
  is under way while the loads of the next page are.

`CHECK_DEADLOCK FALSE` is set where behaviours end: `Delivery` and `Digest` finish
the work they are given, `Schedule` stops after `Horizon` days, and `Endpoints`, `Mfa`,
`Client` and `Workspace` when their budgets of requests are spent. `Accounts` and
`Directory` have no end, and deadlock is checked.

Every property of a passing run has a mutant in `PROJECT.json`: a slip in one
mapped definition, written beside it and marked as a slip, that makes TLC refute it.

## 4. Fairness

* A worker that is not killed runs its next statement, and claims when there is
  something to claim (`WF(WorkerStep)`, `WF(Claim)`): cron calls
  `processOutboxJobs` every minute in every process, for ever.
* A webhook request that began a fallback ends it (`WF(FallbackStep)`).
* Backoffs and stale claims run out (`WF(Ripen)`): time passes. In `DeliveryLease`
  this waits until no live worker holds the job.
* A run of the digest that is not killed goes on (`WF(RunnerStep)`).
* A fetch of the browser is answered or fails, a handler returns, and the code after
  an `await` runs (`WF(Progress(c) /\ Watch)` for each call of `Client`). Losing an
  answer is never required: it is one more way for a call to go on.
* In `Workspace` every load is answered or fails and its promise settles
  (`WF` of `FirstRead`, `Answer` and `Land` together). `LoadsSettle` says that again and
  again nothing on the screen is loading. The requests of buttons need not end.

Nothing is assumed of providers, callbacks, users, endpoints, tabs or crashes, and the
runs with temporal properties use no symmetry. `Schedule`, `Accounts`, `Directory`,
`Endpoints` and `Mfa` state safety only.

## 5. The proofs

All theorems are checked by TLAPS for every value of the constants that satisfies
the named assumptions of the module.

* `DeliveryProofs`: `TypeCorrect`, by `Inv` = types and `Placed` (a worker in the
  middle of a job holds it). `AtMostMaxSends` counts: messages accepted plus claims
  that may still send never exceed the attempts of the row, since every claim that
  sends was paid for by an attempt (`Budget`); workers may stall as they like.
  `DeadLetterExhausted` and `DeliveredAccepted` follow from `Backed`: a claim's
  number is at most the row's count, and a worker about to record knows a message
  that exists. These two are proved and need no run of their own.
* The second half of `DeliveryProofs` is under `~SlowBatches`: `LeaseInv` says that a
  held job is in processing, not ripe and has the attempt of the claim, that nobody
  else holds it, and that a fallback's job is queued once and by one actor. From it
  follow `ExclusiveClaims` and `LifecycleImplemented`: each step of Delivery is
  a step or a stutter of JobLifecycle. Without exclusiveness a slow worker could
  complete a job a second one has parked, which is why the condition is there.
  `CompletedHonestly` and `ResentOnReport` add `HonestInv`: where a worker may send
  again, no acceptance is stored or its failure was reported (`Justified`); a
  message whose notification is not in a delivered state was reported (`Stored`); a worker that
  completes a job, and a job that is completed, has a message the provider accepted or
  a notification marked failed (`Completing`, `Completed`).
* What liveness builds on is proved, where its conclusion is not: nothing that must
  happen has lost the one who is to do it. `FallbackHasJob` (under `FallbackFollows`)
  is by `FallbackInv`: jobs that are held exist, and exist for a notification, and a
  fallback is written in the step that makes its writer the one to queue it.
  `WaitingIsClaimable` (under `JobsSettle`) needs the life cycle only: a failure that
  is not the last leaves an attempt. `NothingLost` (under `QueuedUnlessKilled`),
  `NobodyLeftWaiting` (under `CallsEnd`) and `LoadsExpected` (under `LoadsSettle`)
  are below, with the modules they are about.
* `BirthdayProofs`, the calendar and the schedule: `OneCelebrationAYear` is about the
  calendar alone: in every year `birthdayMatchesDate` accepts the one day the policy
  promises. `TypeCorrect` rests on `addDays` keeping dates real. `Once` and `Exact`
  follow from `DigestsInv`: under one rule, a digest has the members and the distance
  the rule prescribes, and its birthday is its key. `NoneForgotten` is under two
  hypotheses: some process runs, and the years are past 0, where the null of
  `lastRunMinute` lies. Its `QuietInv` speaks of behaviours in which nothing fails,
  naps or is late: every tick is of this minute (`Prompt`), a process that has
  evaluated this minute has, or is about to have, the day's digest
  (`Remembered`, `AtWork`), and the days gone by have theirs (`ServedSoFar`). Between
  days stand lemmas on `addDays`: one day more moves every date `lead` days ahead by one.
* `BirthdayProofs`, the run: `DigestTypes`; `OneJob`, by the invariant that a run about
  to queue has inserted its key and no other run is about to queue the same one;
  `RunsCover`, by `CoverInv`: whoever is due a digest is on the list of the run, is
  the one it is about to insert, or has the digest, if another run was faster.
  `AllWarranted`, by `DueInv`: a run holds on to a recipient and a birthday that it
  found together. `NothingLost`: a notification without a job has a run about to queue it.
* `AccountsProofs`: `TypeCorrect`; `AcceptedOnce`, by `Informed` (what a request
  that is accepting an invitation knows of it is still so); `NoResurrection`, an
  action property from the same invariant.
* `DirectoryProofs`: `TypeCorrect`, by `TypeInv` (two pages never create one
  member, an edited member exists); `OwnCodes`, by `CodeInv` (drawn codes lie below
  the sequence and differ); `FewDuplicates`, by `OverlapInv`: members that hold a
  phone unreviewed and pages that are past the check and will write it number at
  most the requests in flight at once, since a request passes the check only while
  no one holds it.
* `EndpointsProofs`: `TypeCorrect`; `TriesAreBounded`, by `Counted` (as long as its
  row is there, it counts every comparison) and `Bounded`: comparisons, and requests
  that have read the row and will compare, are together fewer than limit and slots.
  A request joins the readers only while the row counts less than the limit, and a
  deleted row has no new readers. `OldCodesDie`, by `Doomed` and `Gone`: the codes
  from before a request are under its DELETE, are gone with its INSERT, and are never
  live again; for the DELETE to see them, a code that is not inserted yet must be
  unknown to every other request (`Secret`, `Own`). `RightCodesWork`, by `WorkInv`:
  a code whose request met no other replaces the ones before it, and its row stays
  until it has verified its endpoint (`Sound`); a page that types it is compared with it
  and nothing else, so that what it is told needs an excuse (`Heard`, `Excused`): the
  provider said no, the code is old or has verified the endpoint, its attempts are used up.
* `MfaProofs`: `TypeCorrect`. `OneUse`, by `UseInv`: a code that was used is spent or
  gone (`UsedOnce`), and codes are of batches that were drawn (`Drawn`). `NoLockOut`, by `LockInv`: a code
  that a confirmation compares was made from a secret the phone has (`Typed`).
  `BatchesReplaced`, by `BatchInv`: what the DELETE of a transaction has not seen was
  inserted beside it (`SeenAll`), and only a regeneration meets another (`Meeting`).
* `ClientProofs`: `PromiseIsKept`, that Client implements UserCalls. The invariant is
  that a call which is not answered was not performed and the answer tells whether
  it was (`Honest`). Every action is one of four views, `Begins`, `Ends`, `Does` or
  `Moves`, and each view is a step of UserCalls or none. `TypeCorrect` needs a count of
  the sessions that were made (`Counted`): each call pays for three at most, by its
  first fetch of a token, by that of its retry, and by its sign-in. `RetrySuffices`, by
  `SteadyInv`: a token looked up since cookie and session last moved is that of its row.
  `WorkspaceLives`, by `LiveInv`: as long as no session has ended, a lone tab's mirror
  and the answers on their way to it say what the session behind its cookie is.
  `NobodyLeftWaiting`: who waits, waits for a fetch of his tab under way. A call that
  stops fetching takes all its sharers along (`SharersApart`), and a forced fetch
  replaces the one to be joined, not the one that is waited for.
* `WorkspaceProofs`: `TypeCorrect`, by `TypeInv`: a request of the page on the
  screen is one of its buttons' and what it loads anew is what the page has loaded
  (`ReloadsFacts`). `AnswersFit`, by
  `AskInv`: the load with the last token was asked what the page asks now; a question
  takes a token of every resource it concerns and a refresh takes the question along.
  `WritesAreRead`, by `ReadInv`: the load with the last token has read, if it has read
  at all, the version the user was told of; the refresh that comes with the news takes
  new tokens, so that whatever was read before it does not count, and it reaches every
  load of the page that shows what was done (`ReloadsEnough`). `NavAllowed` is a
  fact about the tables of `Access` (`NavFacts`), for every role and page.
  `LoadsExpected`: a start of loads sends one with each new token (`RunsSend`), aborts
  only what it replaces, and an answer with the last token ends the loading.

The bounds of the models (`MaxRuns`, `MaxChanges` and the like) are constants of the
theorems too: they hold for every value, so that nothing depends on them.

Model-checked only: liveness (`JobsSettle`, `FallbackFollows`, `QueuedUnlessKilled`,
`CallsEnd`, `LoadsSettle`), which is out of the prover's reach but for the invariants
it builds on, and the two refuted properties of section 6.

## 6. Where the code and its documents disagree

Two runs end with a counterexample:

* `AccountsLastOwner`: two owners who deactivate each other both pass the check of
  `auth-pg.ts:540` and nobody is left who may invite.
* `ClientLogin`: a mistyped verification code of an endpoint is answered with 401
  (`services/endpoints.ts:181`), the client takes every 401 for the end of the session
  (`api/client.ts:149`), and the login page is shown over a session that lives.

Five statements of the documents are written down in the modules under "Statements of
the documentation that the code does not keep". No run checks them; adding one to the
configuration named here gives a counterexample.

| statement | add to | what happens | what holds instead |
|---|---|---|---|
| `NoDoubleSend`: two processes "cannot double-send" (`docs/ARCHITECTURE.md:215`) | INVARIANT of `DeliveryLease` | a worker that dies between the provider's acceptance and its UPDATE (`notification-pg.ts:335`) is followed by one that sends again | `SendsWithinBudget`, `ResendNeedsReport` |
| `ExhaustedIsParked`: "dead_letter after 5" (`ARCHITECTURE.md:208`) | PROPERTY of `DeliverySlow` | a worker that dies in the last attempt leaves the job in processing for ever (`:627`) | `JobsSettle` |
| `OneDigestPerDay`: "At most one digest per person per rule per day" (`ARCHITECTURE.md:22`) | INVARIANT of `DigestRuns` | the key holds lead and channel (`:447`): after a change of the rule or of an endpoint there is a second digest of one day | `OneJobPerNotification` |
| `EveryDigestQueued`: "written together with an outbox job in one transaction" (`ARCHITECTURE.md:24`) | PROPERTY of `DigestRuns` | they are two statements (`:460`); a run that dies between them leaves a notification no run will queue | `QueuedUnlessKilled` |
| `SentAfterWakeUp`: "sent at the first tick after wake-up" (`docs/HOSTING.md:322`) | INVARIANT of `ScheduleDays` | a process asleep in the alert minute does not make up for it (`scheduler.ts:21`) | `NobodyForgotten` |

Met while modelling, without a formula of their own:

* a digest that fails again after the lead time changed gets a second fallback
  (`notification-pg.ts:386`);
* a callback that comes before the worker stored the message id is recorded, matches
  nothing, and its repetitions are duplicates (`:784`; modelled);
* callbacks out of order: a late "sent" overwrites "delivered" (`:806`; modelled);
* a batch may outlast its claim (`:611`, see section 2);
* a user deactivated after the digest was queued is still sent it (`:653`);
* a run that fails is not repeated, as its minute is already noted
  (`scheduler.ts:22`; modelled);
* an invitation accepted between the two statements of `revokeInvitation` is listed
  as revoked while its account is active (`auth-pg.ts:516`; modelled);
* an edit form opened before an archive un-archives the member when it is saved
  (`services/members.ts:197`; modelled);
* an import row whose audit fails is reported as skipped though it is saved
  (`services/imports.ts:97`; modelled);
* the confirmation of a duplicate stays ticked when the phone is changed
  (`MemberModal.tsx:127`);
* Next of the directory looks at the last answer and counts from the last question:
  pressed twice it asks for a page past the end, and the page says "No members yet"
  (`MembersPage.tsx:352`, against the comment at 46-48; modelled);
* "Send a test alert" is offered to auditors (`NotificationsPage.tsx:102`), whom
  `routes/notifications.ts:17-19` refuses (in `Access`);
* the answer of a resend reopens the code dialog of the endpoint it was pressed for,
  over another one that was opened meanwhile (`EndpointsPage.tsx:117`);
* "Verify" opens a dialog that says a code was sent without sending one
  (`EndpointsPage.tsx:361`);
* an endpoint whose first message fails stays in the list, unverified, though the
  answer is an error; another try adds it a second time (`services/endpoints.ts:96`);
* an endpoint paused before it was verified stays paused, though the answer says that
  it "is now eligible" (`routes/endpoints.ts:78`);
* the recovery codes are called a "real gate" of the enrolment
  (`MfaEnrollment.tsx:16-19`), but the session is a full one before they are shown
  (`routes/auth.ts:166`; modelled);
* two regenerations at the same time leave two batches of codes in use
  (`routes/auth.ts:217`; modelled, `crossed`);
* codes "shown once" stay on the settings page after Done and Cancel
  (`SettingsPage.tsx:375`, `:381`, `:393`);
* a provider that answers with an error counts as a wrong try, and the right code is
  called "not correct" (`notification-pg.ts:260`, `services/endpoints.ts:181`; modelled,
  `Deny`); `RightCodeWorks` leaves this excuse to a code the provider was asked about and
  to no other;
* a page that is left takes its refresh along: the toast says that a member was archived,
  and the page opened meanwhile may go on showing data from before
  (`MembersPage.tsx:92-99`, the same in the other pages; modelled). `ReadYourWrites` is
  about who stays on the page; the badge of the shell, which is loaded once, it leaves out;
* an expired registration challenge is a 401 (`services/passkeys.ts:165`) and takes
  the workspace off the screen, as in `ClientLogin` (modelled, `After`).

## 7. What is not modelled

* *Strings and views*: phone, masking, message and CSV texts, what the queries of the
  views select, formatting, components and styles. They keep no state the properties
  could be about, or have unit tests that say as much.
* *Shell and storage*: `app.ts`, configuration, logging, rate limits, error
  formatting, encryption, the pool. `transaction()` is atomic and may fail, statements
  of PostgreSQL are atomic, and the unique constraints of the schema hold. The store
  behind the session library is a table that a request reads once and writes at most
  once; rolling expiry and pruning are `Lapse` in `Client` and `SessionEnds` in `Mfa`.
* *Migrations and transfer scripts*: run by an operator, one process at a time.
* *Client*: the split of load and save of a row in `csrfTokenHandler`; the two mounts of
  React's strict mode. Late `Set-Cookie` answers of two tabs overwrite each other in the
  model as in a browser, which is why `WorkspaceIsLive` speaks of a lone tab only.
* *Workspace*: one button of a page is under way at a time and the role of the user stays.
  The draft of the settings form, which a refresh overwrites
  (`SettingsPage.tsx:40-51`) and which is saved as a whole, is not there.
* *Steps drawn together*, where no property looks between them: in `Endpoints`, the
  INSERT of an endpoint (`services/endpoints.ts:118`) and the draw of its first code (55);
  in `Delivery`, the SELECT and the UPDATE of `applyProviderStatus`, one transaction
  (`notification-pg.ts:784`, `:805`); in `Mfa`, the transaction of a new passkey and the
  promotion of the session after it. And keys cut down to what is told apart: an event is
  notification, message and status instead of the hash of its payload; the digests of
  `Schedule` have neither user nor channel (`:447`), those of `Digest` have both.
* *Endpoints*: `updateEndpoint`; `Digest` and `Delivery` let endpoints become usable
  and unusable at any time instead. The open dialog of the page is not state.
* *Mfa*: the numbers of ceremonies and counters, which the library compares; a TOTP
  code that is used twice in its window; renaming and listing of passkeys.

## 8. The plan

Done: Delivery with JobLifecycle, Digest, Calendar and Schedule, Accounts, Directory,
then Client with UserCalls, Access and Workspace, Endpoints and Mfa; each with its
runs, and every safety property of a passing run with its theorem.

Left, most important first:

1. Proofs: the step of `Schedule!runBirthdayNotifications` shown to be what a lone
   run of `Digest` does for one recipient; and a measure for `CallsEnd`, that every
   step of a call brings it nearer to its end.
2. Composition: Digest with Delivery, so that the queue Delivery starts from is the
   one the runs write, and an abstract specification of "one digest per person
   and key" that both implement.
3. The settings form: a draft that a refresh replaces, and two owners who save.
