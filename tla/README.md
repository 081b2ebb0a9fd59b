# Verification of the email scheduler

TLA+ models of the outbox in this repository: campaigns are composed in a
browser, submitted and written to Postgres, their emails run as BullMQ jobs in
Redis, workers claim rows and hand them to SMTP under an hourly quota, a
reconciler repairs what crashes leave behind, a dashboard shows it. TLC
checks small instances, TLAPS proves every invariant they check, and the refinement,
for every size.
Paths below are relative to the repository; `api/` is `apps/api/src/`.

## The system

| Component | State | Operations | Interacts through |
|---|---|---|---|
| Campaign scheduling `api/scheduler/scheduleCampaign.ts` | `campaigns`, `email_jobs` rows | validate, project, one transaction, then enqueue | Postgres first, Redis second |
| Email queue `api/queue/emailQueue.ts` | BullMQ jobs, id = row id | `enqueueEmailJobs`, `enqueueIfAbsent`, `removeEmailJob` | Redis |
| Email worker `api/queue/emailWorker.ts` | lock columns and counters of the row, locals of `processEmail` | load, `claim`, reserve, send, record; `release`, `deferToNextWindow`, `markFailed` | Postgres, Redis, SMTP |
| Hourly quota `api/ratelimit/` | counters per hour window, script cache | `reserve` (Lua), `refund`, `usage` | Redis, shared by all workers |
| Reconciler `api/scheduler/reconciler.ts` | the snapshot of a sweep | abandoned pass, outstanding pass, timer | Postgres, then the queue |
| Cancel `api/modules/emails/emails.service.ts` | the row it has read | read, write CANCELLED, remove the job | Postgres, then the queue |
| Scheduling arithmetic `packages/shared/src/scheduling.ts` | none | windows, cadence, projection, reschedule target | pure |
| Submission `api/modules/campaigns`, `api/middleware/upload.ts`, `packages/shared/src/parse-recipients.ts`, `schemas.ts` | uploaded files, the request | parse, merge, validate, answer | calls scheduling |
| Compose form `apps/web/src/features/compose` | chips, lead list, attachments, start, the mutation | edit, pick and read a list, send | HTTP |
| Dashboard `apps/web/src/hooks`, `lib/queryClient.ts`, `features/emails`, `features/auth` | session, query cache, mutations | poll, open, star, cancel, sign in, log out | HTTP |
| Mail transport `api/mail/` | cache of pooled transports | get, rotate, close, send | SMTP |
| Lifecycle `api/index.ts`, `worker.ts`, `lib/shutdown.ts` | running parts | boot order, graceful shutdown with a 20 s backstop | closes the parts in order |
| Launcher `scripts/dev.mjs` | its children | start, stop one for all, SIGKILL after 3 s | signals |
| Authentication `api/modules/auth`, `middleware/auth.ts` | `users`, the session cookie | upsert on sign-in, session tokens | Postgres |
| Senders, health, queue events, configuration, clients, scripts | connections, four metrics | read-only or set-up | |

What is hard here:

* **Redelivery.** BullMQ may run a job a second time while the first run lives
  (a lost job lock) or after its process died; a sweep may re-add a job after
  Redis lost it. The claim in Postgres is what must hold.
* **Reads that go stale.** `processEmail` decides with the row of before the
  claim (retry and deferral budgets); the reconciler writes by id what a
  snapshot said; cancel writes by id what a read said.
* **Two stores, no common transaction.** Every operation writes Postgres and
  Redis in some order, and may stop in between.
* **The moment of acceptance.** SMTP acceptance and the SENT row cannot be
  atomic; nor can a quota slot and the hour it is spent in.
* **Order under throttling.** The target of a deferred email is a function of
  its window and position, and meets emails that were not deferred.
* **A form and its request.** The form stays editable while a request is in flight;
  what is on screen, sent, committed and reported is computed in three places, and a
  failure after the commit looks like one before it.
* **An optimistic cache.** Snapshots, rollbacks, polls and invalidations overlap, in
  one cache that outlives sessions.
* **Stopping.** Work in hand, a sweep and clients that have gone, which nobody waits for, a
  backstop, and a launcher with less patience than its children.

`PROJECT.json` lists these as hazards at their lines, with the properties aimed
at each; a hazard without a property says why.

## Modules

| Module | Stands for |
|---|---|
| `Outbox` | What the service promises about an email: open, owned by one, delivered or closed; never taken again after that. |
| `EmailDelivery` | Row, job, workers, reconciler, cancel and enqueue of one deployment; implements `Outbox`. |
| `EmailDeliveryProofs` | `Typing`, `ClaimIsExclusive`, `NeverSentTwice`. |
| `OutboxRefinementProofs` | `RefinesOutbox`: `EmailDelivery` implements `Outbox`. |
| `EmailOutcomeProofs` | `ExclusiveWhileResending`, `SentStays`, `DuplicatesCostACrash`, `AttemptsAreHandoffs`, `BudgetsAreKept`. |
| `HourlyQuota` | Redis counters, the Lua script, the code of `processEmail` around them, the hour rolling. |
| `HourlyQuotaProofs` | `QuotaTyping`, `QuotaHolds`, `DeliveriesHold`, `ClockOverrunHolds`, `CountersAgree`, `RefundsStayHome`. |
| `Scheduling` | `scheduling.ts`, function by function. |
| `CampaignPacing` | Campaigns of several senders draining over an integer clock, by cadence, limiter, both ceilings, failover and deferral. |
| `CampaignPacingProofs` | Theorems on the arithmetic, `PacingTyping`, `BudgetIsHours`, `DeferralsAreBounded`, `ProjectionIsALowerBound`, `OrderIsKept`. |
| `Recipients` | `parse-recipients.ts`: `parseRecipients`, `mergeRecipients`. |
| `Submission` | The compose form, its request, the route with its files, transaction and enqueue, and the answer. |
| `SubmissionProofs` | `SubmissionTyping`, `CampaignsAreAsShown`, `ReportsAddUp`, `FilesAreKept`, `RowsBeforeJobs`, `DuplicatesAreExplained`. |
| `Console` | Session, query cache and mutations of one browser, and the email routes behind them. |
| `ConsoleProofs` | `ConsoleTyping`, `MailIsOwn`, `CacheIsAccurate`. |
| `Lifecycle` | Processes and launcher, boot and shutdown, with the runs, transports and sign-ins in hand. |
| `LifecycleProofs` | The five properties of `Lifecycle`. |
| `MCEmailDelivery`, `MCHourlyQuota`, `MCCampaignPacing`, `MCSubmission`, `MCConsole`, `MCLifecycle` | Instances for TLC. |

### EmailDelivery

The variables are the columns of `email_jobs` (`status`, `attempts`,
`rescheduleCount`, `lockedBy`, `lockedAt`), the BullMQ job (`jobState`, the run
holding its lock, `attemptsMade`, `stalledCount`), the locals of `processEmail`
per slot (`pc`, `email` and the two columns it read: `rowAttempts`,
`rowReschedules`), the sweep's snapshots, the cancel request, the enqueue that
follows a commit, and two counters at the SMTP server.

Every await of `processEmail` that touches shared state is one action:
`Load`, `Claim`, `Reserve`, `SendEmail`, `RecordSent` / `MarkRejected` /
`HandleError`, and on refusal `DeferExhausted`, or `Release`,
`CountReschedule`, `MoveToDelayed`. `StepThrows` is a store call that fails:
inside the `try` it leads to the catch block, elsewhere (the reservation
included) it escapes and leaves the row as it is. `Ack` is what BullMQ makes of
the outcome if the run still holds the job's lock. `CancelRead`, `CancelWrite`,
`RemoveEmailJob` are `cancelEmail`; `FindAbandoned` .. `SweepDone` are
`reconcile`, with `EnqueueFails` and `SweepThrows` for its error paths.
`Fetch`, `Stall`, `Evict`, `RedisLoss` model BullMQ and Redis, `Crash` and
`ApiCrash` the processes.

Time is abstract: a delayed job and a waiting one are both `queued` and may be
fetched at any time; a reservation may be refused at any time; a lock is fresh
or stale. `PROCESSING` rows become stale by `LockAges`, for live runs only when
`SlowRuns` (the default five minutes are far above the SMTP timeouts, so
without it a live run is never stale). A process identifies its lock by a
random id made at start, so a restarted process is another member of `Procs`.

Left out: deletion of rows, the audit trail (it cannot fail a send outside a
transaction; inside one a failed insert fails the transaction, which
`StepThrows` covers), paging of the outstanding pass (an instance fits a page).

### HourlyQuota

One action per round-trip to Redis: `EvalSha` (the whole script, which Redis
runs atomically), `LoadScript`, `RetryEvalSha`, `FindAlternative`,
`StampReservation` (the `Date.now()` of `emailWorker.ts:196`), the send, `Refund`. The
clock is the number of the hour; it may roll between any two steps, except that
a reservation reaches Redis within the hour after its clock reading (`Tick`).
History variables count what was granted and delivered, per window charged and
per window of the clock. `ExpireGlobal` and `ExpireSender` keep the two hours of
`KEY_TTL_SECONDS` counted in whole windows: a key created inside window `h` cannot be
gone before `h + 2` begins. The script dates each key by its own first increment, so
from then on the keys of one window go one by one, and `NoLeak` speaks of the windows
before that. In the last window (`MaxWindow`) jobs end and none starts.

### CampaignPacing

Rows `<<campaign, seq>>` become due by `scheduledAtForSeq`; `MayStart` is BullMQ
with its limiter (jobs in the order of their due times, starts `MinDelay`
apart; ties in any order, since BullMQ's tie-breaking is not the program's). `Send`,
`DeferToNextWindow` and `DeferExhausted` are a job's three outcomes here; processing takes
no time and a delivery succeeds. `Admits` is the Lua script's check of both ceilings,
`Carriers` the sender itself or, where `SENDER_FAILOVER` is on and its own ceiling is the
one that refuses, any other with room (a full deployment leaves none). Each campaign has
its sender, each sender its maximum; which one, and whether the deployment fails over, is
chosen in `Init`. With `Punctual` the
clock waits for jobs that may start; without it workers may be slow or down.

### Recipients and Submission

A lead list is a sequence of lines, a line the sequence of the addresses the
pattern finds in it; spellings are strings with a given `Lower`, because the
properties are about which address equals which. `Parsed` is computed by the same
operator in the browser and in the API, as `parseRecipients` is shared code.

The form's fields are the React states of `ComposeForm`, `RecipientChips`,
`UploadList`, `AttachmentBar` and `SendLaterPopover`; each handler is an action,
and they stay enabled while a request is pending, as in the code, which disables
only the button (`CanSend`). `PickList` and `ListRead` are apart, since the file is
read asynchronously. `Submit` takes the form as it is and remembers what the screen
said. The route is a chain `sent`, `received`, `parsed`, `valid`, `committed`,
`queued`, `answered`; every step has its failure (`Fail`, which is `errorHandler`),
the API may die between any two, and the answer may be lost (`NetworkError`) while
the route goes on. `Unlink` may fail, in which case the log says so (`warned`) and the
route goes on. `Enqueue` adds the jobs in order, some at a time, and may fail after any of
them. Rows without a job are `EmailDelivery`'s to repair, where the sweep is modelled.

### Console

Two accounts share a browser. A query is asked for (`Ask`, `Open`), answered with
the rows of that moment, and delivered later, or never; a mutation is clicked,
applied in the API, and settled, and each of these may be overtaken by the others.
`ClickStar` is `onMutate` (cancel the fetches, snapshot, optimistic write),
`StarFails` is `onError` with `onSettled`, `Succeeds` the invalidation. A request that
fails in the browser may still be applied (`late`). `NoticeExpiry`, `Resume`,
`SignedIn` and `Logout` are the session's ways in and out.

Three histories name what the code cannot know: `overtaken` and `behind`, the
answers and entries that the API has outrun unheard, and `unclean`, a session that
began over the cache of another. Abstractions: all pages, placeholders, folders and
searches share one list key (they are invalidated together), cached data is never
collected, a fetch reads the database when it is asked for, and the worker's own writes
(an email that is sent) are left out, since the next poll is all the code does about them.

### Lifecycle

A process is off, booting, up or down (shutting down, with `teardown` counting the
closed parts in the order of `shutdown`). `Restart`, `Examine`, `Start` are `main`: the
worker and the signal handlers come after `reconcile` has gone over the rows, so a signal
during the boot meets no handler. `Examine` looks at one row: one its owner has left behind
is given back or closed (`LeftBehind`, by RESEND_SUSPECT_JOBS and the attempts), a pending
one gets its job, or its `enqueueIfAbsent` throws and the loop goes on
(`reconciler.ts:145`). `Sweep` is the timer, which fires whatever there is to do;
`SweepThrows` is the query of a sweep that fails, as it does after the shutdown has closed
the database.

`CloseNext` waits where `close` waits: `server.close` for the connections, so for the
requests whose clients are still there (`Connected`), then `worker.close(false)` for the
runs. A client may go at any time (`Disconnect`) and its handler runs on, beside the rest of
the shutdown. `Backstop` and `Crash` end a process with whatever it holds.

Runs take the sender's credentials when they load the row and a transport when they send.
`GetTransport` compares the fingerprint of the cached transport with the run's credentials,
and reuses it (`Reuse`), or closes it and builds and caches another (`Rebuild`), while other
runs may hold the closed one; what a shutdown closes is what is in the cache. `live` is
what has been opened and not closed. `Rotate` is `provision-ethereal`. Sign-ins
are the requests: `Lookup` and `WriteUser` are `upsertGoogleUser`, `DemoUpsert` is
`loginWithPassword`. The launcher signals its children once (`LauncherStops`), and may or
may not come to kill those still there, one by one (`LauncherKills`).

The send and its row are one step here (`EmailDelivery` has them apart), and a row
whose run is alive is not taken for abandoned (slow runs are `EmailDelivery`'s). Process
groups, and when the launcher itself exits, are npm's and the operating system's.

## Runs

All bounds are constants named in the configurations. `HostOf` puts two slots
and a sweep in one process next to a second process, which is enough for every
race between two runs, between a run and a sweep of either process, and for the
crash of one side.

| Run | Question | Instance |
|---|---|---|
| `redelivery` | `TypeOK` (with the lock columns set exactly while the row is PROCESSING), `ExclusiveClaim`, `AtMostOnce`, `AttemptsAccounted` under live stalls and slow runs | 1 email, 2 runs, 1 sweep, 2 attempts |
| `crash_recovery` | `BudgetsHold`, `SentIsFinal` and the refinement `ImplementsOutbox`, with a crash, a cancel, throwing calls, overlapping sweeps | 1 email, 2 runs, 2 sweeps, 2 attempts |
| `settles` | `EventuallySettled` under `FairSpec`, with deadlock checked; `BudgetsHold` and `DuplicatesNeedACrash`; crash, Redis loss, throwing calls | 1 email, 2 runs, 1 sweep, with and without RESEND_SUSPECT_JOBS |
| `quota` | `TypeOK`, `NeverOversubscribed`, `ClockOverrunBounded`, `DeliveriesWithinQuota`, `NoLeak` with refunds, failover, late failures | 3 workers, 2 senders, 3 windows, restarts without data loss |
| `pacing_order` | `SentInOrder` for a campaign that starts with an hour and fits into one | 4 to 6 emails, 2 senders, with and without failover, hours of 6 |
| `pacing_bounds` | `TypeOK`, `DeferralsBounded`, `FailedOnlyAfterHours`, `NotBeforeProjected` | 2 campaigns, 2 senders, one ceiling over both, with and without failover, late workers, hours of 3 |
| `submission` | `TypeOK`, `CampaignAsShown`, `CountsAddUp`, `DuplicatesExplained`, `FilesWhileNeeded`, `DatabaseFirst`; `AlwaysAnswered` under `FairSpec` | 2 presses of Send, 2 edits, a crash, 3 people, one spelled in two ways, one address zod refuses |
| `console` | `TypeOK`, `ShownIsStored`, `NoForeignMail` | 2 accounts, 1 email, 2 mutations, 2 sign-ins, 3 fetches |
| `lifecycle` | `TypeOK`, `NothingUnplugged`, `NoStrayTransport`, `RefusedOnlyInARace`, `BacklogFirst` | the combined process with 2 slots, 2 rows, 3 transports, 2 sign-ins, a rotation, a fault |

Why the bounds suffice: a row meets other rows only through worker slots, so
one row with two or three slots shows every race on it; two attempts and one
deferral reach the first use, the reuse and the exhaustion of each budget
(`MAX_ATTEMPTS`, `MAX_RESCHEDULES`); three windows reach the expiry of a
counter; the hour of three or six ticks divides into fewer slots than the
campaigns need, and two senders under one ceiling let either of the two refuse. `quota` keeps a reservation within its hour (`RollMidReserve`
off) because a refund after the hour has rolled is a finding of its own. Sweeps
that overlap together with RESEND_SUSPECT_JOBS violate more than
`DuplicatesNeedACrash` states, because the snapshot of one sweep may reopen a row
that has been sent by then (see below). Two presses of Send with two edits reach
every overlap of an edit, a request and its repetition; chips, list and duplicates
meet in three addresses. Two mutations and three fetches are enough for an answer to
be overtaken, restored over and asked for again. Two slots on one process are what two runs
that hold different credentials need; three names for transports are the
cached one, a closed one that the other run holds, and the new one. One process is booted, stopped and booted again, and one fault is a crash
or a loss of Redis at any point; a second process, which would share rows and jobs with
the first, is beyond the size TLC can search here, and the theorems are about any number.
Slots of one process and rows are interchangeable in `lifecycle` (`Symmetry`), as are the
workers in `quota` and the senders and campaigns in the pacing runs.
Every invariant of these runs is also a theorem for every size (see Proofs); what the
bounds alone carry is liveness.

Fairness (`FairSpec` of `EmailDelivery`): processes that are not `Mortal` keep taking steps, BullMQ
hands out queued jobs and notices expired locks (its own timers), clocks pass
`STALE_LOCK_MS`, the sweep timer fires again and again, and retention forgets
finished jobs (`removeOnComplete`, `removeOnFail`; BullMQ applies an age when
another job finishes, so this assumes that mail keeps flowing). Crashes, losses and
throwing calls are never forced. Without retention `EventuallySettled` fails: a
row behind a dead job waits for it (see below). Deadlock is not checked in the
other runs, because a system whose mail is settled may stop. `FairSpec` of
`Submission`: a request the API has accepted runs on until it is answered or the
process dies, and the browser hears of the answer or of the broken connection. `Console` and `Lifecycle` have no fairness: nothing in
them must happen for their properties.

Each property is also checked to depend on the code: `PROJECT.json` pairs it
with a plausible bug (a dropped guard, a forgotten offset, a missing await;
defined in the modules as "buggy variant") under which it fails.

## Where the code and its documents disagree

Each of these is a run whose single property states the document, and fails.

| Run | Statement | What happens |
|---|---|---|
| `cancel_resurrected` (`TerminalIsFinal`) | constants.ts:32 "will never change again" | a send that fails after a cancel turns CANCELLED into SCHEDULED, and the retry sends it |
| `exhausted_not_failed` (`ExhaustedIsFailed`) | README.md:189 a job is failed after MAX_ATTEMPTS | `willRetry` (emailWorker.ts:248) reads the attempts of before the claim: the row of an exhausted job stays SCHEDULED |
| `refund_new_window` (`RefundsOwnWindow`) | rateLimiter.ts:133 no refund into a new window | `reservedAt` is read after the reservation, perhaps in the next hour |

The preconditions of the other runs and theorems come from the following
behaviours of the code, which are not kept as runs:

* `record` is not among the `StoreFaults` and `lostReply` not among the
  `SmtpOutcomes` where `AtMostOnce` is checked: a SENT that fails to commit after
  acceptance (emailWorker.ts:216) is retried as a send error, and sends again.
* A cancel that lands after the claim is not seen by `processEmail`; the email goes
  out and the row ends SENT, though emails.service.ts:145 expects the worker to
  notice. `AtMostOnce` and the refinement allow it.
* `enqueueIfAbsent` (emailQueue.ts:105) counts completed and failed jobs as
  present; `EventuallySettled` needs `Retention` for that reason.
* Overlapping sweeps write by id from their snapshots; hence one sweep in
  `settles`, and `SentIsFinal` only with RESEND_SUSPECT_JOBS off.
* Slots of one hour may be spent in the next: `ClockOverrunBounded` says how far.
* The catch block (emailWorker.ts:244) refunds failures after acceptance too, so
  such an email is delivered without a slot: `DeliveriesWithinQuota` and
  `ClockOverrunBounded` count the others.
* A campaign that begins inside an hour, or whose cadence takes it past its first hour,
  may have a deferred email placed behind later ones that were due in the next hour
  anyway (hours of 6 ticks, emails 2 apart, a limit of two: the third email is
  deferred from 4 to 8, the fourth is due at 6). `pacing_order` starts campaigns with an hour and lets
  them fit into one, where README.md:358 holds; `OrderIsKept` is the theorem.
* With SENDER_FAILOVER several senders share the emails of a window, so a campaign may be through
  before the completion it was shown; `NotBeforeProjected` then holds it to the projection for
  the deployment's ceiling (`ProjectedLimit`). A deferral may be due to that ceiling, which other
  senders fill too; `DeferralsBounded` counts with the lower of the two (`FullWindow`).
* `windowsRequired` (scheduling.ts:80) counts the windows of the quota, not those of a
  slower cadence; `NotBeforeProjected` is about `completesAt`.
* upload.ts:8 says of the lead list that "it is kept in memory"; upload.ts:42 and the code
  store it on disk and unlink it after the parse. `FilesWhileNeeded` allows for a process
  that dies in between and for an unlink that fails, which the route logs and ignores;
  nothing removes attachments of campaigns that were refused.
* The button is enabled again after a success until `router.push` has loaded the next page
  (`DuplicatesExplained` counts such presses as `eager`), and a failure after the commit
  is reported like any other, so an author may repeat what is scheduled already.
* One address that the pattern finds and zod refuses fails the whole request
  (`Acceptable`), as does a request that exceeds MAX_RECIPIENTS_PER_CAMPAIGN.
* An answer that was on its way off screen when its entry was invalidated is taken and
  marks the entry fresh; a request that failed in the browser may be applied later.
  `ShownIsStored` excludes these entries by name (`behind`) until the next answer.
* The cache outlives a session that expires (layout.tsx:23) and a sign-in on top of
  another (LoginCard.tsx:77); the rollback of a star restores its snapshot even into a
  cache that a logout has cleared (useEmails.ts:88). `NoForeignMail` excludes the three.
* A signal during the boot meets no handler. The shutdown awaits neither a sweep nor the handler
  of a client that has gone, and both meet closed connections: hence `NothingUnplugged` is about
  runs and about clients that wait.
* The boot's `reconcile` logs an `enqueueIfAbsent` that fails and goes on (reconciler.ts:145), so a
  worker may start with a pending row that has no job until a later sweep; `BacklogFirst` is
  about the others. What Redis loses while a process boots is left to that sweep too.
* Rotated credentials close the cached transport under the runs that are sending over it
  (transport.ts:36): their queued emails fail and are retried. Runs that read the credentials before
  and after alternate in rebuilding it; `NoStrayTransport` says that none is left open.
* UploadList.tsx:53 sets an error that the following `reset()` clears: a list without
  addresses is refused without a message. Enter in the date field of the popover, or in
  the empty To field, submits the form.
* EmailList.tsx:130 shows the footer only for more than one page: who is on page 2 when the queue
  shrinks to one page sees an empty list.

## Proofs

All theorems are about `Spec` for arbitrary constants under the named
assumptions (`...Assumption` in the modules) and the hypotheses given here; no leaf is
left unproved. A hypothesis names the behaviours of the code listed above that break
the property, or says that a set is finite, without which `Cardinality` means nothing.
The instances of the runs satisfy them, so no theorem is about an empty case.

### Delivery

* `Typing`: the type invariant is inductive.
* `ClaimIsExclusive`: `NeverResends => (Spec => []ExclusiveClaim)`. Exclusivity
  alone is not inductive: a second claim would succeed on a row whose owner left
  it pending. `ClaimInv` adds that an owned row is never pending
  (`OwnedNotPending`) and that no sweep holds a row to resend. A step either
  makes no row pending, or it is the owner giving the row up.
* `NeverSentTwice`: `NoDuplicateRisk => (Spec => []AtMostOnce)`, where
  `NoDuplicateRisk` excludes exactly the policy and the two faults of the
  findings (resending, a SENT that fails to commit, a lost SMTP reply).
  `DeliveryInv` adds that an accepted email's row is not pending, and that a run still
  owning it can only be about to record it.
* `RefinesOutbox`: `NoDuplicateRisk => (Spec => ImplementsOutbox)`. Under the mapping of
  `EmailDelivery` (`phase` from `accepted`, the owners and the status) every
  action is a step of `Outbox` or a stutter. `DeliveryInv` makes the steps match: a
  claim is `Take` since nobody else owns the email, a release `GiveBack`, and acceptance
  comes to an email in its owner's hands only.

`EmailOutcomeProofs` admits the resending policy as it is configured. `SafeResend`, a
hypothesis of each of its theorems beside those named below, is: the
reconciler never resends, or there is one sweep at a time and no live run outlasts
STALE_LOCK_MS. (Overlapping sweeps, or a run slower than that, reopen a row that has been
sent.) `ReopenInv` is the invariant of all five: an owned row is PROCESSING, FAILED or
CANCELLED, a stale lock has no owner left, and what a sweep is about to resend is closed,
unowned and within its attempts. Most steps change no row and no claim; `StepKinds` sorts
the others once, so that each proof below looks at those only.

* `ExclusiveWhileResending`: `SafeResend => (Spec => []ExclusiveClaim)`.
* `SentStays`: with `SlowRuns = FALSE`, `Spec => SentIsFinal`. What a sweep is about to fail
  is closed and not what it resends (`DoomedIsClosed`).
* `DuplicatesCostACrash`: with `AcceptanceKnown` (no lost reply, recording SENT does not
  fail), `Spec => []DuplicatesNeedACrash`. `DuplicateBound` pays in advance: as long as an
  email can still go out (`Takeable`), it has been accepted no more often than processes died.
* `AttemptsAreHandoffs`: with `ClaimsComplete` (no process dies; neither the reservation nor
  the release of a deferral throws), `Spec => []AttemptsAccounted`. A claim abandoned on its
  way to SMTP has cost an attempt without a handoff, which is why the hypothesis is needed.
  `Accounts` balances owned and unowned rows apart, those a sweep will reopen included.
* `BudgetsAreKept`: with `LocksHold` (BullMQ takes a job only from a run that is dead),
  `Spec => []BudgetsHold`. The counters alone are not enough, since `processEmail` checks what
  it read before the claim. `AttemptBudget` adds to a row's counter the runs that may still
  claim it in the belief that an attempt is left; `OrphansBounded` bounds them, as only a
  loss of Redis (`flushes`) leaves a second live run on a job.

### Quota

`CountersKept` is the hypothesis of all but typing: no data loss, finitely many workers, and,
when failed sends are refunded, no hour that rolls while a reservation is under way.

* `QuotaHolds`: no window is oversubscribed, refunds included. `CeilingInv` ties Redis to
  history: the counters of a window that can still be charged equal what was granted from
  it, every reservation on its way carries the current window or the one before (so an
  expired counter is never charged again), every slot in hand was granted (`SlotsBacked`), and a
  refund returns to the window that was charged (`RefundsInTime`).
* `DeliveriesHold`: the same invariant; deliveries and slots in hand are at most the grants.
* `ClockOverrunHolds`: `Overrun` bounds what the running hour carries beyond its own window by
  the workers that were in flight when it began, of which `Late` are still to deliver.
* `CountersAgree`: `NoLeak`, for finitely many senders. The sum over senders is a fold;
  `TotalChanges` says that it moves by what one sender's counter moves. As the
  library's induction theorems cannot be instantiated, it is proved by the absence of a smallest
  counterexample (`WellFoundedInduction`), and so are the results about `Kept` in `SubmissionProofs`.
  It covers the windows whose keys cannot have expired: later they go one by one.
* `RefundsStayHome`: `RefundsOwnWindow` holds whenever the hour does not roll between the
  reservation and its `Date.now()`. The run `refund_new_window` shows that it fails otherwise:
  together they say that this is the only way to a misplaced refund.

### Pacing

* `PacingTyping`; `WaitIsPositive`, `TargetInNextWindow`, `TargetsKeepOrder`: the arithmetic of
  `scheduling.ts` for every instant and hour length; the last holds while the
  offsets stay below one hour, which is where the wrap of line 106 begins.
* `BudgetIsHours`: `Spec => []FailedOnlyAfterHours`, from `CountIsHours`: each
  deferral moves a job into a later window than any of its instants so far, so
  the counter never exceeds the windows passed.
* `DeferralsAreBounded`: each deferral of an email was paid for with a window that other
  emails filled, up to its sender's ceiling or the deployment's (`DeferralsPaid`); windows hold
  disjoint sets of sent emails (`Counted`). It holds for any number of senders and campaigns.
* `ProjectionIsALowerBound`: `Paced` counts what a campaign can have sent by any window, the
  running one apart, and keeps an email that was sent late enough to make room for all. Without
  failover a campaign sends what its sender's counter says at most, with it what the
  deployment's does.
* `OrderIsKept`: `OneHourCampaign => (Spec => []SentInOrder)`. `OneHourCampaign` is what
  `pacing_order` instantiates: one campaign that starts with an hour, workers that are not
  late, a cadence and deferred positions that are distinct and fit into the hour. `QueueInv`
  says that a waiting email is due in this window's slot or in the next one's (`Slotted`), that
  neither the clock nor the limiter has overtaken those of this window (`Timely`), and that a
  window that deferred anyone has nothing left (`Spent`), so nobody later slips through.

### Submission and dashboard

* `SubmissionTyping`, `CampaignsAreAsShown`, `ReportsAddUp`, `FilesAreKept` (finitely many
  files), `DuplicatesAreExplained` (and requests). `ContentInv` relates the screen, the form
  in flight, the campaign and the report of one press: `CommittedInv` holds the rows to the
  merge of the form's sources, whatever has been edited since. That a merge lists everyone
  once, in lower case, and counts add up are lemmas about `Distinct` and `mergeRecipients`, by the
  recursive functions they are. `FilesInv` says at which stages a file is on disk,
  or that its removal was logged as failed; `PressInv` that every press but the last is settled.
* `RowsBeforeJobs` (finitely many files): `QueuedInv` says that a job is that of a committed row,
  and that a request that has passed the enqueue has all of its jobs; a step queues jobs of
  its own request only (`OwnJobs`), so wherever others stop, theirs stay as they are.
* `ConsoleTyping`, `MailIsOwn`, `CacheIsAccurate`: no hypotheses. `OwnInv` extends
  `NoForeignMail` to answers on their way and to the snapshots of stars; `SyncInv` extends
  `ShownIsStored` to answers that nothing has overtaken.

### Lifecycle

`LifecycleProofs` is about one invariant, `IInv`, in four parts, each preserved by
every action: `ProcInv` (only a process that is shutting down has closed anything),
`RunInv` (runs and transports belong to processes that have booted and, with runs, have closed
their server at most; open transports are cached), `RowInv` (a row in hand is PROCESSING and has
one run; what a booting process owes is still to be looked at or has its job), `SignInInv` (a
sign-in whose client waits is in a process that has closed nothing; one that found no row came
when there was none). It yields:

* `Typing`, `ShutdownIsOrdered`, `TransportsAreCached`, `RefusalNeedsARace`: the invariants of
  the run `lifecycle`, for any number of processes, slots, rows, transports, rotations, sign-ins
  and faults.
* `BacklogBeforeWork`: `Spec => BacklogFirst`. The part of `RowInv` it needs is that a row a
  booting process owes has a job once it has been looked at or is not pending: other processes
  take rows by their jobs only, so one that comes back is queued.

### Only model-checked

`EventuallySettled` and `AlwaysAnswered` (liveness under fairness and
ENABLED are out of the prover's reach), and the refutations of the three runs that
expect a violation. No module uses RECURSIVE operators: `Kept` of `Recipients` is a recursive
function, so that its results can be proved. Of the lines of a list put together (`FlattenSeq`)
it is proved that they are a sequence of addresses, which is all the properties need.

## Not modelled

* Rendering, icons, toasts, editor and toolbar, subject and body, the choice of sender:
  fields and pixels that no other state depends on.
* Read-only endpoints and screens (senders, statistics, health, paging, search), the
  metrics of `queue/events.ts`, logging, request ids, the counters of the rate limiter.
* Library work: JWT and Google tokens, sanitising, MIME, multer's limits one by one, zod
  beyond what it accepts of recipients, Prisma's and ioredis' reconnections.
* The environment (`config/env.ts`): its values are the constants.
* Migrations, seed, load and end-to-end scripts, provisioning (but for `Rotate`), and of
  the launcher what comes before its children run.
* Deletion of rows, the audit trail, paging of the reconciler's outstanding pass, and the hour
  that rolls inside `deferToNextWindow`.
* That a shutdown ends: the backstop makes it so, which is one timer. What becomes of the launcher's
  process groups when it exits before its own timer fires (dev.mjs:179).

## Plan

Done: delivery, quota, arithmetic and pacing; submission with its recipients; the
dashboard's cache; lifecycle, transports and sign-ins; theorems for every invariant,
action property and refinement that a passing run checks. Next, in this order:

1. Under which conditions the refuted statements hold, as `RefundsStayHome` does for refunds:
   `TerminalIsFinal` without a cancel past its check and with one policy, `ExhaustedIsFailed`
   for a row whose last attempt is not the one that fails.
2. Weaker hypotheses: `AttemptsAreHandoffs` as an inequality that counts the processes that
   died; `OrderIsKept` for campaigns of more than an hour, up to the first deferral.
3. An abstract specification of the limiter (grants per window, atomically), implemented by
   `HourlyQuota` under `CountersKept`.
4. `ReconcilePages`: the cursor of the outstanding pass against rows that change
   status under it. Property: a row pending throughout a sweep is examined.
