# TMX Scheduler: a formal model

TLA+ models of the TMX Scheduler: its backend (`src/backend/src`), the state of
its console (`src/frontend`) and the renderer both share
(`src/packages/shared`), with their TLC instances and proofs checked by TLAPS.
File references are to the backend's source tree unless they name another
directory; pages and components (`queue/page.tsx`, `AccountForm.tsx`) are the
frontend's.

To check everything, in this directory:

    tlc -workers 2 -config sent_is_final.cfg MCSendPipeline.tla   # any row of "runs"
    tlapm SendPipelineProofs.tla                                  # any *Proofs module

`PROJECT.json` holds the run list, the mutation of the model each property
detects, the map from definitions to source lines, the hazards and the findings.

## 1. Inventory of the system

A CSV import fills the queue table in Postgres. Pollers claim due rows and put a
job for each into Redis. Workers run the jobs, ask the mailbox for a slot of its
daily limit, build the message and hand it to an SMTP server. What came of it is
written back to the row. Recipients come back later through the tracking
endpoints and the unsubscribe page. Operators edit rows, mailboxes, signatures
and users from the console, in any number of browser tabs, at any time. Any
number of app processes may run; all of them run every part.

| Component (source) | State it keeps | Operations | Talks to |
| --- | --- | --- | --- |
| Queue table (`emails/emails.service.ts`, `prisma/schema.prisma`) | rows: status, scheduledAt, claimedAt, attempts, sentAt, dedupe key | `claimNextDue`, `reapStuckClaims`, `markSent`, `markFailed`, `deferTo`, `cancel`, `cancelMany`, `reschedule`, `retry`, `retryMany`, `cancelPendingForRecipient`, `findMany` | shared by every part below |
| Poller (`sender/poller.service.ts`) | `ticking`, `stopped` | tick, bootstrap, shutdown | claims rows, adds jobs to Redis |
| Send processor (`sender/send.processor.ts`) | the locals of a running job | `process`, `handleFailure` | queue rows, throttle, suppression, transport |
| Reaper (`sender/reaper.service.ts`) | none | sweep | queue rows |
| Failure classification (`mail/smtp-error.ts`) | none (pure) | permanent? bounce? | send processor |
| Mailbox throttle (`accounts/accounts.service.ts`, `daily-counter.ts`) | sentToday, sentTodayDate, lastSentAt, limit, gap, active | `claimSendSlot`, `releaseSendSlot`, `update`, `remove`, `create` | send processor, account form |
| SMTP transports (`accounts/transport.service.ts`) | a pooled connection and an OAuth token per mailbox | `get`, `verify`, `invalidate`, `buildAuth`, `accessToken` | processor, mailbox requests |
| Message building (`mail/message-builder.ts`, `mail/link-rewrite.ts`) | none (pure) | `build`, `buildTest`, placeholders, links, footer, headers | processor, tracking, signature of the mailbox |
| Suppression list (`suppression/`) | addresses | `isSuppressed`, `add`, `addMany`, `remove` | processor, import, unsubscribe page |
| Unsubscribe page (`unsubscribe/`) | none | `process`: two statements | list, queue rows |
| Import (`emails/import.service.ts`, `common/crypto.service.ts`) | batches and their numbers | `importCsv`, `commit` | list, queue rows, unique index |
| Schedule parsing (`emails/schedule-parse.ts`, luxon) | none (pure) | zone of a cell, instant of a reading | import |
| Tracking (`tracking/`) | event log, firstOpenAt, firstClickAt | `record`; reports that judge the log | queue rows |
| Batches report (`batches/`) | batch names | list, rename, statistics | queue rows, tracking |
| Signature library (`signatures/`, `packages/shared/src/signature.ts`) | name, HTML half, text half | create, update, delete, link of a mailbox; render, stamp, decode | builder page, message building |
| Users (`auth/`) | users; signed tokens, which are stored nowhere | login, create, update, remove, `seedAdmin` | guard of every request |
| Browser tabs (`lib/auth.tsx`, `lib/api.ts`, `Shell.tsx`) | the token of localStorage, user and page of a tab | login, logout, restore, the answer to a 401 | every request |
| Queue page (`queue/page.tsx`) | filter, page, answer shown, busy row, dialog | filter, paginate, poll, act on a row, act in bulk | `/emails` |
| Mailbox list and form (`accounts/page.tsx`, `AccountForm.tsx`) | SWR's copies, the open form | save, test, delete | `/accounts` |
| Signature builder and editor (`SignatureBuilder.tsx`, `signatures/*`) | form, edited halves | fill in, pick a layout, save | `/signatures` |
| Import page (`import/page.tsx`) | file, time zone, preview, report, busy | choose, check, queue | `/emails/import` |
| Domain check, audit log, configuration, health; batches, suppression, settings and setup pages | a table each, or none | look-ups, appends, lists | |

**What is hard here.**

- *Interleaving.* Two pollers, several workers, the reaper and the operators
  write one row with separate statements, most of them keyed by the id alone. A
  send decision is made from a row read several awaits earlier. A tracking hit
  reads, looks up a host name, and only then writes. The transport cache is
  looked at, a token is awaited, and only then is it written. A user's deletion
  counts the other administrators first. A login finds a user, then compares a
  password for a while.
- *Failure.* A process may die, or a statement fail, between any two awaits;
  Redis may store a job whose `add` was reported as failed; an SMTP server may
  accept a message and lose the reply; a browser's request may fail.
- *Timeouts and retries.* A claim may outlive the reaper's timeout while its job
  is still queued or running. Retries are counted from a value read before the
  send. OAuth tokens and console tokens run out while they are in use.
- *Stale values.* The throttle's UPDATE compares with an instant and a gap
  computed before it runs, and the reason of a refusal is worked out from an
  older read. The account form writes back a whole row read before an SMTP
  login. Every form and table of the console shows a copy that others have
  moved on from, and answers arrive out of order.
- *Boundaries.* Day changes reset the counter lazily, and are shifted when the
  clocks change; a counter at zero is decremented; an hour is skipped or comes
  twice; a burst of links is counted in a window with no upper bound.

**What makes each component correct.**

| Component | Property (definition) |
| --- | --- |
| Rows and claims | one pair of hands at a time (`OneHolder`, `HeldRowsAreClaimed`); the stamp the reaper needs is always there (`ClaimStamped`); the life of a message is the promised one, `sent` being final (`ImplementsLifecycle`) |
| Sending | a second copy is always owed to a lost acceptance (`DuplicatesAreLostRecords`); retries end (`QueuedRowsHaveRetriesLeft`); every queued row settles (`EventuallySettled`) |
| Suppression | nothing gets past the list after the fact but what had passed it already (`SuppressionHolds`) |
| Slots and throttle | every send a provider counts has a slot, but for those whose outcome was misjudged (`UsedSendsArePaidFor`); the limit (`DailyLimitHolds`, `OvershootIsStrayed`), the gap (`PacingHolds`), no busy loop (`RefusalsWait`), the lazy reset (`CounterIsUsage`) |
| Transports, mailboxes | what is stored has logged in (`StoredCredentialsWereAccepted`), a closed pool stays in the cache only by a token request that failed (`OnlyFailedTokensWedge`), an open one drops out only in one race (`PoolsAreLostInRacesOnly`) |
| Message building | links lead where they should and only the tracker's are counted (`LinksLeadHome`), the import foretells what will be tracked (`ReportsForeseeTracking`) |
| Schedule | a row goes out at the hour written, in the zone meant (`SchedulesAreReadInTheirZone`) |
| Import | nobody gets one message twice (`NobodyGetsItTwice`), batches are numbered without gaps, hold what they say and are never empty (`BatchesAreConsecutive`), a sheet's rows are all accounted for (`ReportsAddUp`); a commit follows the check of the same file (`CommitsFollowTheirCheck`) |
| Tracking | stamps have evidence (`FirstTouchHasEvidence`), recorded hits show (`RecordedHitsAreSeen`), bursts are not invented (`BurstsAreReal`), an early hit is never a person (`EarlyHitsAreNotPeople`) |
| Signatures | a text half nobody typed shows the lines of its markup (`HalvesDifferOnlyAsTyped`), the form stamped on a signature is the one that made it (`StampsMatchMarkup`), a mailbox's signature exists and only a write of the mailbox changes it (`MailboxesKeepTheirSignature`) |
| Users, tabs | the last administrator goes in two ways only (`LockoutsNeedAStaleView`), no token for the deleted (`NoTokenAfterDeletion`), no tab hangs (`TabsSettle`) or goes blank but by a failed request (`BlankPagesAreFailures`) |
| Queue and import pages | the table catches up with the queue (`ScreenCatchesUp`), no button stays dead (`NothingStaysBusy`) |

## 2. The modules

| Module | Role |
| --- | --- |
| `SmtpFailure` | classification of SMTP errors, as operators |
| `SendPipeline` | queue rows, Redis, pollers, workers, reaper, edits, suppression, unsubscribe |
| `MessageLifecycle` | what the queue promises about a message, abstractly |
| `SendPipelineProps` | the pipeline's properties, and the refinement mapping (`Life`) to `MessageLifecycle` |
| `MCSendPipeline` | its instances: `sent_is_final`, `any_request`, `settles`, `superseded_job`, `edit_race` |
| `SendPipelineProofs`, `LifecycleProofs`, `SendLedgerProofs` | its theorems: types and holders; the refinement and the retries; slots and suppression |
| `Calendar` | local time with clock changes, the send day |
| `SendSlot`, `MCSendSlot` | one mailbox's throttle: `throttle`, `lost_day`, `edit_overwrites_counter` |
| `SendSlotProofs` | theorems about the throttle and, last, about the calendar |
| `Import`, `MCImport`, `ImportProofs` | sheets, transactions, the unique index: `import` |
| `Classify` | `judge()` as an operator |
| `Tracking`, `MCTracking`, `TrackingProofs` | the tracking log: `tracking` |
| `QueueScreen` | the queue page and its endpoints |
| `Users`, `Tabs` | users, seeds and tokens; the browser tabs that share a token |
| `Mailboxes` | mailbox requests and forms, `TransportService` |
| `SignOff`, `Signatures` | what a signature is, as operators; the library, the builder, the editor |
| `ImportScreen` | the import page |
| `ScheduleCell`, `MessageBuilder`, `MessageProofs` | from a row of a sheet to its message |
| `MCConsole` | the instance of the seven modules behind the console and the mail: `console`, `bulk_filter` |
| `ConsoleProofs` | theorems about the six modules behind the console, and about the instance |

Throughout, one SQL statement, one Redis call and one SMTP conversation is one
step, and every `await` between two of them is a step boundary. A program
counter names the next await. Locals that a later step reads are variables; a
value read once and used at once is not. A request of the console is sent,
served (in as many steps as it has statements) and answered, and answers may
overtake each other. Operators commented *Mutant* are plausible mistakes, used
by no specification; they only serve to show that a property would notice.

### SendPipeline

| State | Code |
| --- | --- |
| `status`, `due`, `claimedAt`, `aged`, `attempts` | columns of `email_queue`; `due` is `scheduledAt <= now`, `aged` is a `claimedAt` older than `stuckSendingTimeoutMs` |
| `stamp` | the time the row's last claim was given; distinct claims have distinct stamps |
| `waiting`, `failedJobs` | the BullMQ queue: jobs by id, and records of failed ones that still block their id |
| `ppc`, `held`, `claimed`, `stopped` | a tick of `PollerService`, the claim in hand, its counter, shutdown |
| `pc`, `job`, `seen`, `fail` | a job in `SendProcessor`: its await, its data, `email.attempts` as read, the error caught |
| `spent` | slots claimed and not released, over all mailboxes |
| `suppressed`, `op`, `unsub` | the list, single-row edits between read and write, unsubscribes between their statements |
| `delivered`, `used`, `misjudged`, `unrecorded`, `exposure` | history: what servers took, sends a provider counts (taken, or refused with a reply), sends it took that were handled as if no reply had come, acceptances nothing recorded, sends that were past the check when an address was suppressed |

A poller's actions follow `tick` (claim, `queue.add`, the deferral of a claim
that could not be enqueued); a worker's follow `process` (load, check the
suppression list, slot, build, send, `markSent`, `clearSendError`) and
`handleFailure` (release, record the error, suppress and cancel, fail or defer).
The server may take a message and its reply be lost. Every statement may fail ("db") and leads where the code's `try`, `catch` and
BullMQ lead it. A crash ends a worker or a poller anywhere; BullMQ's stalled-job
recovery then either runs the job again or gives it up, as external code may.
Abstractions: a due row is picked in any order (the code orders by
`scheduledAt`); the length of a back-off is "not due, later due"; the throttle's
verdict is a free choice here and a module of its own in `SendSlot`.

### MessageLifecycle

No pollers, jobs or claims: a message is queued, in hand, recorded or stopped. A
copy leaves only from someone's hand and only when every earlier copy was lost
before it could be recorded; it goes back to the queue or is stopped only with
no copy on its way to being recorded; `recorded` is for good. The mapping reads
`stage` off the status (`failed` and `cancelled` are both stopped), `copies` off
`delivered` and `lost` off `unrecorded`.

### SendSlot and Calendar

One row of `accounts`. A claim is a SELECT (`ReadAccount`), the reading of the
clock (`TakeTime`) and one UPDATE whose WHERE is both gates (`claimSendSlot`, or
`RefuseGated` when it matched nothing). `OpenForm`, `SaveForm` and `AbandonForm`
are `AccountsService.update` around its await on the SMTP login. `LocalDate`
assigns a send day to each instant and `StartOfNextDay` the instant a limit
refusal waits for. `MCSendSlot` takes both from `Calendar`, which models luxon's
conversion between instants and clock readings around one change of the clocks,
and `daily-counter.ts` on top of it: `throttle` crosses the night the clocks go
back, `lost_day` the one they go forward. Of the calendar the proofs need only
what `SlotAssumption` says: that `LocalDate` never goes back and that
`StartOfNextDay[t] > t`. `SendSlotProofs` proves both of the code's calendar
(`SendDaysMoveForward`, `NextDayIsAhead`), for every zone whose clocks are moved
by at most an hour.

### Import

`importCsv` validates a sheet against a suppression list read once, then
`commit()` takes the lock on `batches`, a number, inserts with `skipDuplicates`,
and commits or rolls back. `Claim`, `Accepted`, `Settle`, `CancelMany`,
`Suppress`, `ReviveRead` and `ReviveWrite` are coarse versions of what
`SendPipeline` has in detail: enough to move a row in and out of the unique
index (which skips cancelled rows) while imports run. Postgres' waiting on an
uncommitted duplicate key is a guard.

### Tracking and Classify

`record()` with a step per statement: `Load`, `Clock`, `Recent`, `Create`,
`Backfill`, `FirstTouch`; `Fails` at any of them ends it without a trace, as its
`catch` does. `Accept` and `MarkSent` are the send worker's two ends of a send,
so that hits fall before, between and after them. `judge` takes the evidence of
an event and the thresholds, and user agents and host names are reduced to the
list they match.

### QueueScreen

`queued` is the table in the database; `filters`, `pageNo`, `busyId` and
`rescheduling` are the page's `useState`s; `shown` and `asking` are SWR's data
and its request under way. SWR keeps the answer to the latest key only, so an
answer to an abandoned filter is dropped. `act` and `bulk` put a call in
`posts`; the server reads and writes (each in a step of its own for a single
row, one UPDATE for a bulk action) and the page asks again on the answer. The
queue moves by itself under the operator (`QueueMoves`, bounded).

### Users and Tabs

`Users` has the table, `signed` (the claims in each token issued; the guard
believes them and reads nothing), the two statements of `seedAdmin` per
instance, the two of a login, and for each change its read and its write.
`remove` counts the other administrators in between; `update` counts nobody.
Users have an id that is never used again and an address that is; a request
creates one with any role, or changes any of a user's role and `active`.
`Tabs` has AuthProvider per tab: the restore on load, the redirects of `Shell`
and of the login page, the polls of the queue page, and `api()`, which on a 401
clears the token all tabs share, even if the 401 was given to an older one.

### Mailboxes

A mailbox is `conn` (what `signatureOf` looks at) and `rest` (the client secret
and the tenant, which it leaves out). `calls` are requests and sends under way,
each with the row it read, its step and the cached pool it saw; `verify` on a
draft uses the empty id. `pools` remembers every pool opened, so that one that
drops out of the cache without being closed is visible. `copies` is SWR's
account list, `form` the row a form was filled from. Every await may fail: a
token request and a login of good settings too (`Unauthorised`, `Verified`; the
network is not the settings' fault), and any statement (`StatementFails`); what
was done to the cache by then stays done. `remove` clears the cache and deletes
the row in two steps.

### SignOff and Signatures

A half of a signature is the set of lines it shows; HTML also carries the form
the builder stamped on it. `renderSignatureHtml`, `renderSignatureText`,
`withSignatureState` and the text half the API derives are operators of
`SignOff`, shared with `MessageBuilder`. `Signatures` adds the editor, its stale
copy, and requests that name any of the two halves (`PostOrPatch`): a text that
was not sent is derived again from new markup, and a text that was typed is kept
as it is, whatever the markup beside it shows. A mailbox's link is a foreign key
(a deletion checks, then deletes), written when the mailbox picks a signature
and written back as it was read by any other edit of the mailbox (`Edits`).

### ImportScreen

File, time zone, preview, report and `busy`, with requests that overlap and
answer late. The answer shown remembers, as history, whether it is of a file
that is no longer the chosen one.

### ScheduleCell and MessageBuilder

A cell is the date and time it reads and what stands where a zone would be.
`ReadRow` is an import of the row (a dry run or the real one, any number of
times and at any instant): the instant it is scheduled for and whether it says
it will be tracked. `SendLetter` and `SendTest` are `build` and `buildTest`, with the
signature the mailbox has by then (`Resign`). A body is a set of things that are
or may become links, and of a URL it matters where it leads and how often its
`&` was escaped on the way.

### MCConsole

The seven parts share no state, so a behaviour chooses one and leaves the others
where they start; one run then checks all of them. Nothing about how two of the
parts interact is claimed. `ConsoleProofs!RunsArePartRuns` proves that such a
behaviour is one of every part, so what is proved of a part holds of the run.

## 3. The runs

Runs that pass:

| Run | What it shows | Instance |
| --- | --- | --- |
| `sent_is_final` | One holder, copies owed to lost acceptances, retries that end, and the refinement of `MessageLifecycle`, although enqueues and replies fail and processes die | 1 row, 2 workers, 1 poller, 3 claims, 3 disturbances, 2 requests, every kind of SMTP error; 902 000 states |
| `any_request` | Types, stamps, paid slots and the suppression list under every request and every disturbance, failing statements included | 1 row, 2 workers, 1 poller, 2 claims, 1 disturbance, 2 requests; 787 000 states |
| `settles` | Every queued row ends sent or failed once disturbances stop | 1 row, 1 worker, 6 claims, 2 disturbances of any kind, `MAX_ATTEMPTS` 3 |
| `throttle` | Limit, gap, counter and deferrals with stale reads, two send days, a change of the clocks, an edit and late releases | 2 claimers, limits 1 and 2, gaps 0 and 2, 6 instants an hour apart; 3.7 million states |
| `import` | Keys, numbers, batches and reports of overlapping sheets | 3 imports, 3 sheets, 2 recipients, 2 edits; 384 000 states |
| `tracking` | Stamps, bursts and verdicts of overlapping hits | 3 hits, 1 message, 2 links, 2 copies, 2 instants of half a second; 383 000 states |
| `console` | Pages, endpoints and messages: the properties of the last rows of the table in section 1 | below; 423 000 states |

`console` takes each part at its own size: the queue page with 2 rows on pages
of one, 2 clicks of any kind and 1 move of the queue; 3 user ids with 2
addresses (so that a deleted address comes back), 2 app processes with different
seed addresses, 2 tokens and 2 requests; 2 tabs, 2 logins, 1 page
opened by hand and 1 failed request; 1 mailbox id (with the draft's), 2
connections (one OAuth), 2 secrets and 2 calls; 1 signature, 1 mailbox, 2
layouts, 2 editors opened, 2 keystrokes and 2 requests of any halves; 2 sheets (one the
beginning of the other), 2 time zones, 3 requests and 3 choices; rows that
differ in what is in them or in when they go out, 6 signatures, 2 imports of
the row and 1 message.

Runs that end in a counterexample, each against a line of the repository (the
findings of `PROJECT.json`):

| Run | What the code does | What it says |
| --- | --- | --- |
| `superseded_job` | A job of an earlier claim runs for the later one, as only the status is compared | `send.processor.ts:62-64`: such a job is skipped |
| `edit_race` | cancel, reschedule and retry check the row they read and write by id | `emails.service.ts:183,206`: only pending, never sent mail |
| `edit_overwrites_counter` | Saving the account form writes back the counter read before a claim | `README.md:23-24`: workers can never overshoot together |
| `lost_day` | A limit refusal on the evening before the clocks go forward waits for a 09:00 that still counts as the used-up day | `accounts.service.ts:296-297`: a time that will actually succeed; `daily-counter.ts:41`: when the next send day begins |
| `bulk_filter` | A bulk cancel sends the filter without the batch, and stops mail of another batch | `emails/dto/email.dto.ts:86-88`: no second way to express a selection that could disagree with what the operator sees |

**Why the bounds are enough.** Every property of the pipeline is violated, when
it can be, by at most two parties around one row: two holders, a writer and an
editor, a sender and a suppressor. Two workers next to a poller, the reaper and
an operator give every such pair, two claims an earlier and a later one, and
three a repetition (retries, copies); rows share nothing but the slot counter,
and for any number of rows, workers and pollers there are the proofs. The
counterexamples met need at most two disturbances or two requests. `MAX_ATTEMPTS`
is 4 in the code and 2 or 3 in the runs: it is only compared with a counter that
moves by one, so the runs reach the last attempt. Two send days, two limits and
two gaps are what a stale read can confuse; the clock of `throttle` crosses from
one to the other. Three imports let two wait for one. Three hits let two overlap
while a third has finished, so that windows of different length meet. On a page
two clicks, or a click and a move of the queue, are what overlaps; two tabs, two
tokens, two pools and two administrators are an old and a new one.

The mutants (one per property and run) show that each property notices a
plausible mistake in the code: a dropped status check, an off-by-one at a limit,
a missing reset, a swapped comparison, a lost lock, an answer taken for another.

**Deadlock** is checked wherever it may mean something: the pipeline's runs
leave it on. `throttle`, `lost_day`, `edit_overwrites_counter`, `import`,
`tracking` and `console` may stop, since their clock, edits, imports, hits and
clicks run out.

**What each property needs to be left out.** One-holder properties hold only
while no claim outlives the timeout, no enqueue is ambiguous and nobody edits a
single row: each of the three breaks them in the code (`superseded_job` and
`edit_race` show two of the ways). `ImplementsLifecycle`,
`DuplicatesAreLostRecords` and `QueuedRowsHaveRetriesLeft` need, besides,
statements that do not fail after a send. The other three of the pipeline need
nothing, and are checked and proved under everything: `ClaimStamped`,
`SuppressionHolds`, and `UsedSendsArePaidFor`, which counts, and allows for, the
one way a used slot goes back (section 6). `OneHolder` is checked with one
poller; that two pollers do not claim one row rests on the proof.
`NobodyGetsItTwice` needs acceptances to be recorded and single-row edits not to
cross another write. `DailyLimitHolds` needs claims not to cross a form
submission and slots not to be released on a later day; `OvershootIsStrayed`,
which holds with late releases, says by how much the limit is then missed.
`CommitsFollowTheirCheck`, `ReportsForeseeTracking`, `LockoutsNeedAStaleView`,
`PoolsAreLostInRacesOnly`, `OnlyFailedTokensWedge` and `HalvesDifferOnlyAsTyped` name their exceptions in the formula: each of
these does happen in the code, and the property says that nothing else does.

## 4. Liveness and fairness

`EventuallySettled` is checked under `FairSpec`: weak fairness of each poller's
and worker's steps, of the reaper's sweep, of a row becoming due, and of an
abandoned claim growing old. The code justifies each: the poller and the reaper
run on timers that keep firing (`poller.service.ts:41-53`, `reaper.service.ts:23`),
an idle BullMQ worker takes a waiting job, a started handler continues when its
await resolves, and time passes. Fairness is weak, and nothing is assumed of
operators, failures or the verdict of a mail server: a message refused for ever
fails by `MAX_ATTEMPTS`. Disturbances are bounded, which is the "once they
stop". A mailbox that keeps refusing a slot is a disturbance: a row whose
mailbox was deleted is deferred by an hour for ever (`accounts.service.ts:252`)
and never settles.

The two liveness properties of the console are checked under `ConsoleFairSpec`.
`ScreenFairness`: the queue page's timer keeps firing (its `refreshInterval` of
five seconds) and every request is served and answered. Under it the page shows
in the end, and from then on, the queue as it is, for the filter and page chosen
last (`ScreenCatchesUp`, `<>[]`). `TabsFairness`: the router arrives, the page
polls, answers come. Under it each tab is again and again on the login page,
drawn with a valid token, or blank after a failed request (`TabsSettle`,
`[]<>`). Nothing is assumed of the operator or of where the queue moves; clicks,
moves and outages are bounded.

The other runs state no liveness: their handlers simply run to their end.

## 5. What is proved

Every invariant and every action property of the passing runs is also a theorem;
the three liveness properties are not. A theorem holds for every value of the
constants that satisfies the named assumptions of the modules, which TLC
evaluates in the runs. These say what the constants are (`MaxTime` a number, a
null that is no value), and a few things the proofs use that the code justifies:

- the workers and claimers are finitely many, and so are the rows of the queue
  page and the links of the tracker, as their proofs count them;
- the send day never goes back and a deferral is to a later instant
  (`SlotAssumption`): theorems about `Calendar`, see above;
- a sheet is a sequence of messages and invalid rows, for any length;
- an account accepts a set of credentials that does not change (`Mailboxes`);
- the zones a cell may name, the mailbox's and the sheet's are zones whose
  clocks are moved by at most an hour.

Some theorems have a hypothesis on what may go wrong, as their property is false
without it (section 3): `Undisturbed` (no claim outlives the timeout, no enqueue
is ambiguous, nobody edits a single row), `Recorded` (that, and no statement of
the bookkeeping fails), `NoEditRace` (no form submission overlaps a claim); in
`ImportProofs`, `Undisturbed` means that single-row edits do not cross another
write and that accepted messages are recorded.

| Theorem | Statement |
| --- | --- |
| `SendPipelineProofs!TypeCorrect` | `[]TypeOK` |
| `SendPipelineProofs!ClaimsAreStamped` | `[]ClaimStamped`, under every disturbance and request |
| `SendPipelineProofs!RowsHaveOneHolder` | `[]OneHolder`, assuming `Undisturbed` |
| `SendPipelineProofs!HeldRowsStayClaimed` | `[]HeldRowsAreClaimed`, assuming `Undisturbed` |
| `LifecycleProofs!PipelineImplementsLifecycle` | `ImplementsLifecycle`, assuming `Recorded` |
| `LifecycleProofs!DuplicatesHaveLostRecords` | `[]DuplicatesAreLostRecords`, assuming `Recorded` |
| `LifecycleProofs!RetriesEndInTime` | `[]QueuedRowsHaveRetriesLeft`, assuming `Recorded` |
| `SendLedgerProofs!MailboxesPayForUse` | `[]UsedSendsArePaidFor`, under every disturbance and request |
| `SendLedgerProofs!SuppressedAddressesGetNoMore` | `[]SuppressionHolds`, under every disturbance and request |
| `SendSlotProofs!TypeCorrect` | `[]TypeOK` |
| `SendSlotProofs!RefusalsAreDeferred` | `RefusalsWait` |
| `SendSlotProofs!OvershootOnlyByStrayedSlots` | `OvershootIsStrayed`, assuming `NoEditRace` |
| `SendSlotProofs!DailyLimitIsKept` | `DailyLimitHolds`, assuming `NoEditRace` and no late release |
| `SendSlotProofs!PacingIsKept` | `PacingHolds`, assuming `NoEditRace` |
| `SendSlotProofs!CounterCountsUsage` | `[]CounterIsUsage`, assuming `NoEditRace` |
| `SendSlotProofs!NextDayIsAhead` | `startOfNextDay(z, t) > t`, in every zone whose clocks move by at most an hour |
| `SendSlotProofs!SendDaysMoveForward` | `localDate(z, s) <= localDate(z, t)` whenever `s <= t`, in every such zone |
| `SendSlotProofs!NextDayIsTheNextSendDay` | where the clocks do not move, `startOfNextDay` is the first instant of the next send day |
| `ImportProofs!TypesHold` | `[]TypeOK` |
| `ImportProofs!NumbersHaveNoGaps` | `[]BatchesAreConsecutive` |
| `ImportProofs!EveryRowIsReported` | `[]ReportsAddUp` |
| `ImportProofs!TheIndexPreventsRepeats` | `[]NobodyGetsItTwice`, assuming `Undisturbed` |
| `TrackingProofs!TypeCorrect` | `[]TypeOK` |
| `TrackingProofs!FirstTouchesHaveEvidence` | `[]FirstTouchHasEvidence` |
| `TrackingProofs!RecordedHitsShow` | `[]RecordedHitsAreSeen` |
| `TrackingProofs!SweepsAreReal` | `[]BurstsAreReal` |
| `TrackingProofs!EarlyHitsAreMachines` | `[]EarlyHitsAreNotPeople` |
| `TrackingProofs!LooserRulesKeepPeople` | looser thresholds never take a person back |
| `MessageProofs!LinksAreKept` | `[]LinksLeadHome` |
| `MessageProofs!ReportsComeTrue` | `[]ReportsForeseeTracking` |
| `MessageProofs!SchedulesAreMeant` | `[]SchedulesAreReadInTheirZone` |
| `ConsoleProofs!NobodyLocksTheConsole` | `LockoutsNeedAStaleView` |
| `ConsoleProofs!DeletedUsersGetNoToken` | `NoTokenAfterDeletion` |
| `ConsoleProofs!MailboxesHaveLoggedIn` | `[]StoredCredentialsWereAccepted` |
| `ConsoleProofs!OnlyFailedTokensLeaveClosedPools` | `OnlyFailedTokensWedge` |
| `ConsoleProofs!OnlyRacesLosePools` | `PoolsAreLostInRacesOnly` |
| `ConsoleProofs!HalvesFollowTheMarkup`, `SignaturesReopen` | `[]HalvesDifferOnlyAsTyped`, `[]StampsMatchMarkup` |
| `ConsoleProofs!PickedSignaturesStay` | `MailboxesKeepTheirSignature` |
| `ConsoleProofs!OnlyCheckedSheetsAreQueued` | `[]CommitsFollowTheirCheck` |
| `ConsoleProofs!OnlyFailuresLeaveBlankPages` | `BlankPagesAreFailures` |
| `ConsoleProofs!BusyMeansACall` | `[]NothingStaysBusy` |
| `ConsoleProofs!ConsoleTypesHold` | `[]ConsoleTypeOK` |

**The arguments.**

*Holders.* `OneHolder` alone is not inductive: a claim could hand a row
to a second poller if a held row could be `pending`. `HolderInv` adds that a
held row is `sending` or `sent` and not aged (`HeldRowsAreClaimed`), so neither
the poller's claim nor the reaper can touch it, and that no single-row edit is
under way (`op = {}`, which `Undisturbed` gives). Most steps only let go of a
row; one lemma (`LettingGo`) covers them all, and the steps that pass a row on
are treated one by one.

*Refinement.* It rests on `LifeInv`, which adds two things to `HolderInv`. A job
past its first look has its row still `sending`, and `sent` once it is at
`clearError` (`JobsFollowRows`): otherwise `markSent` might record a row that
was stopped. And every copy but at most one is lost, that one being recorded or
in the hands of a worker about to record it (`CopiesAreAccounted`): this is what
turns the guards of the code, which know nothing of copies, into the conditions
of the abstract steps. A step of the pipeline moves many rows at once (the
reaper, a bulk edit), so it is shown row by row to be one of five kinds, `Kept`,
`MovesOn`, `CopyLeaves`, `RecordIsLost` and `GetsRecorded`, and each kind to be
a step of `MessageLifecycle` or a stutter.

*Retries.* The give-up decision compares a number read before the send.
`RetriesInv` adds that this number is still the column's
(`JobsCountFromTheRow`), which follows from `LifeInv`: the one holder of a row
is the only one to count up.

*Ledgers.* Both theorems of `SendLedgerProofs` count workers between two steps.
`SlotsCoverUse`: the slots in use, with the misjudged sends, cover what the
provider counts and, besides, each worker whose send is in progress or whose slot
is about to go back (`Unsettled`). A slot is only given back for an error without
a reply code (`ReleaseNeedsNoReply`), which a send the provider counts ends in
only by being misjudged. `ExposureCoversSends`: what a
suppressed address may still get covers the workers past the check with mail to
it. Each step moves one worker into or out of the set that is counted.

*Throttle.* `SlotInv` relates the columns to the history: the counter with the
slots strayed to its day covers the slots in use on that day; `sentTodayDate` is
the day of `lastSentAt`; no later day has a slot in use; slots in hand are of
past days. Together they make the lazy reset right: the first claim of a new day
finds a day with nothing in use. A claim whose UPDATE runs late cannot move the
counter back a day, since the gap gate refuses an instant before `lastSentAt`:
the pacing gate also protects the counter. `UsageInv` adds the bound from the
other side, the counter is no more than the slots in use; it needs that each
worker who is sending has its slot among those of its day, so that giving one
back takes it off both.

*Calendar.* The proofs need one lemma about luxon's conversion: from any guess
of the offset that is one of two neighbours, the instant found shows the reading
asked for, or the one an hour later. Nine o'clock set twice (on today's
midnight, then a day on) is then bounded by the date of `t`. The send day is
that of the clock nine elapsed hours ago. Instants are whole hours, so with
clocks set back by one the reading stands still at worst, and the day with it.

*Import.* `ImportInv`: whoever is inside a transaction holds the lock
(`OneTransaction`), so the number it took is still the next one when it commits
(`NumbersInOrder`); it inserts rows of its own sheet only (`InsertsCandidates`);
each batch holds the rows it says (`BatchesHoldTheirRows`). The rows are appended
in the order of the sheet, which takes a lemma about counting the members of a
set up to a number. For repeats, `DeliveryInv` adds that what was mailed stays
live in the index (`MailedRowsStayLive`) and that live rows, with those a
transaction is about to commit, have different keys (`LiveKeysAreUnique`): the
second is the index, and the first is why a mailed key never becomes free.

*Tracking.* `TrackingInv` adds to the types a chronology (a hit's instant is
between the first acceptance and now, a recorded send not before the acceptance)
and the facts a hit carries between its statements: past `Create` its event is
in the log, and a stamp seen in `Load` is never taken away. A delay is rounded,
so the early-hit theorem rests on one lemma about that rounding: a later start
gives no longer a delay, and never a negative one. For bursts, `BurstInv` adds
that the number a handler carries from `Recent` to `Create` and `Backfill` is at
most the number of links now in its window: the log only grows, so a window
never loses a link, and a backfill writes a number that some hit can see.

*Messages.* `MessageInv` says that checks and letters are functions of the row
and the signature (`ChecksReadTheRow`, `LettersCarryTheRow`), which reduces the
theorems to the operators: what `build` makes of a link and what `Follow` makes
of that (`RewritingLeadsHome`, for a URL that was escaped once or more), and, for the forecast, a case analysis of where a link of the message can
come from. The schedule uses the calendar's conversion.

*Users.* `UsersInv` adds to the types that a request between its read and its
write is not about its sender, and that, as long as nothing was written since, a
deletion leaves another administrator (`ReadRequestsWereAllowed`). A step that
removes the last one is then by a request whose sender is none any more, or
whose read is stale.

*Transports.* That credentials were accepted is not inductive: `MailboxesInv`
says of a request at each step whose credentials its pool and its token carry
(`TestsItsOwnRow`), of a call that waits for a token that it has closed the pool
it found (`ClosedWhatItFound`), and that a pool is cached under one id
(`CachedOnce`). A closed pool is then cached either while the call that closed it
waits for its token, or for good, once that wait has failed: every other step
that ends such a wait puts an open pool in the closed one's place, and every
other step that closes a pool also drops it (`OnlyFailedTokensWedge`, shown step
by step, most of them by `StaysUnwedged`).

*Signatures.* A value goes from the editor through a request into the library and
back into the browser's copy. `SignaturesInv` says at each place what is known
of it: in a request a half may be missing (`RequestFits`), in the library the
text is there and is what somebody typed or shows the lines of the HTML
(`Storable`), and the form stamped on the markup is the one that renders to it
(`Stamp`). For the links it says that they lead to a signature there is
(`LinksLeadSomewhere`); that only a mailbox's own write moves one is then read
off the steps, of which the deletion is the one that matters: it needs a
signature without mailboxes in the step that deletes, not in the earlier check.

*Pages.* The type invariants of `QueueScreen`, `ImportScreen` and `Tabs` with
their properties are inductive as they stand once requests under way are typed
(`ScreenInv`, `ImportScreenInv`, `TabsTypeOK`).

**Only model-checked**: `EventuallySettled`, `ScreenCatchesUp` and `TabsSettle`
rest on fairness, which the prover has no means for here, and the five runs that
end in a counterexample. What is only proved, and no run's property:
`SendSlot!TypeOK` and the theorems about the calendar and about looser
thresholds.

## 6. Not modelled, and differences seen on the way

Abstracted or left out of the modelled components:

- `dryRunSending`; a message that cannot be built, whose exception is outside
  the `try` of `process` and would be recorded by BullMQ; the stall of a job
  without a crash; two single-row edits of one kind on one row, or two
  unsubscribes of one address, at once.
- Rows of the queue are never deleted by the code, so the branch for a row that
  is not found is unreachable and absent.
- In `SendSlot`, a mailbox's change of time zone; clocks that differ between
  instances; two changes of the clocks, or one of another amount than an hour.
- The unique index is only in `Import`; in the pipeline a cancelled row may be
  revived freely. A row cancelled under a running send and re-imported would
  make `markSent` meet the index: this needs both models.
- The reports built from the tracking log and the batch statistics; the bulk add
  to the suppression list; the formats a date and a time may be written in, and
  the reading of the CSV.
- The domain check (DNS look-ups, nothing is stored), the audit log,
  configuration, health and error filter, and the batches, suppression, settings
  and setup pages, which show lists and keep next to no state. Wording and
  layout everywhere.

Hazards without a property, with the reason in `PROJECT.json`:
`accounts.service.ts:252`, `emails.service.ts:332`, `tracking.service.ts:157`,
`batches.service.ts:146`, `transport.service.ts:56` and the stale editor of
`signatures/[id]/page.tsx:28`.

Differences between text and code, and oddities, that no run is spent on:

*Sending*

- "If the connection never produced an SMTP reply, nothing left the building"
  (`send.processor.ts:178-180`; `docs/architecture.md:52`: "nothing was sent").
  Two ways a message leaves and its slot is still given back, the row being
  queued again: the server takes the message and the connection breaks before
  its reply; and a statement fails after the send, as `markSent` and the
  clearing of the error are in the same `try` as `sendMail`
  (`send.processor.ts:121`). `misjudged` counts both, and
  `UsedSendsArePaidFor` says that no slot of a used send goes back in a third.
- `docs/architecture.md:48` gives the back-off a jitter of 20% either way;
  `sender.constants.ts:20-27` only ever lengthens it.
- `accounts.service.ts:325-331` takes a slot released late off the new day's
  counter; `OvershootIsStrayed` bounds the effect.
- On the day the clocks go back the allowance renews at 08:00 and not 09:00
  local time, and a refusal between the two comes back an hour later than it
  could.
- `unsubscribe.controller.ts:54` confirms that nothing more will be sent; a
  worker already past the check still sends. `SuppressionHolds` says that this
  is all.

*Queue, import, reports*

- `cancelMany` and `retryMany` put their own status over the filter's
  (`emails.controller.ts:109-113`). The page number is not clamped when the
  queue shrinks, and one `busyId` stands for all calls under way, so the end of
  one frees or keeps the buttons of another.
- The dedupe key covers the bodies and the merge fields
  (`crypto.service.ts:152`), so a reworded sheet mails the same people again;
  `README.md:130-132` and `docs/architecture.md:71` name mailbox, recipient,
  subject and group.
- On the import page a check can be asked for while the rows go in, and its
  answer takes the place of the report; an answer about the previous file that
  comes late enables Queue for a file nobody checked; another time zone or name
  leaves the preview standing. These are the exceptions in
  `CommitsFollowTheirCheck`.
- `schedule-parse.ts` speaks of `GMT+8` as an offset, but its pattern wants
  three digits or more; `+8:00` matches and is then cut in the wrong place, and
  rejected. EST, PST and CET are read with summer time; IST is accepted although
  the comment calls it ambiguous. An hour that comes twice is read with the
  offset in force when the sheet is read, so a dry run and the import may differ.
- `schema.prisma:157-160` calls `inserted` the denominator of the batch rates;
  `batches.service.ts:143-147` divides by `sent`, while opens are counted from
  every row that has a stamp.

*Tracking and messages*

- `tracking.service.ts:188-191` says that the backfill makes the evidence
  describe the burst rather than the order it was observed in. Hits that overlap
  may each read the window before the other inserted, and a later backfill may
  lower an earlier one. `BurstsAreReal` bounds a burst from above only.
- `trackable.ts:11-15` promises exactly what the builder will find. It errs for
  a P.s. with an address and no text, for HTML edited by hand that kept its
  stamp, for `https://…` and an address of an empty column, which look like
  links and become none, and for a column whose value is an address. These are
  the exceptions in `ReportsForeseeTracking`. One more is outside the model,
  whose addresses in a signature have no placeholders: a P.s. whose address
  contains one is filled in before the builder looks for the address as it was
  stamped (`message-builder.ts:104-111,127-133`), and is not tracked although the
  import said it would be.
- "Tracks the signature's P.s. link and only that one"
  (`message-builder.ts:113-121`): another link of the signature with the same
  address is tracked too.

*Mailboxes and transports*

- An OAuth pool is kept in the cache longer than the access token it was opened
  with (`README.md:209`). The token cache goes by the id alone, drafts share the
  empty id, and `signatureOf` leaves out the client secret and the tenant.
- `get` closes the pool it will replace (`transport.service.ts:58`) before it
  has the token for the new one, and forgets it only by putting the new one in
  its place. While it waits a closed pool stays in the map; if the token request
  fails, it stays for good, and line 56 hands it to every send with its settings,
  until a login test or another change of settings drops it. It takes a send
  that still holds older OAuth settings next to an update to others: the update
  tests and caches its pool, the send closes it and gets no token, the update
  writes. `OnlyFailedTokensWedge` says that this is the only way.
- The form sends `active` from the row it was filled from, and `update` writes
  back every column of the row it read before the SMTP login, so an edit of
  anything takes back a signature picked meanwhile (or fails, if the one it read
  was deleted by then). Editors and forms
  are filled from SWR's copy, which may be old (`signatures/[id]/page.tsx:28`,
  `SignatureBuilder.tsx:134-135`, `accounts/[id]/page.tsx`).

*Users and tabs*

- The settings page says of a deleted user that they will be signed out; tokens
  are never looked up, so theirs stays good until it runs out, and an
  administrator's stays an administrator's after a demotion. `update` has no
  check for the last administrator. These are the exceptions in
  `LockoutsNeedAStaleView`.
- `seed-admin.ts` seeds only an empty table, since "an existing deployment always
  has at least one administrator"; the two ways above leave users and none of
  them an administrator, and no restart then helps. Two processes that boot on an
  empty table with different seed addresses create two.
- A failed request or an error of the server on `/auth/me` clears a good token
  and leaves the page blank; a late 401 for an old token clears a newer one.

*Signatures*

- `PATCH /signatures/:id` takes a text without markup
  (`signatures.service.ts:57-60`), which then stands beside the old markup,
  whatever that shows. `HalvesDifferOnlyAsTyped` has it as its exception.
- The test for an empty signature counts images even in the layout that shows
  none (`signature.ts:433`); a signature of images alone has an empty text half;
  HTML edited by hand keeps the stamp of the form it was, and re-opens as that.

## 7. Plan

Done: the pipeline with its abstract specification and the proof of the
refinement, the throttle with its calendar, import, tracking, and the state of
the console's main pages with the services behind them. In order of what they
add:

1. `SendPipeline` with `SendSlot` (the slot is a real one) and with `Import`
   (the index is real), for the hazards marked as needing a composition
   (`accounts.service.ts:252`, `emails.service.ts:332`).
2. `BatchReport`: the statistics' several queries over a moving queue, judged
   with `Classify` (`batches.service.ts:146`).
3. The bulk add to the suppression list, and the reports of tracking.

Theorems next: every safety property of the runs is proved, so what adds most is
how the models fit together: that each verdict `SendSlot` can give is one that
`SendPipeline` allows for, and that the rows of `Import` move only as those of
the pipeline do (a refinement each). Liveness stays with TLC. Further runs
replace or extend the existing ones rather than add small ones.
