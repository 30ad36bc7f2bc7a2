# Kronto in TLA+

Kronto (`src/src/corp_ed`) is a server that answers the questions of a company's
employees from the company's documents.  It is a FastAPI monolith over PostgreSQL
and Redis: several API processes and several worker processes share one database
and talk to external services (language models, a bank, mail, other document
systems).  Almost everything that is hard in it happens between two database
transactions.  This directory models those parts, checks them with TLC on small
instances and proves their safety properties with TLAPS for all instances.

Paths below are relative to `src/src/corp_ed/`.

## 1. The system

| Part | State | Operations | Talks to |
|---|---|---|---|
| Indexing queue: `material_service`, `ingest_service`, `reindex_service`, `ingest_job_repository`, `worker.IngestWorker` | `materials.status`, text, chunks; `ingest_jobs` | create, edit, rename, move, delete, reindex; claim, read, embed, store, mark done, retry, fail; lease and backoff | embeddings provider; connectors and agent create and change documents |
| Subscription payments: `billing_service`, `payment_service`, `billing_scheduler` | `subscriptions`, `invoices`, `payment_events`, `tenants.seats` | choose a plan, issue, cancel and settle an invoice, receive and match a webhook, resolve by hand, reconcile with the bank, renew, notice overdue, change seats | the bank; credits; staff panel |
| Credits: `credit_service`, `credit_order_service`, `credit_repository`, `FaqService.answer_turn` | `qa_log.credits`, `credit_grants`, `credit_spends`, `credit_orders`, threshold events in the audit log | check before a question, journal and charge after it, announce thresholds, order, pay, cancel, grant, expire | payments (an order has an invoice), seats (the pool) |
| Sessions: `auth_service`, `refresh_token_repository` | refresh tokens in families, the account's session generation | login, rotate, detect reuse, switch company, log out here or everywhere | accounts |
| Outgoing mail: `mail_worker`, `outbox_repository` | `outbox` rows with a lease and attempts | enqueue in the caller's transaction, claim, send, mark sent, retry, failed, purge | SMTP |
| Members and seats: `invite_service`, `user_service`, `account_service`, `core/seats` | `users` (status, role), invitations, `tenants.seats` | invite, accept, approve, block, change a role, remove, leave | seats paid for, sessions |
| Accounts: password reset, second factor, e-mail | `accounts`, one-time tokens and codes | reset, confirm, turn on and off | mail, sessions |
| Synchronisation of connectors: `connector_service`, `connector_sync_service`, `worker.SyncWorker` | connectors, credentials, grants of employees, sync jobs, `material_access` | connect, disconnect, pause, request a run; claim, walk, download, store, remove what is gone, retry | other systems, indexing queue |
| Synchronisation of folders: the SMB agent (`agent/`), `agent_ingest_service` | runs, `synced_at` of documents | ask for the known versions, walk, confirm, upload, finish and remove | the customer's files, indexing queue |
| Chat: `chat_service`, `chat_generation`, `FaqService.answer_turn`, `llm/fallback` | dialogues as trees of messages, tasks, flags to stop, the journal | ask, regenerate, choose a branch, stop, stream, store, delete | credits, language models |
| Language models: `llm/` | breaker, throttle | fallback, retry, open and close the breaker | providers |
| Companies, retention, deletion | `tenants` | create, suspend, delete, purge old data | everything |
| Frontend, staff panel, notifications, reports, deployment | – | input, output, configuration | – |

How the parts meet:

* documents change through the API, connectors and the agent; each of them queues
  an indexing job in the same transaction, workers take the jobs later;
* an invoice is settled by five paths (webhook, retried webhook, reconciliation,
  the staff's "paid", the staff's "resolve"); settling extends a subscription,
  adds seats or grants credits;
* seats set the monthly pool of credits; an answer spends the pool and then the
  bought credits; the pool is counted, not stored.

What is hard in it: text read before an embedding call of minutes and stored after
it; jobs taken over from workers that may be dead or slow; webhooks lost, repeated
and early; ORM objects loaded before a lock and decided upon after it; a balance
checked without a lock before a model is called and charged after it; deletions
at the bank inside a transaction that can roll back; months that change under a
question; an UPDATE that misses a row inserted meanwhile; a walk of minutes whose
silence about a document means its deletion; answers written by tasks that outlive
their requests.  `PROJECT.json` lists each hazard at its line with the properties that
cover it, or the reason that none does.

What makes each part correct: a document is searched by its current text, and no
document is forgotten; a payment is counted once, reaches the subscription, and no
period is billed twice; every credit beyond the pool is charged exactly once, to
the right grant, and the company is told when it stops; an ended session stays
ended; paid seats bound the members, and a company has an administrator; a
synchronisation mirrors its source and deletes only what is really gone; one task
writes a dialogue, and an answer is paid for exactly if it is kept; a letter is sent
at least once.  All of these but the last are modelled here.

## 2. Modules

| Module | Contents |
|---|---|
| `IngestQueue` | indexing queue: edits, jobs, workers |
| `Payments` | subscription payments by invoice, one company |
| `Credits` | pool, bought credits and their orders, one company |
| `SourceSync` | synchronisation of one connector, in both modes |
| `AgentSync` | the SMB agent, the server's handlers, the requests between them |
| `Sessions` | refresh and access tokens of one account |
| `SessionLife` | abstract: what a session promises; `Sessions` implements it |
| `Members` | members, roles, invitations and seats of one company |
| `Chat` | one dialogue and the tasks that write its answers |
| `MC...` | symmetry sets for TLC, one module for each checked one |
| `IngestQueueProofs`, `PaymentsProofs`, `CreditsProofs`, `SourceSyncProofs`, `AgentSyncProofs`, `SessionsProofs`, `MembersProofs`, `ChatProofs` | theorems |

In all of them **one action is one database transaction** (or the part of a handler
between two awaits outside a transaction).  A transaction under a row lock, or an
INSERT under a unique index, is one step; a handler that commits several times is
several actions, and anything may happen between them.  Where a handler reads without
a lock and decides on what it has read, its read and its commit are two actions
(`Sessions`, `Members`, `Chat`).  Definitions marked "Mutant
of ..." are not part of the specification: each is a plausible error in the
definition that follows it, kept to show that a property would notice.

### IngestQueue

`status`, `text` and `chunks` are a document; a text is a version number and chunks
are the version they were built from, which is all that "current" needs.  A row of
`ingest_jobs` has a status and a document, and two flags for time: `due` (run_after
has come) and `stale` (locked_at is older than STALE_AFTER).  A worker's `step` says
where it is in `run_once`: it has claimed a job, is embedding what it has `read`, has
stored, must fail or retry.  `Create`, `Rename`, `StoreDocument`, `Reindex`, `Delete`
and the rest follow the services; `Enqueue` is the INSERT ... ON CONFLICT DO NOTHING
against the partial unique index.  A crash leaves the row RUNNING until its lease
ends; `LeaseEnds` may also come while the worker lives, since nothing renews
`locked_at`: a job that takes longer than STALE_AFTER is claimed again and two workers hold it.
History variables say who is right about a job: `owner` is the worker that claimed it last,
a worker that holds a job it does not own is `Late`.  `raced` marks a document edited
after the owner had read its text, `spoiled` one that a late worker has written, or
whose job it has settled, since the owner began.

### Payments

The subscription is one record, an invoice is a kind, a state, a period and a number
of seats, `bill` is its bill at the bank (external).  A payment event has a verdict,
attempts and the invoice it points to; `sound` says that payer and amount are right.
A pass of the scheduler is several actions: it lists the companies (`List`, which
reads the seats), reads the awaiting invoices (`ReadAwaiting`), works through them one
by one (`Reconcile`), and renews (`Renew`).  `Reconcile` keeps the code's reading:
`session.get(..., with_for_update=True)` locks the row but does not refresh an object
that the session already holds.  The staff's change of seats is three transactions
(`staffStep`), with a possible crash between them.  Days pass between passes only.
`created` and `PollWithin` are `created_at` and POLL_WITHIN (45 days): a pass asks the bank
about `Recent` invoices only, so an older one is paid by a webhook or by the team.  A company is
taken to be active: `run_due` lists no other.

### Credits

`used`, `spent` and `told` are sums and marks per month; `grants`, `expired` and
`remaining` are the grants in the order they are made, which is the order in which
they expire.  `Ask` is the unlocked check; `AnswerFails`, `AnswerFree` (no call of the
model) and `Answer` are its ends.  `Answer` is the whole transaction of
`FaqService.answer_turn` after the model: journal row, `_settle` under the company's lock,
`charge` and the announcements.  `Share` is what the loop in `charge` takes from one
grant.  `grantMonth` and `toldSince` stand for `latest_grant_at` and `exists_since`.
`SettleInvoice` does not ask whether the invoice is awaiting: it includes the stale
settlement that `Payments` exhibits.  A question may be answered in the month after it was
asked (`NewMonth` waits for the ones of the month before, since an answer takes minutes at
most); `_settle` then works on the month of the question, with all that was used since
that month began (`UsedSince`).  `late` is history: what the next month had used by the
last such answer; `by` is the month the last answer's question was asked in, `peak` the
largest overrun an answer has found.

### SourceSync

One connector.  `mode` says whether one listing, read with the connector's own
credentials, covers the source (`Org`), or every employee's grant is walked in
turn.  `Revise` and `Relist` are the source, changing at any moment.  `job` and
`attempts` are the connector's row in the queue: `Claim`, `Settle`, `Crash`,
`BackoffEnds`.  The run follows `ConnectorSyncService`: `BeginRun` reads credentials
and grants, `OpenListing` begins one lister's walk, `Meet`, `BeginFetch`,
`StoreDocument` and `DocumentFails` handle a document, `EndListing` takes from the
lister what the walk did not name, `EndRun` removes what no walk named if the run is
`complete`.  A run ends early through `OutOfTime`, `Refuse`, `SourceFails`,
`ExpireGrant`, `RenewedElsewhere`; renewed tokens are saved on every way out
(`PersistRefresh`).  The API changes credentials, status and grants
meanwhile; a PATCH of the status is two actions, since it reads without a lock.
`owed` is what an honest listing cannot leave out: listed ever since it was opened.
History variables carry what the properties compare with: `steady` (untouched in
the source during the run), `walkers` (listers walked to the end or still to
walk), `late` (disconnected while a run held the token).

### AgentSync

The agent's process (`step`, `state`, `visited`, `pending`, `upload`) and the handlers
of `PUT /documents` (`doc`, `of`, `was`, `found`, `gave`, `has`) are separate: `Send` starts a
handler, `Timeout` lets the agent send again while the first handler goes on, `Die`
leaves it alone in the world, `GiveUp` reports the run as incomplete.  A file has a version
and a text, since a new version may have the text it had before.  A handler keeps the row it
loaded before the extraction (`was`, `found`); `Commit` decides by that row (`Store`): the same
version writes nothing but the time, the same text under another version writes the
version only, anything else writes both.  It does not look at the run again, and the time
it writes is the one at which it began.  Its row may be gone, or another handler may have
created one: then the statement fails (`Conflict`).

A finish is two steps, since the run is read without a lock: `BeginFinish` finds it open,
`Finish` deletes what was synchronised before it started and commits, whether or not a new
run has marked it superseded in between.  It may arrive late, or never.  `GET /state`,
`POST /runs` and `POST /access` are short and one step each.

History, per run: `steady` (unchanged in the file system since the run began), `skipped` (what
either side passed over), `overtaken` (what a request of an earlier run wrote in it) and
`outdated` (what such a request wrote before it began, after the agent had asked for the
known versions).  `Spoilt(r)` is what any of the last three names in r or a later run.  `mixed`
are the documents in which a request wrote its version beside a text that another had
stored since it loaded the row.

### Sessions and SessionLife

A row of `refresh_tokens` is a family and a place in its chain.  Requests are
transactions under READ COMMITTED in two steps: `BeginRotation` takes the row with
FOR UPDATE, `Rotate` marks it and inserts its successor; `BeginEndOne` and
`BeginEndAll` take the snapshot of an UPDATE (`seen`), `EndOne` and `EndAll` write
what was seen, after waiting for locked rows, and miss what was inserted since.
`CheckPassword` and `OpenSession` are a login, `Purge` the nightly deletion, `Accepted`
the check of an access token.  A tick is a unit of hours; only the order of the
lives of tokens matters, and they are parameters.

`SessionLife` knows families that are new, open or ended, and who has access.
`LifeOf` maps a chain to it: ended when a row is revoked, or when none is left.
`EndsForGood` is `SessionLife!Spec` under this mapping.

### Members

A person's row is a status and whether the role is administrator.  `Read` is the
unlocked read with the checks on it (`ByAdmin`, `AdminStays`), and keeps the columns
the handler changes; `Write` writes these over the row as it is by then, which is
what SQLAlchemy's flush does.  What takes a seat locks the company and counts, but
compares with `had`, the seats the session loaded earlier.  `OpenInvite`, `Accept`
and `NotAccepted` are an accepted invitation under its lock.  `overlap` is history:
an administrator was taken by a request that had read before another took one.  Who accepts
an invitation has its role (`AdminInvites`).

### Chat

An answer stands for the pair of messages it is born with; `under` and `question` make
the tree.  A text is the set of model calls whose pieces it holds, enough to tell a
text of one model from a mixture.  Time is the age of an unfinished answer in units
of five minutes: GENERATION_TIMEOUT is 1, STALE_GENERATION 2.  `Begin` and `Regenerate`
hold the row of the dialogue; `Open`, `Select` and their `Commit` do not.  The task of
an answer goes through `Search`, pieces of a call, and one of its ends
(`CallEnds`, `CallRefuses`, `CallFiltered`, `CallFails`, `Timeout`, a noticed stop), then `Load`
and `Save`, which commit message, journal and credits together.  `Crash` kills all
tasks; `Shutdown` cancels one, with a commit possibly on its way.

The modules are separate because they share little: `Credits` sees an invoice only
as a status and the pool only as a number; `Payments` does not see credits at all;
`Chat` sees the charge as one row of the journal; `Members` sees seats as a number
that others set; the synchronisations end where a document is stored and its
indexing job queued, which is where `IngestQueue` begins.

## 3. Runs

| Run | Instance | What it shows |
|---|---|---|
| `ingest` | 1 document, 2 jobs, 2 workers, 2 versions, 1 crash, leases that end at any moment, fairness | one active job, search is current, no forgotten document, chunks never regress, each but for the races named; every queued job ends |
| `ingest_slow` | the same with 3 jobs; a violation | a job is held by two living workers |
| `payments_events` | 1 invoice, 2 webhooks, 1 scheduler, 2 attempts, 2 days of which the reconciliation looks back 1, fairness | settled once per path; a payment to a recent invoice arrives without webhooks; a webhook ends as a paid invoice or before the team |
| `payments_periods` | 2 invoices, 2 schedulers, 3 days, period of 2, reconciliation of 2, 2 numbers of seats | paid periods are given, disjoint, final; one thing to pay; the renewal asks for the planned seats |
| `payments_twice` | 1 invoice, 1 webhook, 1 scheduler; a violation | the reconciliation settles an invoice a webhook has settled |
| `credits` | 2 questions, 1 order (in the first month), 2 grants of 1, pools 1 and 2, answers of 1, 2 months | the ledger balances, charges within the overrun and none missed, also across the end of a month; a grant pays only for answers after it; every episode of exhaustion is announced; a paid invoice closes its order |
| `sync` | 2 documents, 2 employees, both modes, 2 attempts, 1 change in the source, 2 acts of people or crashes | rights end with the grant; a successful run mirrors the source; only absence removes |
| `agent` | 1 file, 2 requests in flight, 2 runs, 2 changes | a complete run mirrors the files, superseded or not; only absence removes; a version never names an older text, but for mixed documents |
| `agent_touched` | the same; a violation | the finish removes a file the walk has stored, because a request of an earlier run took its time back |
| `sessions` | 2 families, 2 requests, 3 rows, 1 version, ticks 0 to 2 | ended stays ended, one live token, refinement to `SessionLife` |
| `members` | 3 people, 2 invitations (one for an administrator, one with approval), 2 requests, 2 seats | an administrator remains, seats are kept |
| `chat` | 1 tab, 2 answers, 1 crash or shutdown, a reserve model, fairness | one writer, paid exactly if kept, final answers stay, nothing shown is lost, streams end |

**Bounds and why they are enough.**  Every race met so far needs two actors and
one row; the instances have two workers, webhooks, schedulers, questions, handlers
or requests, so each actor meets a rival, and mostly one row more than the shortest conflict
needs.  Two invoices allow a first period and its renewal, or one cancelled
and its successor; three days with a period of two reach the end of a paid period and
its grace.  Two grants of one credit, an overrun of two and a pool that shrinks let a charge be split,
fall below zero, and meet an expired grant; two months let an episode begin with a month and
with a grant, and a question cross from one to the other.  The run of the credits has a
constraint, `OrdersFirst`: an order is made, paid and cancelled in the first month; what it
grants in the second, the team grants too.  Without the constraint the same instance holds in
7.0 million states.  With one order the limit of open orders (`MaxOpenOrders`) never binds: it
guards `CreateOrder` and no property depends on it.  In `sync`, one change falls into
every place of a walk, and two events allow a disconnection and a reconnection, two
sets of credentials, or a crash and a retry; the second attempt is the last.  In
`agent`, two runs let a request and a finish of the first commit anywhere in the second, and
two handlers let one decide by a row the other has changed; two changes make a version it
has and one it sends, or a new version with an old text; three runs with one change
(6.8 million states) hold as well.  One file suffices to look for errors, since rows
of different files share nothing but the run, and the theorems cover any number.  In
`sessions`, three rows are two rotations; with lives of one tick and no grace, a tick of two reaches
the expiry of a row and its purge.  In `members`, two seats and three people put every
seat at the limit, and the number of seats changes at any time.  In `chat`, two answers
are a stale one and its successor.  Bounds on versions (`MaxText`, `MaxVersion`,
`MaxChanges`), people's acts (`MaxEvents`), crashes, runs, rows, days, ticks, months
and grants are guards, named in the CONSTANTS of each module; they only cut behaviours
short, so deadlock is not checked.

**Fairness.**  `IngestQueue`: workers poll for ever, so a job that is due is claimed by one of them,
each step of a living worker ends and the clock advances (`WF`); the provider answers again, so a job that is
tried again and again succeeds in the end (`SF`).  A crash is never fair.  `Payments`:
`billing_loop` runs a pass every 15 minutes in every worker and survives errors, so
`Tick` is weakly fair, and a pass that begins again and again reads the
awaiting invoices and reaches each of them (`SF`, since a pass may fail anywhere); open
events are retried by the same loop (`WF Process`), and a request of the team that has
begun ends (`WF ResolveEnds`).  Nobody is obliged to pay, edit, choose or click.
`Chat`: time passes, `asyncio.timeout` fires, and a task that has a result loads and
saves it; a provider may be silent for ever.  The other modules state safety only: a
source, an agent or a user owes nothing.

## 4. Findings

Three runs end in a violation of a promise that `PROJECT.json` quotes:

* `payments_twice`: `billing_scheduler._poll` decides on an object loaded before the lock,
  so an invoice for additional seats adds them twice.  `SettledOncePerPath` shows that
  this is the only way, and that it happens once per invoice at most.
* `ingest_slow`: `worker.py:101` speaks of a dead worker, but nothing renews `locked_at`,
  so a job that takes longer than STALE_AFTER is held by two living ones.
* `agent_touched`: a request of an earlier run commits `synced_at` with the time at which it
  began (`agent_ingest_service.py:194`), after the walk of the present run has met the
  file; the finish then deletes a file that the walk did meet.

The modules contain further behaviour that differs from what a comment or document
says; properties that it would break name it as an exception:

* `material_service.py:191`: a rename queues a job only when none is active; a worker
  that has read the old title stores it and ends READY (`raced`).  A worker that
  has lost its job (`worker.py:101`) stores what it has read and settles the job of its
  successor (`spoiled`).  `SearchIsCurrent` and `NothingForgotten` except exactly these two.
* `agent_ingest_service.py:222` sets PENDING beside a job that is about to end; the
  document waits for the next run of its source.
* `connector_sync_service.py:853-857`: «Версия сменилась, содержимое — нет»: a document
  with the hash of the row loaded before the extraction gets its new version only.  When another
  request has stored another text meanwhile, the version is written beside that text
  and stays there, since the agent is told the version it has (`mixed`).
* `agent_ingest_service.py:256`: `finish` reads the run without a lock, deletes and writes
  FINISHED; `start_run` may mark the run superseded in between.  Against
  `docs/SMB-AGENT.md` 3.2 («как упавший, без удаления») a superseded run then still
  deletes, and FINISHED replaces FAILED.  Its walk was complete all the same: `MirrorsFiles` and
  `RemovedIfAbsent` hold for such a finish too.
* `agent_ingest_service.py:197`: `put_document` does not look at the run again before
  it commits.  A late request of an earlier run that commits between the agent's GET
  /state and its POST /runs puts an older version back; the agent then confirms the
  version it was told, kronto keeps the older text through a complete run, and only the
  next run sees it.  `MirrorsFiles` excepts exactly these files (`outdated`); proving it
  showed the case.
* `billing_scheduler.py:275`: a renewal is issued with the seats read at the beginning of
  the pass (`tickSeats`).  `RenewalAsksForNextSeats` speaks of planned reductions, which are
  read again.
* `billing_service.py:748`: `choose` deletes a bill at the bank inside a transaction that
  is rolled back when the bank then refuses the new one.
* `billing_scheduler.py:147`: the reconciliation asks about invoices of the last 45 days.  An
  older one whose webhook was lost is paid at the bank and awaits here until the team acts; the
  same holds for the paid bill of a cancelled invoice, which the pass does not read.
  `PaymentArrives` says so; `WebhookConcluded` covers what a webhook reports of either.
* `credit_service.py:274`: `_settle` counts a month without an upper bound.  A question
  answered after midnight charges to the old month what the new one has used as well
  (the exception of `ChargedWithinOverrun`, `GrantPaysNewAnswers`), and one that exhausts the
  new month's pool is judged by the old month's episode, so nobody is told in the new
  one (`StopIsAnnounced` speaks of the month of the question, `by`).
* `credit_order_service.py:238`: an order cancelled by the team leaves its bill payable.
* `refresh_token_repository.py:38` says that the whole chain gets `revoked_at`; a
  successor inserted by a rotation under way is missed by the UPDATE.  The session ends
  all the same, since one revoked row is enough (`ClosedStaysClosed`, `EndsForGood`).
* `connector_sync_service.py:505` against `docs/DECISIONS.md:1572`: a document that is listed
  but could not be stored in this run, or was seen only by a grant renewed in the
  meantime, is removed (the exceptions of `RemovedIfAbsent`).
* `connector_service.py:862`: a disconnection during a run is followed by rights the
  run writes again (`late`); `connector_sync_service.py:729`: a run refused with old
  credentials sets ERROR over new ones.
* `account_service.py:544`: two requests may take each other's last administrator
  (`overlap`).  `core/seats.py:52`: the count is taken under the lock, the number of
  seats was read before (`had`).
* `chat_service.py:278`: the choice of a branch commits without a lock beside a new
  question.  `chat_generation.py:411`: a dialogue deleted between the task's read and its
  commit rolls back the journal and the credits of an answer that was shown; the
  opposite order journals it.  `PaidIffAnswered` speaks of dialogues that exist.

Statements that a revived invoice breaks (`OnePending`, `PaidPeriodGiven`,
`PeriodsDisjoint`, `RenewalAsksForNextSeats`, `PaymentArrives`) say so with `revived`, a
history variable that holds the invoices settled while they were not awaiting.  The
fourth needs it only in instances larger than the run's: a session that settles an
invoice from what it read earlier takes the end of the subscription back, a second one
settles it again, and an older renewal, for another number of seats, is the current one.
The attempt to prove the property without the exception led to this.

## 5. Theorems

The theorems hold for every value of the constants that satisfies the ASSUMEs of
the module.  Each follows from an inductive invariant, shown to hold initially, to be
preserved by every action (one step of the proof per action), and to imply the property.

* **IngestQueue.**  `IndexInv` = the type invariant, "a used row has a document that
  lives as long as the row", "a working worker holds a used row" and `OneActiveJob`.
  The second and third are needed because `RetryLater` of a late worker puts back a
  row of which only they say what it is.  From it: `TypeCorrect`, `OneActiveJobAlways`.
  `OwnerInv` speaks of the worker that claimed a job last, since several may hold it: the job it
  holds is RUNNING or deleted (`OwnedIsRunning`, `MissingIsDeleted`), what anybody has read is
  no newer than the document (`ReadIsPast`), and, unless an edit raced it or a late worker has spoiled the document, its step
  says what the document's status and chunks are (`ProgressInv`), while a document with no
  active job is finished and current (`SettledInv`).  A late worker may do anything to the
  document it holds; that it does so to no other is what the proof shows.  From it:
  `SearchCurrent`, `NothingIsForgotten`, `ChunksOnlyAdvance`.
* **Payments.**  `PaymentsInv` = the type invariant, `SettledOncePerPath` and
  `OneInvoicePerPeriod`, strengthened by "an invoice that is not paid or cancelled has not been
  settled by anybody" and "an open event has attempts left".  Lemmas say
  what cancelling, issuing and settling do to the invoices; an action is one of them or
  none.  From it: `PaymentsType`, `SettledOncePerPathAlways`,
  `OneInvoicePerPeriodAlways` (no run checks it: the proof covers every instance), and
  the action property `PaidIsFinalAlways`.  `PeriodsInv` adds the course of a
  subscription (`Course`: as long as nothing was revived there is one invoice to pay,
  for the first period or for the one after the end, and the end is the end of the last
  period paid for) and what a pass may still believe (`Memory`).  The course is not
  inductive alone: `Reconcile` settles with a subscription the session loaded earlier.
  What keeps it right is that the remembered end can be old only when the invoice the pass
  has read does not await any more, and then settling it revives it.
  From it: `OnePendingAlways`, `PaidPeriodGivenAlways`, `PeriodsDisjointAlways`,
  `RenewalAsksForNextSeatsAlways`.
* **Credits.**  `AccountInv`: a question in flight was asked this month or the last
  (`AskedRecently`), nothing is written for later months (`NothingAhead`), what a late answer has found
  used is used (`LateIsUsed`), a month's own overrun is charged as long as no late answer
  came (`MonthIsCharged`),
  `ChargedWithinOverrun` and `OverrunCharged`.  A month and the next are charged by the
  same answers, so neither property is inductive without the other.  The key lemma,
  `ChargeUpToOverrun`, says that a transaction raises what is charged to exactly
  the larger of itself and the overrun.  From it: `ChargedWithinOverrunAlways`,
  `OverrunChargedAlways`; from a small invariant of orders: `PaidInvoiceClosesOrderAlways`.
  What a charge takes from which grant is a sum over any number of grants, and a sum is
  a fold.  The lemmas `SumSteps` to `SumSame` give its recursion and what one changed
  term does to it, by induction over the *set* of subsets for which the claim holds
  (the library's well-founded orders, `SubsetInduction`), where the usual theorem
  would take a predicate.  `ChargeTakes` then says that the loop of `charge` distributes
  exactly its amount, and `LedgerBalances`, which is inductive as it stands, follows
  without the accounts (`LedgerBalancesAlways`).  `EpisodeInv` = `AccountInv`, the ledger
  and "an announcement of this episode was made after the latest grant"
  (`ToldAfterGrant`), gives `StopIsAnnouncedAlways` and `GrantPaysNewAnswersAlways`.
* **SourceSync.**  That a complete run removes nothing it should keep is a statement on
  its last step; `SyncInv` carries it through the run.  For every listing the run walks, a
  document that stays listed is met already or owed by the walk that goes on
  (`Met`, `Open`); what is met is stored and listed, unless it failed (`Kept`); an
  employee whose walk is over sees what his listing shows (`Rights`).  Rights are
  written only for an account whose token the run holds (`Held`), and a text is named
  after a version the document had (`Named`).  From it: `MaterialsSoundAlways`,
  `NoGrantNoAccessAlways`, `MirrorsSourceAlways`, `RemovedIfAbsentAlways`.
* **AgentSync.**  `AgentInv` follows a file from the walk to the report, for every run, since
  a finish may commit in a later one.  Nothing stored or on its way is newer than the last
  run (`Past`); what is untouched since a run began is so since each later one
  (`Nested`); what the agent knows and sends of a file nobody touches is the file's version
  (`Known`, `Sent`); a deleted file is neither met nor stored again (`Absent`); what the
  walk has met is on its way or recorded with the time of this run (`Walked`), so a
  complete report finds all of it recorded (`Reported`).  `Met(r, d)` says that
  run r has recorded document d; `MetKept` shows that no step takes it away: what one
  run has answered for, the later ones answer for too, or a late request has spoilt it.
  This is what keeps a report true when a new run begins between a finish's check
  and its deletion.  Texts follow versions in what is stored and in every request, but for
  mixed documents (`Texts`).  From it: `MaterialsSoundAlways`, `MirrorsFilesAlways`,
  `RemovedIfAbsentAlways`.
* **Sessions.**  `IInv` = the type invariant, `OneTokenLives`, `ClosedAreOver` (an ended family has
  a revoked row or none), strengthened around the first row of a family.  An UPDATE may miss
  a row, but never the first: a request that ends a family has seen it or finds it
  revoked (`EndingSeesFirst`), a family with a revoked row has its first row revoked
  (`FirstIsRevoked`), and the purge takes that row last.  `RotationHolds` (a rotation holds a row nobody else
  rotates) gives `OneTokenLives`.  From it: `TypeCorrect`, `TokenRotatedOnce`,
  `EndedHasNoAccess`, and `ImplementsSessionLife`, the refinement: initial states map to
  initial states, every action moves each family forward or leaves it.
* **Members.**  That an administrator remains is not inductive, since a request decides on
  a count taken earlier.  `AnotherAdmin` carries it: a request under way, during which nobody
  lost the role, still has an administrator besides its person.  From it
  `AdministratorRemains`; `SeatsAreKept` from the cardinality of a set with one
  element more; `TypeCorrect`.
* **Chat.**  `ChatInv` = the types, what the step of a task says of its answer
  (`AnswerInv`: what has not begun is untouched, a living task's answer is unfinished
  and younger than STALE_GENERATION, journal and status agree, a text is of one call), what a
  request has read (only answers that can no longer be alive), and "one task is
  alive".  It rests on GENERATION_TIMEOUT being shorter than STALE_GENERATION: an
  answer becomes stale only when its task has ended.  From it: `OneWriterAlways`,
  `PaidIffAnsweredAlways`, `FinalIsFinalAlways`, `KeepsWhatWasShownAlways`.

**Model-checked only.**  Liveness (`JobEnds`, `PaymentArrives`, `StreamEnds`) under
fairness, with the enabledness it speaks of, is beyond the prover.  Every safety property
that a passing run checks is stated by a theorem, and the theorems assume nothing but the
ASSUMEs of the modules.  The three violated properties of section 4 are not theorems of
anything.

## 6. Not modelled

`PROJECT.json` gives the reason for each component.  Most of the 93 000 lines of the
implementation are parsing, prompts, PDF, HTTP clients and adapters, schemas,
configuration, the evaluation of models and the user interface: input and output without
state that several actors share.  What is mapped is the part where transactions
meet, a small share of the lines.

Left out of the modelled components:

* `IngestQueue`: folders and access rights.
* `Payments`: cards, acts, reminders, discounts, several companies, suspended companies,
  amounts.
* `Credits`: the daily limit, requests to top up, the difference between the beginning
  and the end of a transaction (audit events and grants carry the former as
  `created_at`).
* `SourceSync`: rights given by the source to single people (`_shares`), documents
  deleted by hand, an adapter of an unknown kind.
* `AgentSync`: rights beside "nobody may read it", registration of an agent.
* `Sessions`: the company of a session, "remember me", trusted devices, codes.
* `Members`: departments, domains of e-mail, the creation of invitations.
* `Chat`: attachments, sharing links, ratings, retention, the decision whether to search,
  a second search, the rewriting of a question, the breaker's state, the limit of
  messages.

The outbox, deletion of companies, one-time codes and the breaker of the embeddings are
not modelled; the hazards at their lines say so.  Row locks are not taken one by one
outside `Sessions`: the two lock orders that can deadlock (order and invoice, company
and subscription) end in an aborted transaction.

## 7. Plan

Done, in the order of importance: indexing, payments, credits, sessions with their
abstract specification, members and seats, both synchronisations, chat answers; the
proofs of the safety properties of all of them.  Left:

1. `Outbox`: claim with a lease, late marks, crash after sending.  Abstract specification: a letter
   is accepted, then delivered at least once or given up; composed with the
   password reset (token, letter, sessions ended).
2. Departments: confirmation against removal, at the same time.
3. The breakers of models and embeddings, with the abstract specifications that `Chat` and
   `IngestQueue` assume.
4. Deletion of a company against everything that is running in it.
5. Narrower exceptions: `spoiled` counts every write of a late worker, also of the text its
   successor has read; `GrantPaysNewAnswers` excepts late answers where a bound by
   `late` may do.

## 8. Running

    tlc -workers 2 -config MCCredits.cfg MCCredits.tla
    tlapm CreditsProofs.tla

Runs, their modules and configurations are listed in `PROJECT.json`; each takes
between a second and about three minutes.
