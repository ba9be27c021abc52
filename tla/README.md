# GlobaLeaks in TLA+

This directory specifies GlobaLeaks, the whistleblowing platform of this
repository, in TLA+: what happens to a report from the choice of its recipients
to its removal, who can open it, what becomes of its attachments, who is told of
it, and the accounts, keys, sessions, sites, questionnaires, certificates and
limits around it. The specifications are checked with TLC on small instances; the
core is proved for any values of its constants with the TLA+ proof system. All
paths below are relative to `src/backend/globaleaks/`.

## 1. The system

GlobaLeaks is one Twisted process. HTTP handlers and periodic jobs run on the
reactor thread; every `@transact` function (`orm.py`) runs on a pool of four to
sixteen database threads and commits as a whole or is rolled back. Between two
transactions of the same handler or job anything else may run, and a transaction
is protected only from its first write on (see `Transactions` below). Uploads,
sessions, tokens, limits, the settings of the sites and the cache of answers live in
memory; reports, accounts and questionnaires in the database; attachments in a
directory of encrypted files.

| Component | State | Operations | Hard behaviour | What makes it correct |
|---|---|---|---|---|
| Reports (`handlers/recipient/rtip.py`, `handlers/whistleblower/*`) | `InternalTip`, `ReceiverTip`, `InternalFile`, `WhistleblowerFile`, answers, schemas, audit log | submit, open, export, change status, postpone, remind, grant, revoke, transfer, comment, attach, redact, delete | transactions of many recipients, the whistleblower, the administrator and the jobs interleave; a submission runs again after a locked database | whoever holds an encrypted report has its key; holders see the same files; nothing is removed early or unlogged; closed is frozen; a submission leaves one readable report or none |
| Attachments (`handlers/base.py`, `jobs/delivery.py`, `jobs/cleaning.py`, `db/__init__.py`) | temporary files, `State.TempUploadFiles`, attachments directory | upload a chunk, deliver (two halves), clean, start | temporary entries expire after an hour; rows are committed before the content is written; the cleaner works on an old list; a restart loses the keys in memory | delivered content is on the disk and stays; deleted content goes |
| Transactions (`orm.py`) | session per thread | run, retry, roll back | threads read without a lock before their first write; a locked database runs the body again | what a transaction decided on still holds when it commits; effects outside the database happen once |
| Sessions, receipts, tokens (`sessions.py`, `utils/tempdict.py`, `utils/token.py`, `handlers/auth`) | entries with timers, copies that share attributes | log in, operate for a whistleblower, change a receipt, link, token, log out, expire | a session is made by a database thread in two steps; handlers work on copies | one session per user; a receipt an operator knows is changed; nothing works with an ended session |
| Second factor (`state.py`, `utils/tempdict.py`) | the code used last, with a timer | look, register, expire | timers of replaced values; the memory is no part of the transaction | a code passes once |
| Rate limits (`utils/ratelimit.py`, `utils/lrucache.py`, `rest/decorators.py`) | buckets in a bounded cache | ask, refill, forget | a chain of buckets; eviction | no bucket lets more through than its burst and its limit; one client does not spend another's |
| User keys (`handlers/user/operation.py`, `handlers/user/reset_password.py`, `handlers/admin/operation.py`) | key pair, recovery and escrow copies, escrow keys, reset links | first login, change of password, reset, escrow on and off, accounts | sessions carry the keys of the login; escrow and settings change meanwhile | password, recovery key and escrow open the key data is encrypted for |
| Questionnaires (`handlers/admin/questionnaire.py`, `step.py`, `field.py`) | steps, nested questions, options, conditions, templates | create, update, delete, duplicate | references among questions and templates | no loops, one identity question, conditions on answers that are there |
| Channels, statuses (`handlers/admin/context.py`, `submission_statuses.py`) | recipients of a channel, limits, statuses | administer, load a page, submit | a page is older than the database | a report goes to recipients of its channel, within the limit, with the mandatory ones |
| Tables (`models/__init__.py`) | rows, foreign keys | delete | cascades over 35 tables | what belongs together goes together; sites are apart |
| Notifications (`jobs/notification.py`, `utils/mail.py`) | `Mail`, flags `new`, dates of last visit | generate, spool, send, delete | three queries with visits in between; a mail is sent before its row is deleted | news reach every recipient, once between two visits; no mail is lost |
| Redaction (`handlers/recipient/rtip.py` 260-526) | temporary and permanent ranges of each text | mask, unmask, redact, show | the report is read in one transaction and rewritten in another | what is masked is not shown; what is redacted is gone for good |
| Identity access (`handlers/custodian`) | requests and replies | ask, answer, see | custodians come and go; accounts are deleted | nobody sees the identity without a grant; an answer stands |
| Tenants (`handlers/signup.py`, `handlers/admin/tenant.py`, `handlers/wizard.py`) | tenants, subscribers, sites in memory | sign up, activate, set up, switch, delete, clean | the daily job is suspended while sites change | an activated site is kept; a site is set up once |
| HTTP framework (`rest/api.py`, `rest/cache.py`, `state.py`) | `State.tenants`, map of hostnames, cache of answers | find the site, answer, clear, refresh | reads overlap writes; clients disconnect | what is answered shows what was written |
| TLS certificates (`handlers/admin/https.py`, `utils/sni.py`, `jobs/certificate_check.py`) | the same in configuration, memory and the map of connections | upload, order, enable, renew, refresh, restart | three copies that change apart | what is served is what is configured; certificates are renewed |
| Jobs (`jobs/job.py`, `backend.py`) | timers | start, stop, loop | a job that raises must run again | a job does not overlap with itself |

Handlers call transactions; jobs and handlers share the database and `State`
(`state.py`): `State.TempUploadFiles` is filled by uploads and emptied by the
delivery, `State.tenants` is rewritten after each change of configuration, the
daily cleaning touches reports, files, schemas, mails, sites and reset links.

## 2. Plan

Done, in this order of importance:

1. `Reports`, with `Retention` as the abstract promise that it implements;
2. `Storage`, which composes with `Reports` and implements it;
3. `Transactions`, on the assumption of `Reports` that a transaction is one step;
4. the proofs: `ReportsProofs`, which has those of `Storage` too, and `TransactionsProofs`;
5. who can get in and open what: `UserKeys`, `Sessions`, `SecondFactor`, `RateLimits`;
6. how a report comes to be: `Questionnaires`, `Channels`, `Submission`, `Schema`;
7. what is told and shown: `Notification`, `MailSpool`, `Redaction` with `Ranges`,
   `IdentityAccess`;
8. the installation: `Tenants`, `Gateway`, `Certificates`.

9. proofs for the newer modules: `MailSpoolProofs`, `IdentityAccessProofs`,
   `SubmissionProofs`, `GatewayProofs`, `CertificatesProofs`, `TenantsProofs`, and the theorem for
   `NewsReachTheOthers` of `Reports`.

Next, in this order, as far as proofs go: `UserKeys` (`PasswordOpens`), `Sessions`, `Channels`, `Notification`.
Like the modules that are proved they have no RECURSIVE operator, parameters with named assumptions and
invariants in named parts.

## 3. Modules

| Module | Models |
|---|---|
| `Retention` | the promise: a received report stays until a person removes it or its deadline passes, and the deadline of an open case never comes nearer than the 90 days left to the recipients |
| `Reports` | the transactions on reports, tips, attachments' rows and accounts |
| `Storage` | `EXTENDS Reports`: temporary files, delivery, disk, cleaning, restart |
| `Transactions` | the threads of the database: each transaction on the tips and attachments of one report as a read and a commit |
| `Submission` | the transactions that write a report, on threads, with the body that runs again |
| `Channels` | recipients of a channel, the page a whistleblower selects from, statuses |
| `Questionnaires` | steps, questions, options, conditions, templates, duplicates |
| `Schema` | the tables and their foreign keys |
| `UserKeys` | key pairs, recovery keys, escrow, reset links |
| `Sessions` | sessions, receipts, operators, tokens |
| `SecondFactor` | the codes of one user and the timers of the memory of them |
| `RateLimits` | thresholds, token buckets, the cache of buckets |
| `Notification`, `MailSpool` | which mails are written; how they are sent |
| `Redaction`, `Ranges` | masks and redactions on sets of positions; the functions on lists of ranges |
| `IdentityAccess` | requests for the identity and their answers |
| `Tenants` | sites, signup, wizard, the daily loop |
| `Gateway` | hostnames, cache of answers, settings in memory |
| `Certificates` | keys and certificates in their three places |
| `MC...` | instances, symmetries and views for TLC |
| `ReportsProofs`, `TransactionsProofs`, `MailSpoolProofs`, `IdentityAccessProofs`, `SubmissionProofs`, `GatewayProofs`, `CertificatesProofs`, `TenantsProofs` | theorems and proofs |

### Reports

One action is one transaction: its guard holds the conditions under which the
body does not raise, its effect everything the body writes. The columns became
functions of the report: `status`, `substatus`, `expiration`, `reminder`,
`sealed` (the report has `crypto_tip_pub_key`), `holders` (its `ReceiverTip` rows),
`unread` (the holders whose `last_access` is before the report's `update_date`).
`ifile` and `home` are `InternalFile.new` and `InternalFile.internaltip_id`, `wbfile` the
`WhistleblowerFile` rows as pairs of holder and file. `source` is a history
variable, what last set the expiration date ("carried" is the retention of a substatus that a report took with it
to an added status, see `Carried`); `audit` keeps the entries on
deletions.

| Action | Code |
|---|---|
| `Submit`, with `Eligible`, `Sealable` | `db_create_submission` |
| `OpenReport`, `ExportReport` | `db_get_rtip`, `get_tip_export` |
| `UpdateStatus`, with `DbUpdateSubmissionStatus`, `RecalculateDataRetention` | `update_tip_submission_status` and the helpers it calls |
| `PostponeExpiration`, with `ClampExpiration`; `SetReminder` | `postpone_expiration`, `set_reminder` |
| `Grant`, `RevokeAccess`, `TransferAccess` | the transactions of that name, `Grant` for one report or for the list of the bulk operation |
| `RevokeAccessInBulk` | `perform_tips_operation` |
| `WhistleblowerComment`, `ProvideIdentity`, `AnswerAdditionalQuestionnaire`, `RegisterIfile` | `wbtip.py`, `attachment.py` |
| `RecipientContribution` | `create_comment`, `register_rfile_on_db`, `create_redaction` in what they do to the dates of access |
| `FileDelivery` | `file_delivery` |
| `RedactFile` | `update_redaction` for a file, `delete_wbfile` |
| `DeleteReport`, `CleanExpiredReports`, `ResetReports` | `delete_rtip`, `db_clean_expired_itips`, `reset_submissions` |
| `FirstLogin`, `EnableEncryption`, `DisableEncryption`, `DeleteUser` | `change_password` at the first login, `enable_encryption`, `db_update_node` with `encryption` off, `db_delete_user` |

The foreign keys of the schema (`ON DELETE CASCADE`) are in `DeleteReports`,
`DropTips` and `DeleteUser`: a transaction that deletes a row deletes what belongs to it.

`Grantable` stands for a `db_grant_tip_access` that returns a tip. In the other
cases it returns `None`, which its callers unpack: the transaction raises and is
rolled back, in bulk for all the reports of the list.

Time is counted in ticks, `Day` of them a day: a run takes two, so that
"before the end of the day" and "midnight" differ from "now". `MinAhead` and
`MaxAhead` stand for the 91 days and the `max(365, 2 * policy) + 1` days of
`db_postpone_expiration`.

### Storage

Every action of `Reports` but the delivery is a `Transaction` here that leaves the
files alone. The delivery is split as in the code: `StartDelivery` commits the
rows, `WriteFiles` pops the temporary files of the batch and writes them. The
code of `Delivery.operation` between those two has no `yield`, so the writes of a
batch are one step. `ExpireUpload` is the timer of `State.TempUploadFiles`, an
hour after the first chunk; it may fire at any moment. `StartCleaning` reads the
tracked attachments, `RemoveUntracked` removes what is not among them and more
than a day old. Ages are "fresh", "day" (one run of the daily job has passed) and
"old" (two): a run of the job may meet content written just before it, which is
not a day old, and the second run does not. `Restart` drops what is in memory
and removes untracked content at once, as `sync_clean_untracked_files` does.
`mishap` is a history variable: the files that an expiry, a failing write or a
restart met before their content was written.

The client sends chunks one after the other (`simultaneousUploads: 1` in
`client/app/src/shared/services/utils.service.ts`), so chunks come in order and once.

### Transactions

`Reports` takes a transaction as one step. `orm.py` asks the driver for no isolation
(`get_engine` sets pragmas only), and Python's `sqlite3` begins a transaction with the
first `INSERT`, `UPDATE` or `DELETE`: a `SELECT` before that leaves no lock. The pool
has several threads, and the tests run every transaction on the thread of the
reactor (`FakeThreadPool` in `tests/helpers.py`), so they do not show it. A
transaction is therefore two actions here. A `Read` action has everything the body
reads before its first write, and keeps what was read in `txn`; a `Commit` action has
the rest, including what is read under the lock of the database, such as the
attachments that a grant copies: the new tip is flushed before they are queried. `RollBack` is a body that raises, or one
that met a locked database and starts again.

| Actions | Code |
|---|---|
| `ReadGrant`, `CommitGrant` | `db_grant_tip_access` from `grant_tip_access` and `transfer_tip_access` |
| `ReadRevoke`, `CommitRevoke` | `revoke_tip_access` |
| `ReadCase`, `CommitCase`, `CommitRemoval` | `update_tip_submission_status`, `postpone_expiration`, `delete_rtip` |
| `ReadAttach`, `CommitAttach` | `register_ifile_on_db` |
| `ReadDelivery`, `CommitDelivery` | `file_delivery` |
| `ReadClean`, `CommitRemoval` | `db_clean_expired_itips` |

Permissions other than those to grant and to transfer, keys, dates of access and the limit of a delivery are in
`Reports` and left out here. The foreign keys appear as guards: they are
checked at the commit, and a delivery whose tip is gone raises as a whole. The
other way round nothing forbids two tips of one recipient on one report. The two
queries of `file_delivery` are one read: what comes between them is either seen by
the second or waits for the next round. The status and the deadline are
separate columns, written only when their value differs from the one read.

With any number of threads `Transactions` keeps `Referential` and `FirstHoldersSeeAll`. The other promises of
`Reports` fail when two transactions meet; the five properties named `...NeedsRace` say which meeting each
failure takes, and that there is no other. `missed` is the history they speak of: for each transaction under way, what
others committed since its reads (`News`). Section 6 has what happens.

### Submission

Three transactions write a report: `Submit` (`db_create_submission`), `Add`
(`store_additional_questionnaire_answers`) and the registration of an attachment.
Each is what it reads before it has the lock (`Reads`: the archived schema, the
counter), the wait for the lock, the write (`WriteReport`, `WriteAnswers`, `WriteFile`) and the commit. `AfterLocked` is the loop of
`transact._wrap` that runs a body again after a locked database; what the body changed in the
request and in the session stays changed, and `Encrypted` and the identity say so.
`Clean` is the part of the daily job that deletes schemas without a report.
The body is unprotected before its first write only, and a thread that runs again stays
occupied; a commit that fails because readers stay for 30 seconds is `Locked`. `register_ifile_on_db`
encrypts the metadata in place, as the submission does. A session may submit again once its request was answered (`Calm`,
bound `Bodies`): `db_create_submission` runs again on the same request and the same files. While the first
report is there its files have the identifiers of the rows, and the submission fails (`Collide`); once it is gone the second report is
written, with metadata that were encrypted before. Expiry is in `Retention`.

### Channels

`CreateContext`, `UpdateContext`, `DeleteContext`, `CreateUser`, `Force`, `SetTrigger`, `DeleteUser`
and the actions on statuses are the administrators' transactions; `LoadPage` keeps what the page of the
whistleblower shows, `Selections` what it then lets choose, `Submit` what the server makes of it
(`Receivers`, `Exceeds`, `Accepts`). `Stale` says whether a page may be older than the database. A report carries what
its page showed (`seen`), and `gone` has the statuses that were deleted.
One channel per page; the order of elements, changes of role and the limit that the client
applies by itself are left out; the system's own statuses cannot be deleted. Recipients named by an answer
outlive their place in the channel.

### Questionnaires

Rows of steps, fields, options and conditions, as functions of their identifiers. `CreateInstance`
and `CreateReference` are `db_create_field` without and with a template, `UpdateInstance` and `UpdateReference`
`db_update_field`; `Drop` the cascade of a deletion; `Copy` and
`Copies` the duplicate. `Ancestors` and `Associable` are the check
for loops as it is written, `stuck` is a thread that serializes a loop. One site, one transaction at
a time. Loops of more than two groups pass the check (section 6). A condition on an
option of a template outlives the last reference to the template; `additional_questionnaire_id` is no foreign key;
an update with an empty list of options leaves the old ones; a duplicate of a question with a condition
on a template's option raises `KeyError`.

### Schema

One definition per class of `models/__init__.py`, with the foreign keys it declares, each `CASCADE`, `SET NULL` or
without an action. `Insert` adds a unit of rows; the `Delete...` actions are the handlers
that delete; `Cascade` follows the keys, `Consistent` is the check at the end of the transaction, which makes the deletion fail.
`Depth` bounds the length of a chain of cascades.

### User keys

`acct` holds of each account the public key, what opens the private key (password, recovery key),
the copy for the escrow and the escrow key if the account has it; `sessions` what the login put
in memory. `ChangePassword`, `ToggleUserEscrow`, `EscrowOn`, `EscrowOff`, `SendPasswordReset`, `ValidatePasswordReset`,
`SaveSettings` and the actions on accounts and sites are the handlers; `RequestStarts` says that a handler works on the
session it found when the request began, which may be revoked before its transaction runs. `SaveSettings` writes any value of `encryption`, as a page loaded
earlier may. Four histories say what the promises except: `rivals` had another session open when their first key was stored, `off` are sites whose encryption
was unset, `erased` lost their copy to the escrow of another site, and at `crossed` sites somebody took the escrow key from a colleague.

### Sessions

A login is two steps of a database thread: the transaction, and `SessionStored`, in which `SessionsFactory.new`
revokes and stores. `obj` holds the attributes a session shares with its copies (`Presented`);
timers end sessions and tokens at any time. `OperatorSwitch`, `ChangeReceiptStarts`, `ReceiptChanged` and `SubmitStarts`
are the operator who files a report for a whistleblower. A login goes by the receipt's change flag as it was when the login began, and a
session may set its receipt again: the server accepts that, and the field `again` of the report remembers it.

### Second factor, rate limits

`SecondFactor` has the entry of the code used last with the timers of all values it
had: a set does not cancel the timer of the value it replaces. Only the last code is remembered, and the two
steps of a login are far closer together than a step of the code. `burnt` are codes whose login found the database locked,
`robbed` says that the last code was forgotten on the timer of one before it. `RateLimits` has the buckets of the chain
that a request asks in turn, refilled with the exact fraction of the interval, in a cache that forgets the one
used longest ago. A refused request is an error here for attachments too, as in the code (the
documentation calls it a delay); one unit of interval.

### Notification, mail spool

`Notification` writes mails: `Read` and its three queries (`ReadReports`, `ReadComments`, `ReadFiles`) on a thread, with
`Visit`, comments and settings in between, then `GenerateCommits`. `slipped` marks a row with news after a visit that a run, having read the row before the
visit, passed over on the old date; `raced` a row that has a mail of a run that a visit was in. News of a recipient who had mails switched off stay untold until the next
visit; the preference per report is not in it.

`MailSpool` sends them: `Fetch` reads a batch, `Send` and `Delete` are two steps, `Skip` is `sendmail` in a process with notifications disabled
(`muted`), which answers that all went well, `Stop` a process that
stops or a deletion that fails at any point. An answer of the server may be lost. A batch that is full of
refused mails holds up all others; the liveness property says so (`< Batch`).

### Redaction, ranges

`Redaction` has the content of each text as the set of positions that are still there, the masked and the redacted
positions of each `Redaction` row, and two transactions per change (`PutReads`, `PutWrites`) and per view (`ViewReads`, `ViewShows`). With `Together` other transactions come between the two, and `overrun`
marks the texts that were then written over what somebody else had redacted.
`Ranges` has the lists the code keeps and shows that its functions on lists do what
`Redaction` does with sets, for all lists up to a length. The client sends sorted lists. In the
case of a file the code compares `start` twice; two rows for one comment count as the first of them; which row of
`internaltipanswers` is first is open, as the query has no order.

### Identity access

`Request`, `Reply`, `Open` (with `Serializes`, which raises when an account is gone) and the life of
accounts. `seen` is who was shown the identity. A reply needs that the last request can be
serialized (`CanBeAnswered`). A request waits for ever if all custodians it went to are
deleted; an enabled custodian without a key makes every request fail. Replies on two threads
at the same time are left out.

### Tenants

A signup, an activation and a wizard are a read and a commit each, on several threads; `missed` has the sites that others activated or set up between the two; `SetUp` is what both ways of the wizard write.
The daily job is `DemoExpires`, `Clean` and then one `JobNext`, `JobChecks` per site in memory, in
between which sites come and go; `JobEnds` is the exception a site that is gone raises. A
site that was switched on by hand while its signup is pending is deleted after a day all the same; two
sites may share a name an administrator gave. Escrow keys are in `UserKeys`.

### Gateway

`Begin` looks up the site by the hostname (`SiteOf`), `GetReturns` answers from the cache or a thread and stores,
`PutReturns` writes, clears and asks for a refresh, which reads (`RefreshReads`) and loads (`RefreshLoads`) in two steps.
`overlap`, `alone` and `raced` mark refreshes and answers that met a write, `lost` the sites a client wrote that was gone
before the answer: the promises are about the others. `Awaits` says of a site that something is still to load it. Former names of a site lead to it until a restart.
`cache_reset` and two jobs are dead code and left out; lists that two refreshes fill twice are a matter of layout.

### Certificates

Key, certificate and switch in the configuration, in the settings in memory and in the map of
connections (`context`), by hostname. `Order` is the whole of an ACME order, which may be refused; `JobStarts`, `JobSite`, `JobRenews`, `JobLoads`
the daily job. Chains are one certificate. Files are taken whether HTTPS is on or off, and handlers
commit while the job waits to load; an administrator has one order at a time. Four histories say where the copies part. `behind`: the files, name or activity of an enabled site changed
and nothing was loaded since. `slipped`: the job loaded a site after it was switched off or taken out of memory. `left`: the names a
site was loaded with before it was loaded with another one. `missed`: what happened to the job's site between the reading and the loading. A site that was switched off and on has no certificate until a restart; a site without a certificate in memory
ends the job for all.

## 4. Runs

| Run | Instances | Shows |
|---|---|---|
| `access` | `Reports`: 3 recipients, 2 of them may grant, 1 report, 2 files, clock still, encryption switched off and on | custody of keys, equal views, news, frozen closed reports |
| `retention` | `Reports`: 1 report, 1 recipient, 7 ticks, channel of 2 days, substatus of 1, a status an administrator added | the promise of retention, the log, removal of what expired |
| `content` | `Storage`: 1 file of 2 chunks, restarts, failing writes | delivered content is stored and stays, deleted content goes |
| `threads` | `Transactions`: 2 recipients, 4 tips, 2 files, 2 threads | what foreign keys and the write lock keep, and which meetings of two transactions break the rest |
| `double_grant` | 3 recipients, 4 tips, 1 file, 2 threads | a disagreement, see 6 |
| `accounts` | `UserKeys` (two sites; three, one of whose escrows is switched off; two administrators of one site; an installation without encryption), `Sessions` (two threads; one thread with a token), `Questionnaires` (two with a step each; nested questions), `IdentityAccess` (one recipient, two custodians) | `KeysOpen`, `SessionsSound`, `FormsHold`, `IdentityGuarded` |
| `group_ring` | `Questionnaires`: three groups of one step | a disagreement, see 6 |
| `intake` | `Channels` (fresh page; old page; recipients named by an answer; statuses and an old page), `Submission` (one thread, two versions, two submissions of a session; two threads, locked database), `SecondFactor` (one thread, 8 times; two threads, locked database), `RateLimits` (logins and reports of two addresses; operations) | `ChannelsHold`, `SubmissionsTrue`, `SubmissionsTogether`, `GuessingIsLimited` |
| `disclosure` | `Notification` (two recipients; one with changing preferences), `Reports` (2 recipients, 2 reports, bulk operations), `Redaction` (three roles, one transaction at a time; two at once on a comment; two at once on two answers and the identity), `Ranges` (5 positions), `Gateway` (cache with two names; full disk; one request and three names) | `NewsReachOnce`, `BulkKept`, `RedactionsHold`, `CopiesFollow`, `NamesLeadHome` |
| `installation` | `Schema` (questionnaires, templates and channels of two sites; all of a report and of a site), `Tenants` on two threads (signups for three sites; old demonstrations and the first wizard with two) | `DeletionsFit`, `SitesKept` |
| `certificates` | `Certificates`, files taken while HTTPS is on: one site with two certificates; two sites with one certificate and three names; a site that is switched | `CertificatesFit` |
| `jobs` | `MailSpool`: 3 mails of 2 sites, batches of 2, 2 faults, notifications disabled or not; `Tenants`: 2 sites | `NothingIsLost`; with fairness, `JobsGoOn` |

Five runs go through several components that share no state. The initial state chooses one
instance (`part`) and the others keep a constant value, so the reachable states
are the disjoint union of those of each instance, and a property of the run says for
every instance what the comment above it says. Each instance has the constants that its
question needs; they stand next to each other in the `MC` module. Of the components of these runs one is
extended (two in `installation`), so that the run checks the very property that is proved, and its constants are in the `.cfg`. Where several
parts are of that module, as in `disclosure`, `installation` and `certificates`, they have the same constants and `Within` bounds what the steps of
each part may lead to; a step out of the bound is not taken.

Why the bounds are enough. Three recipients are the fewest for which one grants,
one receives and one is left; a fourth is symmetric to one of them. Two files let
a delivery with `DeliveryLimit = 1` leave one behind while access changes. Two
reports are what a bulk operation needs to fail on one of them. Seven ticks, at
two a day, let a deadline pass, a report be closed, reopened and closed again,
and both clamps of a postponement act. Two chunks are the fewest that can be cut
in two by an expiry. In `Transactions` the identifiers of tips are not used again, so 4 tips allow two
grants or transfers after the submission. Two threads, two sessions or two requests are what a race
needs; three key pairs let a key be replaced by one that was made before. Three sites let a signup
replace another under the root site; two certificates a renewal meet an upload. Batches of 2 with 3 mails leave one for the next run.
The bounds are constants (`MaxNow`, `MaxTime`, `MaxReports`, `MaxRequests`, `MaxReds`, `MaxWrites`, `MaxCerts`,
`MaxToggles`, `Bodies`, `Retries`, `Faults`, `Depth`), and the only thing they stop are the actions that would pass them.
Sets whose members are interchangeable are declared symmetric, and two views drop what no property and no
action reads (`Relevant`, `Lasting`); the runs with a
liveness property use neither. The proofs of section 5 do without bounds.

Deadlock is checked in the runs of `Reports` and `Storage`: an administrator can
always reset, so no state is final. In the others a bound may be used up, or the only report be deleted, and then nothing is left to do.

Fairness. `FairSpec` asks that the cleaning job eventually runs when a report
stays expired: `LoopingJob.run` starts again after each end, also after an
exception. `FairStorageSpec` asks the same of the second half of the delivery and of
the two halves of the cleaning. `MailSpool` asks weak fairness of the job, whose loop the reactor resumes.
`Jobs` adds, for the sites, weak fairness of each step of the daily job and of transactions that
have begun, and strong fairness of its first step, which needs a free database thread. Nothing is asked of users, of administrators, of servers or
of expiries. The clock of a run stops at `MaxNow`; no liveness property needs it
to go on.

Each property has a mutant: an operator with the suffix `Mutant`,
a slip that the code could contain, under which TLC finds the property violated.


## 5. Proofs

`ReportsProofs` proves, for all values of the constants that the named assumptions
of `Reports` allow, that `TypeOK`, `RowsHaveParents`, `KeyCustody`,
`SealedByDefault` and `HoldersSeeSameFiles` are invariants and that
`OnlySoleHolderAbandons` holds of every step. They are not inductive one by
one, so the proof goes through one inductive invariant, `Custody`: a grant keeps
equal views only because the granter is a holder and sees what every holder
sees; a delivery only because a file that is new belongs to a report that is live;
a deletion of an account keeps `KeyCustody` only because keys go together with
tips. `SealedByDefault` holds until settings that change encryption are saved.

It also proves `OpenKeepsChannelRetention`, for any statuses an administrator adds (the property says what
becomes of a report that leaves "closed" for one of them), `ClosedIsFrozen`,
`RemovalIsLogged`, `RetentionKept`, which is the refinement of `Retention`, and `NewsReachTheOthers`. The refinement
needs, beyond the types, that the log tells the truth: what is said to be deleted
is (`LogIsTrue`), since the mapping reads from the log who removed a report. For the news the argument
is about steps: each step either gives news to all holders of a report but the one
who acts, or takes the mark of one holder at most, who has looked (`NewsStep`).

For `Storage` it proves that `StorageSpec` implies the specification of `Reports`, so
that every theorem above holds of the whole; and `StorageTypeOK`,
`DeliveredIsStored` and `ContentStays` from the invariant `StorageInv`.

`TransactionsProofs` proves `TypeOK`, `Referential` and `FirstHoldersSeeAll` for any
number of threads. The invariant `Kept` adds what a thread may rely on whatever the
others do: the file it attaches has no row yet, nobody else attaches it, the files
it delivers had one, and the tips it read include those of the submission that are left.
The five `...NeedsRace` properties are proved for any number of threads too: the invariant
`Informed` adds that what a thread has read is still so, or it missed the commit that changed it (`Told`).

`MailSpoolProofs` proves `NothingIsLost`, and that only a fault makes a mail be sent
again (`NoIdleRepeats`), for any number of mails, sites and faults and any size of the batch, in a process that sends or has mails disabled. The invariant
`Spooled` adds `Pending`: between the answer of the server and the deletion of
the row the mail is still the one the job works on, so nothing else takes it out of the
spool.

`IdentityAccessProofs` proves `IdentityGuarded` for any number of recipients, custodians and requests, and
for accounts that come and go: who is shown the identity had a request granted, a request that waits has somebody
who can answer it while those it went to are there, and an answer stands. The invariant `Guarded` adds to the
three what makes them stay: a custodian that was asked, and is not deleted since, has an account with
a key (`Holds`), only an answer names who gave it, and what was shown was granted by a request that is still there.

`SubmissionProofs` proves `SubmissionsTrue`, in three layers, one for each of its conditions. `Steady`, for any number of threads
and tries: no two threads work for one session, a submission in work is waited for and what else works on a
report works on one that is done (`Turns`); so a commit and a refusal tell each whistleblower the truth.
`Opens`, if no transaction finds the database locked: until its first submission writes, a session has the identity and the bare metadata of its
files, which is what running again would break, and the report that is first of its session can be read. `Ordered`, with one thread: the schema and the
counter a thread has read are still so when it commits. The runs that drop the two conditions are those of section 6.

`GatewayProofs` proves `CopiesFollow` for any number of sites, names, requests and threads, and for clients that
disconnect. `Fresh` is about the cache: a GET that no write overtook has read the last write that was answered
(`ReadsAreNew`), which is what it will store. `InMemory` is about the settings: a thread that runs alone has read every answered write, as it
is in the table or older (`AloneHasRead`), and the sites it was not asked for follow the table already (`OthersFollow`). Both rest on `Served`: a write that
waits for its callback is about a site whose cache the callback will clear.

The same module proves `NamesLeadHome`, also without a condition on requests and disconnects. `Named` says what a hostname relies on: the names
a thread has read differ (`NamesApart`); where one that runs alone has read what is no longer so, a write is still to be answered or was
lost (`AloneReads`); while a site that is off is still in memory all sites wait (`OffAwaits`); and a site that does not wait is in memory as
it is in the table (`Settled`). A lost answer
matters here and not for `CopiesFollow`: a site that was switched off unnoticed keeps its former name in the map of hostnames,
and takes it from the site that has it next.

`CertificatesProofs` proves `CertificatesFit` for any number of sites, hostnames, keys and certificates, whenever files come. The invariant
says that a name is answered for only with what is or was loaded for it (`Named`), that sites that are off or gone are loaded under no name unless
`slipped` (`OffNamed`, `GoneOut`), that an enabled site that is not `behind` can be loaded (`Fits`), and that the job
holds what is configured unless it missed something (`Held`). Two more things came out of the proof: a site that is taken out of memory by a refresh while
its renewed certificate waits to be loaded is served again by that load, which a single certificate never showed; and the job's
choice at a site is one condition after the other, not cases side by side.

`TenantsProofs` proves `SitesKept` for any number of sites, names, usernames and threads of the database. The properties are about
steps, so each step is put into one of a few classes: what it may do to a site (`Change`) and for which reasons
a site may go (`Goes`). The invariant is that the link of a signup works (`LinkWorks`), and that what a transaction has
read is still so when it commits, or `missed` has what changed it (`ReadsHold`).

Model-checked only:
* the liveness properties (`ExpiredReportsGo`, `DeletedContentGoes`, `JobsGoOn`), since fairness needs ENABLED, which the prover
  does not have;
* `Ranges`, as part of `RedactionsHold`: recursive functions on lists, for which an induction would be needed;
* `DeletionsFit`: a cascade is a recursion over tables;
* `KeysOpen`, `SessionsSound`, `FormsHold`, `ChannelsHold`, `GuessingIsLimited`, `NewsReachOnce` and the rest of
  `RedactionsHold`, for which there are no proofs yet. Each is about several instances of its modules, which need
  an invariant of their own.

`SubmissionsTogether`, and of `BulkKept` the custody of keys, the parents of rows and the sole holder, are instances of what is
proved for all constants; the runs check them where two threads, or two reports, meet.

## 6. What the specifications found

Two disagreements are kept as runs, `double_grant` and `group_ring`. The others were found the same way, while
the modules were written. Most are named as exceptions in the properties and
the theorems, which show that nothing else breaks what they promise; where a property is said to be
violated, it is defined in the module under the name given here, and adding it
to a configuration with the constants named shows it.

Reports and attachments
* `double_grant` (`OneTipEach`): `db_grant_tip_access` looks for a tip of the recipient before it
  writes one. Two recipients who grant the same third one access at the same time
  both find none. With two tips every operation of that recipient on the report
  raises, since `db_access_rtip` asks for exactly one row. A test says that a second
  grant is a nop. `DoubleTipNeedsRace` shows that it takes two grants.
* `HoleNeedsRace`: `file_delivery` reads the tips before its first write. A grant that
  commits in between copies the attachments without the new ones, and the delivery makes
  no row for the new tip. The docstring promises one entry for each combination. A grant or transfer from a tip
  that is revoked meanwhile copies nothing.
* `EarlyRemovalNeedsRace`: `db_clean_expired_itips` lists the expired reports and deletes
  them by identifier. A deadline moved in between is not looked at again.
* `AbandonNeedsRace`: two recipients that revoke each other at the same time leave a report to nobody. No text of
  the repository promises otherwise, nor in the next case.
* `LateFileNeedsRace`: an upload that passed the check of the status may be written to a report closed since.
* `OpenKeepsChannelRetention`: `db_update_submission_status` recognises a reopening only from
  "closed" straight to "opened". A report closed with a substatus that has its own
  retention and brought back through a status of the administrator keeps the
  retention of the substatus while it is open, and may be removed by it.
* `SealedByDefault`: saved settings may unset `encryption` on a site set up with it, and reports are then stored in clear.
* `EveryDeliveredIsOnDisk` (violated by `content` with `Faults = {}`): the temporary file of an upload expires an hour after its first
  chunk, although the session that writes the report can be kept alive for
  longer. The delivery finds no temporary file, swallows the exception, and leaves
  an attachment that is marked as delivered and has no content.

Accounts
* `KeyPairs` (`rivals`): each login to an account without keys makes a key pair, and `change_password`
  stores the private key of its session next to a public key another session stored first.
* `PasswordOpens` (`off`): `change_password` encrypts the private key again only while `encryption` is set,
  and saving an old page unsets it.
* `EscrowCovers` (`erased`): `toggle_escrow` of one site erases the copies of all sites.
* `EscrowHeld` (`crossed`): of two administrators each can take the escrow key from the other, since the check
  looks at the key of the session.
* `OneSession` (violated with two threads): two logins at the same time leave two sessions; the tests say that the second
  invalidates the first.
* `OperatorIsARecipient` (violated): the report keeps the random identifier of the operator's second session where the code
  says it keeps the operator.
* `ReceiptKnownIsChanged` (`again`): a session whose receipt is set may set it again while the operator is still in, who
  learns it, and no change is asked for any more. It takes three receipts to matter; the run has two.
* `EndedIsEnded` (violated with a token): a token carries a copy of its session and may be used to get the next, after the session has ended.
* `CodeOnce` (`robbed`; two threads): a timer that was not cancelled deletes a later code, which then passes again; and
  two logins at the same time may use one code.
* `ReuseIsReal` (`burnt`): a login that runs again takes its own code for one that was used.
* `OwnAddress`: the key of the first threshold of a report per address does not name the address, so the whistleblowers of a site share
  it.
* `WithinThreshold` (violated): every bucket holds 20, whatever its limit.

Intake
* `group_ring` (`NoRings`): `fieldtree_ancestors` compares two levels only, and three groups in a ring pass the check
  against loops, which are to be refused by it. `LoopsNeedThree` shows that every loop has three levels.
* `ShownCanBeSaved`, `CopyKeepsConditions` (violated with a template): a duplicate keeps the template and loses conditions of
  questions from templates.
* `HoldersBelong`, `MandatoryHold`, `StatusExists`: who was taken out of a channel still gets
  the report of an older page, and who has become mandatory does not; a status that reports have can be deleted.
* `OffersAreAccepted` (violated with limits): more mandatory recipients than the limit make every submission fail.
* `ReportsReadable` (violated with a locked database, or by the second submission of a session whose first report is gone): the metadata of the
  files are encrypted twice; running again also finds the identity already taken out.
* `SchemaKept` (violated with two threads): the cleaning deletes a schema that a submission has found and not yet referred to.
* `CounterLeads` (violated with two threads): the counter of reports can be set back below a number in use, and all submissions fail from then on.

Notices and disclosure
* `NewsReach` (`slipped`): a run that read a row before a visit passes over, on its old date, what came after the visit.
* `SiteOptionObeyed`, `PreferenceObeyed`, `ExpiringAreTold` (of `Notification`, violated): a setting that no code reads; mails that
  ignore a preference; a loop that returns where it should go on.
* `NothingIsLost` (`muted`): where notifications are disabled mails are deleted as if they were sent.
* `RunsToTheEnd` (of `MailSpool`, violated): a mail of a site that was switched off ends every run until it is two weeks old.
* `AcceptIsCurrent` (violated by `DiskFills` with requests): an answer read before the disk filled up is cached after.
* `TimeIsMeasured` (violated): the handler of the last request is measured, whichever ends.
* `RedactionHolds`, `RecordsFit` (`overrun`): a redaction is written back by another.
* `RecordsFit` (violated by a text of kind "later"): the answers of the additional questionnaire are not redacted.
* `MaskedIsHidden`: the identity is not masked; of two rows for a comment one counts; a part that is masked is shown while it is redacted.
* `ReportsOpen` (of `IdentityAccess`, violated): after the recipient who asked for an identity is deleted nobody can open the report.

Installation
* `ActivatedIsKept` (`ReplacedByRace`): a signup deletes a pending site of the same name that is activated in between.
* `SetUpOnce` (`SetUpByRace`): two wizards set a site up twice.
* `ServedIsConfigured` (`behind`): a new key is taken while HTTPS is on and does not fit the certificate; nothing is loaded, and nothing can be until
  both fit again.
* `DisabledIsNotServed` (`slipped`, `left`): the job serves a site that was switched off while it renewed the certificate; a site that was renamed
  while it was off and switched on is answered for under its former name as well, until a restart.
* An order does not put `acme` into the settings in memory, and the daily job renews by those.

## 7. Not modelled

Cryptography (the model knows who has a key), rendering and serialisation,
static content and localisation, migrations (they run alone, before the service
starts), Tor and other services of the host, the web client
beyond the pages and uploads named above. `PROJECT.json` lists the components with their reasons; what each module leaves out of its
component is at the end of its part of section 3.
