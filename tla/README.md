# Neltrik backend: TLA+ models, model checking and proofs

A verification project for the Neltrik backend (NestJS, Prisma over PostgreSQL,
BullMQ over Redis, Backblaze B2 or local disk as binary store). Paths below
are relative to the repository root; the code is in `src/`.

Two levels of one system: `FileStorage`, in the detail its bucket, queue and
quota call for, and four modules for the contexts around it
(`Authentication`, `Registration`, `Notifications`, `Access` with
`HttpGuards`). All are model-checked; every safety and action property of the
passing runs is proved as well, and so is the refinement. What TLC alone
answers for is liveness (section 8).

Contents: 1 inventory · 2 hard behaviours · 3 modules and how they correspond
to the code · 4 runs, bounds, what they show · 5 fairness · 6 where code and
documents disagree · 7 proofs · 8 what is only model-checked · 9 what is not
modelled · 10 plan · 11 how to run.

## 1. Inventory

The backend is a modular monolith of bounded contexts under `src/core`, each
with `domain` (entities), `application` (use cases, jobs, policies),
`infrastructure` (Prisma repositories, adapters) and `api` (controllers). One
process serves HTTP (`main.ts`) and another runs the job workers
(`worker.ts`). They share only PostgreSQL, Redis and the binary store. Node is
single threaded, so what interleaves is *the code between two awaits*, in one
process and across processes.

| Component | State | Operations | Talks to |
|---|---|---|---|
| File storage: files and quota (`core/file-storage`) | tables `files` (versions as JSON, column `version` for optimistic locking, partial unique index on the slot of live rows) and `file_quotas` | upload, replace, delete, rename, change resource, adjust limit, create-or-get quota; get, list, download URL | store, scan queue, one interactive transaction |
| File storage: antivirus scan | job state in Redis, scan history in the file's version | enqueue, take, scan, retry, redelivery | `files`, store, ClamAV |
| File storage: maintenance | none of its own | reconcile, purge, rescan (cron) | `files`, store, ClamAV |
| Binary store adapters | objects by key | put, get, delete, list | B2 or disk |
| Job queue adapters (`shared/jobs`) | BullMQ queues in Redis | add with job id, process, retry | workers |
| Transactions and persistence (`prisma`) | connection pool, open transaction per async context | run in transaction, optimistic update, create-or-get | PostgreSQL |
| File validation | none | size, type, magic bytes | - |
| Sessions (`core/authentication`) | `authentication_sessions` (whole-row writes, no version) | login, refresh, logout, revoke, revoke all | accounts, identity, tenants |
| Password reset, e-mail verification | `password_resets`, `email_verifications`, `authentication_accounts` | request, reset, validate | notifications |
| Registration saga and invitations | `users`, `authentication_accounts`, `invitations` | invite, revoke, register (saga with compensations), log in or ask for a new password meanwhile | three contexts |
| Notifications | `notifications`, `notification_templates`, `notification_preferences`, a BullMQ queue | send, job with retries, mark (all) as read, templates, preferences | SMTP |
| Identity | `users` (versioned) | suspend, reactivate, change role | roles, audit |
| Tenants | `tenants` (versioned) | create, update, suspend, reactivate | - |
| Authorization | `roles`, `permissions`, `role_permissions`, `role_tenants`, `tenant_role_configurations` | create, update, assign, remove, associate, disassociate, configure, check a permission | - |
| HTTP surface (`shared/auth`, `shared/authorization`, the controllers) | none | the global guards over the marks of each route, the tenant filter of the Prisma client | sessions, users, roles |
| Audit | append-only `audit_events` | record, without waiting | - |
| Outbox, ATS | an unused repository; `vacancies` | none; CRUD nobody is let through to | - |

What makes each correct:

- *Files*: at most one live file per resource and purpose; the status is what
  the latest scan calls for; versions are immutable and kept; a deleted file
  stays deleted; a stale writer never wins; every version of a live file has
  its binary; a rolled back request leaves none behind.
- *Quota*: the counter is the bytes of the live files; the limit is exceeded
  by a bounded amount only.
- *Scan*: every PENDING file is judged; a redelivered job revises no verdict.
- *Sessions*: a refresh token that was exchanged is dead; a revoked session
  stays revoked; nobody ends another user's session.
- *Credentials*: a one-time link, once used or superseded, is never usable
  again; a verified account had its proof.
- *Registration*: no account without a user, a spent invitation admitted its
  recipient and nobody else; a closed invitation is changed by nobody who
  comes later; a failed registration leaves nothing, with exceptions that are
  listed.
- *Notifications*: none is SENT that was not mailed; how often one is mailed;
  every job ends; no change of a template or preference is lost.
- *Access*: a permission of the platform stays with platform tenants; a
  handler runs for those it was opened to; whoever suspends outranks; the
  trail of suspensions is true.
- *Transactions*: not every connection is held by a transaction that waits
  for another connection.

## 2. Hard behaviours

`PROJECT.json` lists each at its line. The ones that shaped the first model:

- A use case reads a row, does slow work (a PUT, a download, a scan), then
  writes. Only the `WHERE version = ?` of `PrismaFileRepository.update`
  separates a good write from a lost update.
- Store, queue and database share no transaction. Upload and replace PUT
  *before* the transaction and enqueue *inside* it: a worker may run the job
  before the row exists; a rollback leaves a binary to compensate and a job
  that stays known to BullMQ.
- BullMQ delivers a job again after a stall while the first worker still
  works on it.
- Maintenance jobs act on snapshots that are seconds or minutes old.
- The quota is checked in one place, incremented in another, and an
  administrator rewrites the same row.
- The rows of authentication, invitations and notifications have no version
  column: every write is the whole row of a snapshot, and what a refresh, a
  verification or a worker writes may be several awaits old.
- The registration saga spans three contexts without a transaction; its
  compensations may fail, and somebody may log in as its user, or ask for a new
  password of his, before it ends: the row this adds stops the compensation.
- An e-mail is sent before the row says so, by a job that BullMQ runs again
  after a failure, a stall or a crash.
- A token carries a role for as long as it lives; the guards read the rest of
  what they need in two more queries; the handler acts after that.
- Who may do what follows from a chain of grants, associations and
  invitations, each link checked by another use case at another time.

## 3. Modules

| Module | What it is |
|---|---|
| `FileLifecycle` | abstract specification: what the outside world can know of a file (status, slot, content of its versions) |
| `FileStorage` | the file-storage context of one tenant in detail; implements `FileLifecycle` |
| `MCFileStorage` | finite instances: sizes, names per client, symmetry sets |
| `FileStorageProofs` | the inductive invariant of `FileStorage` and what follows from it, for every value of the constants |
| `FileStorageRefinement` | the proof that `FileStorage` implements `FileLifecycle` |
| `FileStorageStoreProofs` | the types of all variables of `FileStorage`, and how its bucket and its counter agree with the rows |
| `Sums` | lemmas about the sum over a finite set with which `FileStorage` counts bytes |
| `RegistrationProofs`, `AuthenticationProofs`, `NotificationsProofs`, `AccessProofs` | for each of these modules its inductive invariant and the theorems that its safety and action properties hold, for every value of the constants |
| `Authentication` | accounts, sessions, password resets, e-mail verifications |
| `Registration` | invitations and the registration saga over identity, authentication and tenants |
| `Notifications` | sending, the queue and its workers, reading, templates, preferences |
| `HttpGuards` | the routes of all controllers with their marks, and the guards that read nothing: operators, no state |
| `Access` | users, tenants, roles, permissions, their associations and configurations, the guards that read, the tenant filter, the audit trail; composes `HttpGuards` with the handlers |
| `MCAuthentication`, `MCRegistration`, `MCNotifications`, `MCAccess` | finite instances of these: names of the model values and the symmetry sets |

### FileStorage: state

| Variable | Code |
|---|---|
| `files` | committed rows of table `files`. `lock` is the column `version`; `versions` the JSON list of `FileVersion`, of which the key, the content (its checksum) and the latest scan verdict are kept |
| `quota` | the tenant's row of `file_quotas`, or `Nil` before the first upload |
| `storage` | the bucket: content under each key `<file>/v<n>/<name>` |
| `queue` | per job id `file-scan:<id>:v<n>`: state, attempts, stalls, worker |
| `issued` | identifiers drawn by the `IdGenerator`, never drawn twice |
| `tx` | the open interactive transaction that has written its file row and holds the quota row's lock. There is at most one in a tenant, because each such transaction updates the quota row right after the file row |
| `pc`, `seen`, `req` | where each asynchronous function stands, the rows it read, its other locals |

A process is one asynchronous function: an HTTP request (`Clients`), an
execution of the scan handler (`ScanWorkers`), or a cron job (`Reconciler`,
`Purger`, `Rescanner`).

### FileStorage: actions

One action per await on shared state. Reading, deciding and the entity method
that follows are one action, as no other code runs in between.

| Use case | Actions, in order |
|---|---|
| upload | `UploadFind`, `CreateQuota` (only the first), `VerifyLimit`, `StoreBinary`, `UploadPersist`, then `Commit` or `Rollback`, `Compensate` |
| replace | `ReplaceFind`, `VerifyLimit`, `StoreBinary`, `ReplacePersist`, then as above |
| delete | `DeleteFind`, `DeleteWrite`, `Commit` or `Rollback` |
| rename, change resource | `RenameFind`, `RenameWrite`; `ChangeResourceFind`, `ChangeResourceCheck`, `ChangeResourceWrite` |
| adjust limit | `AdjustLimitFind`, `AdjustLimitWrite` |
| scan job | `TakeJob`, `ScanFind`, `ScanDownload` (ClamAV included), `ScanWrite`; queue: `JobBackoff`, `JobStalls` |
| reconcile | `ReconcileRead`, `ReconcileList`, `DeleteBinary`*, `MarkOrphan`* |
| purge | `PurgeList`, `DeleteBinary`* |
| rescan | `RescanFind`, (`RescanDownload`, `RescanWrite`)* |
| any | `Crash` |

Merges and omissions, each on purpose:

- A path that throws before it changed anything is left out: the process stays
  idle, as it does when it returns.
- Row write, quota increment and enqueue inside one transaction are one
  action (`...Persist`, `DeleteWrite`): nothing of them is visible to other
  transactions before the commit, the row and the index entry are locked
  (`RowUnlocked`, `SlotUnlocked`), and a second transaction waits at the quota
  row (`tx = Nil`). What *is* visible before the commit, the job in Redis, is
  set by that action, and the commit is another one.
- `PurgeList` reads rows and lists the store in one step: rows it reads are
  DELETED and never change again (`HistoryIsFinal`), and their keys are only
  ever removed.
- A file keeps its purpose, so `Slots` are the resources one purpose can be
  attached to; the unique index never relates two purposes.
- `CreateQuota` is create-or-get: the loser of the unique index reads the row
  the winner has created and goes on with it, which is the state in which
  `VerifyLimit` finds it.
- The operator `UsageDelta` says what the transaction adds to the counter:
  the latest version's size on upload and replace, minus all versions' sizes
  on delete.

External parts, modelled from how the code uses them: BullMQ (`Enqueued`,
`Completed`, `AttemptFailed`, `JobBackoff`, `JobStalls`: finished jobs stay
known because no `removeOn...` option is set, an add of a known id is ignored,
a report from a worker that lost the job is refused), PostgreSQL's row and
index locks, ClamAV (a verdict chosen freely).

`Faults` names what may go wrong in an instance: `storage` (a store call fails
before or after taking effect), `redis` (an enqueue fails, before or after),
`rollback`, `ambiguousCommit` (the commit holds, its answer is lost), `crash`
of any process at any await, `stall` (BullMQ gives up a worker that is alive).

### The other modules: conventions

A process is again one asynchronous function and `pc` says at which await it
stands; `loc` holds what it has read. The modules share these abstractions:

- A path that throws before it changed anything is left out or ends the
  request.
- A transaction is one action at its commit, unless its own statements read
  what somebody else may insert meanwhile: `RequestReset` and
  `RequestVerification` are split for that reason.
- A row is the columns the properties speak of. Names, dates, addresses and
  payloads are left out; the column `version` is kept wherever the code
  compares it.
- Time: what expires makes requests end in exceptions, so a behaviour with an
  expiry is one without those requests. The exception is the invitation
  (`Expire`), as an expired one still counts as pending in one query.
- `Scenarios` (in `Notifications` and `Access`) is a set of sets of use cases
  and failures; a behaviour picks one of them. It keeps apart what need not
  meet, in one run.

### Authentication

| Variable | Code |
|---|---|
| `account`, `session`, `reset`, `verification` | the tables; a refresh token and a password are told apart by their hashes |
| `mailed` | links handed to Notifications |
| `retired` | history: tokens that a write replaced |

| Use case | Actions |
|---|---|
| any with a session | `Authenticate` (`AuthenticationGuard`, `Resolve`) |
| login | `LoginFind`, `LoginCreate` |
| refresh | `RefreshFind`, `RefreshWrite` |
| logout, revoke | `RevokeFind`, `RevokeWrite` |
| revoke all | `RevokeAllFind`, `RevokeAllExcept` |
| password reset | `RequestReset`, `CommitReset`, `SendLink`; `ResetFind`, `ResetReadAccount`, `ResetWrite` |
| e-mail verification | `RequestVerification`, `CommitVerification`; `VerifyFind`, `VerifyReadAccount`, `VerifyWrite` |
| any | `Abort` |

`OwnerSees` is the filter of the Prisma client on a session's owner, the only
thing that ties the id a client sends to its user.

### Registration

| Variable | Code |
|---|---|
| `invitation`, `user`, `account` | the tables, the last as the users that have one |
| `session`, `reset` | the users with a row in `authentication_sessions`, in `password_resets`: what refers to an account with ON DELETE RESTRICT |
| `expired` | invitations whose time is over |
| `issued` | identifiers drawn |
| `admitted`, `broken` | history: the users whose saga consumed an invitation, by invitation (`Consumed`: all of them); the users whose saga died or was refused a compensation |

| Use case | Actions |
|---|---|
| invite | `InviteFind`, `InviteCreate` |
| revoke | `RevokeFind`, `RevokeWrite` |
| register | `RegisterValidate`, `CreateUserFind`, `CreateUserInsert`, `CreateAccount`, `ConsumeFind`, `ConsumeWrite`; on failure `DeleteAccount`, `DeleteUser`, each of which may itself be refused (`Referenced`, `CompensationFails`) and ends the saga then |
| login | `LoginFind`, `LoginCreate` (a session refers to its account by a foreign key) |
| request a password reset | `RequestResetFind` (by e-mail alone, public), `RequestResetCommit` (the row refers to the account) |
| environment | `Expire`, `Crash`; `database` lets every statement fail |

A statement fails without effect. An answer that is lost after its statement
took effect is not modelled here; the orchestrator would not undo such a step,
and `AccountsHaveUsers` and `UsedInvitationAdmits` would not survive it.

### Notifications

| Variable | Code |
|---|---|
| `notification`, `template`, `preference` | the tables, for one code and locale and one recipient |
| `queue` | the BullMQ job of each notification: state, attempts, stalls, worker |
| `mailed` | how many e-mails the SMTP server accepted |
| `unqueued`, `settled` | history: stored and never enqueued; once SENT |

| Use case | Actions |
|---|---|
| send | `SendFilter` (preferences), `ResolveOwn`, `ResolveGlobal` (two queries), `SendCreate`, `SendEnqueue` |
| job | `TakeJob`, `JobFind`, `ResolveOwn`, `ResolveGlobal`, `JobMail`, `JobFail`, `JobSettle`, `ReturnJob`, `ThrowJob`; queue: `JobBackoff`, `JobStalls` |
| read | `MarkReadFind`, `MarkReadWrite`; `MarkAllRead` |
| templates | `CreateTemplateCheck`, `CreateTemplateInsert`; `TemplateFind`, `ActivateCheck`, `UpdateTemplate` (update, activate, desactivate) |
| preferences | `CreatePreferenceFind`, `CreatePreferenceInsert`; `PreferenceFind`, `UpdatePreference`, `DeletePreference` |
| any | `Crash` |

Of what the code really sends today (the two one-time links) every notification
is a transactional e-mail; the module takes the channels and categories the use
case accepts. Three things it shows and no property forbids: an opt-out after
`SendFilter` is not looked at again by the job; the tenant's template and the
global one are looked up by two queries; a failed enqueue or a crash before it
leaves a PENDING row nobody sends (`unqueued`).

### HttpGuards and Access

`HttpGuards` is a table: per controller a record from handler to route, a route
being its method, its permission and its marks (`Public`, `SkipUserState`, ...).
On top are the guards that decide from a route and a caller alone. `Access`
does the rest:

| Variable | Code |
|---|---|
| `user`, `tenant`, `role`, `permission`, `grants`, `enabled`, `configuration` | the tables; `grants` is `role_permissions`, `enabled` is `role_tenants` |
| `invited` | roles and tenants of the invitations stored |
| `tokens` | access tokens, with the role of their time |
| `recording`, `trail` | audit events still to be written; written ones |
| `suspended`, `accidents`, `withdrawn`, `overtaken` | history |

| Part | Actions |
|---|---|
| guards | `ServePublic`, `Authenticate`, `AuthenticationFails`, `PermissionUser`, `PermissionRole` |
| suspend | `SuspendActor`, `SuspendTarget`, `SuspendWrite`, `SuspendFails`; `WriteAuditEvent` |
| reactivate, change role | `FindUser`, `ReactivateWrite`, `ReactivateRefused`; `ChangeRoleValidate`, `ChangeRoleWrite` |
| invitation, registration, login | `InviteValidate`, `InviteInsert`; `Register`; `IssueToken` |
| tenants | `CreateTenant`; `FindTenant`, `TenantWrite` (update, suspend, reactivate) |
| roles and permissions | `CreateRole`; `FindRole`, `RoleWrite`; `CreatePermission`; `FindPermission`, `PermissionWrite`; `AssignPermissions`, `RemovePermissions` |
| roles of a tenant | `AssociateRoles`, `DisassociateRoles`; `FindConfiguration`, `InsertConfiguration`, `WriteConfiguration`, `RemoveConfiguration` |

`Sees` is the tenant filter; `CatalogueReadable` what it does to tables without
a tenant column (the query throws). What the model shows and no property
forbids: the permission check reads the user's role and that role's permissions
in two queries and may put together what was never held at once; a demoted
PLATFORM_ADMIN keeps the unfiltered client until his token expires; the
revocation of an invitation is a GET, which `CsrfGuard` passes; disassociating
a role leaves its holders with it (`withdrawn`); nobody passes the guards of the
vacancies' routes, which name no permission.

### Variants

Definitions marked "Variant" are deliberately wrong forms of the definition
below them (a dropped guard, a missing reset). No behaviour uses them; they
show that the properties notice.

## 4. Runs

Each run switches on the use cases (`Ops`) and the faults its question is
about, so that one or two files are enough to have every conflict.

| Run | Instance | Checks | Shows |
|---|---|---|---|
| `rows` | 1 file, 2 clients, 2 scan workers, rescan; upload, replace, delete, rename; stalls; three verdicts | `ScanDecidesStatus`, `SnapshotCoherent`, `VerdictStandsUnlessReady`, `Lifecycle` | five writers on one row: the version check is sufficient, the status follows the scan, and the rows implement `FileLifecycle` |
| `faults` | 1 file, 1 client, 1 worker, reconcile and rescan; every fault; limit adjusted | `TypeOK`, `HistoryIsFinal` | no failure or crash leaves a row, a job or a counter outside its type or rewrites history |
| `binaries` | 2 files, 2 slots, 2 clients with a name each, 1 worker, purge; rollbacks | `OneLiveFilePerSlot`, `LiveBinariesStored`, `NoLeakedBinary`, `QuotaExact`, `OvershootBounded` | rows, bucket and counter agree as long as concurrent replacements do not share a name and nobody adjusts the limit (section 6) |
| `judged` | 2 files, 2 slots, 2 clients, 2 workers; upload, delete, rename, change resource; rollbacks; fair | `PendingIsJudged` | an uploaded file is judged although its job may run before its row exists |
| `stuck` | 1 file, upload and replace, fair | `PendingIsJudged` (violated) | a replaced file may stay PENDING for ever |
| `replace` | 1 file, 2 clients, one name | `LiveBinariesStored` (violated) | a compensation deletes another request's committed binary |
| `adjust` | 1 file, 2 clients | `QuotaExact` (violated) | an adjustment loses an increment |
| `sessions` | 2 accounts (one a platform administrator), 2 sessions, 3 tokens, 2 resets, 1 verification, 2 requests; every use case | `TypeOK`, `RotatedTokenIsDead`, `VerifiedHasProof`, `SpentLinksStaySpent`, `RevivedOnlyByOverlappingRefresh`, `EndedByItsOwner` | what stays true of rows without a version although every pair of requests may overlap |
| `revoked` | 1 account, 1 session; login, refresh, revoke | `RevocationIsFinal` (violated) | a refresh that was under way brings a revoked session back |
| `saga` | 2 invitations, 2 recipients, 2 users, 3 requests; failures and crashes | `TypeOK`, `AccountsHaveUsers`, `UsedInvitationAdmits`, `LeftoversExplained`, `ClosedChangesOnlyByOverlap`, `SecondInvitationOnlyByOverlap` | what the saga guarantees when it fails anywhere, its compensations included, and the ways in which it may leave something behind |
| `delivery` | 1 notification, 2 templates, 2 preferences, 2 requests, 2 workers; four scenarios: everything that can fail on the way, the templates with Redis failing, the preference with Redis failing, both with a crash | `TypeOK`, `SentWasMailed`, `MailsBounded`, `UnsentIsAccountedFor`, `OneActiveTemplate`, `SentUndoneOnlyByOverlap`, `UnreadOnlyByOverlap`, `NoSettingLost`, `JobsEnd` | a delivery meets its retries, redeliveries, reader and settings; every job ends |
| `access` | 2 users, 3 tenants, 3 roles, 20 permissions, 3 requests; nine scenarios | `TypeOK`, `PlatformPowerStaysHome`, `HeldRolesWereEnabled`, `HandlersRunAuthorised`, `TrailTellsTheTruth`, `SuspendedByBetters`, `NoStaleWrite` | who may do what, over every way in which it changes |

Bounds of the `FileStorage` runs (all in the constants): `Files` and `Slots` of one or two; `MaxVersions
= 2`, one replacement, which suffices for a stale job, a stale snapshot and a
shared key; `MaxLock = 2`, the number of writes after which no *optional*
write begins (`Room`), while a scan always may, so the bound cuts no half-done
work; `MaxAttempts = 2` where the code has 3 (one retry is enough to
tell "tried again" from "given up", and a smaller number makes `judged`
harder to satisfy); `MaxStalls = 1`, BullMQ's default; one content of size 1
and a limit of 2 or 3, so that two requests reach the limit and pass it.
Two clients meet every pairwise race; the proofs of section 7 lift the row
properties to any number. Symmetry is used in safety runs only, over
identifiers the specification treats alike; in `binaries` a client is
exchanged together with its name. Two properties of `rows` and one of `faults`
are temporal but have no liveness part (`[][A]_v`), for which symmetry is sound.

Bounds of the other runs:

- `sessions`: two requests, since each property is about one write and the one
  it overlaps, and a request may be any number of requests one after another.
  Identifiers and tokens run out instead: three tokens are a login and two
  refreshes, or two logins and a refresh; two resets are one link and the one
  that supersedes it. Two accounts are enough for "another user's".
- `saga`: a third request lets a registration, a revocation and a login or a
  password reset of the new user meet. Two users and recipients: one
  registration beside another, or two with one invitation.
- `delivery`: `MaxAttempts = 2` where the code has 3, `MaxStalls = 1` as in
  BullMQ; `MaxVersion = 2`, two updates of each row (deactivated and activated
  again), before which two requests may both read it.
- `access`: `Room` lets two requests into a behaviour, three in the scenario
  "busy" (a suspension between a second one and a reactivation); `MaxVersion
  = 2`, so that a row is written once after both have read it and once more
  (suspended and reactivated); users and tokens grow with registrations and logins in
  between. The three roles are the platform's, one that outranks and one that
  is created later; the tenants are the operator, a customer and one created
  later. One request of a behaviour at most is on a route outside this module
  ("elsewhere"), but that one is on *any* route of the controllers. The initial
  associations are all that the use cases accept, and the initial users all
  that these allow: the largest set from which a platform permission could
  leak.

Users and requests are permuted in `access`, requests and identifiers in the
other runs: no definition names one. In `delivery` the symmetry is kept although
`JobsEnd` is a liveness property: neither it nor the fairness mentions the
permuted sets (see `MCNotifications`).

`CHECK_DEADLOCK FALSE`: identifiers and row versions are bounded, so an
instance ends in a state with nothing left to do. That nobody waits for ever
is what `judged` and `delivery` show.

## 5. Fairness

`FairSpec` adds weak fairness only where the platform gives it:

- `Commit(c)`: a transaction whose body has returned is committed (or, in
  instances with `rollback`, rolled back).
- `Scan(w)`: the event loop resumes answered awaits, and idle workers poll.
- `JobBackoff(j)`, `JobStalls(j)`: BullMQ's timers.

`Notifications` has the same two sources: `TakeJob` of some worker and the steps
of each worker that is running, `JobBackoff`, and `JobStalls` of a job whose
worker died (`Abandoned`: BullMQ looks for those periodically). It assumes that
some worker is restarted after a crash. `JobsEnd` needs all four, and holds
with crashes, stalls and failures of the database, of Redis and of the SMTP
server, whose number is bounded by the attempts and the stalls of the job.
`Authentication`, `Registration` and `Access` state no fairness: their
properties say what a step may never do, and a request that is never resumed
is a process that died.

Nothing is assumed of clients starting requests, of cron jobs, or of
verdicts. `JobBackoff` waits for the transaction that enqueued the job: its
first delay is 5 s, and Prisma ends an interactive transaction after 5 s. This
timing assumption is what the retries of the code rely on, and the property
needs it.

## 6. Where code and documents disagree

Shown by a run:

- `stuck`: `ReplaceFileUseCase` enqueues before the commit. A worker that is
  quicker reads the old READY row, returns, the job is completed, and its id
  is never accepted again: the file stays PENDING, which also makes it
  impossible to replace or delete.
- `replace`: the key of a replacement comes from a version number read before
  the transaction. Two replacements by the same name share the key, and the
  loser's compensation removes the winner's binary.
- `adjust`: `AdjustQuotaLimit` writes back the counter it read.
- `revoked`: `RefreshTokenUseCase` writes back the session it read, its
  `revokedAt = null` included. `RevivedOnlyByOverlappingRefresh` (run
  `sessions`) shows that nothing else revives one.

Seen while modelling, in `PROJECT.json` without a run of their own:

- `markAsOrphan` does not decrement the quota. For this reason `binaries`
  leaves the reconciliation out.
- The reconciliation reads rows, then lists the store: a binary stored in
  between is taken for an orphan.
- A verdict ERROR (ClamAV down) leaves the file PENDING for good. `judged`
  therefore runs with the verdicts CLEAN and INFECTED.
- Concurrent uploads may exceed the limit; by how much is `OvershootBounded`.
- Two requests with one reset link both change the password.
- A verification writes back the password it read: it undoes a reset.
- The minimum length of a password is 8, not 15.
- `EXPIRED` is never stored: an expired invitation bars every further one for
  its recipient.
- Consuming and revoking an invitation each read it PENDING and write it back by
  id alone. When they overlap both succeed and the last write wins: REVOKED
  becomes USED, or USED becomes REVOKED, although `Invitation.md` lets no
  transition leave either. `ClosedChangesOnlyByOverlap` (run `saga`) shows that
  nobody who comes after the closing changes it.
- A login or a password reset requested between the creation of the account and
  its compensation makes the delete throw: user and account stay, the e-mail is
  taken, and the invitation is not consumed. `LeftoversExplained` lists it.
- A notification that is SENT may become PENDING or FAILED again, a read one
  unread; by which overlaps only, two properties of `delivery` say.
- The tenant filter makes every read of roles and permissions throw for users
  of tenants, so that only a PLATFORM_ADMIN ever suspends anybody.
- No PLATFORM_ADMIN can suspend another, but the last one can be demoted.

## 7. Proofs

`FileStorageProofs` and `FileStorageRefinement` prove, for any sets of files,
slots, names, contents, clients and workers, any faults and any bounds:

| Theorem | Statement |
|---|---|
| `Invariance` | `Spec => []Inv` |
| `RowsTyped` | `Spec => []RowsTypeOK` |
| `OneLiveFile` | `Spec => []OneLiveFilePerSlot` |
| `CoherentSnapshots` | `Spec => []SnapshotCoherent` |
| `StatusFollowsScan` | `Spec => []ScanDecidesStatus` |
| `HistoryKept` | `Spec => HistoryIsFinal` |
| `VerdictStands` | `Spec => VerdictStandsUnlessReady` |
| `Refinement` | `Spec => Lifecycle`: `FileStorage` implements `FileLifecycle` |

Assumptions: the named ASSUMEs of `FileStorage` (`NilIsFresh`,
`RolesAreDistinct`, `NamesAreNames`, `KnownSwitches`, `BoundsAreNat`, ...),
which TLC evaluates in every run.

The argument. None of the properties is inductive: a write produces a row from
a snapshot read long before, so the invariant must speak of snapshots and of
the open transaction too.

- `RowInv`: every row, in the table (`FilesOK`), in a snapshot (`SeenOK`) or in
  the open transaction (`TxOK`), is typed and *consistent* (it has a version
  and its status is what its latest scan calls for); a snapshot with the
  committed lock is the committed row (`SnapshotCoherent`); the transaction's
  row has the next lock, is a legal successor of the committed row, and its
  slot is free (`TxSlotFree`), without which the commit could break
  `OneLiveFilePerSlot`.
- `LocalInv`: what each process knows where it stands (`ClientKnows`,
  `WorkerKnows`, `JobKnows`): a client about to write a replacement holds a
  judged snapshot, a worker about to write a verdict an unscanned PENDING one,
  the rescan READY ones.

Lemmas about the entity's methods (`NewFileGood`, `AddVersionGood`,
`ScanResultGood`, `RescanResultGood`, `MarkDeletedGood`, `MovedGood`) show that
each maps a consistent row to a consistent, legal successor. Every action is
then one of four shapes: it leaves the rows (`StaysPut`), opens a transaction
(`Opens`), writes one row (`Writes`) or commits (`Lands`). One lemma per shape
shows that it keeps `RowInv`, one lemma per action that it has its shape and
keeps `LocalInv`. The two action properties follow from `RowStepIsLegal`: a
row changes only to a legal successor.

The refinement uses the same shapes. `Opens` and `StaysPut` are stutters;
`Writes` and `Lands` put a row in the table, and `NewRowIsLifecycleStep` shows,
with one case per way in which a legal successor may differ (`Evolves`), which
lifecycle step that is. The lifecycle's guard that a slot is free is where the
unique index matters: it comes from `TxSlotFree` and `OneLiveFilePerSlot`. The
histories are compared element by element with `SeqEqual` of the library's
`SequenceTheorems`.

`FileStorageStoreProofs` proves, again for any values of the constants but those
that a hypothesis of the theorem excludes:

| Theorem | Hypotheses | Statement |
|---|---|---|
| `TypesOK` | none | `Spec => []TypeOK` |
| `NothingLeaks` | no `storage`, no `crash` in `Faults` | `Spec => []NoLeakedBinary` |
| `LiveBinariesKept` | `DistinctNames`; no `ambiguousCommit` in `Faults`, no `reconcile` in `Ops` | `Spec => []LiveBinariesStored` |
| `QuotaCountsLiveBytes` | no `adjustLimit`, no `reconcile` in `Ops` | `Spec => []QuotaExact` |
| `OvershootStaysBounded` | no `adjustLimit` in `Ops`; finitely many clients and contents | `Spec => []OvershootBounded` |

The instance `binaries` satisfies all of them. Each hypothesis is there because
the code does not keep the property without it, for a reason found in section 6 or
in the code's own words:

- A store call that fails may fail in the compensation too, and a process that
  dies compensates nothing: only the reconciliation finds such binaries.
- Two requests that replace a file by one name share the key (run `replace`).
  `DistinctNames` says that concurrent clients send different names. After an
  ambiguous commit the request compensates what was committed. The
  reconciliation works on rows that are older than its listing of the bucket.
- An adjustment writes back the counter it read (run `adjust`), and may set a
  limit below what is used; an orphan leaves the counter as it was.

Everything not excluded is in: for `LiveBinariesKept`, say, store calls that
fail before or after taking effect, crashes at any await, rollbacks, stalls,
purges and rescans, for any number of requests. The invariants (TLC found all
six to hold on the instance of `binaries`, and the first two, which need no
hypothesis, on that of `faults`):

- `TypeInv`: what a process works on where it stands (`Stage`), that a job in the
  queue has an attempt left until it is finished (`GoodJob`), and that no row,
  transaction or verified request precedes the quota's row (`QuotaOK`). The last
  part is what makes the arithmetic on the counter an arithmetic on numbers.
- `KeyInv`: the key of a version names its file and its number (`Numbered`), the
  key of a request the place its version will have (`KeyFits`), and the open
  transaction holds the committed row with what its client adds (`TxShape`).
- `LeakInv`: a binary that no row knows belongs to a request that will commit
  or remove it.
- `StoreInv`: the key of a request is in no row, its binary is stored from the PUT
  to the end of the transaction, and the purge is about to delete keys of deleted
  files only. A key is in no row because file, number and name would have to
  agree: `Numbered` leaves only another client's replacement of the same
  version, and `DistinctNames` excludes it.
- `QuotaInv`: an increment or decrement of the transaction is `UsageDelta`, which
  is by how much the committed row changes the sum.
- `ChargeInv`: a request is *charged* its binary from the check of the limit until
  its transaction ends. The counter plus all charges stay within the limit plus
  one largest binary for each client but one: a check that succeeds leaves room
  for the own binary, and the others are charged at most one each.

The sums are folds. The library's induction theorems cannot be instantiated here,
but induction over the subsets of a *given* finite set can be written without
them: the strict subset ordering on it is well-founded, so among the subsets for
which a claim fails one is minimal (`SmallestSubset`). `Sums` shows in this way that the
recursion behind `SumFunctionOnSet` has one solution, that any element may be
taken first (`SumRemove`), that only the values on the set matter
(`SumCongruence`), and a bound (`SumBounded`).

`RegistrationProofs` proves, for any sets of invitations, recipients, users and
requests and any faults, every property of `Registration`:

| Theorem | Statement |
|---|---|
| `TypeCorrect` | `Spec => []TypeOK` |
| `AccountsKeepUsers` | `Spec => []AccountsHaveUsers` |
| `InvitationsAdmit` | `Spec => []UsedInvitationAdmits` |
| `LeftoversAreExplained` | `Spec => []LeftoversExplained` |
| `ClosedChangesExplained` | `Spec => ClosedChangesOnlyByOverlap` |
| `SecondOnlyByOverlap` | `Spec => SecondInvitationOnlyByOverlap` |

Its only assumption is that `Nil` is none of the identifiers and rows
(`NilIsFresh`), which TLC evaluates in the run `saga`. The invariant `Inv`, which
TLC found to hold on a small instance before it was proved, adds to the
properties what they rest on:

- `Members`: sessions and password resets are of accounts, accounts of users
  that were handed out, and who consumed an invitation has an account;
- `Separate`: two sagas never work on one user. This is what makes the
  compensations of one saga harmless to the others, and it holds because the
  identifier is fresh when the user is inserted;
- `Knows`: what a request knows where it stands. A saga knows its user, not
  consumed yet, and whether the account exists; a request about to write an
  invitation holds a row of the same recipient; one about to insert holds
  invitations none of which was pending for its recipient;
- `Admits`: a used invitation has a *consumed* user of its recipient. The
  property `UsedInvitationAdmits` itself is not inductive: it speaks of
  accounts, which a compensation deletes, and only a user that is not consumed
  is ever compensated.

`EvolveStep` gives what a step may do to the invitations (`InvitationsEvolve`),
from which `OthersKnow` shows that a step of one request keeps what the others
know. `QuietStep` covers the actions that leave users and accounts alone,
`SagaWrite` those that write the account or end the saga, `SagaGivesUp` a saga
left half-way (a crash, a compensation refused), `ReferenceWrite` the session or
password reset that is inserted, and one lemma per action shows which it is.

`LeftoversExplained` is part of the invariant. Its exceptions are exactly the
endings of a saga other than a consumed invitation and a completed undoing: the
process died or the database refused a compensation (`broken`), or a session or
a password reset refers to the account. `ClosedChangesExplained` adds to
`EvolveStep` that who takes hold of an invitation found it open
(`TakesHoldOfOpen`) and that who writes it lets go of it. That an invitation
admits one person (in `InvitationsAdmit`) has an invariant of its own on top of `Inv`: an e-mail has one user (`OneEmail`), and
whoever an invitation admitted still has its recipient's e-mail (`AdmittedFit`),
because a user is deleted by its own saga only and that is over.
`SecondOnlyByOverlap` follows from what the inviting request knows.

`AuthenticationProofs` proves, for any sets of accounts, sessions, tokens, links
and requests, every property of the run `sessions`:

| Theorem | Statement |
|---|---|
| `Invariance` | `Spec => []Inv` |
| `TypeCorrect` | `Spec => []TypeOK` |
| `RotationSafe` | `Spec => []RotatedTokenIsDead` |
| `VerifiedSafe` | `Spec => []VerifiedHasProof` |
| `SpentSafe` | `Spec => SpentLinksStaySpent` |
| `RevivalExplained` | `Spec => RevivedOnlyByOverlappingRefresh` |
| `EndSafe` | `Spec => EndedByItsOwner` |

Assumptions: `NilIsFresh`, `TablesAreDisjoint`, `FirstIsPassword`. What makes this
hard is that every row is written back whole from a copy. So the invariant
speaks of the copies:

- `OneBearer`: a session *bears* the token of its row and the tokens of the
  copies of it that requests may still write back; no token is borne by two
  sessions.
- `BornTokens`: a token that is borne, but no longer in its row, is retired.
  With `OneBearer` this gives `RotatedTokenIsDead`: a refresh draws a token
  that is not retired and in no row, so nobody bears it.
- `Knows`: the row a request holds belongs to the account of the stored one, a
  copy of a session was not revoked, a copy of an account that says verified
  had its proof, and a link that is about to be completed was mailed
  (`MailedLinksExist`).

The three action properties follow from `RowsEvolve` (how the rows of a table
change) and from what the writing request knows.

`NotificationsProofs` proves, for any sets of notifications, templates,
preferences, requests and workers and any bounds, all but the liveness property
of the run `delivery`:

| Theorem | Statement |
|---|---|
| `Invariance` | `Spec => []Inv` |
| `TypeCorrect` | `Spec => []TypeOK` |
| `SentSafe` | `Spec => []SentWasMailed` |
| `MailsSafe` | `Spec => []MailsBounded` |
| `UnsentSafe` | `Spec => []UnsentIsAccountedFor` |
| `ActiveSafe` | `Spec => []OneActiveTemplate` |
| `SentUndone` | `Spec => SentUndoneOnlyByOverlap` |
| `UnreadExplained` | `Spec => UnreadOnlyByOverlap` |
| `SettingsSafe` | `Spec => NoSettingLost` |

Assumptions: `NilIsFresh`, `BoundsAreNat`, `SeparateProcs`. The invariant:

- `MailsCounted` makes `MailsBounded` inductive: the mails sent, plus the
  workers that are in a run of the job and have not mailed yet (`BeforeMail`,
  a finite set), are at most the runs that have begun. A worker that lost its
  job to a stall is counted until it mails or ends; this is where a
  second worker on one job would otherwise break the bound.
- `JobsConsistent`: a job is of a stored notification, has a worker exactly when
  it is active, and an attempt left until it failed.
- `SentIsSettled`: a SENT notification is in the history `settled`, from
  which `UnsentIsAccountedFor` is inductive.
- `Apart`: two requests never insert with one identifier.
- `Knows`: the copy a reader or a worker holds, and that a worker about to write
  SENT has mailed.

`AccessProofs` proves, for any users, tenants, roles, permissions and requests and
any scenarios, every property of the run `access`:

| Theorem | Statement |
|---|---|
| `Invariance` | `Spec => []Inv` |
| `TypeCorrect` | `Spec => []TypeOK` |
| `PowerSafe` | `Spec => []PlatformPowerStaysHome` |
| `RolesSafe` | `Spec => []HeldRolesWereEnabled` |
| `HandlersSafe` | `Spec => []HandlersRunAuthorised` |
| `TrailSafe` | `Spec => []TrailTellsTheTruth` |
| `SuspensionSafe` | `Spec => SuspendedByBetters` |
| `WritesSafe` | `Spec => NoStaleWrite` |

Assumptions: `NilIsFresh`, `SeededCatalogue` (the catalogue of the seed holds
PLATFORM_ADMIN and the operator is there from the start), `BoundIsNat`. The invariant:

- `PairsFit`: every pair of role and tenant that is enabled, invited or held by
  a user is *rightful*: both exist, the role fits the tenant, and it was
  associated with it once. `PairKnown` says so of the pair a request has
  validated and is about to write: between the validation and the write the
  association may go, but neither a scope nor a type ever changes
  (`Evolution`, `FitStays`).
- `GrantsFit`: no platform permission is granted to a role of scope TENANT.
  Together with `PairsFit` this is `PlatformPowerStaysHome`.
- `TokensFit`: a PLATFORM_ADMIN token is of a user of a platform tenant, which a
  user never leaves.
- `EventsFit`: what the event still to be written says of its request.
- `Knows`: its token and input, the row it read (an older version, or the stored
  row: `ReadFrom`), and what the guards found, unless another request has
  changed users, tenants or grants since (`GuardsKnow`).

`RoutesJudged` goes through the routes of all controllers: a guard is skipped on
public routes, logout, the request of a verification and, for the
permission alone, the quota. `WorldSteps` sorts every step by the table it
writes; from this come `Evolution` (rows get new versions and keep scope, type and
tenant), `TablesTyped` and the two action properties. `RequestSteps` shows that a
step ends a request or lets it go on with what its next label needs, and
`KnowledgeStays` that the others keep what they know: who is not overtaken has seen
no change (`Undisturbed`).

## 8. Only model-checked

- `PendingIsJudged` (run `judged`) and `JobsEnd` (run `delivery`): liveness under
  fairness is out of the prover's reach.
- That the hypotheses of section 7 are necessary is shown by runs for a shared
  name (`replace`) and for an adjustment (`adjust`); for the others it is an
  argument from the code.
- The findings of section 6 are counterexamples of TLC; nothing is proved about
  them.

## 9. Not modelled

- File storage: the dry-run mode of the maintenance jobs (it only logs), signed
  URLs, lists and gets (they only read), the validation of sizes, types and
  magic bytes (a pure function of the upload), more than one tenant (every
  query is scoped by tenant and no row of one is written by a request of
  another), the time limits after which deleted files are purged and READY
  files rescanned (a job picks any subset of the candidates).
- The connection pool. Inside an interactive transaction some repositories
  take a second connection from the pool; enough of them at once wait for each
  other until Prisma's time limits end them. It is in the list of hazards
  without a property.
- Throttling, sanitization, DTO and schema validation, exceptions as HTTP
  answers, cookies, documentation: they refuse or word requests and keep no
  state.
- Names, slugs and other texts of the rows, and the operations that only read.
- The ATS: its rows are written by use cases behind routes that no request
  passes; the routes are modelled.
- The outbox: nothing writes or reads it.
- Start, stop and cancellation of queues and jobs.
- In `Registration`, an answer that is lost after its statement took effect; in
  `Notifications`, more than one tenant, recipient, code or locale; the
  rendering of a template.

## 10. Plan

1. `TransactionPool`: interactive transactions that take a second connection.
2. Weaker hypotheses where the code allows it: `LiveBinariesKept` needs different
   names of clients that replace the same file only, and `NothingLeaks` has a variant
   with crashes, in which what is left behind belongs to a request that died.

## 11. Running

    tlc -workers 2 -config FileStorage_rows.cfg MCFileStorage
    tlc -workers 2 -config Access_control.cfg MCAccess
    tlapm FileStorageProofs.tla
    tlapm FileStorageRefinement.tla
    tlapm Sums.tla
    tlapm FileStorageStoreProofs.tla
    tlapm RegistrationProofs.tla
    tlapm AuthenticationProofs.tla
    tlapm NotificationsProofs.tla
    tlapm AccessProofs.tla

Each run takes from a few seconds to about four minutes; the proofs
have about 9400 obligations.
