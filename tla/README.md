# Verification of Auto Drive

TLA+ modules that model the stateful core of Auto Drive (the `autonomys/auto-drive`
repository), the TLC runs that check them on small instances, and TLAPS proofs about them.
Paths below are relative to `src/`; `backend/` stands for `apps/backend/src/`.

## 1. The system

Auto Drive stores files and folders on the Autonomys network. Several **API processes** take
uploads and calls from users; three **worker processes** (`backend/app/servers/*Worker.ts`)
consume the task queues: the frontend worker migrates, tags, watches payments and runs the
periodic jobs, the publish worker, of which there is one, signs and sends transactions, the
download worker assembles downloads and strips archived data. PostgreSQL holds all durable state
and RabbitMQ the tasks. Nearly every operation is a chain of awaited queries with no transaction
around it, so each await is a point where other operations, failures and crashes come in.

| Component | State it keeps | Operations | Interacts with |
|---|---|---|---|
| Payment intents and payment manager (`backend/core/users/intents.ts`, `backend/infrastructure/services/paymentManager`, `creditExpiryJob.ts`) | `intents` rows; in memory, the worker's watchers and polling loop | create, `/watch`, confirm, grant, reprocess, expire, sweep at start | EVM chain (logs, receipts), tasks, credits |
| Accounts and purchased credits (`backend/core/users/accounts.ts`, `credits.ts`) | `accounts`, `purchased_credits`, `interactions` | charge, refund, purchase under a cap, expire, administrators' refunds | uploads, downloads, payments |
| Uploads (`backend/core/uploads`) | `uploads`, `file_parts`, `file_processing_info`, `blockstore`; in memory, the drain lock | create, upload a part, complete, abort, migrate, recover | credits, nodes, tasks |
| Nodes, publishing, archival (`backend/core/objects`) | `nodes`, `metadata`, `object_ownership` | migrate, publish, set archival data, reconcile, recover | on-chain publisher, indexer |
| On-chain publisher (`backend/infrastructure/services/upload/onchainPublisher`) | signer accounts and nonces, in memory | submit, confirm, time out, resynchronise | Autonomys chain |
| Event router (`backend/infrastructure/eventRouter`, `drivers/rabbit.ts`) | RabbitMQ queues; in memory, the cached channel and its consumers | publish, subscribe, deliver, acknowledge, retry, park as error, probe, reconnect | everything asynchronous |
| Downloads (`backend/core/downloads`) | `async_downloads`, file caches | create, progress, complete, dismiss | gateway, credits |
| S3 gateway (`backend/core/s3`, `repositories/s3`) | `object_mappings` (bucket and key to CID), version history, staged metadata of multipart uploads | put, copy, delete, list, multipart | uploads, the Trash (`object_ownership`) |
| Account deletion (`backend/core/users/deletion.ts`, `services/deletionAnonymisationJob.ts`, `apps/auth/src/useCases/deletion.ts`) | `deletion_requests` (auth), `deletion_audit_log` (backend) | request, cancel, check, claim, erase, complete or fail | auth and backend databases, credits, intents |
| Terms of use, banners, feature flags, price oracle, notifiers | small tables and caches | read, activate, accept | API |
| Auth service (`apps/auth`) | users, organizations, API keys, tokens | onboard, issue, revoke | every request |
| Contracts (`packages/contracts`) | receiver and treasury balances | `payIntent`, sweep, withdraw | payments |
| Frontend, UI, models | none that is shared | - | - |

What is hard in it, in the order in which the modules take it up:

* **Read, await, write back.** Intents and upload rows are read, carried over awaits and written
  back whole, by calls, by tasks, by log callbacks and by jobs of two kinds of process.
* **Two ledgers that must agree.** A charge commits the purchased part before it records it; every
  failure in between needs a compensation, and compensations interleave with expiry and refunds.
* **Claims that go stale.** A completion is claimed by a conditional update that another process
  may take over after a window, while the first holder is alive.
* **Fire-and-forget tasks.** `EventRouter.publish` is not awaited; recovery sweeps, redelivery and
  retries are what brings lost work back, and what repeats work that was done.
* **Names over shared content.** S3 keys and the Trash act on the same content from two front doors, each in
  several statements; whether a name is the last one is counted, then acted upon.
* **Two services, two databases.** A deletion is claimed, carried out and recorded over HTTP calls whose
  answers may be lost while the callee goes on.
* **One cached connection.** A worker's consumers follow a channel that probes replace; subscriptions,
  re-subscriptions and an unsubscribe interleave with connections that open or are refused.
* **External outcomes.** Payments and node publications happen on chains whether or not the
  database learns of it.

The hazards, each at its line, are listed in `PROJECT.json`.

## 2. Modules

| Module | Models | Read it with |
|---|---|---|
| `Payments` | intents from creation to granted credits | `core/users/intents.ts`, `paymentManager/index.ts`, `creditExpiryJob.ts`, `eventRouter/utils.ts` |
| `PaymentsProofs` | theorems about `Payments` | - |
| `Uploads` | one file upload: parts, draining, completion, charge, abort | `core/uploads/uploads.ts`, `uploadProcessing.ts` |
| `UploadsProofs` | theorems about `Uploads` | - |
| `Credits` | one account's purchased and free credits | `core/users/accounts.ts`, `purchasedCredits.ts` |
| `CreditsProofs` | theorems about `Credits`, the refinement of `CreditLedger` among them | - |
| `CreditLedger` | what purchased credits promise (abstract) | implemented by `Credits` |
| `Migration` | migrating uploads: tasks, the worker, recovery, tagging | `core/uploads/uploads.ts`, `migrationRecovery.ts`, `core/objects/nodes.ts` |
| `MigrationProofs` | theorems about `Migration` | - |
| `Publishing` | node rows: publishing, archival, reconciliation, recovery | `core/objects/*.ts`, `repositories/objects/nodes.ts` |
| `TransactionManager` | signers, nonces, inclusion, confirmation, resynchronisation | `onchainPublisher/transactionManager.ts`, `accounts.ts`, `confirmation.ts` |
| `TransactionManagerProofs` | theorems about `TransactionManager` | - |
| `S3Objects` | S3 names over content, their deletion, the Trash, multipart metadata | `core/s3/index.ts`, `repositories/s3/*.ts`, `core/objects/object.ts` |
| `S3ObjectsProofs` | theorems about `S3Objects` | - |
| `AccountDeletion` | a user's deletion requests, the checks, the erasure in both services | `core/users/deletion.ts`, `deletionAnonymisationJob.ts`, `apps/auth/src/useCases/deletion.ts`, `apps/auth/src/repositories` |
| `AccountDeletionProofs` | theorems about `AccountDeletion` | - |
| `RabbitConsumers` | a worker's channel and the consumer of a queue | `drivers/rabbit.ts`, `eventRouter/index.ts` |
| `WorkerProofs` | theorems about `Publishing` and `RabbitConsumers`: what a worker does, and how it hears of it | - |
| `MC*` | the small instances that TLC checks | - |

Conventions. One action stands for what happens between two awaits of one handler. A request or
a task is a record with a `phase` that names the await it stands at, and the values it carries from
reads made before. Names of actions and operators are those of the code where there is one. An
awaited query may fail (`Fail`, `...Fails`) and a process may stop (`Crash`), both counted by
`faults` and bounded by `MaxFaults`. Variables marked *history* in their declaration are read by
properties only: they count the events that excuse a deviation, so that a property says exactly
which events can cause it. Operators that a comment marks "Mutant" are not part of the
specification: each is the definition below it with a plausible bug, used to see that a
property would notice it. A property that a run names may be the conjunction of two or three named parts
that speak of one subject; the parts carry their own comments.

The modules stand next to each other rather than in one composition: what one needs of another is one step of it
(migration in `Uploads`, `Migrated` in `S3Objects`, the handler of the auth service in `AccountDeletion`), and the
step is one that the other module shows to be possible. The queues enter the modules whose tasks they carry as sets of
messages that may be delayed, repeated or lost; `RabbitConsumers` shows when they are read at all.

## 3. How the modules correspond to the code

The `map` of `PROJECT.json` gives the lines of every definition. What follows is what a reader
needs to see the two side by side.

### Payments

* `rows` is the `intents` table, `batches` the `purchased_credits` rows of an intent, `chain` the
  payments that the receiver contract has logged. `updateIntent` writes a whole row by id, whatever
  it now holds; a handler carries the row it read in `calls`, `watch` or `tick`.
* `triggerWatchIntent` is three actions (read, publish, write back), `markIntentAsConfirmed` two,
  `onConfirmedIntent` three (read again, grant in one transaction, write the outcome), the expiry
  job one for its SELECT and one for each conditional UPDATE.
* `Watchers` are the calls of `watchTransaction` in flight - from the queue, from a contract log or
  from the sweep at start-up - and `Ticks` the runs of the polling loop, which `setInterval` starts
  whether or not the last one has ended. `expires_at` is `lapsed`.
* `clobbers` counts writes over a row that had changed since it was read, `aborts` polling runs
  that stopped after the grant.

### Uploads

* One upload: its row (`status`; `stale` says that `updated_at` is older than the window that applies),
  its parts, its processing info, its blockstore (`chunks`, `roots`), and the drain lock of each API
  process. Deleting the row cascades to the rest, which is why one action does it.
* A request is a record whose `phase` names the await it stands at: `uploadChunk` is
  `ChunkRead`, `AcquireLock`, `GuardChunk`, `StoreChunk` and the drain; `completeUpload` is
  `CompleteRead`, `Claim`, `ReadClaimed`, the drain, `CheckRoot`, `FlushTail`, `ClearTail`,
  `DeriveRoot`, `Charge`, `Finalize` or `Release`; `abortUpload` is `AbortRead`, `AbortAge`,
  `DeleteBlocks`, `DeleteRows`. Every action that needs the row says what happens if an abort or a
  migration has deleted it.
* A part is one unit of bytes, a chunk `ChunkSize` units; the tail, the fold of the only chunk of a
  small file and the size recorded in the root are as in `uploadProcessing.ts`. A CID is its content,
  so two roots are equal exactly when their nodes are. Migration is one step here.
* `takeovers`, `recharges`, `stranded`, `torn` and `undercut` are history: claims taken over, completions that failed
  after their charge, claims whose holder is gone, writes to the blockstore without the write that goes with them,
  and an abort that has deleted the root of a completion at work.

### Credits and CreditLedger

* `batches` are the `purchased_credits` rows of one account in order of expiry, `purchased` and
  `free` the sums of its interactions. `registerInteraction` reads the account once (`Register`),
  consumes purchased bytes in a transaction (`Consume`), checks the free tier (`Guard`), and writes
  one record for each source, with the compensating refund where the code has one and none where it
  has none (`RegisterFails`).
* `CreditLedger` is what the owner is promised: a bought byte is usable, reserved by a charge, spent, expired or gone, and
  `dates` counts the expiry dates that have passed. `Ledger!Spec` is checked as a property of `Credits` with
  `usable <- active` (what `getRemainingCredits` sums), `reserved <- inFlight`, `spent <- purchased`,
  `expired <- Sum(Leftovers)`, `gone <- lost + voided` and `dates <- lapsed`. Bytes expire where a row lapses, and nowhere
  else: the job that marks rows is a stutter, because every query compares `expires_at` with the time anyway. A job
  that marked a row too early would take usable bytes, which no step of the ledger but `Expire` may.

### Migration

* Several uploads, the roots they were completed with and the blockstores of their upload rows. A
  `nodes` row is known by root, upload row and CID, and `fresh` and `published` count the copies
  because no unique index forbids two. Two uploads of one content have the same root and so the same rows. `Handlers` are the deliveries the worker handles at once;
  `InFlight` is the in-process guard `migrationsInFlight`.
* `processMigration` is `Deliver` or `Skip`, `Resolve`, `removeNodeByRootCid`, one `saveNodes` for
  each batch, the two statements of `removeUploadArtifacts` that find something,
  `scheduleUploadTagging`, or `Park`. `recoverMigrations` and `markMigrationRecoveryAttempt` are the
  two statements of the recovery pass; `CompleteAgain` is the re-drive by a client.

### Publishing

* The rows of the `nodes` table as sets: those published (`pub`), with a piece (`piece`), with data
  (`data`); the metadata flag (`archived`); what is on chain (`chain`) and archived by the network
  (`dsn`). One CID can be in rows of several roots and heads, and the actions follow the key each
  query uses: by CID (`setPublishedOn`, `SetPieces`), by root (`hasAllNodesArchived`, `Strippable`,
  `Stuck`), by head (`checkArchivalStatusForObjects`).
* `publishNodes` is `Deliver` (its reads), `handleRepeatedNodes` (which writes what was read),
  `Include` for each remark, `submit`, and one `setPublishedOn` for each node. The listener is
  `processNodeArchived` and `checkObjectsArchivalStatus`, reconciliation is `reconcile` and
  `checkArchivalStatusForObjects`, the task `object-archived` is `markAsArchived` and
  `removeNodeDataByRootCid`.

### TransactionManager

* `pool`, `trxCounter` and `nonceByAccount` are the variables of `createAccountManager`; `tx` is the
  closure of each `submitTransaction`: `inclusionSeq`, the lookups of blocks in flight, the inclusion
  block and the confirmation check in flight. `fork`, `buried` and `mempool` are the chain and the
  pool of the node.
* A status callback with `isInBlock` is part of the block that includes the extrinsic (`Watch`);
  the lookup of that block (`targetInclusion`), the start of a check and its decision
  (`checkConfirmation`, `confirm`) are separate because they are awaited. A failure leaves the
  transaction in phase `recover` until the account is resynchronised or removed (`recover`); a call
  with a failure is submitted again as a whole by its task (`submit`).

### S3Objects

* `key` is `object_mappings` (content, `deleted_at` as a stamp or 0, metadata), `trashedAt` the user's
  `object_ownership.marked_as_deleted`, `mpu` and `staged` the rows of `uploads` and `multipart_upload_meta` for
  multipart uploads. Contents in `Shared` have another owner, so that trashing them does not hide them
  (`isObjectDeleted`).
* A request is a record at an await: `putObject` is `PutObject`, `Own` (`setUserAsAdmin`, which un-trashes) and
  `createMapping`; `completeMultipartUpload` adds the claim, `Flip`, `ReadMeta` and `Unstage`; `copyObject` is
  `CopyObject` and `Authorize`; `deleteObject` is `DeleteObject` (look-up), `Count`, `CheckOwner`, `StampTrash`,
  `Hide` and, if it was not the last name, `Recount`. `TrashObject` and `RestoreObject` are the calls of the web
  application on the same content.
* `now` is the clock: every stamp advances it. The Trash is stamped by the API server (`new Date()`), names by the
  database (`NOW()`); they are taken to agree.

### AccountDeletion

* `status` is `deletion_requests`, `audit` what `deletion_audit_log` says, `live` the kinds of data there are
  (ownership rows, credits, intents, keys, membership, user name, avatar), `account` whether the organization has an
  account. `call` are the user's calls, `check` executions of `runAnonymisationCheck` with the rows of their
  snapshot, `handler` the execution of `anonymiseUser` in the auth service for a row, which outlives its caller.
* `processAnonymisation` is `Claim` or `ClaimLost`, `Ownership`, `Lookup`, `Credits`, `Intents`, one `Log` for each
  audit entry, `Anonymise`, `Answered`, `Complete`, `Fail` or `FailLost`; `Throws` is a failed query or a lost answer
  at any of them. `AnonymiseUser` is one statement of the handler.

### RabbitConsumers

* Its initial states, steps and types are `DriverInit`, `DriverNext` and `DriverTypeOK`, so that `WorkerProofs` can extend it
  and the module of a worker's tasks.
* `current` is `channelPromise`, `chan` the channels by what has become of their promise; `registered` says that the
  callback is in `subscriptions`, `active` and `cons` are `activeConsumers` and the consume calls behind it,
  `superseded` the consumers that `ensureConsumer` is about to cancel.
* `task` are calls that subscribe: `Main` is `startConsumer`, and each channel has its
  `resubscribeAfterReconnect`. `tick` are executions of `keepAlive`; `stop` is the call that unsubscribes.
* Code between two awaits is one step, and an await of a promise that is settled lets nothing else in: tasks that
  awaited a channel go on when it opens, before the re-subscriptions that its opening starts (`Ready`, `Quiet`).
* `Restart` stands for the process that stops when a callback ends after its channel has closed: neither `ack` nor
  `nack` is possible then and the rejection is handled by nobody (`rabbit.ts:261-264`).

## 4. Runs

Every cfg gives the constants their values and nothing else. All but `rabbit_reconnect`, whose probes go on for
ever, say `CHECK_DEADLOCK FALSE`: calls, uploads, transactions, requests and faults are finite in every instance, and
when all are done the system rests.

| Run | Instance | Shows |
|---|---|---|
| `payments_overlap` | 1 intent, 1 payment of 1 or 2 at price 2, 1 API call, 2 watchers, 2 ticks, no fault | two confirmations, two polling runs, expiry and a `/watch` or `/reprocess` overlap in every order: grants are paid for and rows do not mix outcomes (`PaymentsTruthful`), extra grants are explained, only `/watch` erases a payment |
| `payments_settle` | 1 watcher, 1 tick, a task with one retry, 2 faults, `FairSpec` | a recorded payment is settled, and the start-up sweep recovers a payment that the task and the log missed (the safety of grants under faults is the theorem `ExtraGrantsCounted`) |
| `uploads_claim` | 3 requests over 2 processes, 2 parts, 1 fault, completions may outlast the window | every charge and every root beyond the first has an excuse and all answers name one CID (`OnceChargedAndNamed`), neither a claim nor a drain lock is left behind (`NothingLeftHeld`) |
| `uploads_content` | 4 requests that a client does not overlap, 3 parts of 2 contents, chunks of 2, 1 fault | one root, which is the upload; a completion covers what is stored |
| `credits_overlap` | 2 charges of 1 or 3, 2 purchases of 1 or 2 under a cap of 3, 1 month, 1 update, 1 fault | charges are exact and lost bytes are explained (`ChargesBalance`), the cap is kept, batches are drawn on in order of expiry and the free tier is overdrawn by overlapping charges only, and by no more than those are charged for (`DrawsKeepRules`), the ledger is implemented: usable bytes are only reserved, refunded or, as their date passes, expired (`LedgerKept`) |
| `migration_redrive` | one folder uploaded twice, with two files that share a chunk which one repeats within and across batches, 2 slots, lost first tasks, 1 fault, `FairSpec` | no node is lost, none is in the table more often than the content was uploaded, published rows of a finished upload are taken away only by the migration of the other, every upload leaves `MIGRATING`, what is tagged is published and so is everything if nothing fails (`UploadsArrive`) |
| `publishing_archive` | a folder with a file and the same file on its own, 1 worker, batches of 2, 1 fault, `FairSpec` | no row is unpublished without data, rows tell the truth, only objects of one's own nodes are archived, objects that begin to be published are published and archived (`ObjectsEnd`) |
| `publisher_confirm` | one call of 2 transactions over 2 accounts, depth 1, 2 slots, 2 faults, `FairSpec` | what is reported published is final, a nonce is shared only after a reset and no gap is silent (`NoncesSound`), the call succeeds in the end |
| `s3_names` | 3 requests, 2 names, 2 contents of which another user holds one, 1 multipart upload, 1 fault | a content without names is in the Trash, what a write answered stays readable, staged metadata is not lost, a restore brings the last name back |
| `s3_retried_delete` | as above without faults | **violated**: finding 1 |
| `deletion_checks` | 2 calls of the user, 2 checks, 2 requests, 2 faults, credits that the user goes on buying, `FairSpec` | a cancelled request is spared and a completed one has erased what there was (`ErasureFollowsRequest`), every due request ends unless its check crashed or could not mark it failed |
| `rabbit_reconnect` | 2 overlapping probes, 1 retry, 2 refused or lost connections, `FairSpec` | no consumer delivers behind the driver's back, a registered callback gets its messages again |

### Bounds and why they are enough

* *One intent, one upload, one account.* Code and queries touch one row each; rows of different
  intents, uploads or accounts meet only in what other modules model (the account in `Credits`, shared
  CIDs in `Migration` and `Publishing`).
* *Two of what overlaps.* The properties relate two reads and a write; two watchers with two
  ticks and a call are the smallest instance with all pairs. Three requests allow a claim, its takeover
  and an abort or a part next to them.
* *Units.* A price of 2 with payments of 1 and 2 gives dust and one byte; parts of one unit with
  chunks of two give a file that is a tail, a single chunk folded into the root, or a chunk and a tail; a batch
  of two blockstore rows gives a repeated chunk across a batch boundary.
* *Faults.* `MaxFaults` bounds failed queries, lost messages, redeliveries, crashes and
  reorganisations together. One fault at every point is the partial failure a test would have to
  inject; two in `payments_settle` and `publisher_confirm`, where a failure of the recovery matters.
* *Depth and turns.* The block of a transaction is known by its distance from the head, so
  the depth bounds the chain. `Turns` wraps `trxCounter`, which is only used modulo the size of the pool.
  The instance was also explored with depth 2, with three faults, and with three
  transactions in two calls; no property failed. `Slots` is the number of transactions, which is not so of the deployed
  defaults. `EventuallyPublished` says what it promises in either case: with fewer slots, only that a call succeeds as long as nothing
  fails (explored with one slot and no fault). Why a failure then need not heal is in section 6.
* *Queues.* `MaxQueued` bounds the tasks of one upload; more of them do what one does, because a
  delivery during a run is dropped.
* *Two uploads of one content.* `removeNodeByRootCid` goes by the root CID, so they are the uploads that can disturb each other, and the
  run has only them: two slots may migrate both at once, or one after the other is published. Uploads of different
  roots share no rows; that their runs leave each other's rows alone is part of the theorems, which have any number of
  uploads, contents and roots.
* *Names.* Two names make a deletion the last one or not, and three requests are two that race and one that
  prepares or observes (a retry, a write under the name, a restore). A second multipart upload would meet the first
  only in the name it writes, as a `PutObject` does.
* *Requests for deletion.* Two rows are what two overlapping requests leave, or a failed one with the next; two checks
  are two workers, or one that outlasts its interval. `Renewed` lets the user make credits meanwhile, the only
  kind whose look-up and expiry are apart.
* *Connections.* Six channels and six consumers are more than can be referred to at once, and
  `RabbitConsumers` uses again what nothing refers to; the guards of `Connect` and `ensureConsumer` name the bound, and
  TLC, which has to evaluate the CHOOSE of a free one, would stop if there were none. The code retries a re-subscription twice; once is enough to
  meet an unsubscribe between attempts and to give up. Two losses break a connection and its successor.

Symmetry is used in runs without liveness, over model values that no definition distinguishes.

### Fairness

* `Payments`: the promises, timers and consumers of the worker go on (weak fairness of each step),
  the broker delivers a task and the sweep visits an orphan when a watcher is free again and again (strong
  fairness, because watchers are taken by logs in between), and a stopped worker is restarted by
  its container. Nothing is assumed of users, of the chain or of logs.
* `Uploads`: a started request goes on, because promises settle. Nothing is assumed of clients.
* `Migration`: handlers go on, the broker delivers in turn (strong: both slots may be busy), time
  passes. The recovery job puts its pass off while the queue is busy
  (`migrationRecoveryJob.ts:11`), so only `QueueIsEmpty /\ recoverMigrations` is fair.
* `Publishing`: handlers go on, batches are delivered in turn, blocks are made and archived, the timers of
  both recovery jobs run. No mapping of these nodes need ever be pushed; that mappings of *other*
  content keep coming (`processNodeArchived({})`) is assumed, as it is what triggers the listener's check.
  Recovery is fair for each root although it takes the stuck roots in batches; section 6 names the limit.
* `TransactionManager`: blocks take what is ready, awaited calls return, a stuck transaction times
  out after `transactionTimeoutMs`, the task of a failed call is retried or found again by the recovery of
  `Publishing`. Registering and sending are strongly fair: an outage during which the nonces cannot be read
  ends now and then, and a slot that is taken is given back.
* `AccountDeletion`: the interval starts check after check, a check goes on until it ends or its worker stops, and so
  does the handler of the auth service. Nothing is assumed of the user.
* `RabbitConsumers`: `startConsumer` is called, a connection is established or refused, the broker answers a consume,
  awaits end and the interval goes on. Nothing is assumed of unsubscribes, of publishes and of lost channels.
* `S3Objects` has safety properties only: its calls are retried by clients, of whom nothing is assumed.
* A restart, a release or a redelivery is never assumed to succeed at a given time: faults may take any
  of their places until `MaxFaults` of them have happened.

## 5. Findings

1. **A retried deletion trashes another name** (`s3_retried_delete`). `deleteObject` looks its name up and then counts
   the active names of the content, in two queries. If a retry of the same call has hidden the name in
   between - or a write has replaced what it maps to -, the one name that is counted is another: the content goes to
   the Trash and that name answers 404. The comment at `core/s3/index.ts:616-618` says that the count includes the
   name being deleted.

## 6. What else the models say about the code

These follow from the actions as they are; no property claims the opposite.

* *Payments.* Two runs can grant twice for one payment (`ExtraGrantsAccounted` says when). A
  confirmation writes CONFIRMED over COMPLETED when both read PENDING (`intents.ts:182`).
  The expiry job selects intents without `tx_hash` and then updates each `WHERE id AND status = 'PENDING'`
  (`repositories/users/intents.ts:123-125`, `144`): an intent that `/watch` gives its hash between the two expires
  nevertheless, and its payment is then ignored by `markIntentAsConfirmed` and by the sweep.
  `addCreditsToAccount` documents an update of the account that it does not make (`intents.ts:296-299`,
  `accounts.ts:420`).
* *Uploads.* A completion that fails between charge and flip charges again when retried
  (`uploads.ts:453`). With slow completions several roots may be derived (`config.ts:134`); then none is
  answered with. The root covers the chunk rows present when it is derived while its size is that of the
  parts stored then (`uploadProcessing.ts:198`); the size check of the next completion notices. A release
  is by status, not by holder, so a late one frees the claim of a successor
  (`repositories/uploads/uploads.ts:190`). An error of the read right after the claim strands it until it goes
  stale (`uploads.ts:423`). `abortUpload` reads the status once and deletes unconditionally (`uploads.ts:707`, `744`,
  `766`): a completion can claim, finish and answer in between, and its upload is gone. The comment at
  `uploads.ts:745-747` says that a live completion is not abortable; an abort that read the row as `PENDING`, or when the claim looked stale, deletes
  its root all the same (`undercut`), and a completion that takes the claim over may then derive, and answer with,
  another CID than the first.
* *Credits.* Two overlapping charges that read the free tier before either records are both admitted
  (`accounts.ts:280`, `314`). A failed free-tier query keeps consumed bytes (`accounts.ts:297`). A compensating
  refund can refill a batch that an administrator has refunded (`purchasedCredits.ts:417`). The finalisation of a
  folder calls a negative balance something that "should never happen" (`uploadProcessing.ts:329-331`); two admitted
  charges, or a limit that an administrator lowers, leave one, and the folder cannot be completed until the balance
  recovers. Two first requests of an organization may both create its account, and `getByOrganizationId` returns
  either (`repositories/users/accounts.ts:44-53`), in whatever order the table is read.
* *Migration.* A crash between the two statements of `removeUploadArtifacts` leaves an upload without a root: the
  redelivered task parks it as FAILED although its nodes are in place, and nothing tags it. A tag message that is
  lost after the rows are gone is not sent again. Nodes are cleared by root CID, which two uploads of one content share
  (`core/objects/nodes.ts:229`). The comment before it says that only nodes which are not yet published are affected, that a
  concurrent run cannot race the delete and the insert, and that each run produces a clean set; all three hold of
  content that was uploaded once only. Migrating the second upload deletes published rows of the first and inserts them as new,
  to be published again (`PublishedNodesKept` allows just this), and two runs at once leave up to two rows of each node
  (`NoDuplicateNode`). `config.ts` says that `processMigration` is not guarded against
  concurrent runs; it is, by `migrationsInFlight`.
* *Publishing.* A folder is marked as archived when the nodes under its own head are, which is less than
  `docs/file-lifecycle.md:64` says of files; the rows of its files lose their data at the same time, and their heads
  are found by the check by root only if they are roots as well. An object of which nothing was published is
  not recovered. `handleRepeatedNodes` may overwrite a piece with NULL; reconciliation
  restores it. `handleRepeatedNodes` does not strip rows of archived heads. Recovery and reconciliation take a
  bounded number of rows with no order that rotates, so rows that keep failing can starve others
  (`repositories/objects/nodes.ts:276`).
* *On-chain publisher.* A batch (50, `core/uploads/uploads.ts:616`) is larger than the slots (40, `config.ts:247`). If nonces
  are read again while transactions of the account wait for a slot, those are sent with nonces that the chain then has, and the counter
  is behind: of the next attempt the first transaction fails with an outdated nonce, the nonces are read again in the
  same way, and so on, while the others are published anew each time. The model has this loop with fewer slots than
  transactions. Its nonces grow without bound, so no finite run ends in it; `EventuallyPublished` excepts it (`SlotsSuffice`). A failure sends
  the whole batch again. An account that the node refuses in `signAndSend` is resynchronised, not removed.

* *S3.* Two deletions of the last two names both find the other and both take the second count: the
  Trash is stamped after both names are hidden, so a restore brings back neither, unlike what
  `objectMappings.ts:460-464` and `object.ts:371-373` say of the order. `softDeleteMapping` returns the CID it hid for its
  caller to use (`objectMappings.ts:426-429`); `deleteObject` does not. A repeated completion of a multipart upload names
  its content again after it was trashed, and overwrites the name with no metadata once the staged row is gone. Staged
  rows are removed by completions and aborts only.
* *Account deletion.* The look-up of a pending request and the insert are two queries and no unique index stands behind
  them: two calls leave two requests, a cancellation cancels the later, and the other is carried out. A check whose claim fails
  marks the request failed even when another check is processing it (`core/users/deletion.ts:127` calls the claim
  race-safe): the backend's data are erased, the request says failed, and the auth service refuses. `PROCESSING` rows
  are not swept and `FAILED` ones not retried; a new request of a user whose membership is gone fails every time.
  A sign-in after the anonymisation writes user name and avatar back (`apps/auth/src/useCases/users.ts:143-156`); what
  the user makes during the run survives it; an intent is not expired if the user has no account; a crash
  between an update and its audit entry loses the entry. `GET /users/:publicId` awaits without a `try`
  (`apps/auth/src/controllers/user.ts:570-579`), which in Express 4 turns a user without an organization into an
  unhandled rejection. `config.deletion.gracePeriodDays` is not read; the auth service has its own constant of 30 days.
* *Queues.* `stopTaskErrors` has no handle for a subscribe that was rejected, and a later reconnection starts that consumer
  all the same (`eventRouter/index.ts:29-32`, `129-130`). An unsubscribe that finds a re-subscription past its check and
  waiting for its channel does not stop it (`slipped`). `keepAlive` nulls whichever channel is cached when
  its probe fails (`rabbit.ts:191`), so of two overlapping probes the later discards the channel that the earlier
  has opened. A callback that ends on a closed channel can neither acknowledge nor reject its message, and the
  rejection stops the worker, although `rabbit.ts:66-70` speaks of redelivery only.
* *Downloads.* `asyncDownload` returns its errors as values, so the retries of its task never apply, and an early error
  leaves its row Pending; the status Downloading is never written; Completed and Failed overwrite Dismissed;
  progress is written without waiting and may arrive after the end.

## 7. Proofs

`tlapm` checks every theorem to its leaves. Proof modules extend the module they are about and TLAPS.

**PaymentsProofs.** The inductive invariant is `Inv == TypeOK /\ ReferencesHold /\ SnapshotsChecked`:
references from watchers, ticks, calls and orphans lead to rows that exist (`ReferencesHold`), and a row that a
handler carries was in a status its guard allowed (`SnapshotsChecked`). Types alone are not
inductive, because a watcher dereferences `chain[tx].intent` and a tick divides by the price of a row. From
it follow `TypeCorrect` and, with a step-by-step count of the terms, `ExtraGrantsCounted`. `TruthHolds` and
`ErasedOnlyByWatch` rest on a second invariant, `Truth`: what is required of the rows in the table is required of every
row that a call, a watcher or a polling run still holds, because `updateIntent` writes the whole row back. A held row does not
become false while it is held, since a payment stays on the chain, a granted batch stays granted, and the price of an intent
never changes - so a stale write loses an update but never puts a false row in the table.

**MigrationProofs.** `Inv == TypeOK /\ PhasesHold /\ BlocksHold /\ ObjectsSafe`. `PhasesHold` ties what a run has
saved to its phase and position, `BlocksHold` ties the blocks and the status of an upload to the runs on it, and
`ObjectsSafe` is the strengthening of `NoNodeLost` that speaks of the run which is deleting and inserting.
No theorem assumes that roots differ. `PublishedStay` says who takes published rows of a finished upload away: a run that
clears their root for another upload, which by `PhasesHold` and `BlocksHold` still has its row and its blocks. `NodesAreSingle` has
the invariant `Bounded`: the rows of a node, and the uploads of its root whose run has cleared it but has yet to come to the
node (`Pending`), are together no more than the uploads of that root. Clearing leaves no rows, and one upload has one run at a time; a
batch moves an upload from `Pending` to a row, and for a chunk that the blockstore held before it has nothing to move.

**WorkerProofs**, of `Publishing`. `Inv == TypeOK /\ NoneUnrecoverable /\ RowsTellTruth /\ WorkHolds`, where `WorkHolds` says
that what a worker carries from its reads is still true of the chain and the archive. It yields
`TypeCorrect`, `NothingUnrecoverable` and `RowsAreTruthful`. `ArchivedAreOwn` has an invariant of its own about the
heads on their way to being marked, and assumes `ContentDecides`: a head determines the CIDs under it, in
whatever root - which content addressing gives, and which the instance of `publishing_archive` satisfies.

**WorkerProofs**, of `RabbitConsumers`. `DriverInv == DriverTypeOK /\ Deregistered /\ ConsumersKnown`, for any number of channels,
consumers, probes, retries and losses, with no assumption but that these are numbers. `ConsumersKnown` extends `NoStrayConsumer`
from consumers that deliver to those that were asked for and not yet answered, because an answer makes one of the other.
`Deregistered` says what holds while no callback is registered, before `startConsumer` and after an unsubscribe: none is
entered, and no subscription waits for a channel on which it would enter one, unless one did at the unsubscribe (`slipped`).
`ensureConsumer` is shared by three actions, so what it does is one lemma (`Ensured`), and a step that only opens a
channel is another (`OnlyConnects`). The theorems are `DriverTypeCorrect` and `NoneStrays`. The proof allowed
`NoStrayConsumer` to say more than it did: a consumer that is entered is excused only while the callback is registered, which is
when an unsubscribe finds it.

**AccountDeletionProofs.** `Inv == Typed /\ WorkIsClaimed /\ LeftIsLive /\ WorkIsDone /\ ErasureFollowsRequest`. That a
cancelled request is spared follows from `WorkIsClaimed`: a check past its claim, a handler of the auth service and erased
data belong to rows that were claimed, and a claimed row is out of the user's reach. That a completed one has
erased everything needs `WorkIsDone`, which ties what is left of the data at the claim to the phase of the check and, because
the handler outlives its caller, to the phase of the handler. `ErasuresFollowRequests` needs no assumption.

**S3ObjectsProofs.** `Inv == Typed /\ MetaInv /\ AckInv /\ TrashInv`. `MetaInv` follows the staged metadata from the claim
to the name; `AckInv` says that an undisturbed write is alone and that a removal has taken back what was promised
before it can trash anything; `TrashInv` says who guards content without names (a deletion that is about to count a second
time, or the Trash) and that a last name is hidden no earlier than its content is trashed. The one assumption is that `Keys` is
finite, for the count of names. The proof showed that `lastHidden` has to be forgotten when another name is given to
the content: with four requests, more than the run has, the property as it stood was refuted.

**UploadsProofs.** Nine invariants over one lemma that lists what each step of a request does (`Steps`). `ClaimsCounted`
bounds the charges by the claims that may still charge; `NamesHold` relates what is answered to the root
in the blockstore, and cannot do without `undercut`: the attempt to prove that all answers agree led to the abort of section 6,
which needs four requests. `CompletersCounted` and `RootsCounted` bound the roots however long a completion takes: a claim is given
by a pending row or taken over, so that the completions at work are at most one more than the takeovers, even if one
hands back the claim that another holds; and once there is a root, none of them joins those that are about to derive one.
`NothingIsLeftHeld` and these four need no assumption beyond finitely many requests. `CompletionCovers` assumes
`Ordered`, a client that does not overlap its calls; `OneRootIsDerived` assumes `~Slow`, no completion that
outlasts the window. `RootIsTheUpload` assumes both, and one API process: the drain lock is in the memory of a process
(`uploads.ts:169`), so that two processes may drain one part twice, and the theorem would be false of them. Its invariant
`ContentHolds` says of each await of the drain how the chunks, the tail and the cursor cover the stored parts. `Flatten` is a recursive
function over the chunks; what the proof needs of it (`FlatRecursion`, and `FlatOfMore`, that a longer sequence of chunks has the concatenation of
the shorter one as a prefix) is proved from a minimal counterexample, which well-foundedness of `<` gives without an
operator as a parameter.

**TransactionManagerProofs.** Types need that `accountNextIndex` has an answer: a finite pool does not hold every nonce
(`SomeAreFree`). `PublishedStays` rests on `BlocksKnown`: a block that a transaction knows, by lookup or as its inclusion block, and
that is canonical, holds its extrinsic at the depth it is said to have, or is buried. A step of the chain, a new block
or a reorganisation, is one operator (`NewHead`), so each invariant meets it once. `NoncesAreSound` rests on
`NoncesInv`: for every length of the chain that a reorganisation can fall back to, the nonces of each account have no gap and no
extrinsic is in two blocks (`ChainHolds`); the node's pool has one extrinsic for a nonce and none behind the chain
(`MempoolHolds`); a nonce in use that saw no reset is behind the next one (`NoncesBehind`); and between the chain and the next
nonce of an account without a failure to recover from, every nonce is in the node's pool or queued (`NoGap`). The assumption
on the constants that is not a bound is that no account is in the configuration twice, which the keyring gives.

**CreditsProofs.** The balances of `Credits` are sums over rows and over calls, folded by the community modules, so the first
part of the module proves what a sum is: that of a finite set exists and is unique, is a number, loses and gains a term with an
element, and adds up. Each is proved from a counterexample with the fewest elements. `ShareTakes` and `ShareTotal` say what the FIFO spread of
`Share` gives each row and in all. Then each step of a charge, a purchase, an administrator or time is a lemma (`OfConsume`, `OfRefund`, ...)
about the sums it moves, and the invariant `Inv == Typed /\ CapSound /\ ChargedExactly /\ RoomLeft /\ TierSound` is kept by
arithmetic over them. `CapSound` adds to `CapHeld` that the one purchase that holds the advisory lock still fits. `RoomLeft` adds to the
excuses for a loss that, as long as no row has lapsed, what charges hold is no more than what the rows have given: a
refund of a batch only adds to that. `TierSound` says that what the guard promised a charge of the free tier is still to be had when it
records, whatever an administrator or the calendar does, but for what overlapping charges were charged for meanwhile. The theorems are
`TypeCorrect`, `ChargesAddUp`, `CapIsHeld`, `RulesKept`, and `ImplementsLedger`, the refinement of `CreditLedger`: an inserted
batch is its `Buy`, a consumption its `Reserve`, the record of a purchased interaction its `Spend`, a refund to rows,
a refund that finds no room, a failed query and a crash its `Release`, a lapse its `Expire`, an administrator's refund its `Refund`,
and every other step changes nothing it sees. That rests on `RowsSplit`: what rows hold is what usable rows hold and what the
others have left, and for each step on how both change (`UsableGain`, `LeftNoMore`). The one assumption that is not a type is that `Charges` is finite.

Each invariant was checked by TLC, on the instances of the runs or on smaller ones, before it was proved.

**Model-checked only**: liveness, which is out of the prover's reach (`PaymentsSettle`, `UploadsArrive`, `ObjectsEnd`,
`EventuallyPublished`, `DeletionEnds`, `ReaderReturns`), and the finding of section 5. Every other property of the runs,
invariant or action property, is a theorem.

## 8. Abstractions

* A failed query has no effect. Statements in one transaction are one action, with a rollback as a
  separate one; reads that no write of another party can tear for a property are joined (the reads of
  `publishNodes`, the read and write of a reconciliation batch, the insertion of an object's rows in `Publishing`).
* `EventRouter.publish` is not awaited: a message is sent or, as a fault, lost. A handler's retry
  is published before or after its task is acknowledged, and a task whose retries are used up is in
  the error queue. `listenTaskErrors` reads that, where Slack alerting is configured, to report the task; nothing tries it again.
* `TransactionManager`: a dropped block does not come back, a reorganisation takes at most `Depth` blocks and
  brings one more, a call that failed is submitted again after its recoveries have run, the order
  in which `pLimit` starts waiting transactions is left open, `accountNextIndex` counts the pool of the node.
* Time is a flag (`stale`, `lapsed`) that may be set as soon as the code could see it set.

* `S3Objects`: one user; contents were uploaded before, so each has its ownership row, and an upload is one step up to
  `setUserAsAdmin` (`Uploads` has its parts). A history variable `acked` holds what an undisturbed write promised.
* `AccountDeletion`: one user; kinds of data, not rows; a call of the auth service is one step of the caller, its handler
  steps of its own.
* `RabbitConsumers`: one queue, whose messages are left out; a consume fails only with its channel, because AMQP
  answers a wrong one by closing the channel; `close` at shutdown is left out.

**Not modelled**, and why:

* *Downloads*: the rows are written by one worker whose errors are values; a model has no property beyond
  the assignments (section 6 says what follows). Charging a download is the free-tier half of `registerInteraction`.
* *Folder uploads*: their rows are file uploads under a parent (`Uploads`) and the parent is finalised by
  `handleFolderUploadFinalization` from the artifacts of its children, without parts, drain or lock; `Migration` has
  the folder.
* *Account creation, terms of use, organizations, API keys, banners, feature flags, prices*: one statement or one
  transaction for an operation. (Section 6 has the creation race.)
* *Row locks* that two batch refunds could take in different orders; *tag contents*, *caches*, *listings*, *version history*,
  *delete markers*, range reads, XML, encryption and compression; the frontend and the contracts.
* Three hazards that no property claims to be absent, because the code does not exclude them. Drain locks are in the
  memory of a process (`uploads.ts:169`): calls that overlap in two processes may drain a part twice - the instance of
  `uploads_claim` has them, and only `uploads_content`, whose client does not overlap its calls, speaks of content. A
  batch of 50 transactions waits for 40 slots (section 6; `EventuallyPublished` excepts it). An object of which nothing was ever published is
  not found by recovery (`repositories/objects/nodes.ts:472`), which is why `ObjectsEnd` speaks of those that began.

## 9. Plan

The model has what is planned of it, and every safety property of the runs is a theorem. What is worth adding when the code
of these parts grows logic of its own: downloads, once the errors of their worker reach its retries (section 6), and the
parents of folder uploads, once they are claimed as files are.
