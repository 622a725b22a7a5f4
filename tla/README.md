# LawProtect365: verification project

TLA+ models of the services of LawProtect365 (`src/services`, `src/packages`), the TLC
configurations that check them on small instances, and theorems checked by TLAPS.

## 1. The system

LawProtect365 lets a user put a document into an *envelope*, invite signers by e-mail, and
collect electronic signatures. It is a set of AWS Lambda services in TypeScript over one
Postgres database (Prisma), DynamoDB tables, S3, KMS, Cognito and EventBridge.

| Component | State it keeps | Operations | Talks to |
|---|---|---|---|
| signature-service: envelope requests (`orchestrators/use-cases`) | `SignatureEnvelope`, `EnvelopeSigner`, `Consent` rows; signed PDFs in S3 | create, send, cancel, update, share view, sign, decline, queries | tokens, KMS, S3, audit, Document Service, outbox |
| signature-service: invitation tokens | `InvitationToken` rows | issue, view, mark signed, mark resent | envelope requests, reminders |
| signature-service: reminders | `SignerReminderTracking` rows | check, record, resend | tokens, outbox |
| signature-service: audit trail | `SignatureAuditEvent` rows | insert, list | every use case |
| shared-ts: outbox | DynamoDB outbox table and its stream | save, process a stream record, publish | EventBridge |
| shared-ts: idempotency, rate limit | DynamoDB records with TTL | get, putPending, putCompleted; incrementAndCheck | controllers |
| notifications-service | `Notification` rows | process an event, retry, send directly | EventBridge, e-mail, SMS, push |
| auth-service | `User`, `OAuthAccount` rows; the Cognito user pool | link and unlink a provider, roles, status, Cognito triggers | Cognito, outbox |
| documents-service | documents and inputs in DynamoDB, files in S3 | create, upload, update, lock, delete | S3, signature-service |
| frontend-core, apps/web | none that is shared | calls the services | all services |

`admin-`, `calendar-`, `cases-`, `chatbot-`, `kyc-`, `payments-`, `reports-` and
`search-service` hold no source.

### What is hard

A use case is an `async` function that reads rows, decides, and writes rows with several separate
calls; **no use case of the signature service opens a database transaction** (every repository
method has a `tx` parameter that no caller passes). Every `await` is a point where another Lambda
may run, and where this one may stop for good.

* *Stale whole-entity writes.* `SignatureEnvelopeRepository.update` writes every defined field
  of an entity read earlier, status included; so do the repositories of tokens, notifications and
  users, and `DocumentRepositoryDdb`.
* *Check, then write.* `completeEnvelope`, `deleteSigner`, `createConsent`, `markSignerAsSigned`,
  `declineSigner`, the reminder gate, `shouldAllowUnlinking` and the document commands look at a row
  in one call and write it in another. What stands behind some of them are unique indexes, foreign
  keys, check constraints and conditions of DynamoDB puts.
* *Half-done work.* Nothing undoes or resumes a request that failed between two writes.
* *Joint completion.* Nobody coordinates the last two signers: each checks whether it was last.
* *Delivery at least once* of stream records and events, and retries around calls that may have
  succeeded.
* *Two stores.* A request changes DynamoDB and Postgres, or the user pool and Postgres, one after
  the other.
* *Lagging reads.* documents-service reads a document from a DynamoDB index that lags behind the
  table, and then puts the whole item.

What makes each component correct, and the module that states it:

* *Envelope requests* (`Envelope`, `EnvelopeLifecycle`): a signer's document is signed once; a
  SIGNED row is complete and is not unmade; COMPLETED means everyone signed and hands out one of the
  signatures' documents; the hash recorded with it belongs to a signing; the last signature completes
  the envelope; the pieces add up to a business step.
* *Tokens and reminders* (`Invitation`): a used token stays used; the reminders sent are bounded.
* *Outbox* (`Outbox`): every event saved is published or reported, in order, and twice only after
  a fault.
* *Notifications* (`Notification`): a notification marked SENT was sent, and was sent again only
  after a fault; its retries are bounded.
* *Rate limit* (`RateLimit`): a window lets at most `maxRequests` through.
* *Idempotency* (`Idempotency`): one at a time of a request's repetitions runs its computation.
* *Users* (`Accounts`): the user pool agrees with the row; a blocked user is signed out, and gets no
  tokens after that; tokens issued since the last sign-out claim the row's role; one provider stays
  linked.
* *Documents* (`Documents`): a deleted document stays deleted; a document does not change once its
  envelope was sent; a lock goes by its owner's request.

## 2. The modules

| Module | What it is |
|---|---|
| `Envelope` | One envelope and the requests that work on it, one action per awaited database call; its properties |
| `EnvelopeLifecycle` | The abstract specification: a status and the participants' statuses, changed by business operations |
| `MCEnvelope` | Model values and request symmetry for TLC; the four `MCEnvelope_*.cfg` are its runs |
| `Envelope_proofs` | Theorems: types, signing, stale writes and the table's constraints, completion, the lifecycle |
| `Invitation`, `MCInvitation`, `Invitation_proofs` | The tokens and the reminders of one external signer; instance; theorems |
| `Outbox`, `MCOutbox`, `Outbox_proofs` | The outbox table, its stream, the handler and the bus; instances; theorems |
| `Notification`, `MCNotification`, `Notification_proofs` | The notification rows of one event, its deliveries and its retries; instance; theorems |
| `RateLimit`, `MCRateLimit`, `RateLimit_proofs` | `RateLimitStoreDdb` for one key: one action per request to DynamoDB; instance; theorems |
| `Idempotency`, `MCIdempotency`, `Idempotency_proofs` | `IdempotencyRunner` over `IdempotencyStoreDdb` for one key; instance; theorems |
| `Accounts`, `MCAccounts`, `Accounts_proofs` | One user: row, linked accounts, user pool, sign-in triggers, administration; instance; theorems |
| `Documents`, `MCDocuments`, `Documents_proofs` | One document: item, index, the commands; instance; theorems |

The modules meet at narrow points and are not composed into one state: `Envelope` knows of a token
only that it was issued, and `Invitation` knows of a signing only that it succeeds or fails; every
use case saves its events in the outbox as its last step, and whether it does is independent of what
was saved before, so `Outbox` starts from any sequence of saves; the bus of `Outbox` may hold an event
twice, and `Notification` starts from an event delivered several times; `Documents` sees of an
envelope whether it still is a draft.

### State of `Envelope` and the code

* `env` is the `SignatureEnvelope` row (`packages/shared-ts/prisma/schema.prisma`), without
  title, source and flattened keys, which no modelled decision reads. A timestamp is a Boolean: is it
  set? `signedKey` names the signed PDF by the request that made it; `signedSha` tells apart the
  signature's own bytes (the code's `signatureHash`, `KmsService.ts:87`) and the hash of the PDF *before*
  the signature was embedded, which the code writes into the same column one after the other, from
  the hash of the PDF that is stored under `signedKey`, which it never writes.
* `row` maps every possible participant to its `EnvelopeSigner` row, with its `Consent` row and
  a flag *invited* (an invitation token was issued). `ABSENT` is a participant that has not been
  added, `REMOVED` one whose row was deleted. A participant who is added again after a removal gets a
  new row and id; the model does not add it again.
* `stored` is the set of signed PDFs in S3.
* `req` holds every request: the next step (`pc`), the row it works on, the copy of the
  envelope row it read (`seen`) and will write back, and what it has still to add or remove.

An operation is a chain of actions: `SendRead SendWrite SendToken* SendDone`,
`CancelRead CancelWrite`, `UpdateRead UpdateWrite UpdateAdd* (UpdateFindRemoved
UpdateDelete)* UpdateDone`, `ShareRead ShareCreate ShareToken`, `SignStart SignValidate
SignConsent SignDocument SignFind SignSave SignKey SignHash SignFinalize CompleteWrite`,
`DeclineFind DeclineSave DeclineRead DeclineWrite`. `Die` ends a running request anywhere: a
failed call to KMS, S3, the database or the Document Service, or a Lambda timeout.

Why one action may stand for several calls:

* A *read* is merged into the next one when the later read repeats what the first was
  asked, and only the later one's answer is used or a refusal by either leaves no trace (the two
  envelope reads of `completeEnvelope`, the signer reads before `SigningFlowValidationRule`, the
  access read before the decline's row is found).
* `createConsent` looks for a consent and inserts one. The unique index on envelope and signer
  makes an insert after a stale lookup fail, which refuses the request just as the lookup would
  have: one action.
* Linking the consent to the signature is merged with the envelope update that follows: it
  changes nothing the model keeps, but fails if the consent is gone.
* Audit events, notifications and downloads write nothing of this state; failing there is `Die`.

What the database does is part of the actions: the foreign key and `SET NULL` on the decliner
against the DECLINED check constraint (`UpdateDelete`, `Writable`), the unique indexes on
participants and consents, the consent check constraint that refuses a stale decline
(`DeclineSave`), and the update that skips undefined fields (`Kept`).

Over-approximated: whether an invitation token is still accepted is left open once one was
issued, so a guest can do in the model what it can do with any token of the envelope.

### `Invitation` and the code

`token` holds the `InvitationToken` rows of one signer, numbered as they are created; `expired` the
tokens whose `expiresAt` has passed (nothing ever writes the status EXPIRED, nor REVOKED); `given` the
tokens whose secret was mailed; `tracking` the `SignerReminderTracking` row, its hours as *the interval
is running*. `mails` and `uses` count reminders published and signings that marked a token.

`Issue IssueSent Give` is `generateInvitationTokensForSigners` and `sendSignerInvitations`; `View
ViewWrite` is `markTokenAsViewed`; `Sign MarkRead MarkWrite` is a signing whose `markTokenAsSigned`
is not awaited, so that `SignRow`, all the rest of it, may come before or after the mark, and the
mark may never come (`MarkFails`, `BreakOff`); `Remind RecordRead RecordWrite Pick Resend Publish` is
`SendRemindersUseCase`. `Write` is the repository's update: it puts the copy the request read, but
skips undefined fields, so a copy read before the signing cannot take `signedAt` away. The partial
unique index lets one ACTIVE token stand (`IndexAllows`). `overlap` chooses, per behaviour, between
requests that overlap and requests that wait for each other. No request outlasts the hours
between two reminders (`Elapse`).

### `Outbox` and the code

All records have the partition key `OUTBOX`, so the stream is one sequence: `stream` holds the images
of the inserted records as `OutboxRepository.save` writes them, `position` is how far the event source
mapping is, `batch` the running invocation, `bus` what EventBridge accepted, `failed` the events an
invocation counted as failed. `Publish`, `PublishUnanswered`, `PublishFails` are one turn of
`processStreamRecords`; `SetUpFails` is the handler that returns an error before the loop, which the
mapping takes for success; `Die` is the crash after which the mapping repeats the batch. `Image` and
`Entry` are the conversions: what the writer stores, and what the stream processor takes from it. The
mapping and EventBridge are external; the mapping's batches and retries are those its Terraform
description gives it.

### `Notification` and the code

One event, since events do not interact: `row` holds its `Notification` rows, one for each process
that makes one, `sent` the messages the provider accepted for each, `proc` each process with its step
and the retry count of its copy. `Begin Find Create Send MarkSent` is `ProcessNotificationUseCase` for
one delivery (every strategy makes at most one request of an event); a *direct* process is
`SendNotificationUseCase`, which does not ask whether the event was processed; a *retry* is
`RetryNotificationUseCase`. `CallFails`, `CreateUnanswered`, `SendUnanswered`, `MarkSentUnanswered`
and `Crash` are the faults, each with what the code's `catch` makes of it.

### `RateLimit` and the code

A call of `incrementAndCheck` goes `Increment Update`, and when the increment is refused on through
`Create Put`, and when the insert is refused too, back to `Increment`, as lines 149-151 of
`RateLimitStoreDdb.ts` do. `Increment` and `Create` read the clock, so the window may change between
them. `now` is the number of the current window; `usage[w]` is the window's counter, 0 when there is no
record (a record is made with 1). `UpdateUnanswered` and `PutUnanswered` are requests DynamoDB carries
out whose answer is lost; the SDK sends them again. `Fail` is the end of a call without an answer:
`validateRateLimit` then refuses. `Expire` deletes a record whose window is over and that no request on
its way to DynamoDB can name: `validateRateLimit` keeps a record for a minute after its window, which is
taken to be longer than a request takes.

### `Idempotency` and the code

`Get`, `PutPending`, `Execute`, `PutCompleted` are the four awaits of `run`; `record` is the key's
item, with the run that made it, which the item itself does not say; `effect` holds the runs whose
`fn` took effect. `Expire` is the TTL. It is taken to be longer than the run that made the
record (300 seconds by default), but not than what a client waits before it repeats a request.

### `Accounts` and the code

`row` is the status and role of the `User` row, `accounts` the providers with an `OAuthAccount` row,
`enabled` and `attribute` the user pool's entry, `session` whether the pool would renew the user's
tokens, `tokens` the tokens that services accept: the role claimed, and whether the user was signed out
after the token was issued. Tokens are verified where they are used (`jwtVerifier.ts:58`), by signature,
issuer, audience and expiry; a sign-out therefore ends the session and marks the tokens, and takes
none away. `Expire` is a token's expiry, `Renew` a request for new tokens while the session lasts, for
which the pool runs PreTokenGeneration alone. `SignIn PreAuth FindLogin Upsert Claims Issue` are the triggers of one sign-in, with
`PreAuthUnread` and `ClaimsUnread` for the fallbacks when the database cannot be read; `SetStatus
SetAccess SignOut Find Save` and `SetRole SetAttribute SignOut Find Save` are the two administrators'
use cases; `Unlink Count Remove` is `UnlinkProviderUseCase`. Every update puts status and role
together as they were read (`Upsert`, `Saved`), except that a status DELETED is refused by the table.
`overlap` is, per behaviour, the set of request kinds several of which may overlap, so that each
property can name the overlaps it is safe from. A status change may start with any actor that
`validateAdminPermissions` allows, which is checked once, at the start, as in the code.

### `Documents` and the code

`versions` is everything the table has held under the document's key, so that a deletion and what
comes after it can be told; `indexed` is the version the index `GSI1` holds (external: it passes
through the versions in order). `getById` reads `image`, never `item`. `Create Insert` is a creation;
`Change ReadEnvelope Reread Write` a PATCH or the upload of a new binary; `Lock Reread Write` and
`Unlock Reread Write` the locks, without the envelope; `Delete Reread Erase` a deletion. `Changed` is
the item put: metadata, which holds the locks, from the port's reading, all else from the
repository's. `InsertUnanswered` and `WriteUnanswered` are puts whose answer is lost. `calm` chooses,
per behaviour, whether requests wait for each other and for the index. Of a request
that ended only its kind and user are remembered: nothing depends on how it ended.

### Altered actions

Each module has *altered* actions (`SignConsentUnchecked`, `KeptNever`, `ReturnPast`, ...): an
action or operator as a plausible slip would have made it. No behaviour uses them; putting one in
the place of the original makes the property it is paired with in `PROJECT.json` fail, which shows
that the property depends on the code it is about.

## 3. What is checked

The runs of `Envelope` use one envelope with an owner `o`, invitees `i1`, `i2` and, where it
matters, a viewer `v1`.

| Run | Instance | Properties | Distinct states |
|---|---|---|---|
| `overlap` | 3 overlapping requests, all operations, failures, INVITEES_FIRST | `TypeOK`, `OneSigningPerSigner`, `SignedHasEvidence`, `EnvelopeCoherent`, `SignatureKept` | 207 000 |
| `completion` | 4 overlapping requests: send, cancel, sign, decline; failures | `CompletedIsAllSigned`, `CompletedHasDocument`, `RecordedHash` | 1 023 000 |
| `serial` | 5 requests one after the other, all operations, failures, OWNER_FIRST | `DeclinerDeclined`, `ImplementsLifecycle` | 306 000 |
| `liveness` | 3 overlapping sign requests, none abandoned | `AllSignedCompletes` | 30 700 |
| `tokens` | 2 tokens of one signer, 2 requests at once and 6 in all, limit of 2 reminders, expiry, 1 failure | `TypeOK`, `UsedOnce`, `RemindersBounded`, `SigningKept` | 534 000 |
| `stream` | 3 events, batches of 2, 2 crashes or lost answers, failing publications | `TypeOK`, `NoneSkipped`, `InOrder`, `DuplicatesNeedFaults`, `EverySavedHandled` | 19 200 |
| `mislabelled` | 1 event; ends in a counterexample | `PublishedAsSaved` | 5 |
| `deliveries` | 2 deliveries and a direct call for one event, 2 retries, `maxRetries` 1, 1 fault | `TypeOK`, `SentWasAccepted`, `RetryCountBounded`, `ResentOnlyAfterFault`, `PendingIsUnfinished` | 573 000 |
| `limit` | 3 calls, `maxRequests` 2, 3 windows, lost answers, failures, expiry | `WithinLimit`, `EveryoneCounted`, `WaitingOnlyWhenFull` | 131 000 |
| `repeated` | 4 runs of one key, lost answers, failures, expiry | `OneExecuting`, `CompletedHadEffect` | 1 200 |
| `accounts` | 3 requests, 2 providers, 2 roles, 3 statuses at the start, 2 failures | `TypeOK`, `PoolMatchesRow`, `BlockedIsSignedOut`, `ClaimIsRole`, `OnlyAdminsChange`, `LastProviderKept` | 4 218 000 |
| `documents` | 4 requests, 2 users, 1 lost answer | `TypeOK`, `DeletedStaysDeleted`, `SentIsSettled`, `OnlyOwnerUnlocks` | 1 987 000 |

They show that

* whatever overlaps, the consent record lets one request per signer through to KMS and S3; a SIGNED
  row always has consent, timestamp and a stored document of its own; no request unmakes a
  signature short of deleting the row; and no stale copy breaks the table's constraints;
* as long as nobody joins or leaves, a completed envelope has every signature and hands out the
  document of one of them, although completion is decided by requests that do not know of each
  other, and the last of them does complete it; the hash beside the key belongs to a signing, though
  under overlap perhaps to another one than the key, which is why it is no check of the document;
* without overlap, six use cases made of separate writes, any of which may be the last one
  carried out, amount to steps of `EnvelopeLifecycle`: outcomes are final and signed rows stay;
* a token's signing time survives every stale write, because the update skips undefined fields;
  requests that wait for each other use a token once, though its mark comes whenever it likes; and
  overlapping reminder requests, which lose counts, still cannot send more than the limit each;
* the stream neither skips nor reorders events through crashes and repeated batches, and hands every
  event to the bus or to the failed count;
* a notification says SENT only when its provider took it, whoever writes over whom; PENDING rows are
  the traces of faults; retries that count twice still stop one past their limit;
* a rate limit's window admits no more than its limit, whoever races to make its record, and keeps a
  call waiting only while it is full; one repetition of a request executes at a time, although
  `putCompleted` does not ask whose record it completes;
* a blocked user is signed out, so that what tokens it has were issued before and are not renewed, and
  no token issued since the last sign-out claims another role than the row's, also when an
  administrator's request breaks off half-way, since the sign-out precedes the write and the trigger
  reads the row; the older tokens are accepted until they expire; changes made one at a time leave pool and row in agreement, deletion excepted;
* a deleted document is not brought back by a change that read it before, because the put is
  conditional; with requests and the index in step, sending freezes it but for the one request under
  way, and only its owner removes a lock.

Several properties name the condition under which they hold (`~overlap`, `calm`, `"role" \notin
overlap`). The run has both kinds of behaviour, and without the condition TLC finds the property
violated: the overlap is what breaks it, and section *Divergences* says how. (The condition
`unread = 0 \/ ...` of `BlockedIsSignedOut` is why the `accounts` run has two failures: an enabling that
breaks off and a row that cannot be read together sign a blocked user in.)

An assumption on KMS. `updateSignedDocument` parses what KMS returned as a SHA-256 hash and refuses
it if it does not have 64 hexadecimal digits; the signatures of no key KMS offers are that short. With
the code as it is, then, every signing ends after the signer's row was saved and before the envelope
gets its key. `SignatureFits` is that fact as a constant. The runs take it to be TRUE, to check what
the code does once such a signature is accepted, as its own unit tests do (they mock KMS and the
repository). With `SignatureFits = FALSE` in `MCEnvelope_liveness.cfg` TLC finds `AllSignedCompletes`
violated: three rows SIGNED, three requests refused, no completion. The safety theorems are about both
values.

The bounds. Each hazard is a race of two requests; a third or fourth request is the one that
brings the system into the state where the race matters (sent, signed by the others, deleted and
still in the index). Three signers are the least at which one can be last, one earlier and one in
between; a viewer is the participant who never signs. `MaxBatch = 2` lets one update add and
remove. Two tokens are one that is used and one that replaces it; six requests are a sending, an
opening, a signing and three reminders, one more than the limit. Three events and batches of two make
a batch that is full, one that is not, and a crash between the records of one; two faults let a
repeated batch be cut short again. Two retries with a limit of one overlap at the limit. A limit of two
with three calls has a call that makes the record, one that meets it and one too many; three windows
let a call change window in both of its requests. Three requests on a user are a sign-in between two
changes. Requests are interchangeable and appear in no constant, so permuting them is a sound symmetry
for the safety runs; the liveness runs use none. `CHECK_DEADLOCK FALSE` throughout, because the
requests, events and faults of an instance may all have been used.

Fairness. `Envelope`'s `FairSpec` has weak fairness of each *running* request: Node resumes an async
function after each await, and the operations modelled do not wait for each other. Users are never
obliged to start a request. Without failures only: a request that dies after it made the row SIGNED
leaves nobody to check for completion (a hazard in `PROJECT.json`), so `AllSignedCompletes` is stated
for requests that run to their end. `RateLimit`'s has weak fairness of each call that has begun and of
the clock. `Outbox`'s has weak fairness of the mapping's polling (`Invoke`) and of the running
invocation (`Handle`); that crashes stop is the bound `MaxFaults`. Nothing in the code
obliges a notification, a reminder, a user or a document to move on, so their modules state no liveness.

### Divergences

Where the code and its words differ, or the code does what nobody would want. The first is a run
(`mislabelled`); the others were met while modelling and are in the models as the code has them.

Outbox and notifications:

* The stream processor publishes every record with detail type `Outbox`, the item's row kind, and
  without a payload, because the writer stores the event's type in another attribute and the payload
  as a map (`OutboxStreamProcessor.ts:80`): no rule matches the entry. The rules also ask for
  sources other than the one the handler's environment configures.
* `isOutboxDdbItem` asks for attributes the items do not have, so `getById`, `markAsProcessed` and
  `pullPending` never find anything; the update expression of `markAsProcessed` is not well-formed.
* A record published again gets a new EventBridge id, so the consumer's check by event id does not see
  that it is the same event.
* A failed retry counts twice, once when it starts and once when it fails. Nothing calls the retry use
  case, `findPendingRetries`, `markAsDelivered` or `markAsBounced`; an event delivered again after a
  crash finds the PENDING row and is refused, so the row stays PENDING.

Envelopes:

* `updateSignedDocument` is given KMS's whole signature in hexadecimal as a hash
  (`SignDocumentUseCase.ts:426`, `KmsService.ts:87`), which `DocumentHash` and the column's check
  constraint refuse: no signing gets further than the signer's row (`SignatureFits`, section 3).
* `signedSha256`, "SHA-256 hash of signed document" (`SignatureEnvelopeRepository.ts:413`,
  `SignatureEnvelope.ts:653`), gets the signature first and then the hash of the content before the
  signature was embedded (`SignDocumentUseCase.ts:111`, `:431`), never that of the PDF under
  `signedKey`. Two overlapping signings may leave one's key beside the other's content hash.
* A signer declines after the owner cancelled: CANCELLED becomes DECLINED (`SignatureEnvelope.ts:666`),
  though `EnvelopeStatus.ts:127` calls CANCELLED final.
* Two sends overlap, and the slower one writes its copy of the draft after the envelope was completed:
  COMPLETED becomes READY_FOR_SIGNATURE (`SignatureEnvelopeRepository.ts:260`).
* OWNER_FIRST is looked at for the owner's requests only (`SigningFlowValidationRule.ts:44`).
* An update adds a signer between `completeEnvelope`'s check and its write
  (`SignatureEnvelopeRepository.ts:483`): COMPLETED with a pending signer.
* Completion waits for viewers, who never sign (`SignatureEnvelope.ts:485`, against
  `EnvelopeStateService.ts:97` and `EnvelopeSignerService.ts:76`); and as viewers are PENDING signers
  they are sent reminders.
* A signing that fails after the consent was recorded or the token marked cannot be repeated; a signer
  whose token expired gets no second one.
* Under overlap a signed row can be deleted between `deleteSigner`'s check and its delete, and
  overlapping reminder requests lose counts. Reminder events carry no token to sign with.

Rate limit and idempotency:

* A call over the limit increments and creates in turn for ever, or until the next window admits
  it: `createRecord` calls `incrementAndCheck` again (`RateLimitStoreDdb.ts:151`) and never throws the
  error of `RateLimitStore.ts:35`. A limit of 0 admits the first call.
* `contracts/Idempotency.ts:82` promises a repetition the cached result; the runner refuses it with
  409, as its own comment says, and nothing reads the stored result.

Users:

* No new user is ever created: `upsertOnPostAuth` hands value objects to `User.fromPersistence`, whose
  own value objects take strings (`UserService.ts:52`; its test mocks the entity), and
  `createNewUser` passes no id, an error PostConfirmation swallows.
* `OAuthAccountRepository.upsert` sets an `updatedAt` the table has not, and `LinkProviderUseCase` looks
  up a fixed sub, so no provider is ever linked; `adminUnlinkProviderForUser` does nothing.
* A deletion disables the user in the pool and signs it out, and then fails: `toUpdateModel` leaves
  `deletedAt` out and the table's check refuses DELETED without it. `suspendedUntil` and
  `deactivationReason` are not stored either. The first migration's enum lacks PENDING_VERIFICATION.
* A sign-in that overlaps with a status or role change puts the old status and role back. A
  sign-in between a role change's sign-out and its write gets tokens with the old role.
* A token issued before a suspension or a role change is accepted, with the old role, until it expires:
  `adminUserGlobalSignOut` (`CognitoService.ts:358`) does not reach what `verifyJwt` looks at. (No service
  reads `custom:role` from a token; `claims.ts:20` takes roles from `cognito:groups` or `roles`.)
* Two unlinkings of two providers leave none. The administrator's permission is not checked again when
  the row is written.

Documents:

* documents-service does not build from this repository: several of its imports (`domain/values/enums`,
  `shared/errors`, input rules and mappers) are absent.
* A PATCH without a name, which its schema allows, overwrites the name with `undefined`; stored so, the
  item can never be read, changed or deleted again (a client library that refuses undefined values
  fails the put instead).
* A change that read an older version in the index undoes what was written since: two locks taken
  at once leave one, and a lock taken during an upload brings the older file back, even after sending.
* Deleting and locking do not look at the envelope; `create`'s check for a draft is commented out; the
  updates do not look at the locks; no controller calls the lock commands; metadata given by a client
  may overwrite `locks`; a document created `ready` can never get another binary.
* Of a PATCH of several coordinates of an input only the last is kept; a change of its `partyId` is
  dropped; two filters of a query share one placeholder. The endpoint the signature service sends the
  signed PDF to, and a handler of its fallback event, are not in the repository.

## 4. What is proved

Every invariant and every action property of the runs that pass, and that `Envelope` implements
`EnvelopeLifecycle`, is a theorem that TLAPS proves for every value of the constants which the
module's named assumption admits:

* `Envelope`: any sets of requests, invitees and viewers. The participants' kinds are disjoint, the
  roster at the start has no viewer, and null is none of the values.
* `Outbox`: any events, batches of at least 1. `Invitation`, `Accounts`, `Documents`, `RateLimit`:
  any numbers of tokens, windows and faults, any limit of reminders, any limit of at least 1 for a
  window; finite sets of requests, calls and providers, which are counted. `Notification`,
  `Idempotency`: any sets of processes and runs.
* Of the values that stand for *nothing*, the assumptions say that they are not what they stand
  for the absence of: `None` is no user row (`Accounts`), `NoItem` no item (`Documents`), `NoBatch` no batch
  (`Outbox`).

| Module | Theorem | States |
|---|---|---|
| `Envelope` | `TypeCorrect` | `Spec => []TypeOK` |
| | `OneSigning` | `Spec => []OneSigningPerSigner` |
| | `SignedEvidence` | `Spec => []SignedHasEvidence` |
| | `SignatureStays` | `Spec => SignatureKept` |
| | `Coherence` | `Spec => []EnvelopeCoherent` |
| | `CompletionSound` | `Spec /\ RosterFixed => []CompletedIsAllSigned` |
| | `CompletionDocument` | `Spec /\ RosterFixed => []CompletedHasDocument` |
| | `HashRecorded` | `Spec /\ RosterFixed => []RecordedHash` |
| | `DeclinerSaid` | `Spec /\ ~Overlap => []DeclinerDeclined` |
| | `LifecycleImplemented` | `Spec /\ ~Overlap => ImplementsLifecycle` |
| `Outbox` | `TypeCorrect` | `Spec => []TypeOK` |
| | `NothingSkipped` | `Spec => []NoneSkipped` |
| | `OrderKept` | `Spec => []InOrder` |
| | `DuplicatesPaidFor` | `Spec => []DuplicatesNeedFaults` |
| `Notification` | `TypeCorrect` | `Spec => []TypeOK` |
| | `SentIsTrue` | `Spec => []SentWasAccepted` |
| | `RetriesBounded` | `Spec => []RetryCountBounded` |
| | `PendingExplained` | `Spec => []PendingIsUnfinished` |
| | `ResendingPaidFor` | `Spec => []ResentOnlyAfterFault` |
| `Invitation` | `TypeCorrect` | `Spec => []TypeOK` |
| | `TokenUsedOnce` | `Spec => []UsedOnce` |
| | `RemindersLimited` | `Spec => []RemindersBounded` |
| | `SigningStays` | `Spec => SigningKept` |
| `RateLimit` | `LimitHolds` | `Spec => []WithinLimit` |
| | `CountIsComplete` | `Spec => []EveryoneCounted` |
| `Idempotency` | `OneRuns` | `Spec => []OneExecuting` |
| | `CompletedIsDone` | `Spec => []CompletedHadEffect` |
| `Accounts` | `TypeCorrect` | `Spec => []TypeOK` |
| | `PoolAgrees` | `Spec => []PoolMatchesRow` |
| | `BlockedSignedOut` | `Spec => []BlockedIsSignedOut` |
| | `ClaimsAreRoles` | `Spec => []ClaimIsRole` |
| | `AdminsChange` | `Spec => OnlyAdminsChange` |
| | `ProviderStays` | `Spec => LastProviderKept` |
| `Documents` | `TypeCorrect` | `Spec => []TypeOK` |
| | `DeletionLasts` | `Spec => []DeletedStaysDeleted` |
| | `SendingSettles` | `Spec => []SentIsSettled` |
| | `OwnersUnlock` | `Spec => OnlyOwnerUnlocks` |

Two hypotheses say which instances a theorem is about; both are about constants, and the runs that
check the same properties meet them. `RosterFixed` (no request of the instance updates or shares
the envelope) is the instance of `completion`: an update between `completeEnvelope`'s check and its
write does leave a COMPLETED envelope with a pending signer. `~Overlap` (a request starts when none is
running; a request that dies is not running) is the instance of `serial`: the slower of two overlapping
sends does take a COMPLETED envelope back (section *Divergences*).

*Signing.* None of the three signing properties is inductive. `SigningInv` adds why they hold: a
request past `recordConsent` works on a row that has the consent record or is gone (`ConsentHeld`),
so a second request for that signer is stopped; until it saves, the row is not SIGNED
(`NotYetSigned`); its document is stored before it looks for the row (`DocumentStored`); the
evidence of a row was written by a request that has saved exactly that row (`EvidenceOwned`,
`EvidenceUnique`); and a SIGNED row is complete (`SignedComplete`). The step lemma does not
go through all actions one by one: `StepKinds` shows that every step *records* a consent, *saves* a row,
*advances* a signing, or is *elsewhere* and gentle with the rows, and the invariant is shown to survive
each of the four kinds. That a deleted row never returns is used throughout.

*Stale copies.* `CoherentInv` adds to `EnvelopeCoherent` that every request's copy of the envelope
row meets the check constraints, however old it is, and that a decliner about to be recorded is a
participant. `CoherentWrite` is the heart of it: a coherent copy written over a coherent row,
with undefined fields skipped, is coherent. Deletion is the one step that shrinks the roster, and
the constraint on DECLINED envelopes is what protects the decliner then.

*Completion.* `CompletedIsAllSigned` is not inductive: a request that is about to write COMPLETED
must know that everybody has signed *now*. `CompletionInv` extends `SigningInv`: such a request has
`AllSigned` (nobody unsigns, by `SignedStays`, and with a fixed roster nobody comes or goes); past the
save of its signer's row a request is the one that signed it, and past its key's write the envelope has
a key; every key and hash, the envelope's or those of a stale copy, are a pair that signatures account
for (`Traces`, a set that only grows, and in which key and hash are set together, so that a copy replaces
both or neither); and no copy is of a completed envelope, so that no stale write completes one.

*Requests that do not overlap.* `SerialInv` says that one request runs and finds everything as it
read it: its copy of the envelope is the row with its own change, and the statuses that it looked at
are those still there. `Serves` is what each action is shown to do for the request that takes it: leave it
so, leave the rows `Consistent` (every request may be abandoned after any step, so they are at every
point what a user may read), and, seen through the refinement mapping, take one step of
`EnvelopeLifecycle` or none. The write of the decliner's own row and that of the envelope are two steps
of the lifecycle, which is why it has both.

*Outbox.* `ReachedHandled` says of the records up to the running batch's next one what `NoneSkipped`
says of those up to the position; a batch that dies falls back to fewer. `CopiesBounded` counts an event's
publications: one once its record is reached, and one more for each fault, which pays for going back.

*Notification.* A process about to mark a row SENT has sent it (`MarksWhatWasSent`); the copy a process
writes has a count within the limit, since the check was made on that copy (`CountWithin`), so a failed
retry's second count ends one past it. In turn, every sending but the last one is paid for by a
fault (`Paid`).

*Invitation.* In turn a request's copy of a token is the token, and only an unused one is marked. For
the reminders the number that matters is in no row: how many intervals have been used up. `Counted(c)`
bounds it by the stored count from below and the mails by `AtOnce * c`, with the reminders under way
counted in while the interval runs; the invariant says that there is such a `c`. That as many requests as
`AtOnce` can pass the gate together is a fact on finite sets.

*Accounts.* A kind of change that may not overlap runs alone (`Apart`), so the copy that a request writes back
is current in that kind's column. Between the change of the user pool and the change of the row, the pool says
what the row will (`AccessAgrees`, `AttributeAgrees`); after the sign-out and until the row is written the
user is signed out (`SignedOut`), and so it is when a change holds a copy that would put back an old role or
a blocked status (`StaleIsOut`); and a sign-in that passed PreAuthentication, or that the pool let begin
while it knows who is blocked, is of a user who is not (`PassedIsOpen`), with the row's role as its claim.

*Documents.* `DeletedStaysDeleted` needs only that one request creates the document (`OneCreator`): every other
put is conditional on the item. With requests and index in step, what a request read is the item and
what it writes differs from it by its own change (`Current`). For `SentIsSettled` the invariant names two
contents, the one the item had when it was sent and the one the request under way then gives it
(`TwoContents`); later requests cannot pass the look at the envelope.

*Rate limit.* `WithinLimit` follows from the counter only while the record is there. `LimitInv` adds
`UnmadeAdmitsNobody`: as long as a call may still make a window's record, the window has
admitted nobody, so a record is made for the first call only. `AdmittingStep`,
`UnansweredStep`, `QuietStep` and `ExpireStep` are the four things a step can do to it; the counting
rests on `FS_AddElement`.

*Idempotency.* `OneExecuting` names the record's maker, which makes it nearly inductive; `EffectFirst` (a
run about to complete has had its effect) is what `CompletedHadEffect` needs besides.

`RateLimit`'s and `Idempotency`'s type correctness is a conjunct of `LimitInv` and of the
idempotency invariant, so it is proved and not also run.

Only model-checked: liveness (`AllSignedCompletes`, `WaitingOnlyWhenFull`, `EverySavedHandled`). It rests
on fairness, whose ENABLED the prover does not reason about. The counterexample of `mislabelled` is TLC's as well.

## 5. What is not modelled, and the plan

Not modelled:

* PDF and PKCS#7 layout, KMS and S3 beyond success and failure: byte formats, no protocol.
* Audit rows: independent inserts that nothing reads back to decide. Queries: they read.
* Of the envelope requests, deleting a whole draft, `updateFlattenedKey`, the correction of the
  signing order on update and the age rule.
* Notification templates and providers, preferences and scheduling fields that nothing reads.
* Profile data of users, and the MFA policy, which only refuses.
* Document Service synchronisation: an HTTP call whose receiver is not in the repository, and which
  leaves no trace in the rows. Inputs of documents: their rules and mappers are not in the repository.
* The frontend, which calls the services in any order, as the models let it; Terraform.

`PROJECT.json` lists every component with its status and every hazard with the properties that
watch it.

Worth doing next:

1. A property, and its theorem, for the hazards that have none yet: they are those of requests that
   die half-way and of a viewer whom completion waits for, where the code leaves a state that no later
   request repairs. What can be stated is how far the damage goes: which rows such a state may have.
2. Within `Envelope`, what survives when the roster does change: a COMPLETED envelope's pending signers
   were all added by a request that overlapped with its completion.
3. A composition of `Envelope` with `Invitation`, for the order in which a guest's signing marks its
   token and saves its row.
