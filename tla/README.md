# A verification project for hemlig

hemlig delivers secrets from AWS Lambda to mTLS consumers. Administrators and agents change
secrets through an HTTP API; every change makes immutable revisions in S3 and switches one
record, the *head*, in a DynamoDB table. There is no lock and no long-lived process: a request
is a Lambda invocation of at most 29 seconds that can stop between any two of its calls, and what
it leaves behind is repaired by scheduled Lambdas. This directory holds TLA+ modules of those
protocols, TLC configurations that check them on small instances, and TLAPS proofs of what
matters most for every instance. Paths below are relative to the repository root; `secrets.ts`
stands for `src/services/secrets.ts`, `dynamo.ts` for `src/repositories/dynamo.ts`, and so on.

## The system

| Component | State it keeps | Operations | What is hard | What makes it correct |
| --- | --- | --- | --- | --- |
| Secret mutations (`services/secrets.ts`, `repositories/dynamo.ts`) | head, name lookup, access rows, workflow and idempotency records; S3 objects | create, update, payload update, archive, agent update | two transactions and up to six other calls per request; leases that expire under their owner; crashes anywhere; retries | no lost update; names unique; head, control object and payload object agree; access rows equal the ACL; one commit per idempotency key |
| Recovery (`handlers/recovery.ts`) | none of its own; works from a sparse index | every 5 minutes: mark expired operations, abort creates, release leases, resume or fail enrolments, audit | races with the Lambda it declares dead; dies between its own calls | "failed" is final; names, leases and consumers come back |
| Delivery reads (`services/secrets.ts`) | none | read, admin payload read | several reads at different moments, against objects that can be deleted | one revision, open to the reader, both objects present |
| Retention (`handlers/retention.ts`, `repositories/object-store.ts`) | due index, Object Lock dates | every day: list, check head and lock, delete, mark | a current payload carries an old date; delete and mark are two calls | what a head names is never deleted |
| Agent synchronisation (`services/agent-sync.ts`, `repositories/agent-sync.ts`, `scripts/backfill-agent-sync.ts`) | per-environment counter, one index entry per secret, cursors | publish (inside every commit), page, checkpoint, backfill | counter contention; entries move while pages are read; two expiries | index equals heads; a completed checkpoint misses nothing at or below it |
| Change feed (`GET /v1/changes`) | cursors | pages of access rows, joined with heads | pages are read at different moments; reused names | a quiet cycle leaves no copy of what is gone |
| Consumers, identities, truststore (`services/consumers.ts`, `services/issuer.ts`) | consumer, identity, enrolment, issuer, truststore lease and bundles | enrol, resume, rotate, revoke, publish, roll back, reconcile | a slow external service (API Gateway) under a lease that expires; cold starts that race for the issuer | one issuer; consumer, certificate and operation agree; every bundle in use trusts every active certificate |
| Agent grants and capabilities (`services/agent-grants.ts`) | grant, capability, projected ACLs, IoT resources | create, update, issue, redeem, repair | long sequences of calls that may fail anywhere; update against redeem | a capability and a grant go to one certificate for good; the ACL projection equals the grant |
| Notifications (`handlers/notifications.ts`) | outbox records | publish, mark delivered | batches that fail, are halved and redelivered | delivered means published; nothing is dropped silently |
| Catalog (`handlers/admin.ts`, `useCursorPages.ts`, `SecretsCatalog.vue`) | index keys of the head, cursors, the console's list | filtered pages, bounded search, folder tree | filters applied after the page; requests in flight while the list is reset | a list called complete is complete; counts add up |
| Kubernetes controller (`packages/kubernetes-controller/src/v1beta.ts`) | Kubernetes resources, a checkpoint in a status | reconcile passes over imports and exports, watches | events during a pass; partial convergence; deterministic keys | the checkpoint never passes something that was not applied; no change goes unnoticed |
| Console and Pulumi provider (`useGuardedMutation.ts`, `packages/pulumi-provider`) | a draft; a stack record | guarded edits; create, diff, update | answers that are lost; other writers | a draft replaces only what it was made from |
| Migrations and backfills (`src/scripts`) | rows, objects, index keys | identity, UID, console index, folder migrations | interrupted anywhere and started again, on stale scans | no row or object is lost; a success is a success |
| Authentication, envelope encryption, environments, audit queries, routing, CLI, CDK stack | - | request/response, declarations | - | see *Not modelled* |

How they interact: a handler calls a service, the service calls the repository (DynamoDB) and the
object store (S3). The Lambdas share nothing but those two stores. A commit puts outbox records
into the table; the table's stream drives the notification Lambda, whose hints wake agents, and
agents pull: through `GET /v1/agent/sync`, `GET /v1/changes` and payload reads. Recovery and
retention find their work in sparse indexes of the same table. The modules compose along those
lines, each relying on the promise of the one below it rather than on its steps:

| Module | Relies on | Shown by |
| --- | --- | --- |
| SecretDelivery | a secret changes by one compare-and-swap (SecretRegistry) | theorems `MutationsImplementTheRegistry` and `DeliveriesImplementTheRegistry`: both modules implement the registry |
| SecretClients, Listings, AgentGrants | the same | theorem `MutationsImplementTheRegistry`; these modules keep of a secret only what their question needs, and that its changes are the registry's is by reading |
| AgentMirror EXTENDS SyncIndex | committing, counting and indexing a revision is one step | theorem `PublicationsImplementTheIndex` |
| AgentGrants INSTANCE ConsumerRegistry | a consumer and its certificate become active together or not at all | theorem `EnrolmentImplementsTheRegistry` |
| SecretMigrations EXTENDS NotificationOutbox | the outbox it fills is the one the publisher serves | one state machine |

`PROJECT.json` lists, under `hazards`, the places in this code where a test would hardly reach
what can go wrong, each with the properties that cover it; three have none, and say why.

## The modules

### SecretRegistry (abstract)

What callers are promised, without leases, objects and recovery: every secret has one current
revision that is replaced by compare-and-swap in a single step, together with its readers and the
name it is reached by. A revision becomes current at most once.

### SecretMutation (the core)

Models `SecretService.create`, `update`, `updateFromSnapshot`, `archive` and `AgentService.update`,
`prepareMutation` and `completeMutation`, and the secret branch of the recovery Lambda.

*State.* The variables are the stores: `head`, `lookup`, `access`, `workflow`, `retention`,
`idempotency` are the records of the control table, `objects` and `locked` the revision bucket,
`audit` the evidence. `expired` is the set of operations whose ten minutes (lease and workflow
expiry are the same instant) have passed. `pc`, `target`, `key`, `revision`, `local` are the
requests; `recovery` is the one pass under way. An operation's identity also names the control
revision, the payload revision and, for a create, the secret it makes, because the code draws each
of them once per request.

*Actions.* One per call that reads or writes shared state, in the order of the code:

    Begin -> ResolveName -> ReadHead -> ReadAccess -> Prepare -> PutControl -> PutPayload
          -> Extend -> Complete -> RecordSuccess

A create starts at `Prepare`; an agent's update starts at `ReadHead` because it takes the UID from its grant.
A DynamoDB transaction is one action with the code's conditions as its guard; when a condition fails the code
throws, which is `Abandon`, the action that also stands for a failed call and for a Lambda that dies. `Expire`
is the clock. Recovery's steps are `RecoveryList`, `RecoveryTake`, `RecoveryMark` (once for each record of the
operation, in any order), `RecoveryReadHead`, `RecoveryAbort`, `RecoveryRelease`, `RecoveryAudit`,
`RecoveryFinish`, and `RecoveryStop` when it dies.

*Abstracted.* Payloads, metadata and tags (no property tells them apart); the KMS envelope;
the difference between reasons for a refusal. `revokeConsumerSecretGrant` and
`reconcileAgentReadAccess` end in the same `update` with another ACL, which `acl` requests cover.
The `request_failed` event that `handlers/shared.ts` writes for every error is left out: it says
that a request failed, not that its mutation did. The sync index that the final transaction also
writes is SyncPublication's, the notification NotificationOutbox's.

*Switches.* `Retries` lets clients repeat keys, `AgentWrites` lets agents write, `RecoveryStops`
lets a recovery pass die, and `CancelErrors` is the set of names under which the SDK may report a
cancelled transaction: the SDK's own is `TransactionCanceled`, the one the code looks for
`ConditionalCheckFailed`. A run turns on what its question needs; liveness is checked with the SDK's
own name only, safety also with the other, which lets recovery take more steps.

### SecretDelivery

Models `SecretService.read`, `readAdminPayload` and the retention Lambda against replacement. Since
SecretMutation implements SecretRegistry, a mutation is represented here by its snapshot, its
objects, the extension of the old locks and its final transaction, one mutation at a time; that
these steps still implement SecretRegistry is proved (`DeliveriesImplementTheRegistry`).
Reads take four steps (name, row and head, control object, payload object); a retention pass takes
one step per call. Time is three actions: a lock passes (`LockPasses`), a date falls due
(`RetentionFallsDue`), and a request ends. `Quiet` states the only assumption about time: both
the lock and the date are 91 days old when they pass and a Lambda lives 29 seconds, so no request
that was under way when they were written is still under way.

### SyncIndex (abstract)

What the agent sync index promises its readers: committing a revision, counting it and indexing
it are one step, so the index is a projection of the current heads in which every secret stands at
the sequence of its last publication. `Index` is the step of a backfill, `Forget` the TTL of an
archived entry, `MarkReady` the flag without which no agent synchronises.

### SyncPublication (the index)

Models `AgentSyncRepository.publish`, which carries every final transaction, and
`scripts/backfill-agent-sync.ts`, for one environment. Its variables are the counter (`STATE`), the
heads as far as the index depends on them, the entries, one publication for each mutation and for
the backfill, and the backfill's scan. A publication takes three steps, as in the code: read the
counter (`ReadCounter`), read the head's last sequence (`ReadPrevious`), transact (`Publish`).
A mutation is represented by its lease (`TakeLease`, `GiveUpLease`), since SecretMutation shows
that the lease is all its transaction compares. `Contend` is another attempt after a failed
condition on the counter; the limit of eight attempts is a mutation or a script that takes no
further step. `BackfillVisit`, `BackfillReadHead`, `BackfillRace`, `BackfillScanned`,
`BackfillPut` and `BackfillUpdate` are the script, `BackfillStop` its failure.

*Abstracted.* The epoch of the counter, which is drawn when `STATE` is put and never
replaced. A `TransactionConflict` repeats the attempt like a failed comparison. Writers of the
release before the index, which `docs/agent-sync-plan.md` has drained before the backfill, are not
there: a head without an entry is a head they left.

### AgentMirror (its readers)

Models `AgentSyncService.sync` and one consumer of the Kubernetes controller with one import for
each secret. It EXTENDS SyncIndex: what SyncPublication implements step by step happens to this reader in
one step, so the two modules compose through the refinement. The service's part of the state is the
index, the readers, the grant and the clock; the cluster's part is what survives a
restart: the copies (`target`), the versions in the imports' statuses (`status`) and the
consumer's `checkpoint`; `pass` is the memory of the controller.

A pass is `StartPass`, then for each page `SyncGrant` (the handler reads the grant), `SyncState` (it reads the
counter and fixes the range of the cycle) and `SyncPage` (it queries and answers), then for each import
`TakeImport`, which looks at the copy and trusts it, removes it (`Remove`, `ClearStatus`) or reads the secret
unless it still is at the version that was found (`Fetch`, `Apply`, `Record`), and `EndPass`, which saves the
checkpoint. `SyncReset` and `SyncRefused` are the two 410s, `SyncFail`, `FailImport` and `FailLookup` failed
calls, `ConsumerNotReady` what a failed synchronisation does to the imports, `Crash` a restart and `Damage`
someone else's hand on a copy. Between any two of them `Change`, `ChangeGrant`, `ForgetMarker` and `Tick` move
the service.

*Abstracted.* A grant stands for its digest. A token is the record it leads to; fields nobody reads
again are blank. `Fetch` is one step: that a read returns one revision is SecretDelivery's
subject. Time is in units in which the day between the seven of a checkpoint and the eight of a marker
is one; a request takes seconds, so `Tick` does not fall inside one. Specifications of
the imports do not change; exports, watches and hints are SecretClients'.

### ConsumerRegistry (abstract)

What enrolment promises: a consumer and its first certificate become active together or not at
all (`Register`, `Activate`, `Reject`), a certificate keeps the consumer and key it was issued for,
and one that failed or was revoked never works again. AgentGrants is built on it.

### Enrollment

Models `ConsumerService` with the records of consumers, identities, enrolments and the
truststore, `getOrCreateIssuer`, the bundle in S3, the API Gateway domain that trusts it, and the
enrolment branch of the recovery Lambda. The threads are request handlers and one recovery pass;
`thread[t].phase` is the call an invocation makes next:

    FindIssuer/CreateIssuer -> Lookup -> FindPending -> Prepare | MatchPending -> Associate
      -> Resume -> AcquireLease -> ReadRoots -> StoreBundle -> RecordBundle
      -> GetDomain -> UpdateDomain -> Confirm -> Complete
                                   \-> Rejected -> Rollback -> Fail

Each read is an action of its own, and a bundle is made of the roots as `ReadRoots` saw them. Each
transaction is one action under the code's conditions; each can be refused, in which case the
invocation follows the record that won or ends. `StartPass`, `TakeNext`, `Settle` and `Reattach`
are recovery, which runs the same `resume` and, if that throws, fails an enrolment that is still
pending and holds the lease. `Rotate` and `Revoke` are the later certificates of a consumer.
`Overdue`, `LeaseExpires`, `DomainSettles` and `DomainReplaced` are time, API Gateway and a
deployment; `LeaseExpires` needs the invocations that acquired the lease to be over, because a
function lives 29 seconds (`cdk/stack.ts:1126`) and the lease ten minutes. `Stop` ends any
invocation anywhere.

*Abstracted.* Certificates, serial numbers and PEM; a root is named for the invocation that made it,
a bundle for its operation, an operation also for the certificate it issues.

### AgentGrants

Models `AgentGrantService`, `reconcileAgentReadAccess` and the two ACL updates it is made of, the
provisioning of a certificate for IoT, and the operator's repair script. An invocation is a
process that goes through `ReadGrant`, `Recover` or `Enroll`, `Provision`, `ListAccess`, any
number of `RevokeAccess` and `AddAccess`, `Reconciled`, `Activate` and `Consume`; an update
starts at `ListAccess` and ends in `WriteGrant`. Every ACL change is one
compare-and-swap of a secret (SecretRegistry), the enrolment a capability begins is
ConsumerRegistry's. `Provision` may end after any of its three puts. `Archive` and `ReuseName` are
the administrators at work on the same secrets. `alone` records whether anything else touched the
consumer's access since the list was read: what an undisturbed reconciliation leaves is
`QuietReconcileIsExact`, and what a disturbed one leaves is said under *Observations*.

### Listings

Models the paged reads and those who chain their pages. The feed is `listAccess`, its hydration
from the heads (`Hydrate`), the collapse of rows that share a name (`Counts`), the policy
(`InScope`) and a consumer that keeps a copy for each name (`Materialize`,
`TurnPage`, `AbandonCycle`). The list is `listSecrets` with its filter, cursor and scope, and the console's
`useCursorPages` with its hops, resets and exhaustion. `TreePage` is the folder tree, checked as a
pure function of the secrets in `TreesAddUp`. Secrets are created, tagged, granted and archived
between any two pages; two of the three have the same name in turn.

### SecretClients

Models the programs that write one secret through the API: the controller's export
(`reconcileAll`, its watches, timer and rerun flag, `Synchronize`, `ReadSource`, `ReadControl`,
`ExportMetadata`, `ExportPayload`, the status it records), the console's guarded mutation (`OpenEditor`, `Refetch`,
`Submit`, `Reconcile`) and a Pulumi `Secret` (`Up`, `UpdateStack`). The service is what its callers see
of it: a call is refused, prepared, committed, or dies with its key spent and its lease held until
`Recover`; an answer can be lost at any time, and the call goes on without its client. The source
Secret may be missing or managed by an import (one case, `payload = None`), which fails the export without
a retry, and the secret may be archived (`Archive`, one step, since its two transactions are
SecretMutation's subject), after which agents find no control revision (404).

### NotificationOutbox and SecretMigrations

NotificationOutbox is the outbox record a mutation writes, the DynamoDB stream with the filter, batch
and retries of `cdk/stack.ts`, and the publisher Lambda: `Poll`, `Publish` for each recipient,
`MarkDelivered`, and `PublishFails`, which halves a batch of several records and gives up a single
one to the dead-letter queue after its last retry. SecretMigrations extends it with the four scripts of
`src/scripts`: rows, objects, access rows and index keys that move from one key to the next, one
transaction or put at a time. `Interrupt` stops a script anywhere, and the operator starts either
migration again in any order. Each sees what its scan finds. The UID migration's scan is not consistent:
of rows that an earlier run moved it may see some where they were (`stale`) and miss heads at both
keys (`missed`); `overlooked` remembers whose. The migration identifies a secret by its head at any key,
passes over rows of the oldest form, and refuses rows of a secret it cannot identify. The release
serves, and publishes, once it reported success.

### Proof and MC modules

`SecretMutationProofs`, `SecretDeliveryProofs`, `SyncPublicationProofs`, `EnrollmentProofs`,
`AgentGrantsProofs`, `SecretClientsProofs` and `SecretMigrationsProofs` EXTEND the modules they are about;
`PagedReadersProofs` EXTENDS AgentMirror and Listings, whose pages need the same lemmas.
`MCSecretMutation`, `MCSecretDelivery`, `MCSyncPublication`, `MCAgentMirror`, `MCEnrollment`,
`MCAgentGrants`, `MCListings`, `MCSecretClients` and `MCSecretMigrations` add symmetry
sets and the definitions an instance needs. Symmetry is used in runs that check
invariants and action properties; runs that check liveness have none.

## The runs

| Run | Checks | Instance |
| --- | --- | --- |
| `mutation_safety` | `TypeOK`, `HeadMatchesRevision`, `NamesReachTheirSecret`, `FailureEvidenceIsFinal`, `UnreachedIsUnread`, `NoLostUpdate`, `ImplementsRegistry` | 3 operations, 1 name, 1 consumer, agents, recovery that dies, both error names; 2.4 million states |
| `mutation_recovers` | `IndexesMatchHeads`, `AtMostOncePerKey`, `PreparedCreateIsResolved` | 2 operations that may share a key, 2 consumers, administrators only, fair recovery that does not die and is told `TransactionCanceled`; 51 thousand states |
| `mutation_lease_kept` | `RetryableLeaseIsReleased` is violated | 2 operations, told `TransactionCanceled` |
| `delivery_safety` | `DeliveriesAreAuthorized`, `DeliveryInv` | consumers read among 3 versions of 2 secrets that share 1 name, with a pass that may die; an administrator reads among 4 versions of 1 secret; 1.9 million states |
| `sync_safety` | `TypeOK`, `IndexMatchesHeads`, `ReadyIndexIsComplete`, `ImplementsIndex` | 2 mutations, 2 secrets, 2 starts of the backfill; 2.6 million states |
| `mirror_converges` | `MirrorInv`, `CopiesConverge` | 2 secrets, 3 publications, grants with and without one of the secrets, pages of 1 entry, every lifetime one tick, fair passes; 977 thousand states |
| `enrollment_safety` | `TypeOK`, `ConsumersMatchEnrollments`, `TrustCoversCertificates`, `PromotedBundlesWereServed`, `AnswersAreActive` | 2 consumers, 2 keys, 2 operations, 2 handlers and recovery, 3 requests; 5.0 million states |
| `enrollment_recovers` | `EnrollmentsEnd`, `DomainReattached`, `ImplementsRegistry` | 2 consumers, 2 operations, 1 handler and recovery, 1 incident; 471 thousand states |
| `grants_safety` | `GrantsInv`, `QuietReconcileIsExact`, `ActiveGrantsAreProvisioned`, `ActivationsAreFinal` | 1 consumer, 2 certificates, 2 keys, 2 secrets, 2 capabilities, 2 processes, 4 requests; 2.3 million states |
| `listings` | `QuietCyclesDropTheDead`, `OnePageSnapshotsAreExact`, `ExhaustedListsAreComplete`, `ListingsInv` | 3 secrets under 2 names, 2 tags, feed pages of 2 rows, catalog pages of 1, 6 changes, 4 pages; 894 thousand states |
| `clients` | `ChangesAreScheduled`, `SkippedExportsAreCurrent`, `ClientsInv`, `ExportsConvergeOrStall` | 2 payloads, 2 metadata, 2 foreign writes that take turns within 3 edits, archives and faults; 1.1 million states |
| `migrations` | `UpgradeInv`, `UpgradesEnd` | 2 secrets, 2 consumers, 3 events of which 1 is old, 1 retry, 2 incidents; 414 thousand states |

Where a module has several invariants that say one thing about one record, a run checks their
named conjunction: `IndexesMatchHeads` is `AccessMatchesAcl` and `CatalogIsReachable`;
`DeliveryInv` is `TypeOK`, `CurrentObjectsExist` and `AuthorizedReadsSucceed`; `MirrorInv` is
`TypeOK` and `CheckpointVouchesForCopies`; `GrantsInv`, `ListingsInv` and `ClientsInv` add
`OneIdentityPerGrant`, `TreesAddUp` and `DraftsAreGuarded` to the types (in Listings
`ListingTypeOK`); `UpgradeInv` is `TypeOK`, `OutboxTypeOK`, `RowsAreWhole`, `ReportsAreTrue` and
`DeliveredIsPublished`; `UpgradesEnd` includes `NotificationsEnd`.

**Why the bounds are enough.** The shortest history that loses an update needs a create and two updates of the
same revision; the shortest that confuses names needs a create, an archive and another create. Three
operations cover both, and one name forces every collision. A wrong access row needs a create and an ACL
change that overlap, and readers that are swapped rather than added: two operations and two consumers; two
operations are also enough for a key that is used twice and for an operation that is overtaken by recovery. In
SecretDelivery a payload becomes current in the second version, is rescheduled by the third, and is replaced
by the fourth while a read still holds the third, which needs one secret; reuse of a name and changes of the
readers need two secrets but only three versions (`VersionsAreBounded`). In SyncPublication a stale counter, a
stale previous sequence and a backfill that is overtaken each need two publishers, and two secrets are needed
for a contended counter whose heads differ, and for a scan that has passed one of them. In AgentMirror two
secrets with pages of one entry make cycles of three requests; three publications let a secret leave the range
of a cycle, be archived and come back, and one tick outlives a page token, a checkpoint or a marker. In
Enrollment two handlers race for the issuer, for a key, for a consumer and for the lease, a third request
retries or rotates, and recovery overlaps all of them. In AgentGrants four requests are a create, a
capability, a redemption and its retry, a second redemption, an update or the script. In Listings feed pages
of two rows let a reused name fall on one page or on two. In SecretClients three incidents are, for instance,
an edit, a lost answer and a foreign write; a draft and an update of the stack take turns (`TakeTurns`), since
the controller, and the calls they left behind, are what either races with. In SecretMigrations two are an
interruption and, in the next run or its verification, an inconsistent scan. `MaxIncidents` counts what people
and faults do beside the steps under study, `MaxRequests`, `MaxChanges` and `MaxPages` likewise. What is
proved below holds without any bound.

**Deadlock** is checked in AgentMirror, whose controller always has a step, and nowhere else:
operations, requests and incidents are finite in an instance, and a service without requests is
idle. That something still happens when it must is stated by the liveness properties.

**Fairness.** `WF(RecoveryStep)`: EventBridge starts recovery every five minutes (`cdk/stack.ts:715`) and a
pass goes through its list; `WF(Expire)`: time passes. `WF(PassStep)` of AgentMirror: the controller's sweep
starts a pass every ten minutes (`intervalMilliseconds`), whatever hints it missed, and every call of a pass
returns. `CopiesConverge` does not assume that calls succeed or that the environment rests: it says what must
follow if, from some point on, only the controller's regular steps happen. Enrollment: `WF(Recover)`, the
clock (`Overdue`, `LeaseExpires`), API Gateway, which ends an update it has begun (`DomainSettles`), and
`Handle(h) \/ Stop(h)`: a handler goes on or dies. SecretClients: the service ends a call or recovery releases
its lease, the run loop's interval elapses (`Sweep`), and a pass that has begun goes on; clients, watches and
hints are not fair. SecretMigrations: the operator goes on repeating migrations, of either kind, until the UID
migration reports success or the identity migration refuses, and the event source polls and the publisher
works. Elsewhere requests are never fair: a client may go away, and a Lambda may die, between any two calls.

## What the runs show

The protocol keeps its promises under every interleaving of three requests, expiry and recovery. The
final transaction does not compare the control version again and does not look at the lease's expiry;
`NoLostUpdate` holds because the lease can be taken only by an operation whose If-Match equals the
head, and the head changes only in the hands of the lease's holder. (That an archived secret stays
archived under administrators' requests is a consequence.)

The sync index is a projection of the heads although counter, previous entry and head are read one after
another: the order of the two reads matters, because a publication of the same secret in between changes the
counter that the transaction compares. A checkpoint is safe because the range of a cycle is
fixed before its first page, an entry only moves behind that range, and a failed import keeps
the old checkpoint or has lost the status that would let its copy be trusted; the day between
the two lifetimes is what a last cycle of an old checkpoint needs (`MarkersOutliveCheckpoints`).

Enrolment keeps consumer, certificate and operation together because each transaction conditions all three,
so whichever of a handler, its retry and recovery comes second finds its conditions false. Certificates
stay trusted because there is one root, put by a conditional write, and no bundle without it is ever stored.
A grant belongs to one certificate because activation compares it, whatever the retries before it did.
A change of an export is never lost between its watch event and a pass because it sets a timer or the
rerun flag before the pass that missed it ends.

One statement is refuted by TLC. `mutation_lease_kept`: recovery of an expired *update* calls
`abortPreparedCreate` first. Its transaction is cancelled, as intended; but the method recognises
only a `ConditionalCheckFailedException`, while a cancelled `TransactWriteCommand` is a
`TransactionCanceledException` (`repositories/agent-sync.ts:306` expects that name). The error
ends the pass: the lease stays until another writer takes it over, the failure is not
audited, and the operations behind it wait for the next pass. The abort of a *create* succeeds and needs no
name, which is why `mutation_recovers` gives names back under the same error.

## Observations

What the code does that a reader of its documentation might not expect. The models do these things as the
code does; no run claims the contrary.

*Mutations.* A recovery pass that dies after `markRetryable` leaves a PREPARED create, and its name, for
ever: only PREPARED operations are listed again. An agent with a write grant reaches a secret by
UID, so its write after an archive brings the head back to the live catalog under a name that no longer
reaches it; its readers do not come back (`UnreachedIsUnread`). `IndexesMatchHeads` is therefore checked
where administrators alone write. The `authorized` audit of an agent's write is written after the commit, and so are
bootstrap's after the redemption (`docs/architecture.md:366-368`). `markAuditSucceeded` upserts: a POST that
creates the issuer leaves an idempotency record, whose key then conflicts with mutations.

*Retention.* A pass that dies between the deletion and the mark leaves the record READY; each later pass
stops at it with the error S3 gives for a version that does not exist.

*Enrolment.* A second handler of an operation can acquire the lease again after the first completed it,
and the finished operation then holds it for up to ten minutes. Recovery writes a `failed` audit even
if `failEnrollment` lost its race. A rollback whose publication fails leaves the operation PREPARED until
recovery. "Only the operation holding the truststore lease can publish" (`docs/architecture.md:156`) is
not literally so: the lease is not compared when API Gateway is called, and what keeps certificates
trusted is that no stored bundle lacks the root. A rotation's idempotent answer says ACTIVE even if the
certificate was revoked since. The `pending*` truststore fields are written and not read.

*Grants.* A policy that names an archived secret makes every reconciliation fail. The unused-consumer check
of a create (`docs/api.md:602`) is separate from its transaction. An update of a PENDING grant that
overlaps its redemption (`agent-grants.ts:107-145`, `243`) can leave the ACLs of the older
policy, until the next update or the repair script. `docs/api.md` allows one to twenty grants, the
code 1000.

*Listings.* A list that is reset while a request is in flight can end up exhausted but incomplete
(`useCursorPages.ts:46-57` against `docs/console-plan.md:834-837`). A reused name whose rows fall on two
pages of the change feed (`dynamo.ts:1046-1052`) can lose the live secret's copy to the tombstone.
`docs/api.md:286,337` and `docs/architecture.md:371` differ on whether routine reads are audited.

*Clients.* A deterministic key that was spent by a failed attempt makes an export fail for ever
(`v1beta.ts:1549`, "safe to retry because all controller operations are idempotent", against
`secrets.ts:534-540` and `docs/acceptance.md:216`); that is the second case of `ExportsConvergeOrStall`. A
failed synchronisation replaces the consumer's status and with it the checkpoint. After a lost answer or a 409
the console reads the revision again. "It was applied after all", which a comment reads as "our write landed"
(`SecretMetadata.vue:78-79`), then says only that somebody replaced the draft's base, and "absent" can be
followed by a late commit: `DraftsAreGuarded` states of the two verdicts what is true, that the first never
stands while the base is current, and that neither leaves a call of the draft under way once the base was
replaced. A reload of the payload editor does not renew the version a loaded payload came from. A Pulumi
create takes over any secret of its name; an answer lost before the program is reverted makes the next update
a no-op while the secret keeps the new payload; an `AgentGrant` whose capability call fails is stuck on a 409.

*Migrations.* The identity migration cannot be resumed between two heads, nor before the access rows moved:
it refuses, and in the second case the UID migration then succeeds and leaves legacy access rows.
Stopped before the notifications were filled, it returns at its next start without a word. The UID
migration refuses an archived head that was never moved, and passes over rows of the oldest form: its success
says nothing of them (`ReportsAreTrue`). Its scans are not consistent, so one that misses a head which an
earlier run moved leaves that secret out of exact scopes for good, and a verification that misses it
reports success; `overlooked` is the set of such secrets. The console-index backfill updates
unconditionally. The folder backfill lists archived secrets in the live catalog (`docs/api.md:449`).

*Notifications.* A comment of the publisher says that filling a pending record's environment "produces
MODIFY rather than INSERT", and to "deliver the still-pending event" (`handlers/notifications.ts:25-27`); but
`cdk/stack.ts:553` passes on INSERT only, so a notification that an older release left pending is never
sent. `NotificationsEnd` states both halves: this release's records are published or dead-lettered, and
those of an older one stay PENDING and reach nobody.

## The proofs

Every safety property the runs check is a theorem, but for the half of `IndexesMatchHeads` about the
catalog, which is model-checked only (`CatalogIsReachable`: it holds where no agent writes, and the code
does not promise that). The theorems hold for every
number of operations, names, consumers, secrets, payloads, requests, handlers and script runs, from the
named assumptions of each module and nothing else; TLC evaluates those assumptions in the runs.

`SecretMutationProofs`, for every setting of the switches (they are not assumed to be off), under
`NoneAssumption`, `SwitchAssumption` and `CancelAssumption` only:

| Theorem | States | Inductive invariant |
| --- | --- | --- |
| `TypeCorrectness` | `Spec => []TypeOK` | `TypeOK` itself; `RequestIsAddressed` is the part a plain type invariant lacks: without it `head[target[o]]` has no type |
| `LostUpdatesAreImpossible` | `Spec => NoLostUpdate` | `LeaseInv`: while a READY head carries the lease of `o`, `o` is persisting, its target is that head and its If-Match is the head's control revision. Needed because the commit compares nothing but the lease |
| `KeysCommitOnce` | `Spec => []AtMostOncePerKey` | `RecordInv`: an operation that left a workflow record owns the idempotency record of its key, and that record never changes again |
| `FailuresAreFinal` | `Spec => []FailureEvidenceIsFinal` | `EvidenceInv`: an operation that recovery is about to audit, or has audited, has a RETRYABLE record, where it stays, and its commit compares every record with PREPARED |
| `HeadsMatchTheirRevisions` | `Spec => []HeadMatchesRevision` | `RegistryInv`, with the three above: a READY head agrees with its revision, a PREPARED one belongs to the create that made it (`HeadInv`); a name that is taken leads to a live head of that name (`NameInv`); what a request has read stays true as long as the revision it replaces is current (`RequestInv`) |
| `NamesAreKept` | `Spec => []NamesReachTheirSecret` | `RegistryInv` |
| `ReadersFollowTheAcl` | `Spec => []AccessMatchesAcl` | `RegistryInv`: the rows a READY head gives its readers are those of its control revision, agents' writes included |
| `UnreachedSecretsAreUnread` | `Spec => []UnreachedIsUnread` | `RegistryInv`: a head whose name leads elsewhere was archived, its control revision has an empty ACL, and a mutation by UID keeps the ACL it read |
| `MutationsImplementTheRegistry` | `Spec => ImplementsRegistry` | `RegistryInv`: the step that moves the head is the one step of SecretRegistry, and the revision it installs is what `RequestInv` says the request read, with its change; every other step maps to a stutter |

`SecretDeliveryProofs`, under `DistinctNone` and `RetentionStopsAreCounted`: `CustodyIsKept`
(`DeliveryInv`) and `DeliveriesWereAuthorized` (`DeliveriesAreAuthorized`). The inductive invariant
`CustodyInv` says why nobody deletes what somebody is about to read: a read that was let through holds two
objects that exist and are locked or current (`ReadInv`); a mutation locks what its head named before it
replaces the head (`WriterInv`), and a version under preparation is nobody else's; what a pass is about to
lock, delete or mark is no head's, and never becomes one again, because heads move to new versions only
(`PassInv`). `DeliveriesImplementTheRegistry` (`Spec => Promised!Spec`, stated in the proof module) adds
`SourceInv`: what a mutation prepared is its request done to the revision it read. With `WriterInv`, which
says that this revision is still the current one, the final transaction is one step of SecretRegistry, and
every step of a read, a pass or time is a stutter.

`SyncPublicationProofs`, under the assumptions that name the publishers and the constants of the
module: `SyncTypeCorrectness`, `IndexIsAProjection` (`IndexMatchesHeads`), `ReadyIndexesAreComplete` and
`PublicationsImplementTheIndex` (`Spec => ImplementsIndex`). The inductive invariant `IndexInv`
adds to the types what makes a publication in three steps atomic: sequences of heads and entries are at most
the counter (`HeadsInv`), a publication whose counter is still the one it read also read the previous
sequence of its head as it still is (`ReadsInv`; this is where the order of the two reads enters), a
lease has one owner (`OwnersInv`), and the script's snapshot and scan contain every secret that is still
missing (`SnapshotInv`, `ScanInv`). The refinement maps head and counter to the index and shows that
only `Publish`, the backfill's puts and the TTL move it.

`EnrollmentProofs`, under `NoneAssumption`, `RecoveryAssumption` and `BoundAssumption`:
`EnrollmentTypeCorrectness`, `EnrolmentsMatchTheirConsumers` (`ConsumersMatchEnrollments`),
`CertificatesStayTrusted` (`TrustCoversCertificates`), `PromotedTruststoresAreServed`
(`PromotedBundlesWereServed`), `AnsweredEnrolmentsAreActive` (`AnswersAreActive`) and
`EnrolmentImplementsTheRegistry` (`Spec => ImplementsRegistry`). The inductive invariant `TrustInv`
is `TypeOK` with what an invocation still knows about its operation and bundle (`ThreadOK`), one
issuer for all certificates (`RootsInv`), the agreement of the three records of an enrolment
(`EnrollmentsInv`) and a root in every stored bundle (`BundlesInv`). The lemma `OthersStayOK` carries the
weight: no step takes anything back that another invocation relies on (`Forward`), so only the invocation that
moved has to be looked at.

`PagedReadersProofs`, about AgentMirror, under the five assumptions of that module: `CheckpointsVouch`
(`MirrorInv`). In `CopyInv` an index entry stands where its secret was last published, until its marker is forgotten
(`IndexInv`); a token counted no more than was published, and the markers of what was archived since outlive
it (`Counted`); a delta cycle continues the checkpoint and has mentioned what it has passed (`DeltaInv`), so
the pages that are left cannot miss a tombstone; an import that was dealt with is vouched for, before that
a delta's silence vouches for it (`ImportInv`); what was fetched is current unless published since
(`FetchInv`), and the copy a fetch asks about is the one that was found or gone (`AskInv`). This is where
`MarkersOutliveCheckpoints` is used; with a marker one tick
shorter than it asks for, TLC finds `MirrorInv` violated. Secrets are finitely many, because a full
publication counts them.

`PagedReadersProofs`, about Listings, under `UidsAssumption`, `NamesAssumption` and `SizesAssumption`:
`DeadCopiesDropped` (`QuietCyclesDropTheDead`), `SnapshotsExact` (`OnePageSnapshotsAreExact`),
`ListsComplete` (`ExhaustedListsAreComplete`) and `ListingsSafe` (`ListingsInv`). Both indexes are strict
total orders, so a page is a first part of its rows, full if anything is left out, and what is left out comes
after its last row (`FeedPages`, `CatalogPages`). The inductive invariant `PagesInv` follows from there. In
a quiet cycle a copy of what may not be read has its row ahead, on the page in hand, or is about to be deleted
or overwritten (`DeadInv`); until a second page has rows, what may be read is ahead, on this page, about to
be fetched, or copied (`FirstPageInv`), which a second page breaks, because a tombstone there deletes a copy
that the first page made; and one live secret has a name (`NamesInv`). A list that was not emptied under a request
asks for exactly what it shows, and shows what matched all along or has it behind its cursor (`Well`).
`TreesAddUp` needs no induction over steps: an untruncated page read fewer rows than its bound, hence all of
them, and a folder's secrets are those below the longer prefix (`TreesAreExact`); that the counts add up is a
least counterexample among the sets of folders (`CountsAddUp`).

`AgentGrantsProofs`, under `NoneAssumption`, `OrderAssumption` and `BoundAssumption`:
`OneIdentityForEachGrant` (`GrantsInv`), `QuietReconciliationsAreExact` (`QuietReconcileIsExact`),
`ActiveGrantsWereProvisioned` (`ActiveGrantsAreProvisioned`) and `ActivationsStand`
(`ActivationsAreFinal`). What carries it is `Forward`: an activation and the certificate it is for, the
consumption of a capability, the owner of a certificate and its provisioning are never taken back, so
what an invocation has learnt stays so (`InvocationsKnow`) whatever the others do. For the ACLs, what is
left of a reconciliation accounts for every difference from the policy (`Exact`), and only live secrets
have readers (`ReadersOfTheLiving`).

`SecretClientsProofs`, under `ValuesAssumption` and `BoundsAssumption`: `ChangesStayScheduled`
(`ChangesAreScheduled`), `SkipsAreSafe` (`SkippedExportsAreCurrent`) and `DraftsStayGuarded`
(`ClientsInv`). The inductive invariant `ClientsKnow` has a part for each of them over what they share,
`CallsInv`: one lease on the secret, a prepared call names the head that is still current, one answer
for each waiting client. `WakeInv` sharpens `ChangesAreScheduled`: only a pass that has not begun or
is being saved may leave a change to a refused export, because a status that becomes ready takes that
excuse away. `PassInv`, `ExportInv` and `StatusInv` say that what a pass has read is the secret as it is
or older, that a call changes what it says, and that a ready status is the secret as of the checkpoint
that was saved or will be. `DraftInv` follows the calls that carry the draft's key: all of them name its
base, an answer that rules the draft out is the last of them, and a prepared one needs the base to be
current, which is what the verdicts of a second read rest on.

`SecretMigrationsProofs`, under `OldAssumption`, `MaxIncidentsAssumption` and `RetriesAssumption`:
`UpgradesStayWhole` (`UpgradeInv`), from two invariants that do not need each other. `MigrationInv`: rows
and readers are unique and whole, a scoped head has left no revision behind (`RowsInv`); each script knows
what it has left, and the UID migration, whose scan may be stale, sees a row where it is or where it was
before it moved to its UID, and has or will put the name of every secret that no scan overlooked
(`JobInv`); no secret is archived before the release serves, so a scope that was made exact has all of
those secrets (`FormInv`). `PublicationInv`: of the record that is published next,
whoever was told has it (`QueueInv`).

Each inductive invariant was first model-checked on the instance of the module's run and then proved with
one lemma or step per action of `Next`.

Model-checked only: every liveness property (`PreparedCreateIsResolved`, `RetryableLeaseIsReleased`,
`CopiesConverge`, `ExportsConvergeOrStall` and those of the other runs), because fairness and ENABLED are out
of the prover's reach, and `CatalogIsReachable`.

## Not modelled

- **Authentication** (`src/auth`): stateless checks of certificates, headers and tokens.
- **Envelope encryption, X.509, CSR parsing**: cryptography; a payload, key or certificate is a value.
- **Environments**: one bounded counter and a conditional put; every model works in one environment.
- **Routing, validation of bodies, response formats, audit queries, audit storage keys**: no state beyond what
  the modules have; the order of the calls behind each route is modelled.
- **The controller's bootstrap of its own identity, the merging of several imports into one Kubernetes
  Secret, the wire format of watches**: local to one pass, without a second actor.
- **Client transport, typed wrappers and the command line**: stateless; what a lost answer does to a caller is
  in SecretClients.
- **The console's presentation, sign-in, schema and payload text formats**, and **the scripts that run or
  verify a local stack**: no shared state.
- **Pulumi's `AgentGrant` and replacement of a resource**: their order is the engine's, which is not in this
  repository.
- **Infrastructure**: declarative. Schedules, timeouts, the stream's event source and the Object Lock
  default appear as fairness and as time steps of the modules that rely on them.
- Three hazards have no property: what a dying pass leaves behind, the PREPARED create of recovery
  (`recovery.ts:78`) and the READY record of retention (`retention.ts:46`), both certainties and not
  races (*Observations*), and the page limit of `listReadyWorkflows` (`dynamo.ts:2261`),
  whose effect begins with more records than an instance can hold.

What would come next: the heads of SecretClients, AgentGrants and Listings as instances of SecretRegistry.
These modules keep no revisions, so each would need history variables to be mapped; then every row of
the composition table would rest on a proof.
