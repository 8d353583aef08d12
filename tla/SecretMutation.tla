--------------------------- MODULE SecretMutation ---------------------------
(***************************************************************************)
(* The mutation protocol of hemlig's secrets: SecretService.create,        *)
(* update, updateFromSnapshot and archive (src/services/secrets.ts), the   *)
(* DynamoDB transactions they run (src/repositories/dynamo.ts), the        *)
(* immutable S3 revisions they write, and the scheduled recovery of        *)
(* mutations that stopped half way (src/handlers/recovery.ts).             *)
(*                                                                         *)
(* A mutation is a Lambda invocation that may stop between any two of its  *)
(* calls.  Its identity `o` also names the control revision (ctl-...), the *)
(* payload revision (pay-...) and, for a create, the secret (sec-...) it   *)
(* makes: the code draws each of them once per request with newId().       *)
(***************************************************************************)
EXTENDS Naturals, FiniteSets

CONSTANTS
    Ops,            \* mutation requests, and the revisions and secrets they make
    Names,          \* public secret IDs of one environment
    Consumers,      \* active consumers of that environment
    None,           \* no operation, revision, secret or name
    Retries,        \* TRUE: a client may repeat a request under its first key
    AgentWrites,    \* TRUE: an agent holds write grants on secret UIDs
    RecoveryStops,  \* TRUE: a recovery pass may die between two calls
    CancelErrors    \* names under which DynamoDB reports a cancelled transaction

ASSUME NoneAssumption == None \notin Ops /\ None \notin Names
ASSUME SwitchAssumption ==
    /\ Retries \in BOOLEAN /\ AgentWrites \in BOOLEAN
    /\ RecoveryStops \in BOOLEAN
ASSUME CancelAssumption ==
    CancelErrors \subseteq {"ConditionalCheckFailed", "TransactionCanceled"}

VARIABLES
    \* The control table
    head,        \* SECRET#uid / HEAD
    lookup,      \* SECRET_NAME#name / LOOKUP: the secret a name reaches
    access,      \* CONSUMER#c / SECRET#uid: delivery row of a consumer
    workflow,    \* SECRET#uid / CONTROL#v and PAYLOAD#v: workflowState
    retention,   \* the same rows: their place in the RETENTION#DUE index
    idempotency, \* IDEMPOTENCY#actor / REQUEST#key: the operation that took it
    expired,     \* operations whose lease and workflow expiry is past
    \* The revision bucket
    objects,     \* immutable object versions that exist
    locked,      \* object versions still under an Object Lock retention date
    \* The audit bucket
    audit,       \* evidence that an operation succeeded, or that recovery failed it
    \* Mutation requests
    pc,          \* where each request is
    target,      \* secret UID it mutates
    key,         \* its idempotency key, named for the first request that used it
    revision,    \* content of the control revision it makes
    local,       \* the rest of its local variables
    \* The recovery Lambda
    recovery

tableVars == <<head, lookup, access, workflow, retention, idempotency, expired>>
bucketVars == <<objects, locked, audit>>
requestVars == <<pc, target, key, revision, local>>
vars == <<tableVars, bucketVars, requestVars, recovery>>

-----------------------------------------------------------------------------
(* Types and empty records *)

Kinds == {"control", "payload"}
Revisions == Kinds \X Ops
OpOrNone == Ops \cup {None}
SecretStates == {"PENDING_VALUE", "ACTIVE", "ARCHIVED"}
Requests == {"create", "acl", "payload", "archive", "agentPayload", "agentMetadata"}
AgentRequests == {"agentPayload", "agentMetadata"}
PayloadRequests == {"payload", "agentPayload"}

\* Before the request leaves a trace, and after it.
Preparing == {"begun", "resolved", "read", "ready"}
Persisting == {"prepared", "control", "stored", "extended"}
InFlight == Preparing \cup Persisting \cup {"committed"}
PCs == {"idle", "done", "ended"} \cup InFlight

Rows == {"none", "readable", "revoked"}

NoHead ==
    [status |-> "ABSENT", name |-> None, control |-> None, payload |-> None,
     state |-> "PENDING_VALUE", catalog |-> "live", lease |-> None]

HeadRecord ==
    {NoHead} \cup
    [status : {"PREPARED", "READY"}, name : Names, control : Ops,
     payload : OpOrNone, state : SecretStates,
     catalog : {"live", "archived"}, lease : OpOrNone]

ControlRevision ==
    [state : SecretStates, acl : SUBSET Consumers, payload : OpOrNone]

NoRevision == [state |-> "PENDING_VALUE", acl |-> {}, payload |-> None]

Locals ==
    [request : Requests, name : Names \cup {None}, acl : SUBSET Consumers,
     ifMatch : OpOrNone, control : OpOrNone, payload : OpOrNone,
     seen : [Consumers -> Rows]]

NoRows == [c \in Consumers |-> "none"]

NoLocals ==
    [request |-> "create", name |-> None, acl |-> {}, ifMatch |-> None,
     control |-> None, payload |-> None, seen |-> NoRows]

RecoveryPhases == {"idle", "next", "mark", "head", "abort", "release", "audit"}
RecoveryRecord ==
    [phase : RecoveryPhases, todo : SUBSET Ops, operation : OpOrNone,
     unmarked : SUBSET Kinds, moved : BOOLEAN]
NoPass ==
    [phase |-> "idle", todo |-> {}, operation |-> None, unmarked |-> {}, moved |-> FALSE]

TableTypeOK ==
    /\ head \in [Ops -> HeadRecord]
    /\ lookup \in [Names -> OpOrNone]
    /\ access \in [Ops -> [Consumers -> Rows]]
    /\ workflow \in [Revisions -> {"none", "PREPARED", "RETRYABLE", "READY", "DELETED"}]
    /\ retention \in [Revisions -> {"none", "scheduled", "due"}]
    /\ idempotency \in [Ops -> OpOrNone]
    /\ expired \subseteq Ops

BucketTypeOK ==
    /\ objects \subseteq Revisions
    /\ locked \subseteq Revisions
    /\ audit \in [Ops -> SUBSET {"succeeded", "failed"}]

RequestTypeOK ==
    /\ pc \in [Ops -> PCs]
    /\ target \in [Ops -> OpOrNone]
    /\ key \in [Ops -> OpOrNone]
    /\ revision \in [Ops -> ControlRevision]
    /\ local \in [Ops -> Locals]

\* A request that goes on has a key and names a secret, one that is not a create
\* names the revision it replaces, and after the first read it has found the
\* secret: the 404 of requireHead ends the others.
RequestIsAddressed(o) ==
    /\ pc[o] # "idle" => key[o] \in Ops
    /\ pc[o] \in InFlight => local[o].name \in Names
    /\ pc[o] \in InFlight /\ local[o].request # "create" => local[o].ifMatch \in Ops
    /\ pc[o] \in InFlight \ {"begun"} => target[o] \in Ops

TypeOK ==
    /\ TableTypeOK
    /\ BucketTypeOK
    /\ RequestTypeOK
    /\ \A o \in Ops : RequestIsAddressed(o)
    /\ recovery \in RecoveryRecord

Init ==
    /\ head = [u \in Ops |-> NoHead]
    /\ lookup = [n \in Names |-> None]
    /\ access = [u \in Ops |-> NoRows]
    /\ workflow = [r \in Revisions |-> "none"]
    /\ retention = [r \in Revisions |-> "none"]
    /\ idempotency = [k \in Ops |-> None]
    /\ expired = {}
    /\ objects = {}
    /\ locked = {}
    /\ audit = [o \in Ops |-> {}]
    /\ pc = [o \in Ops |-> "idle"]
    /\ target = [o \in Ops |-> None]
    /\ key = [o \in Ops |-> None]
    /\ revision = [o \in Ops |-> NoRevision]
    /\ local = [o \in Ops |-> NoLocals]
    /\ recovery = NoPass

-----------------------------------------------------------------------------
(* Admission of a request *)

\* A client draws a fresh key per request, or repeats one it already sent.
ChooseKey(o) ==
    \E k \in {o} \cup (IF Retries THEN {key[p] : p \in Ops} \ {None} ELSE {}) :
        key' = [key EXCEPT ![o] = k]

\* SecretService.create: a new UID and a PENDING_VALUE revision.
BeginCreate(o, n, acl) ==
    /\ pc[o] = "idle"
    /\ pc' = [pc EXCEPT ![o] = "ready"]
    /\ target' = [target EXCEPT ![o] = o]
    /\ ChooseKey(o)
    /\ revision' = [revision EXCEPT ![o] = [NoRevision EXCEPT !.acl = acl]]
    /\ local' = [local EXCEPT ![o] = [NoLocals EXCEPT !.name = n]]
    /\ UNCHANGED <<tableVars, bucketVars, recovery>>

\* The administrator sends as If-Match the revision an earlier GET returned.
BeginByName(o, request, n, acl) ==
    /\ pc[o] = "idle"
    /\ lookup[n] # None
    /\ head[lookup[n]].status = "READY"
    /\ request # "acl" => acl = {}
    /\ pc' = [pc EXCEPT ![o] = "begun"]
    /\ ChooseKey(o)
    /\ local' = [local EXCEPT ![o] =
          [NoLocals EXCEPT !.request = request, !.name = n, !.acl = acl,
                           !.ifMatch = head[lookup[n]].control]]
    /\ UNCHANGED <<tableVars, bucketVars, target, revision, recovery>>

\* AgentService.update takes the UID from the grant, never from the name, and
\* the agent's If-Match from its last control read or version-index entry.
BeginByAgent(o, request, u) ==
    /\ AgentWrites
    /\ pc[o] = "idle"
    /\ head[u].status = "READY"
    /\ pc' = [pc EXCEPT ![o] = "resolved"]
    /\ target' = [target EXCEPT ![o] = u]
    /\ ChooseKey(o)
    /\ local' = [local EXCEPT ![o] =
          [NoLocals EXCEPT !.request = request, !.name = head[u].name,
                           !.ifMatch = head[u].control]]
    /\ UNCHANGED <<tableVars, bucketVars, revision, recovery>>

Begin(o) ==
    \/ \E n \in Names, acl \in SUBSET Consumers : BeginCreate(o, n, acl)
    \/ \E request \in {"acl", "payload", "archive"}, n \in Names,
          acl \in SUBSET Consumers : BeginByName(o, request, n, acl)
    \/ \E request \in AgentRequests, u \in Ops : BeginByAgent(o, request, u)

-----------------------------------------------------------------------------
(* Reads that precede the transaction; none of them is atomic with another *)

\* Mutant: requireHead goes on when the name has no lookup record.
ResolveAnyName(o) ==
    /\ pc[o] = "begun"
    /\ pc' = [pc EXCEPT ![o] = "resolved"]
    /\ target' = [target EXCEPT ![o] = lookup[local[o].name]]
    /\ UNCHANGED <<tableVars, bucketVars, key, revision, local, recovery>>

\* getSecretUid, the first read of requireHead.
ResolveName(o) ==
    /\ pc[o] = "begun"
    /\ lookup[local[o].name] # None
    /\ pc' = [pc EXCEPT ![o] = "resolved"]
    /\ target' = [target EXCEPT ![o] = lookup[local[o].name]]
    /\ UNCHANGED <<tableVars, bucketVars, key, revision, local, recovery>>

\* The control revision the request makes out of the current one.
NextRevision(o, current) ==
    LET request == local[o].request IN
    [state |-> IF request \in PayloadRequests THEN "ACTIVE"
               ELSE IF request = "archive" THEN "ARCHIVED" ELSE current.state,
     acl |-> IF request = "acl" THEN local[o].acl
             ELSE IF request = "archive" THEN {} ELSE current.acl,
     payload |-> IF request \in PayloadRequests THEN o ELSE current.payload]

\* requireHeadBySecretUid, getControl and assertExpectedVersion: the head must
\* carry the revision named by If-Match and its control object must be readable.
ReadHead(o) ==
    LET h == head[target[o]] IN
    /\ pc[o] = "resolved"
    /\ h.status = "READY"
    /\ <<"control", h.control>> \in objects
    /\ h.control = local[o].ifMatch
    /\ pc' = [pc EXCEPT ![o] = "read"]
    /\ revision' = [revision EXCEPT ![o] = NextRevision(o, revision[h.control])]
    /\ local' = [local EXCEPT ![o] = [@ EXCEPT !.control = h.control, !.payload = h.payload]]
    /\ UNCHANGED <<tableVars, bucketVars, target, key, recovery>>

\* priorAccess: the rows of the current ACL's consumers, found through the name.
ReadAccess(o) ==
    LET u == lookup[local[o].name] IN
    /\ pc[o] = "read"
    /\ pc' = [pc EXCEPT ![o] = "ready"]
    /\ local' = [local EXCEPT ![o].seen =
          [c \in Consumers |->
              IF u # None /\ c \in revision[local[o].control].acl
              THEN access[u][c] ELSE "none"]]
    /\ UNCHANGED <<tableVars, bucketVars, target, key, revision, recovery>>

-----------------------------------------------------------------------------
(* prepareMutation *)

LeaseFree(u) == head[u].lease = None \/ head[u].lease \in expired

Writes(o) ==
    {"control"} \cup (IF local[o].request \in PayloadRequests THEN {"payload"} ELSE {})

\* Mutant: a key is forgotten when the operation that took it expires.
KeyFreeOrExpired(o) == idempotency[key[o]] = None \/ idempotency[key[o]] \in expired

\* A key that is already taken is a conflict for every caller, for ever.
KeyFree(o) == idempotency[key[o]] = None

\* Mutant: the name lookup is written without its condition.
PrepareCreateOverLookup(o) ==
    /\ local[o].request = "create"
    /\ head[o] = NoHead
    /\ head' = [head EXCEPT ![o] =
          [NoHead EXCEPT !.status = "PREPARED", !.name = local[o].name,
                         !.control = o, !.lease = o]]
    /\ lookup' = [lookup EXCEPT ![local[o].name] = o]

PrepareCreate(o) ==
    /\ local[o].request = "create"
    /\ head[o] = NoHead
    /\ lookup[local[o].name] = None
    /\ head' = [head EXCEPT ![o] =
          [NoHead EXCEPT !.status = "PREPARED", !.name = local[o].name,
                         !.control = o, !.lease = o]]
    /\ lookup' = [lookup EXCEPT ![local[o].name] = o]

\* Mutant: the lease is taken without comparing the control version again.
PrepareUpdateUnversioned(o) ==
    /\ local[o].request # "create"
    /\ LeaseFree(target[o])
    /\ head' = [head EXCEPT ![target[o]].lease = o]
    /\ UNCHANGED lookup

PrepareUpdate(o) ==
    /\ local[o].request # "create"
    /\ head[target[o]].control = local[o].ifMatch
    /\ LeaseFree(target[o])
    /\ head' = [head EXCEPT ![target[o]].lease = o]
    /\ UNCHANGED lookup

\* One transaction: the idempotency record, the PREPARED workflow records and
\* the head lease.
Prepare(o) ==
    /\ pc[o] = "ready"
    /\ KeyFree(o)
    /\ PrepareCreate(o) \/ PrepareUpdate(o)
    /\ pc' = [pc EXCEPT ![o] = "prepared"]
    /\ idempotency' = [idempotency EXCEPT ![key[o]] = o]
    /\ workflow' = [r \in Revisions |->
          IF r[2] = o /\ r[1] \in Writes(o) THEN "PREPARED" ELSE workflow[r]]
    /\ UNCHANGED <<access, retention, expired, bucketVars,
                   target, key, revision, local, recovery>>

-----------------------------------------------------------------------------
(* Immutable objects *)

\* putImmutable of the control revision; a new version starts locked.
PutControl(o) ==
    /\ pc[o] = "prepared"
    /\ <<"control", o>> \notin objects
    /\ pc' = [pc EXCEPT ![o] = IF "payload" \in Writes(o) THEN "control" ELSE "stored"]
    /\ objects' = objects \cup {<<"control", o>>}
    /\ locked' = locked \cup {<<"control", o>>}
    /\ UNCHANGED <<tableVars, audit, target, key, revision, local, recovery>>

PutPayload(o) ==
    /\ pc[o] = "control"
    /\ <<"payload", o>> \notin objects
    /\ pc' = [pc EXCEPT ![o] = "stored"]
    /\ objects' = objects \cup {<<"payload", o>>}
    /\ locked' = locked \cup {<<"payload", o>>}
    /\ UNCHANGED <<tableVars, audit, target, key, revision, local, recovery>>

\* The revisions the mutation supersedes.  An unchanged payload is among them.
Superseded(o) ==
    {r \in Revisions : \/ r[1] = "control" /\ r[2] = local[o].control
                       \/ r[1] = "payload" /\ r[2] = local[o].payload}

\* extendPriorRetention: 91 more days for the exact versions being replaced.
Extend(o) ==
    /\ pc[o] = "stored"
    /\ Superseded(o) \subseteq objects
    /\ pc' = [pc EXCEPT ![o] = "extended"]
    /\ locked' = locked \cup Superseded(o)
    /\ UNCHANGED <<tableVars, objects, audit, target, key, revision, local, recovery>>

-----------------------------------------------------------------------------
(* completeMutation *)

\* accessItemsFor: a row for every consumer of the old rows and of the new ACL.
AccessItems(o) ==
    [c \in Consumers |->
        IF c \in revision[o].acl THEN "readable"
        ELSE IF local[o].seen[c] # "none" THEN "revoked"
        ELSE access[target[o]][c]]

\* Mutant: only the numbers of readers are compared.
AccessCountChanged(o) ==
    Cardinality(revision[o].acl)
    # Cardinality({c \in Consumers : local[o].seen[c] = "readable"})

\* accessProjectionChanged: rows are left alone when the set of readers is.
AccessChanged(o) ==
    revision[o].acl # {c \in Consumers : local[o].seen[c] = "readable"}

\* Mutant: neither the lease nor the operation's own records are compared.
CommitUnfenced(o) == \A r \in Superseded(o) : workflow[r] = "READY"

\* The conditions of the final transaction: the operation still owns the lease,
\* whose expiry is not compared, its own records are still PREPARED, and the
\* records it schedules for retention are READY.
CommitConditions(o) ==
    /\ head[target[o]].lease = o
    /\ \A k \in Writes(o) : workflow[<<k, o>>] = "PREPARED"
    /\ \A r \in Superseded(o) : workflow[r] = "READY"

\* Mutant: a mutation without a payload removes the head's payload pointer.
HeadWithoutPriorPayload(o) ==
    [head[target[o]] EXCEPT
        !.status = "READY",
        !.control = o,
        !.payload = IF "payload" \in Writes(o) THEN o ELSE None,
        !.state = revision[o].state,
        !.catalog = IF local[o].request = "archive" THEN "archived" ELSE "live",
        !.lease = None]

CommittedHead(o) ==
    [head[target[o]] EXCEPT
        !.status = "READY",
        !.control = o,
        !.payload = IF "payload" \in Writes(o) THEN o ELSE local[o].payload,
        !.state = revision[o].state,
        !.catalog = IF local[o].request = "archive" THEN "archived" ELSE "live",
        !.lease = None]

\* An archive frees the name in the same transaction.
ReleaseName(o) ==
    IF local[o].request = "archive"
    THEN /\ lookup[local[o].name] = target[o]
         /\ lookup' = [lookup EXCEPT ![local[o].name] = None]
    ELSE UNCHANGED lookup

\* One transaction: switch the head, mark the workflows READY, schedule the
\* superseded revisions for retention, replace the access rows, free the name.
Complete(o) ==
    /\ pc[o] = "extended"
    /\ CommitConditions(o)
    /\ ReleaseName(o)
    /\ pc' = [pc EXCEPT ![o] = "committed"]
    /\ head' = [head EXCEPT ![target[o]] = CommittedHead(o)]
    /\ workflow' = [r \in Revisions |->
          IF r[2] = o /\ r[1] \in Writes(o) THEN "READY" ELSE workflow[r]]
    /\ retention' = [r \in Revisions |->
          IF r \in Superseded(o) THEN "scheduled" ELSE retention[r]]
    /\ access' = IF AccessChanged(o)
                 THEN [access EXCEPT ![target[o]] = AccessItems(o)]
                 ELSE access
    /\ UNCHANGED <<idempotency, expired, bucketVars,
                   target, key, revision, local, recovery>>

\* humanOperation: terminal evidence precedes the successful response.
RecordSuccess(o) ==
    /\ pc[o] = "committed"
    /\ pc' = [pc EXCEPT ![o] = "done"]
    /\ audit' = [audit EXCEPT ![o] = @ \cup {"succeeded"}]
    /\ local' = [local EXCEPT ![o] = NoLocals]
    /\ UNCHANGED <<tableVars, objects, locked, target, key, revision, recovery>>

\* The invocation stops: a check above fails and throws, a call fails, or the
\* Lambda dies.  No handler cleans up, so only its local variables go.
Abandon(o) ==
    /\ pc[o] \in InFlight
    /\ pc' = [pc EXCEPT ![o] = "ended"]
    /\ local' = [local EXCEPT ![o] = NoLocals]
    /\ IF pc[o] \in Preparing
       THEN /\ target' = [target EXCEPT ![o] = None]
            /\ revision' = [revision EXCEPT ![o] = NoRevision]
       ELSE UNCHANGED <<target, revision>>
    /\ UNCHANGED <<tableVars, bucketVars, key, recovery>>

Mutate(o) ==
    \/ Begin(o) \/ ResolveName(o) \/ ReadHead(o) \/ ReadAccess(o)
    \/ Prepare(o) \/ PutControl(o) \/ PutPayload(o) \/ Extend(o)
    \/ Complete(o) \/ RecordSuccess(o) \/ Abandon(o)

\* Ten minutes pass after prepareMutation: lease and workflow expire together.
Expire(o) ==
    /\ workflow[<<"control", o>>] # "none"
    /\ o \notin expired
    /\ expired' = expired \cup {o}
    /\ UNCHANGED <<head, lookup, access, workflow, retention, idempotency,
                   bucketVars, requestVars, recovery>>

-----------------------------------------------------------------------------
(* The recovery Lambda *)

\* listExpiredPrepared, grouped by operation.
Overdue == {o \in expired : \E k \in Kinds : workflow[<<k, o>>] = "PREPARED"}

RecoveryList ==
    /\ recovery.phase = "idle"
    /\ Overdue # {}
    /\ recovery' = [NoPass EXCEPT !.phase = "next", !.todo = Overdue]
    /\ UNCHANGED <<tableVars, bucketVars, requestVars>>

RecoveryTake(o) ==
    /\ recovery.phase = "next"
    /\ o \in recovery.todo
    /\ recovery' = [phase |-> "mark", todo |-> recovery.todo \ {o}, operation |-> o,
                    unmarked |-> {k \in Kinds : workflow[<<k, o>>] # "none"},
                    moved |-> FALSE]
    /\ UNCHANGED <<tableVars, bucketVars, requestVars>>

\* markRetryable on one record of the operation; the calls run side by side and each
\* compares the state of its own record.  Once all have answered, the pass goes on
\* with the operation only if one of them moved its record.
RecoveryMark(o, k) ==
    LET moves == workflow[<<k, o>>] = "PREPARED"
        moved == recovery.moved \/ moves
        left == recovery.unmarked \ {k} IN
    /\ recovery.phase = "mark" /\ recovery.operation = o
    /\ k \in recovery.unmarked
    /\ workflow' = IF moves THEN [workflow EXCEPT ![<<k, o>>] = "RETRYABLE"] ELSE workflow
    /\ recovery' = [recovery EXCEPT
          !.unmarked = left, !.moved = moved /\ left # {},
          !.phase = IF left # {} THEN "mark" ELSE IF moved THEN "head" ELSE "next"]
    /\ UNCHANGED <<head, lookup, access, retention, idempotency, expired,
                   bucketVars, requestVars>>

RecoveryReadHead(o) ==
    /\ recovery.phase = "head" /\ recovery.operation = o
    /\ recovery' = [recovery EXCEPT !.phase =
          IF head[target[o]].status = "ABSENT" THEN "next" ELSE "abort"]
    /\ UNCHANGED <<tableVars, bucketVars, requestVars>>

\* Mutant: the head is deleted whatever its workflow state.
HoldsLeaseAndName(o) ==
    LET h == head[target[o]] IN
    h.lease = o /\ lookup[h.name] = target[o]

\* Mutant: the workflow record is asked, after it was made RETRYABLE.
StillPreparedRecord(o) ==
    LET h == head[target[o]] IN
    /\ h.lease = o /\ workflow[<<"control", o>>] = "PREPARED"
    /\ lookup[h.name] = target[o]

StillPreparedCreate(o) ==
    LET h == head[target[o]] IN
    h.lease = o /\ h.status = "PREPARED" /\ lookup[h.name] = target[o]

\* abortPreparedCreate.  When its transaction is cancelled the code looks for a
\* ConditionalCheckFailedException; under any other name the error ends the pass.
RecoveryAbort(o) ==
    /\ recovery.phase = "abort" /\ recovery.operation = o
    /\ \/ /\ StillPreparedCreate(o)
          /\ head' = [head EXCEPT ![target[o]] = NoHead]
          /\ lookup' = [lookup EXCEPT ![head[target[o]].name] = None]
          /\ recovery' = [recovery EXCEPT !.phase = "audit"]
       \/ /\ ~StillPreparedCreate(o)
          /\ \E error \in CancelErrors :
                recovery' = IF error = "ConditionalCheckFailed"
                            THEN [recovery EXCEPT !.phase = "release"] ELSE NoPass
          /\ UNCHANGED <<head, lookup>>
    /\ UNCHANGED <<access, workflow, retention, idempotency, expired,
                   bucketVars, requestVars>>

\* releaseLease: only the lease of this operation.
RecoveryRelease(o) ==
    /\ recovery.phase = "release" /\ recovery.operation = o
    /\ IF head[target[o]].lease = o
       THEN /\ head' = [head EXCEPT ![target[o]].lease = None]
            /\ recovery' = [recovery EXCEPT !.phase = "audit"]
       ELSE /\ recovery' = [recovery EXCEPT !.phase = "next"]
            /\ UNCHANGED head
    /\ UNCHANGED <<lookup, access, workflow, retention, idempotency, expired,
                   bucketVars, requestVars>>

RecoveryAudit(o) ==
    /\ recovery.phase = "audit" /\ recovery.operation = o
    /\ audit' = [audit EXCEPT ![o] = @ \cup {"failed"}]
    /\ recovery' = [recovery EXCEPT !.phase = "next"]
    /\ UNCHANGED <<tableVars, objects, locked, requestVars>>

RecoveryFinish ==
    /\ recovery.phase = "next" /\ recovery.todo = {}
    /\ recovery' = NoPass
    /\ UNCHANGED <<tableVars, bucketVars, requestVars>>

\* A call of the pass fails, or its Lambda dies.
RecoveryStop ==
    /\ RecoveryStops
    /\ recovery.phase # "idle"
    /\ recovery' = NoPass
    /\ UNCHANGED <<tableVars, bucketVars, requestVars>>

RecoveryStep ==
    \/ RecoveryList \/ RecoveryFinish
    \/ \E o \in Ops :
          \/ RecoveryTake(o) \/ RecoveryReadHead(o)
          \/ \E k \in Kinds : RecoveryMark(o, k)
          \/ RecoveryAbort(o) \/ RecoveryRelease(o) \/ RecoveryAudit(o)

Next ==
    \/ \E o \in Ops : Mutate(o) \/ Expire(o)
    \/ RecoveryStep
    \/ RecoveryStop

Spec == Init /\ [][Next]_vars

\* EventBridge starts recovery every five minutes and time passes; nothing obliges
\* a request to go on.
Fairness == WF_vars(RecoveryStep) /\ \A o \in Ops : WF_vars(Expire(o))

FairSpec == Spec /\ Fairness
-----------------------------------------------------------------------------
(* Safety *)

\* Operations whose control revision has been the current one.
Committed == {o \in Ops : workflow[<<"control", o>>] \in {"READY", "DELETED"}}

\* A commit replaces exactly the revision its client named in If-Match: no
\* mutation accepted in between is overwritten, whatever leases expired, were
\* taken over or were released on the way (completeMutation does not compare
\* the control version again).
NoLostUpdate ==
    [][\A u \in Ops :
          head[u].status = "READY" /\ head'[u].control # head[u].control
          => local[head'[u].control].ifMatch = head[u].control]_vars

\* The rows that let consumers read a secret are those of the ACL in its
\* committed control revision, though a row is written only when the set of
\* readers changes, from rows read long before the transaction.
AccessMatchesAcl ==
    \A u \in Ops : {c \in Consumers : access[u][c] = "readable"} =
        IF head[u].status = "READY" THEN revision[head[u].control].acl ELSE {}

\* A committed head, its control revision and its payload belong together and
\* both objects exist: readActivePayload never finds them in disagreement.
HeadMatchesRevision ==
    \A u \in Ops : head[u].status = "READY" =>
        LET h == head[u] IN
        /\ revision[h.control].state = h.state
        /\ revision[h.control].payload = h.payload
        /\ <<"control", h.control>> \in objects
        /\ h.payload # None => <<"payload", h.payload>> \in objects
        /\ h.state = "ACTIVE" => h.payload # None

\* A name reaches a secret of that name in the live catalog, and a create that
\* is under way holds its name: neither another create, nor an abort, nor an
\* archive takes the name of a secret it is not about.
NamesReachTheirSecret ==
    /\ \A n \in Names : lookup[n] # None =>
          LET h == head[lookup[n]] IN
          h.status # "ABSENT" /\ h.name = n /\ h.catalog = "live"
    /\ \A u \in Ops : head[u].status = "PREPARED" => lookup[head[u].name] = u

\* Requests that share an idempotency key commit at most once between them, even
\* when the first was given up by recovery and its name freed.
AtMostOncePerKey ==
    \A o, p \in Committed : key[o] = key[p] => o = p

\* A mutation that recovery reported as failed has not happened and never will,
\* even if its Lambda is still running.
FailureEvidenceIsFinal ==
    \A o \in Ops : "failed" \in audit[o] => o \notin Committed

\* A secret that its name no longer reaches has no reader: not after its archive, and
\* not when an agent, whose grant holds the UID, writes it again with what it read
\* before, so that nobody goes on reading a secret no administrator can address.
UnreachedIsUnread ==
    \A u \in Ops : head[u].status # "ABSENT" /\ lookup[head[u].name] # u
        => \A c \in Consumers : access[u][c] # "readable"

\* A secret of the live catalog is the one its name reaches, so names are unique
\* there.  docs/architecture.md:197: "The external secretId remains unique within
\* its environment and is used in HTTP paths and the catalog".
CatalogIsReachable ==
    \A u \in Ops : head[u].status # "ABSENT" /\ head[u].catalog = "live"
        => lookup[head[u].name] = u

\* Both indexes a commit maintains beside the head, the rows of the readers and the
\* catalog, agree with it while administrators' requests and recovery race.  (An agent
\* that writes an archived secret by its UID lists it again: UnreachedIsUnread.)
IndexesMatchHeads == AccessMatchesAcl /\ CatalogIsReachable

(* Liveness *)

\* A create that stopped half way does not hold its name for ever.
PreparedCreateIsResolved ==
    \A u \in Ops : head[u].status = "PREPARED" ~> head[u].status # "PREPARED"

\* An operation recovery has made retryable does not keep its lease, whether or
\* not another writer comes along to take it over.
RetryableLeaseIsReleased ==
    \A o \in Ops :
        workflow[<<"control", o>>] = "RETRYABLE"
        ~> ~\E u \in Ops : head[u].lease = o

(* What the protocol promises, as an abstract registry *)

Promised == INSTANCE SecretRegistry WITH
    Secrets <- Ops,
    Versions <- Ops,
    current <- [u \in Ops |-> IF head[u].status = "READY" THEN head[u].control ELSE None],
    content <- [u \in Ops |-> IF head[u].status = "READY"
                              THEN revision[head[u].control] ELSE NoRevision],
    readers <- [u \in Ops |-> {c \in Consumers : access[u][c] = "readable"}],
    bound <- [n \in Names |-> IF lookup[n] # None /\ head[lookup[n]].status = "READY"
                              THEN lookup[n] ELSE None],
    used <- Committed

ImplementsRegistry == Promised!Spec
=============================================================================
