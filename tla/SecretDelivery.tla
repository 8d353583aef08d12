--------------------------- MODULE SecretDelivery ---------------------------
(***************************************************************************)
(* Delivery of payloads against their replacement and their deletion:      *)
(* SecretService.read and readAdminPayload, the transaction that replaces  *)
(* the revisions they read, and the daily retention Lambda that deletes    *)
(* replaced revisions (src/handlers/retention.ts).  Requests take many     *)
(* calls; every revision lives in objects that can be gone when a request  *)
(* comes to them.                                                          *)
(*                                                                         *)
(* A mutation is what SecretMutation shows of it: one at a time for each   *)
(* secret goes on to its final transaction.  Its earlier calls that matter *)
(* here, the snapshot of the head, the new objects and the extension of    *)
(* the old objects' locks, stay steps of their own.                        *)
(***************************************************************************)
EXTENDS Naturals, FiniteSets

CONSTANTS
    Secrets,        \* secret UIDs
    Versions,       \* control revisions, and the payload revisions made with them
    Names,          \* public secret IDs of one environment
    Consumers,      \* mTLS consumers of that environment
    Reads,          \* read requests
    None,           \* no secret, version, name or consumer
    RetentionStops  \* how many retention passes may die between two calls

ASSUME DistinctNone ==
    None \notin Secrets \cup Versions \cup Names \cup Consumers \cup Reads
ASSUME RetentionStopsAreCounted == RetentionStops \in Nat

VARIABLES
    \* The control table
    head,       \* SECRET#uid / HEAD
    lookup,     \* SECRET_NAME#name / LOOKUP
    access,     \* CONSUMER#c / SECRET#uid
    workflow,   \* workflowState of CONTROL#v and PAYLOAD#v
    retention,  \* their place in the RETENTION#DUE index
    \* The revision bucket
    objects,    \* object versions that exist
    locked,     \* object versions under an Object Lock retention date to come
    \* Processes
    revision,   \* content of a control revision
    writer,     \* the mutation under way
    reads,      \* read requests
    pass,       \* the retention Lambda
    stops       \* how many of its passes died

vars == <<head, lookup, access, workflow, retention, objects, locked,
          revision, writer, reads, pass, stops>>
tableVars == <<head, lookup, access, workflow, retention>>
bucketVars == <<objects, locked>>

-----------------------------------------------------------------------------
(* Types *)

Revisions == {"control", "payload"} \X Versions
SecretStates == {"PENDING_VALUE", "ACTIVE", "ARCHIVED"}
Rows == {"none", "readable", "revoked"}
OrNone(S) == S \cup {None}

NoHead == [name |-> None, control |-> None, payload |-> None, state |-> "PENDING_VALUE"]
HeadRecord ==
    [name : OrNone(Names), control : OrNone(Versions), payload : OrNone(Versions),
     state : SecretStates]

NoRevision == [state |-> "PENDING_VALUE", acl |-> {}, payload |-> None]
ControlRevision ==
    [state : SecretStates, acl : SUBSET Consumers, payload : OrNone(Versions)]

Mutations == {"acl", "payload", "archive"}
NoWriter ==
    [phase |-> "idle", request |-> "acl", secret |-> None, version |-> None,
     prior |-> NoHead]
WriterRecord ==
    [phase : {"idle", "begun", "stored", "extended"}, request : Mutations,
     secret : OrNone(Secrets), version : OrNone(Versions), prior : HeadRecord]

\* A read by the administrator has no consumer.
NoRead ==
    [phase |-> "idle", consumer |-> None, name |-> None, secret |-> None, head |-> NoHead]
ReadRecord ==
    [phase : {"idle", "named", "found", "authorized", "control",
              "delivered", "denied", "failed"},
     consumer : OrNone(Consumers), name : OrNone(Names), secret : OrNone(Secrets),
     head : HeadRecord]

NoPass == [phase |-> "idle", todo |-> {}, item |-> <<>>]
PassRecord ==
    [phase : {"idle", "next", "head", "lock", "delete", "mark"},
     todo : SUBSET Revisions, item : Revisions \cup {<<>>}]

\* Types, and a read goes on only with the secret behind its name.
TypeOK ==
    /\ head \in [Secrets -> HeadRecord]
    /\ lookup \in [Names -> OrNone(Secrets)]
    /\ access \in [Secrets -> [Consumers -> Rows]]
    /\ workflow \in [Revisions -> {"none", "READY", "DELETED"}]
    /\ retention \in [Revisions -> {"none", "scheduled", "due"}]
    /\ objects \subseteq Revisions
    /\ locked \subseteq objects
    /\ revision \in [Versions -> ControlRevision]
    /\ writer \in WriterRecord
    /\ reads \in [Reads -> ReadRecord]
    /\ \A q \in Reads : reads[q].phase \notin {"idle", "denied"} => reads[q].secret \in Secrets
    /\ pass \in PassRecord
    /\ stops \in 0 .. RetentionStops

Init ==
    /\ head = [s \in Secrets |-> NoHead]
    /\ lookup = [n \in Names |-> None]
    /\ access = [s \in Secrets |-> [c \in Consumers |-> "none"]]
    /\ workflow = [r \in Revisions |-> "none"]
    /\ retention = [r \in Revisions |-> "none"]
    /\ objects = {}
    /\ locked = {}
    /\ revision = [v \in Versions |-> NoRevision]
    /\ writer = NoWriter
    /\ reads = [q \in Reads |-> NoRead]
    /\ pass = NoPass
    /\ stops = 0

-----------------------------------------------------------------------------
(* Mutations *)

\* newId() names no revision twice, one that is still being prepared among them.
Fresh(v) ==
    /\ <<"control", v>> \notin objects /\ workflow[<<"control", v>>] = "none"
    /\ v # writer.version

\* accessItemsFor: a reader the new ACL does not name becomes a tombstone.
RowsFor(s, acl) ==
    [c \in Consumers |->
        IF c \in acl THEN "readable"
        ELSE IF access[s][c] # "none" THEN "revoked" ELSE "none"]

\* SecretService.create up to its commit.  Nothing here looks at a head that is
\* still PREPARED: it is neither ACTIVE nor current for retention.
Create(s, v, n, acl) ==
    /\ head[s] = NoHead
    /\ lookup[n] = None
    /\ Fresh(v)
    /\ objects' = objects \cup {<<"control", v>>}
    /\ locked' = locked \cup {<<"control", v>>}
    /\ revision' = [revision EXCEPT ![v] = [NoRevision EXCEPT !.acl = acl]]
    /\ head' = [head EXCEPT ![s] = [NoHead EXCEPT !.name = n, !.control = v]]
    /\ lookup' = [lookup EXCEPT ![n] = s]
    /\ workflow' = [workflow EXCEPT ![<<"control", v>>] = "READY"]
    /\ access' = [access EXCEPT ![s] = RowsFor(s, acl)]
    /\ UNCHANGED <<retention, writer, reads, pass, stops>>

\* The request reads its head and prepares the next revision.  An administrator
\* comes by the name, an agent that writes a payload by the UID.
BeginMutation(s, v, request, acl) ==
    LET prior == head[s]
        current == revision[prior.control] IN
    /\ writer = NoWriter
    /\ prior # NoHead
    /\ lookup[prior.name] = s \/ request = "payload"
    /\ Fresh(v)
    /\ <<"control", prior.control>> \in objects
    /\ request # "acl" => acl = {}
    /\ writer' = [phase |-> "begun", request |-> request, secret |-> s, version |-> v,
                  prior |-> prior]
    /\ revision' = [revision EXCEPT ![v] =
          CASE request = "acl" -> [current EXCEPT !.acl = acl]
            [] request = "payload" -> [current EXCEPT !.payload = v, !.state = "ACTIVE"]
            [] request = "archive" -> [current EXCEPT !.acl = {}, !.state = "ARCHIVED"]]
    /\ UNCHANGED <<tableVars, bucketVars, reads, pass, stops>>

Written(request, v) ==
    {<<"control", v>>} \cup (IF request = "payload" THEN {<<"payload", v>>} ELSE {})

\* putImmutable of the new objects; the bucket locks them by default.
Store ==
    /\ writer.phase = "begun"
    /\ writer' = [writer EXCEPT !.phase = "stored"]
    /\ objects' = objects \cup Written(writer.request, writer.version)
    /\ locked' = locked \cup Written(writer.request, writer.version)
    /\ UNCHANGED <<tableVars, revision, reads, pass, stops>>

\* The object versions a head names.
Named(h) ==
    {r \in Revisions : r = <<"control", h.control>> \/ r = <<"payload", h.payload>>}

\* extendPriorRetention: the exact versions that are about to be replaced get 91
\* more days, before the transaction that replaces them.
Extend ==
    /\ writer.phase = "stored"
    /\ Named(writer.prior) \subseteq objects
    /\ writer' = [writer EXCEPT !.phase = "extended"]
    /\ locked' = locked \cup Named(writer.prior)
    /\ UNCHANGED <<tableVars, objects, revision, reads, pass, stops>>

\* The head the final transaction leaves; a payload that was not written stays.
NextHead ==
    LET v == writer.version IN
    [head[writer.secret] EXCEPT
        !.control = v, !.state = revision[v].state,
        !.payload = IF <<"payload", v>> \in Written(writer.request, v) THEN v ELSE @]

\* completeMutation.  The prior versions are scheduled for retention in 91 days,
\* an unchanged payload among them; a date it had before is replaced.
Commit ==
    LET s == writer.secret
        v == writer.version
        written == Written(writer.request, v) IN
    /\ writer.phase = "extended"
    /\ \A r \in Named(writer.prior) : workflow[r] = "READY"
    /\ writer.request = "archive" => lookup[head[s].name] = s
    /\ head' = [head EXCEPT ![s] = NextHead]
    /\ lookup' = IF writer.request = "archive"
                 THEN [lookup EXCEPT ![head[s].name] = None] ELSE lookup
    /\ access' = [access EXCEPT ![s] = RowsFor(s, revision[v].acl)]
    /\ workflow' = [r \in Revisions |-> IF r \in written THEN "READY" ELSE workflow[r]]
    /\ retention' = [r \in Revisions |->
          IF r \in Named(writer.prior) THEN "scheduled" ELSE retention[r]]
    /\ writer' = NoWriter
    /\ UNCHANGED <<bucketVars, revision, reads, pass, stops>>

\* A call fails, the Lambda dies, or recovery takes the lease away.
StopMutation ==
    /\ writer.phase # "idle"
    /\ writer' = NoWriter
    /\ UNCHANGED <<tableVars, bucketVars, revision, reads, pass, stops>>

Mutate ==
    \/ \E s \in Secrets, v \in Versions, n \in Names, acl \in SUBSET Consumers :
          Create(s, v, n, acl)
    \/ \E s \in Secrets, v \in Versions, request \in Mutations, acl \in SUBSET Consumers :
          BeginMutation(s, v, request, acl)
    \/ Store \/ Extend \/ Commit \/ StopMutation

-----------------------------------------------------------------------------
(* Reads *)

\* SecretService.read and getAccessAndHead for a consumer, readAdminPayload and
\* requireHead for an administrator: first the UID behind the name.
ReadName(q, c, n) ==
    /\ reads[q].phase = "idle"
    /\ reads' = [reads EXCEPT ![q] =
          [NoRead EXCEPT !.consumer = c, !.name = n, !.secret = lookup[n],
                         !.phase = IF lookup[n] = None THEN "denied" ELSE "named"]]
    /\ UNCHANGED <<tableVars, bucketVars, revision, writer, pass, stops>>

\* Mutant: any delivery row will do, a revoked one too.
HasRow(q) == access[reads[q].secret][reads[q].consumer] # "none"

\* The row that lets a consumer read.
MayRead(q) == access[reads[q].secret][reads[q].consumer] = "readable"

\* TransactGet reads the consumer's row and the head at one instant; an
\* administrator's request reads the head alone.
ReadHead(q) ==
    LET h == head[reads[q].secret]
        granted == reads[q].consumer = None \/ MayRead(q) IN
    /\ reads[q].phase = "named"
    /\ reads' = [reads EXCEPT ![q] =
          IF granted /\ h.name = reads[q].name /\ h.state = "ACTIVE"
          THEN [@ EXCEPT !.phase = "authorized", !.head = h]
          ELSE [@ EXCEPT !.phase = "denied"]]
    /\ UNCHANGED <<tableVars, bucketVars, revision, writer, pass, stops>>

\* getControl, and the comparison of the head with it.
ReadControl(q) ==
    LET h == reads[q].head
        agrees == /\ <<"control", h.control>> \in objects
                  /\ revision[h.control].payload = h.payload
                  /\ revision[h.control].state = h.state IN
    /\ reads[q].phase = "authorized"
    /\ reads' = [reads EXCEPT ![q].phase = IF agrees THEN "control" ELSE "failed"]
    /\ UNCHANGED <<tableVars, bucketVars, revision, writer, pass, stops>>

ReadPayload(q) ==
    /\ reads[q].phase = "control"
    /\ reads' = [reads EXCEPT ![q].phase =
          IF <<"payload", reads[q].head.payload>> \in objects THEN "delivered" ELSE "failed"]
    /\ UNCHANGED <<tableVars, bucketVars, revision, writer, pass, stops>>

\* The response is on its way, 304 Not Modified among them, or the Lambda died.
EndRead(q) ==
    /\ reads[q].phase # "idle"
    /\ reads' = [reads EXCEPT ![q] = NoRead]
    /\ UNCHANGED <<tableVars, bucketVars, revision, writer, pass, stops>>

Read(q) ==
    \/ \E c \in OrNone(Consumers), n \in Names : ReadName(q, c, n)
    \/ ReadHead(q) \/ ReadControl(q) \/ ReadPayload(q) \/ EndRead(q)

-----------------------------------------------------------------------------
(* Time *)

\* No lock was set and no date written while a request of this moment was under
\* way: both are 91 days old when they pass, and a Lambda lives 29 seconds.
Quiet == writer = NoWriter /\ \A q \in Reads : reads[q] = NoRead

LockPasses(r) ==
    /\ Quiet
    /\ r \in locked
    /\ locked' = locked \ {r}
    /\ UNCHANGED <<tableVars, objects, revision, writer, reads, pass, stops>>

\* The lock was extended before the date was written, so it passes first.
RetentionFallsDue(r) ==
    /\ Quiet
    /\ retention[r] = "scheduled"
    /\ r \notin locked
    /\ retention' = [retention EXCEPT ![r] = "due"]
    /\ UNCHANGED <<head, lookup, access, workflow, bucketVars, revision, writer, reads, pass, stops>>

-----------------------------------------------------------------------------
(* The retention Lambda *)

Due == {r \in Revisions : retention[r] = "due"}

\* listReadyWorkflows.
ListDue ==
    /\ pass.phase = "idle"
    /\ Due # {}
    /\ pass' = [NoPass EXCEPT !.phase = "next", !.todo = Due]
    /\ UNCHANGED <<tableVars, bucketVars, revision, writer, reads, stops>>

TakeDue(r) ==
    /\ pass.phase = "next"
    /\ r \in pass.todo
    /\ pass' = [phase |-> "head", todo |-> pass.todo \ {r}, item |-> r]
    /\ UNCHANGED <<tableVars, bucketVars, revision, writer, reads, stops>>

\* Mutant: only control revisions are compared.
IsCurrentControl(r) == \E s \in Secrets : r = <<"control", head[s].control>>

\* isCurrent, on a head read for this item.
IsCurrent(r) == \E s \in Secrets : r \in Named(head[s])

CheckHead ==
    /\ pass.phase = "head"
    /\ pass' = [pass EXCEPT !.phase = IF IsCurrent(pass.item) THEN "next" ELSE "lock"]
    /\ UNCHANGED <<tableVars, bucketVars, revision, writer, reads, stops>>

\* canDeleteVersion: S3 answers for a version that exists; for one that is gone it
\* throws, and the pass ends.
CheckLock ==
    /\ pass.phase = "lock"
    /\ pass' = IF pass.item \notin objects THEN NoPass
               ELSE [pass EXCEPT !.phase = IF pass.item \in locked THEN "next" ELSE "delete"]
    /\ UNCHANGED <<tableVars, bucketVars, revision, writer, reads, stops>>

\* deleteVersion; the Object Lock refuses a version that is locked again.
DeleteObject ==
    /\ pass.phase = "delete"
    /\ pass.item \notin locked
    /\ objects' = objects \ {pass.item}
    /\ pass' = [pass EXCEPT !.phase = "mark"]
    /\ UNCHANGED <<tableVars, locked, revision, writer, reads, stops>>

\* markRetentionDeleted.
MarkDeleted ==
    /\ pass.phase = "mark"
    /\ workflow[pass.item] = "READY"
    /\ workflow' = [workflow EXCEPT ![pass.item] = "DELETED"]
    /\ retention' = [retention EXCEPT ![pass.item] = "none"]
    /\ pass' = [pass EXCEPT !.phase = "next"]
    /\ UNCHANGED <<head, lookup, access, bucketVars, revision, writer, reads, stops>>

EndPass ==
    /\ pass.phase = "next" /\ pass.todo = {}
    /\ pass' = NoPass
    /\ UNCHANGED <<tableVars, bucketVars, revision, writer, reads, stops>>

StopPass ==
    /\ stops < RetentionStops
    /\ pass.phase # "idle"
    /\ pass' = NoPass
    /\ stops' = stops + 1
    /\ UNCHANGED <<tableVars, bucketVars, revision, writer, reads>>

Retain ==
    \/ ListDue \/ (\E r \in Revisions : TakeDue(r))
    \/ CheckHead \/ CheckLock \/ DeleteObject \/ MarkDeleted \/ EndPass

Next ==
    \/ Mutate
    \/ \E q \in Reads : Read(q)
    \/ \E r \in Revisions : LockPasses(r) \/ RetentionFallsDue(r)
    \/ Retain \/ StopPass

Spec == Init /\ [][Next]_vars

-----------------------------------------------------------------------------
(* Properties *)

\* What a head names is never deleted: a read that was authorised finds both
\* objects, although the head may be replaced and an old retention date of its
\* payload may be acted on while the read is under way.
AuthorizedReadsSucceed == \A q \in Reads : reads[q].phase # "failed"

\* The retention Lambda spares what is current, whatever its date says.
CurrentObjectsExist == \A s \in Secrets : Named(head[s]) \subseteq objects

\* What a consumer gets was in force, and open to it, in one and the same control
\* revision of the secret its name meant.
DeliveriesAreAuthorized ==
    \A q \in Reads : reads[q].phase = "delivered" =>
        LET v == reads[q].head.control IN
        /\ reads[q].consumer # None => reads[q].consumer \in revision[v].acl
        /\ revision[v].payload = reads[q].head.payload
        /\ reads[q].head.name = reads[q].name

\* The objects a head names, and those a read was let through to, are there.
DeliveryInv == TypeOK /\ CurrentObjectsExist /\ AuthorizedReadsSucceed
=============================================================================
