----------------------------- MODULE Enrollment -----------------------------
(***************************************************************************)
(* How a consumer gets a certificate the delivery API accepts:             *)
(* ConsumerService (src/services/consumers.ts), the issuer it signs with   *)
(* (src/services/issuer.ts), the DynamoDB records of both, the truststore  *)
(* bundle in S3, the API Gateway custom domain that trusts it, and the     *)
(* scheduled recovery of enrolments that stopped half way.                 *)
(*                                                                         *)
(* Threads are Lambda invocations: request handlers and one recovery pass  *)
(* at a time.  Each may stop between any two of its calls.  An operation   *)
(* ID also names the certificate it issues, and a root certificate is      *)
(* named for the handler that generated it.                                *)
(***************************************************************************)
EXTENDS Naturals, FiniteSets

CONSTANTS
    Consumers, Csrs,    \* consumer names, certificate requests
    Keys,               \* idempotency keys of one administrator
    Ops,                \* operation IDs, and the certificates and bundles they make
    Handlers,           \* request invocations that run at once
    Recovery,           \* the scheduled recovery function
    None,
    MaxRequests,        \* bound: requests the administrator sends
    MaxIncidents        \* bound: recovery crashes, API Gateway refusals and replacements

ASSUME NoneAssumption ==
    None \notin Consumers \cup Csrs \cup Keys \cup Ops \cup Handlers \cup {Recovery}
ASSUME OpsAssumption == Ops \subseteq Nat
ASSUME RecoveryAssumption == Recovery \notin Handlers
ASSUME BoundAssumption == MaxRequests \in Nat /\ MaxIncidents \in Nat

VARIABLES
    \* The control table
    keys,       \* IDEMPOTENCY#actor / REQUEST#key
    consumers,  \* CONSUMER#c / PROFILE
    identity,   \* IDENTITY#fingerprint / PROFILE
    workflow,   \* ENROLLMENT#op / STATE: workflowState, and whether it is overdue
    issuer,     \* SYSTEM#ISSUER: fingerprint of the issuing root
    roots,      \* TRUSTSTORE#ROOTS
    lease,      \* SYSTEM#TRUSTSTORE: leaseOwner and whether leaseExpiresAt is past
    current,    \* SYSTEM#TRUSTSTORE: the bundle last promoted
    \* Outside the table
    content,    \* roots in each truststore bundle, {} while it is not stored
    domain,     \* the custom domain's mutual TLS configuration
    served,     \* bundles API Gateway has been seen to serve without warnings
    \* Invocations
    thread, todo,
    requests, incidents

tableVars == <<keys, consumers, identity, workflow, issuer, roots, lease, current>>
externalVars == <<content, domain, served>>
bounds == <<requests, incidents>>
vars == <<tableVars, externalVars, thread, todo, bounds>>

Threads == Handlers \cup {Recovery}
OpOrNone == Ops \cup {None}

\* After the lease and up to the end of the publication.
Publishing ==
    {"read", "store", "record", "get", "update", "poll", "complete", "rollback", "fail"}
Phases ==
    {"idle", "issuer", "create", "lookup", "consumer", "pending", "associate", "prepare",
     "resume", "lease", "answered", "next", "settle"} \cup Publishing

ThreadRecord ==
    [phase : Phases, key : Keys \cup {None}, consumer : Consumers \cup {None},
     csr : Csrs \cup {None}, op : OpOrNone, root : Handlers \cup {None},
     listed : SUBSET Handlers, bundle : OpOrNone, purpose : {"enrol", "rollback", "reattach"}]
Idle ==
    [phase |-> "idle", key |-> None, consumer |-> None, csr |-> None, op |-> None,
     root |-> None, listed |-> {}, bundle |-> None, purpose |-> "enrol"]

NoKey == [type |-> "none", id |-> None]
NoConsumer == [status |-> "none", pending |-> None]
NoIdentity == [status |-> "none", consumer |-> None, csr |-> None, root |-> None]

TypeOK ==
    /\ keys \in [Keys -> {NoKey} \cup [type : {"enroll", "rotate", "revoke"}, id : Ops]]
    /\ consumers \in [Consumers -> {NoConsumer} \cup
                       [status : {"PENDING", "ACTIVE"}, pending : OpOrNone]]
    /\ identity \in [Ops -> {NoIdentity} \cup
                      [status : {"PENDING", "ACTIVE", "FAILED", "REVOKED"},
                       consumer : Consumers, csr : Csrs, root : Handlers]]
    /\ workflow \in [Ops -> [state : {"none", "PREPARED", "READY", "FAILED"}, due : BOOLEAN]]
    /\ issuer \in Handlers \cup {None}
    /\ roots \subseteq Handlers
    /\ lease \in [owner : OpOrNone, expired : BOOLEAN]
    /\ current \in OpOrNone
    /\ content \in [Ops -> SUBSET Handlers]
    /\ domain \in [attached : OpOrNone, updating : BOOLEAN, warned : BOOLEAN]
    /\ served \subseteq Ops
    /\ thread \in [Threads -> ThreadRecord]
    /\ todo \subseteq Ops
    /\ requests \in 0 .. MaxRequests /\ incidents \in 0 .. MaxIncidents

Init ==
    /\ keys = [k \in Keys |-> NoKey]
    /\ consumers = [c \in Consumers |-> NoConsumer]
    /\ identity = [o \in Ops |-> NoIdentity]
    /\ workflow = [o \in Ops |-> [state |-> "none", due |-> FALSE]]
    /\ issuer = None /\ roots = {} /\ current = None
    /\ lease = [owner |-> None, expired |-> FALSE]
    /\ content = [o \in Ops |-> {}]
    /\ domain = [attached |-> None, updating |-> FALSE, warned |-> FALSE]
    /\ served = {}
    /\ thread = [t \in Threads |-> Idle]
    /\ todo = {} /\ requests = 0 /\ incidents = 0

-----------------------------------------------------------------------------
(* Control flow of an invocation *)

At(t, phase) == thread[t].phase = phase
Move(t, phase) == thread' = [thread EXCEPT ![t].phase = phase]

\* resume() threw.  A handler answers the error; recovery settles the enrolment,
\* and lets an error of its closing reconcileTruststore() end the invocation.
Failed(t) ==
    thread' = [thread EXCEPT ![t] =
        IF t = Recovery /\ @.purpose # "reattach"
        THEN [@ EXCEPT !.phase = "settle"] ELSE Idle]

\* resume() returned the active identity of operation o.
Succeeded(t, o) ==
    thread' = [thread EXCEPT ![t] =
        IF t = Recovery THEN [Idle EXCEPT !.phase = "next"]
        ELSE [Idle EXCEPT !.phase = "answered", !.consumer = thread[t].consumer,
                          !.csr = thread[t].csr, !.op = o]]

\* newId(): IDs are numbered in the order they come into use.
Unused == {o \in Ops : identity[o].status = "none"}
Fresh == {o \in Unused : \A p \in Unused : o <= p}

-----------------------------------------------------------------------------
(* A request to enrol: ConsumerService.startOrResume *)

\* An administrator sends a request to an invocation that is free.
Request(h, k, c, q) ==
    /\ thread[h].phase \in {"idle", "answered"}
    /\ requests < MaxRequests
    /\ requests' = requests + 1
    /\ thread' = [thread EXCEPT ![h] =
          [Idle EXCEPT !.phase = "issuer", !.key = k, !.consumer = c, !.csr = q]]
    /\ UNCHANGED <<tableVars, externalVars, todo, incidents>>

\* getOrCreateIssuer: an issuer that exists is used, its root put back if it is missing.
FindIssuer(h) ==
    /\ At(h, "issuer")
    /\ IF issuer = None
       THEN Move(h, "create") /\ UNCHANGED roots
       ELSE /\ thread' = [thread EXCEPT ![h].root = issuer, ![h].phase = "lookup"]
            /\ roots' = roots \cup {issuer}
    /\ UNCHANGED <<keys, consumers, identity, workflow, issuer, lease, current,
                   externalVars, todo, bounds>>

\* Mutant: the generated root replaces whatever is there.
CreateIssuerAnyway(h) ==
    /\ At(h, "create")
    /\ issuer' = h
    /\ roots' = roots \cup {h}
    /\ thread' = [thread EXCEPT ![h].root = h, ![h].phase = "lookup"]
    /\ UNCHANGED <<keys, consumers, identity, workflow, lease, current,
                   externalVars, todo, bounds>>

\* createIssuer: the root generated here is kept unless another one exists by now.
CreateIssuer(h) ==
    /\ At(h, "create")
    /\ issuer' = IF issuer = None THEN h ELSE issuer
    /\ roots' = roots \cup {issuer'}
    /\ thread' = [thread EXCEPT ![h].root = issuer', ![h].phase = "lookup"]
    /\ UNCHANGED <<keys, consumers, identity, workflow, lease, current,
                   externalVars, todo, bounds>>

\* The digest covers the consumer, the certificate request and the root.
SameRequest(t, o) ==
    /\ identity[o].consumer = thread[t].consumer
    /\ identity[o].csr = thread[t].csr
    /\ identity[o].root = thread[t].root

\* A record under this key is the same enrolment, or the request is refused.
FollowKey(h) ==
    IF /\ keys[thread[h].key].type = "enroll"
       /\ SameRequest(h, keys[thread[h].key].id)
    THEN thread' = [thread EXCEPT ![h].op = keys[thread[h].key].id, ![h].phase = "resume"]
    ELSE Failed(h)

\* getIdempotency.
Lookup(h) ==
    /\ At(h, "lookup")
    /\ IF keys[thread[h].key] # NoKey THEN FollowKey(h) ELSE Move(h, "consumer")
    /\ UNCHANGED <<tableVars, externalVars, todo, bounds>>

\* getPendingEnrollmentForConsumer: the consumer, then the enrolment it waits for.
FindPending(h) ==
    /\ At(h, "consumer")
    /\ LET pending == consumers[thread[h].consumer].pending IN
       IF pending = None THEN Move(h, "prepare")
       ELSE thread' = [thread EXCEPT ![h].op = pending, ![h].phase = "pending"]
    /\ UNCHANGED <<tableVars, externalVars, todo, bounds>>

\* It may have ended in between; only the same request, still pending, is joined.
MatchPending(h) ==
    /\ At(h, "pending")
    /\ IF SameRequest(h, thread[h].op) /\ workflow[thread[h].op].state = "PREPARED"
       THEN Move(h, "associate") ELSE Failed(h)
    /\ UNCHANGED <<tableVars, externalVars, todo, bounds>>

\* associateEnrollmentIdempotency: a second key for a pending enrolment.
Associate(h) ==
    /\ At(h, "associate")
    /\ IF keys[thread[h].key] = NoKey
       THEN /\ keys' = [keys EXCEPT ![thread[h].key] =
                          [type |-> "enroll", id |-> thread[h].op]]
            /\ Move(h, "resume")
       ELSE FollowKey(h) /\ UNCHANGED keys
    /\ UNCHANGED <<consumers, identity, workflow, issuer, roots, lease, current,
                   externalVars, todo, bounds>>

Issue(o, t, status) ==
    identity' = [identity EXCEPT ![o] =
        [status |-> status, consumer |-> thread[t].consumer,
         csr |-> thread[t].csr, root |-> thread[t].root]]

\* issueApiIdentity and startEnrollment: key, identity, operation and consumer in
\* one transaction, each of them new.  One that is refused follows the key's winner.
Prepare(h) ==
    /\ At(h, "prepare")
    /\ IF keys[thread[h].key] = NoKey /\ consumers[thread[h].consumer] = NoConsumer
       THEN \E o \in Fresh :
              /\ Issue(o, h, "PENDING")
              /\ workflow' = [workflow EXCEPT ![o] = [state |-> "PREPARED", due |-> FALSE]]
              /\ consumers' = [consumers EXCEPT ![thread[h].consumer] =
                                 [status |-> "PENDING", pending |-> o]]
              /\ keys' = [keys EXCEPT ![thread[h].key] = [type |-> "enroll", id |-> o]]
              /\ thread' = [thread EXCEPT ![h].op = o, ![h].phase = "resume"]
       ELSE FollowKey(h) /\ UNCHANGED <<keys, consumers, identity, workflow>>
    /\ UNCHANGED <<issuer, roots, lease, current, externalVars, todo, bounds>>

-----------------------------------------------------------------------------
(* ConsumerService.resume, by the handler and by recovery *)

\* getEnrollment: a finished enrolment is answered, or refused, as it ended.
Resume(t) ==
    /\ At(t, "resume")
    /\ \/ workflow[thread[t].op].state = "READY" /\ Succeeded(t, thread[t].op)
       \/ workflow[thread[t].op].state = "FAILED" /\ Failed(t)
       \/ workflow[thread[t].op].state = "PREPARED" /\ Move(t, "lease")
    /\ UNCHANGED <<tableVars, externalVars, todo, bounds>>

\* acquireTruststoreLease: free, run out, or already this operation's.
AcquireLease(t) ==
    /\ At(t, "lease")
    /\ IF lease.owner \in {None, thread[t].op} \/ lease.expired
       THEN /\ lease' = [owner |-> thread[t].op, expired |-> FALSE]
            /\ Move(t, "read")
       ELSE Failed(t) /\ UNCHANGED lease
    /\ UNCHANGED <<keys, consumers, identity, workflow, issuer, roots, current,
                   externalVars, todo, bounds>>

\* listTruststoreRoots and getTruststoreState: the promoted bundle is published
\* again when it holds exactly these roots.
ReadRoots(t) ==
    /\ At(t, "read")
    /\ IF identity[thread[t].op].root \notin roots THEN Failed(t)
       ELSE IF current # None /\ content[current] = roots
       THEN thread' = [thread EXCEPT ![t].bundle = current, ![t].phase = "get"]
       ELSE thread' = [thread EXCEPT ![t].listed = roots, ![t].phase = "store"]
    /\ UNCHANGED <<tableVars, externalVars, todo, bounds>>

\* createTruststoreBundle: an immutable object of the roots that were read, named for the
\* operation and reused if its bytes agree.
StoreBundle(t) ==
    LET o == thread[t].op IN
    /\ At(t, "store")
    /\ content' = IF content[o] = {} THEN [content EXCEPT ![o] = thread[t].listed] ELSE content
    /\ IF content'[o] = thread[t].listed
       THEN thread' = [thread EXCEPT ![t].bundle = o, ![t].listed = {}, ![t].phase = "record"]
       ELSE Failed(t)
    /\ UNCHANGED <<tableVars, domain, served, todo, bounds>>

\* recordTruststoreBundle: only the operation that holds the lease goes on with it.
RecordBundle(t) ==
    /\ At(t, "record")
    /\ IF lease.owner = thread[t].op THEN Move(t, "get") ELSE Failed(t)
    /\ UNCHANGED <<tableVars, externalVars, todo, bounds>>

\* Mutant: an attached bundle is taken for a published one.
GetDomainTrusting(t) ==
    /\ At(t, "get")
    /\ IF domain.attached = thread[t].bundle
       THEN Move(t, CASE thread[t].purpose = "enrol" -> "complete"
                      [] thread[t].purpose = "rollback" -> "fail"
                      [] OTHER -> "idle")
       ELSE Move(t, IF domain.updating THEN "poll" ELSE "update")
    /\ UNCHANGED <<tableVars, externalVars, todo, bounds>>

\* publishTruststore: an update is asked for unless the bundle is attached already
\* or the domain is still changing.
GetDomain(t) ==
    /\ At(t, "get")
    /\ IF domain.attached = thread[t].bundle \/ domain.updating
       THEN Move(t, "poll") ELSE Move(t, "update")
    /\ UNCHANGED <<tableVars, externalVars, todo, bounds>>

\* API Gateway takes the bundle, or refuses: always during a change, at times otherwise.
UpdateDomain(t) ==
    /\ At(t, "update")
    /\ \/ /\ ~domain.updating
          /\ domain' = [attached |-> thread[t].bundle, updating |-> TRUE, warned |-> FALSE]
          /\ Move(t, "poll")
          /\ UNCHANGED incidents
       \/ /\ domain.updating
          /\ Failed(t)
          /\ UNCHANGED <<domain, incidents>>
       \/ /\ incidents < MaxIncidents
          /\ incidents' = incidents + 1
          /\ Failed(t)
          /\ UNCHANGED domain
    /\ UNCHANGED <<tableVars, content, served, todo, requests>>

Matches(t) == domain.attached = thread[t].bundle

\* truststoreIsAvailable: the publication is confirmed, for whichever purpose.
Confirm(t) ==
    /\ At(t, "poll")
    /\ Matches(t) /\ ~domain.warned /\ ~domain.updating
    /\ served' = served \cup {thread[t].bundle}
    /\ \/ thread[t].purpose = "enrol" /\ Move(t, "complete")
       \/ thread[t].purpose = "rollback" /\ Move(t, "fail")
       \/ thread[t].purpose = "reattach" /\ thread' = [thread EXCEPT ![t] = Idle]
    /\ UNCHANGED <<tableVars, content, domain, todo, bounds>>

\* TruststoreRejectedError: a candidate is rolled back, another bundle is an error.
Rejected(t) ==
    /\ At(t, "poll")
    /\ Matches(t) /\ domain.warned
    /\ IF thread[t].purpose = "enrol" THEN Move(t, "rollback") ELSE Failed(t)
    /\ UNCHANGED <<tableVars, externalVars, todo, bounds>>

\* Four polls went by without an answer.
GiveUp(t) ==
    /\ At(t, "poll")
    /\ domain.updating \/ ~Matches(t)
    /\ Failed(t)
    /\ UNCHANGED <<tableVars, externalVars, todo, bounds>>

\* Mutant: a refused transaction is taken for one that another invocation won.
CompleteAssuming(t) ==
    LET o == thread[t].op  c == identity[o].consumer IN
    /\ At(t, "complete")
    /\ Succeeded(t, o)
    /\ IF /\ identity[o].status = "PENDING" /\ workflow[o].state = "PREPARED"
          /\ lease.owner = o /\ consumers[c].status = "PENDING"
       THEN /\ identity' = [identity EXCEPT ![o].status = "ACTIVE"]
            /\ workflow' = [workflow EXCEPT ![o] = [state |-> "READY", due |-> FALSE]]
            /\ current' = thread[t].bundle
            /\ lease' = [owner |-> None, expired |-> FALSE]
            /\ consumers' = [consumers EXCEPT ![c] = [status |-> "ACTIVE", pending |-> None]]
       ELSE UNCHANGED <<consumers, identity, workflow, lease, current>>
    /\ UNCHANGED <<keys, issuer, roots, externalVars, todo, bounds>>

\* completeEnrollment, all or nothing; one that is refused looks at the operation again.
Complete(t) ==
    LET o == thread[t].op  c == identity[o].consumer IN
    /\ At(t, "complete")
    /\ IF /\ identity[o].status = "PENDING" /\ workflow[o].state = "PREPARED"
          /\ lease.owner = o /\ consumers[c].status = "PENDING"
       THEN /\ identity' = [identity EXCEPT ![o].status = "ACTIVE"]
            /\ workflow' = [workflow EXCEPT ![o] = [state |-> "READY", due |-> FALSE]]
            /\ current' = thread[t].bundle
            /\ lease' = [owner |-> None, expired |-> FALSE]
            /\ consumers' = [consumers EXCEPT ![c] = [status |-> "ACTIVE", pending |-> None]]
            /\ Succeeded(t, o)
       ELSE /\ IF workflow[o].state = "READY" THEN Succeeded(t, o) ELSE Failed(t)
            /\ UNCHANGED <<consumers, identity, workflow, lease, current>>
    /\ UNCHANGED <<keys, issuer, roots, externalVars, todo, bounds>>

\* rollbackRejectedTruststore: back to the promoted bundle, if there is one.
Rollback(t) ==
    /\ At(t, "rollback")
    /\ thread' = [thread EXCEPT ![t].purpose = "rollback", ![t].bundle = current,
                                ![t].phase = IF current = None THEN "fail" ELSE "get"]
    /\ UNCHANGED <<tableVars, externalVars, todo, bounds>>

\* Mutant: the lease alone decides.
MayFailUnderLease(o) == lease.owner = o

\* failEnrollment: identity, operation, lease and the pending consumer, all or nothing.
MayFail(o) ==
    /\ identity[o].status = "PENDING" /\ workflow[o].state = "PREPARED"
    /\ lease.owner = o
    /\ consumers[identity[o].consumer].status = "PENDING"
\* Mutant: the pending consumer is left behind.
FailEnrollmentOnly(o) ==
    /\ identity' = [identity EXCEPT ![o].status = "FAILED"]
    /\ workflow' = [workflow EXCEPT ![o] = [state |-> "FAILED", due |-> FALSE]]
    /\ lease' = [owner |-> None, expired |-> FALSE]
    /\ UNCHANGED consumers

FailEnrollment(o) ==
    /\ identity' = [identity EXCEPT ![o].status = "FAILED"]
    /\ workflow' = [workflow EXCEPT ![o] = [state |-> "FAILED", due |-> FALSE]]
    /\ lease' = [owner |-> None, expired |-> FALSE]
    /\ consumers' = [consumers EXCEPT ![identity[o].consumer] = NoConsumer]

Fail(t) ==
    /\ At(t, "fail")
    /\ Failed(t)
    /\ IF MayFail(thread[t].op) THEN FailEnrollment(thread[t].op)
       ELSE UNCHANGED <<consumers, identity, workflow, lease>>
    /\ UNCHANGED <<keys, issuer, roots, current, externalVars, todo, bounds>>

-----------------------------------------------------------------------------
(* Certificates of an active consumer *)

\* Mutant: a consumer that is still pending gets a second certificate.
RotateEarly(k, c, q) ==
    /\ requests < MaxRequests /\ requests' = requests + 1
    /\ keys[k] = NoKey
    /\ \E o \in Fresh :
          /\ identity' = [identity EXCEPT ![o] =
                [status |-> "ACTIVE", consumer |-> c, csr |-> q, root |-> issuer]]
          /\ keys' = [keys EXCEPT ![k] = [type |-> "rotate", id |-> o]]
    /\ UNCHANGED <<consumers, workflow, issuer, roots, lease, current,
                   externalVars, thread, todo, incidents>>

\* rotateApiIdentity: createApiIdentity puts the key and the active identity.
Rotate(k, c, q) ==
    /\ requests < MaxRequests /\ requests' = requests + 1
    /\ consumers[c].status = "ACTIVE" /\ keys[k] = NoKey
    /\ \E o \in Fresh :
          /\ identity' = [identity EXCEPT ![o] =
                [status |-> "ACTIVE", consumer |-> c, csr |-> q, root |-> issuer]]
          /\ keys' = [keys EXCEPT ![k] = [type |-> "rotate", id |-> o]]
    /\ UNCHANGED <<consumers, workflow, issuer, roots, lease, current,
                   externalVars, thread, todo, incidents>>

\* revokeApiIdentity: only an active identity is revoked, under a new key.
Revoke(k, o) ==
    /\ requests < MaxRequests /\ requests' = requests + 1
    /\ identity[o].status = "ACTIVE" /\ keys[k] = NoKey
    /\ identity' = [identity EXCEPT ![o].status = "REVOKED"]
    /\ keys' = [keys EXCEPT ![k] = [type |-> "revoke", id |-> o]]
    /\ UNCHANGED <<consumers, workflow, issuer, roots, lease, current,
                   externalVars, thread, todo, incidents>>

-----------------------------------------------------------------------------
(* The scheduled recovery of enrolments *)

\* listExpiredPrepared
StartPass ==
    /\ At(Recovery, "idle")
    /\ todo' = {o \in Ops : workflow[o].state = "PREPARED" /\ workflow[o].due}
    /\ Move(Recovery, "next")
    /\ UNCHANGED <<tableVars, externalVars, bounds>>

TakeNext(o) ==
    /\ At(Recovery, "next") /\ o \in todo
    /\ todo' = todo \ {o}
    /\ thread' = [thread EXCEPT ![Recovery] = [Idle EXCEPT !.phase = "resume", !.op = o]]
    /\ UNCHANGED <<tableVars, externalVars, bounds>>

\* Mutant: recovery gives an expired enrolment up without ending it.
SettleByAudit ==
    /\ At(Recovery, "settle")
    /\ thread' = [thread EXCEPT ![Recovery] = [Idle EXCEPT !.phase = "next"]]
    /\ UNCHANGED <<tableVars, externalVars, todo, bounds>>

\* The catch block: the enrolment fails if it is still pending and holds the lease.
Settle ==
    /\ At(Recovery, "settle")
    /\ IF MayFail(thread[Recovery].op) THEN FailEnrollment(thread[Recovery].op)
       ELSE UNCHANGED <<consumers, identity, workflow, lease>>
    /\ thread' = [thread EXCEPT ![Recovery] = [Idle EXCEPT !.phase = "next"]]
    /\ UNCHANGED <<keys, issuer, roots, current, externalVars, todo, bounds>>

\* Mutant: a pass ends with its list.
EndPass ==
    /\ At(Recovery, "next") /\ todo = {}
    /\ thread' = [thread EXCEPT ![Recovery] = Idle]
    /\ UNCHANGED <<tableVars, externalVars, todo, bounds>>

\* reconcileTruststore closes the pass.
Reattach ==
    /\ At(Recovery, "next") /\ todo = {}
    /\ thread' = [thread EXCEPT ![Recovery] =
          IF current = None THEN Idle
          ELSE [Idle EXCEPT !.phase = "get", !.bundle = current, !.purpose = "reattach"]]
    /\ UNCHANGED <<tableVars, externalVars, todo, bounds>>

-----------------------------------------------------------------------------
(* The environment: time, API Gateway, crashes *)

\* Ten minutes after an enrolment was prepared.
Overdue(o) ==
    /\ workflow[o].state = "PREPARED" /\ ~workflow[o].due
    /\ workflow' = [workflow EXCEPT ![o].due = TRUE]
    /\ UNCHANGED <<keys, consumers, identity, issuer, roots, lease, current,
                   externalVars, thread, todo, bounds>>

\* Ten minutes after the lease was last acquired, when every invocation that did so
\* is over: a function runs for at most 29 seconds.
LeaseExpires ==
    /\ lease.owner # None /\ ~lease.expired
    /\ \A t \in Threads : thread[t].op = lease.owner => thread[t].phase \notin Publishing
    /\ lease' = [lease EXCEPT !.expired = TRUE]
    /\ UNCHANGED <<keys, consumers, identity, workflow, issuer, roots, current,
                   externalVars, thread, todo, bounds>>

\* The domain serves the attached bundle, or reports what it dislikes about it.
DomainSettles ==
    /\ domain.updating
    /\ \E w \in BOOLEAN : domain' = [domain EXCEPT !.updating = FALSE, !.warned = w]
    /\ UNCHANGED <<tableVars, content, served, thread, todo, bounds>>

\* A deployment replaces the custom domain, which starts without a truststore.
DomainReplaced ==
    /\ incidents < MaxIncidents /\ incidents' = incidents + 1
    /\ domain.attached # None
    /\ domain' = [attached |-> None, updating |-> FALSE, warned |-> FALSE]
    /\ UNCHANGED <<tableVars, content, served, thread, todo, requests>>

\* An invocation dies, or its caller's answer is lost.
Stop(t) ==
    /\ thread[t].phase \notin {"idle", "answered"}
    /\ IF t = Recovery THEN incidents < MaxIncidents /\ incidents' = incidents + 1
       ELSE UNCHANGED incidents
    /\ thread' = [thread EXCEPT ![t] = Idle]
    /\ todo' = IF t = Recovery THEN {} ELSE todo
    /\ UNCHANGED <<tableVars, externalVars, requests>>

-----------------------------------------------------------------------------

Publish(t) ==
    \/ Resume(t) \/ AcquireLease(t) \/ ReadRoots(t) \/ StoreBundle(t) \/ RecordBundle(t)
    \/ GetDomain(t) \/ UpdateDomain(t) \/ Confirm(t) \/ Rejected(t) \/ GiveUp(t)
    \/ Complete(t) \/ Rollback(t) \/ Fail(t)

Handle(h) ==
    \/ FindIssuer(h) \/ CreateIssuer(h) \/ Lookup(h) \/ FindPending(h) \/ MatchPending(h)
    \/ Associate(h) \/ Prepare(h)
    \/ Publish(h)

Recover ==
    \/ StartPass \/ Settle \/ Reattach
    \/ \E o \in Ops : TakeNext(o)
    \/ Publish(Recovery)

Administer ==
    \E k \in Keys :
        \/ \E c \in Consumers, q \in Csrs :
              \/ \E h \in Handlers : Request(h, k, c, q)
              \/ Rotate(k, c, q)
        \/ \E o \in Ops : Revoke(k, o)

Environment ==
    \/ \E o \in Ops : Overdue(o)
    \/ LeaseExpires \/ DomainSettles \/ DomainReplaced
    \/ \E t \in Threads : Stop(t)

Next ==
    \/ Administer
    \/ \E h \in Handlers : Handle(h)
    \/ Recover
    \/ Environment

Spec == Init /\ [][Next]_vars

\* EventBridge starts recovery every five minutes, time passes, API Gateway ends
\* a change it began, and a handler that was started does not hang.
FairSpec ==
    /\ Spec
    /\ WF_vars(Recover)
    /\ WF_vars(DomainSettles) /\ WF_vars(LeaseExpires)
    /\ \A o \in Ops : WF_vars(Overdue(o))
    /\ \A h \in Handlers : WF_vars(Handle(h) \/ Stop(h))

-----------------------------------------------------------------------------
(* Properties *)

\* A consumer waits for exactly the enrolment that is still pending, and is active
\* exactly when an enrolment of it succeeded, however recovery, retries and a
\* second administrator interleave with the request that began it.
ConsumersMatchEnrollments ==
    /\ \A c \in Consumers :
          /\ consumers[c].status = "PENDING" =>
                workflow[consumers[c].pending].state = "PREPARED"
          /\ consumers[c].status = "ACTIVE" <=>
                \E o \in Ops : identity[o].consumer = c /\ workflow[o].state = "READY"
    /\ \A o \in Ops : workflow[o].state = "PREPARED" =>
          /\ consumers[identity[o].consumer] = [status |-> "PENDING", pending |-> o]
          /\ identity[o].status = "PENDING"

\* Whatever bundle API Gateway is given, by a winner, a late handler, a rollback or
\* recovery, lists the root that signed every active certificate.
TrustCoversCertificates ==
    \A o \in Ops : identity[o].status = "ACTIVE" =>
        /\ identity[o].root = issuer
        /\ \A b \in {current, domain.attached} \ {None} : identity[o].root \in content[b]

\* A bundle is promoted only once API Gateway served it without warnings, and no
\* certificate is usable before that.
PromotedBundlesWereServed ==
    /\ current # None => current \in served
    /\ (\E o \in Ops : identity[o].status = "ACTIVE") => current # None

\* An administrator who was told that a consumer is active can rely on it.
AnswersAreActive ==
    \A h \in Handlers : At(h, "answered") =>
        /\ workflow[thread[h].op].state = "READY"
        /\ consumers[thread[h].consumer].status = "ACTIVE"
        /\ identity[thread[h].op].csr = thread[h].csr

\* Recovery ends every enrolment a request left behind: a lost invocation, a slow
\* or refusing API Gateway or a lease of another operation cannot keep a consumer
\* pending for ever.
EnrollmentsEnd ==
    \A o \in Ops : workflow[o].state = "PREPARED" ~> workflow[o].state \in {"READY", "FAILED"}

\* After a replacement of the domain, or a publication that came too late, the
\* promoted bundle is attached again.
DomainReattached == current # None ~> domain.attached = current

Registry == INSTANCE ConsumerRegistry WITH
    Identities <- Ops,
    status <- [c \in Consumers |-> consumers[c].status],
    standing <- [o \in Ops |-> identity[o].status],
    owner <- [o \in Ops |-> identity[o].consumer],
    keyOf <- [o \in Ops |-> identity[o].csr]

\* Every step is one the registry allows, or none of its business.
ImplementsRegistry == Registry!Spec
=============================================================================
