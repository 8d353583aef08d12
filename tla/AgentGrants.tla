---------------------------- MODULE AgentGrants ----------------------------
(***************************************************************************)
(* The one policy a namespace agent can have and how the agent comes by    *)
(* its identity: AgentGrantService (src/services/agent-grants.ts), the     *)
(* projection of a grant into secret ACLs (reconcileAgentReadAccess in     *)
(* src/services/secrets.ts), AWS IoT provisioning                          *)
(* (src/services/agent-notifications.ts) and the operator's repair script. *)
(*                                                                         *)
(* Consumers and certificates follow ConsumerRegistry, which Enrollment    *)
(* implements.  A consumer has at most one grant, so a grant is named for  *)
(* its consumer.  An ACL is what the agent's consumer may read; each of    *)
(* its changes is one update of a secret, which SecretMutation shows to be *)
(* a compare-and-swap.                                                     *)
(***************************************************************************)
EXTENDS Naturals

CONSTANTS
    Consumers, Csrs, Identities,    \* as in ConsumerRegistry
    Secrets,                        \* secret UIDs, each created under a name of its own
    Tokens,                         \* bootstrap capabilities
    Processes,                      \* invocations, and the script, that run at once
    None,
    MaxRequests                     \* bound: requests, redemptions and scripts

ASSUME NoneAssumption ==
    None \notin Consumers \cup Csrs \cup Identities \cup Secrets \cup Tokens
ASSUME OrderAssumption == Identities \subseteq Nat
ASSUME BoundAssumption == MaxRequests \in Nat

VARIABLES
    status, standing, owner, keyOf, \* the registry
    grant,      \* AGENT_GRANT#id / PROFILE, with CONSUMER#c / AGENT_GRANT
    token,      \* BOOTSTRAP#hash / STATE
    keyed,      \* IDEMPOTENCY#bootstrap / redeem-hash: the enrolment it began
    acl,        \* secrets whose ACL names the consumer
    live,       \* secrets that are not archived
    reused,     \* archived secrets whose name belongs to another secret
    iot,        \* certificate registered, thing attached, policy attached
    proc,       \* what each invocation is at
    requests

registryVars == <<status, standing, owner, keyOf>>
tableVars == <<grant, token, keyed, acl, live, reused>>
vars == <<registryVars, tableVars, iot, proc, requests>>

Registry == INSTANCE ConsumerRegistry

Provisioned == 3

NoGrant == [status |-> "none", reads |-> {}, activated |-> None]
NoToken == [status |-> "none", grant |-> None, expired |-> FALSE, consumed |-> None]
Idle ==
    [phase |-> "idle", kind |-> "none", consumer |-> None, token |-> None,
     csr |-> None, status |-> "none", reads |-> {}, capability |-> "none",
     id |-> None, revoke |-> {}, add |-> {}, alone |-> TRUE]

Phases ==
    {"idle", "create", "issue", "grant", "identify", "await", "provision", "list",
     "reconcile", "write", "activate", "consume", "answered"}

GrantRecord ==
    [status : {"PENDING", "ACTIVE"}, reads : SUBSET Secrets, activated : Identities \cup {None}]
TokenRecord ==
    [status : {"PENDING", "CONSUMED"}, grant : Consumers, expired : BOOLEAN,
     consumed : Identities \cup {None}]
Invocation ==
    [phase : Phases, kind : {"none", "create", "issue", "redeem", "update", "script"},
     consumer : Consumers \cup {None}, token : Tokens \cup {None}, csr : Csrs \cup {None},
     status : {"none", "PENDING", "ACTIVE"}, reads : SUBSET Secrets,
     capability : {"none", "PENDING", "CONSUMED"}, id : Identities \cup {None},
     revoke : SUBSET Secrets, add : SUBSET Secrets, alone : BOOLEAN]

TypeOK ==
    /\ status \in [Consumers -> {"none", "PENDING", "ACTIVE"}]
    /\ standing \in [Identities -> {"none", "PENDING", "ACTIVE", "FAILED", "REVOKED"}]
    /\ owner \in [Identities -> Consumers \cup {None}]
    /\ keyOf \in [Identities -> Csrs \cup {None}]
    /\ grant \in [Consumers -> {NoGrant} \cup GrantRecord]
    /\ token \in [Tokens -> {NoToken} \cup TokenRecord]
    /\ keyed \in [Tokens -> Identities \cup {None}]
    /\ acl \in [Consumers -> SUBSET Secrets]
    /\ live \subseteq Secrets /\ reused \subseteq Secrets \ live
    /\ iot \in [Identities -> 0 .. Provisioned]
    /\ proc \in [Processes -> Invocation]
    /\ requests \in 0 .. MaxRequests

Init ==
    /\ Registry!Init
    /\ grant = [c \in Consumers |-> NoGrant]
    /\ token = [t \in Tokens |-> NoToken]
    /\ keyed = [t \in Tokens |-> None]
    /\ acl = [c \in Consumers |-> {}]
    /\ live = Secrets /\ reused = {}
    /\ iot = [i \in Identities |-> 0]
    /\ proc = [p \in Processes |-> Idle]
    /\ requests = 0

-----------------------------------------------------------------------------

At(p, phase) == proc[p].phase = phase
Move(p, phase) == proc' = [proc EXCEPT ![p].phase = phase]
\* An invocation that failed, or whose answer nothing below depends on.
Ended(p) == proc' = [proc EXCEPT ![p] = Idle]
Answered(p) == proc' = [proc EXCEPT ![p].phase = "answered"]

\* The script refuses to run unless the operator has stopped the service.
Quiesced == \A p \in Processes : proc[p].phase \in {"idle", "answered"}
ScriptRuns == \E p \in Processes : proc[p].kind = "script" /\ ~At(p, "answered")

Begin(p, record) ==
    /\ proc[p].phase \in {"idle", "answered"}
    /\ ~ScriptRuns
    /\ requests < MaxRequests /\ requests' = requests + 1
    /\ proc' = [proc EXCEPT ![p] = record]
    /\ UNCHANGED <<registryVars, tableVars, iot>>

-----------------------------------------------------------------------------
(* An administrator makes a grant and a capability *)

\* create: the consumer must be unknown, and every secret be found under its name.
BeginCreate(p, c, reads) ==
    /\ status[c] = "none" /\ reads \subseteq live
    /\ Begin(p, [Idle EXCEPT !.phase = "create", !.kind = "create", !.consumer = c,
                             !.reads = reads])

\* createAgentGrant: the grant and the mapping from its consumer, both new.
CreateGrant(p) ==
    LET c == proc[p].consumer IN
    /\ At(p, "create")
    /\ grant' = IF grant[c] = NoGrant
                THEN [grant EXCEPT ![c] = [status |-> "PENDING", reads |-> proc[p].reads,
                                           activated |-> None]]
                ELSE grant
    /\ Ended(p)
    /\ UNCHANGED <<registryVars, token, keyed, acl, live, reused, iot, requests>>

\* issueBootstrapCapability reads the grant, then puts a capability of 30 minutes.
BeginIssue(p, c, t) ==
    /\ grant[c].status = "PENDING" /\ token[t] = NoToken
    /\ \A r \in Processes : proc[r].kind = "issue" => proc[r].token # t
    /\ Begin(p, [Idle EXCEPT !.phase = "issue", !.kind = "issue", !.consumer = c, !.token = t])

CreateCapability(p) ==
    /\ At(p, "issue")
    /\ token' = [token EXCEPT ![proc[p].token] =
          [status |-> "PENDING", grant |-> proc[p].consumer, expired |-> FALSE,
           consumed |-> None]]
    /\ Ended(p)
    /\ UNCHANGED <<registryVars, grant, keyed, acl, live, reused, iot, requests>>

-----------------------------------------------------------------------------
(* The agent redeems its capability: AgentGrantService.redeem *)

\* getBootstrapCapability: a pending capability must be in time, a consumed one is
\* looked at again below.
BeginRedeem(p, t, q) ==
    /\ \/ token[t].status = "PENDING" /\ ~token[t].expired
       \/ token[t].status = "CONSUMED"
    /\ Begin(p, [Idle EXCEPT !.phase = "grant", !.kind = "redeem", !.token = t, !.csr = q,
                             !.consumer = token[t].grant, !.capability = token[t].status])

\* getAgentGrant: what is read here is what the agent is given at the end.
ReadGrant(p) ==
    LET c == proc[p].consumer IN
    /\ At(p, "grant")
    /\ IF proc[p].capability = "CONSUMED" /\ grant[c].status # "ACTIVE" THEN Ended(p)
       ELSE proc' = [proc EXCEPT ![p].status = grant[c].status, ![p].reads = grant[c].reads,
                                 ![p].phase = "identify"]
    /\ UNCHANGED <<registryVars, tableVars, iot, requests>>

\* The identity has to be the one a consumed capability was consumed with.
Identified(p, i) ==
    IF proc[p].capability = "CONSUMED" /\ token[proc[p].token].consumed # i
    THEN Ended(p)
    ELSE proc' = [proc EXCEPT ![p].id = i, ![p].phase = "provision"]

\* recoverActiveIdentity: an active consumer proves its key, or is refused.  The index
\* of its identities may still show one that was just revoked.
Recover(p) ==
    LET c == proc[p].consumer
        mine == {i \in Identities : /\ standing[i] \in {"ACTIVE", "REVOKED"}
                                    /\ owner[i] = c /\ keyOf[i] = proc[p].csr} IN
    /\ At(p, "identify") /\ status[c] = "ACTIVE"
    /\ \/ \E i \in mine : Identified(p, i)
       \/ /\ \A i \in mine : standing[i] = "REVOKED"
          /\ Ended(p)
    /\ UNCHANGED <<registryVars, tableVars, iot, requests>>

Fresh == {i \in Identities : standing[i] = "none" /\
             \A j \in Identities : standing[j] = "none" => i <= j}

\* ConsumerService.enroll under the capability's own idempotency key: the enrolment
\* it began before, one of the same request that is still pending, or a new one.
Enroll(p) ==
    LET c == proc[p].consumer  t == proc[p].token
        await(i) == proc' = [proc EXCEPT ![p].id = i, ![p].phase = "await"]
        pending == {i \in Identities : owner[i] = c /\ standing[i] = "PENDING"} IN
    /\ At(p, "identify") /\ status[c] # "ACTIVE"
    /\ \/ /\ keyed[t] # None
          /\ IF keyOf[keyed[t]] = proc[p].csr THEN await(keyed[t]) ELSE Ended(p)
          /\ UNCHANGED <<registryVars, keyed>>
       \/ /\ keyed[t] = None
          /\ \E i \in pending :
                IF keyOf[i] = proc[p].csr
                THEN await(i) /\ keyed' = [keyed EXCEPT ![t] = i]
                ELSE Ended(p) /\ UNCHANGED keyed
          /\ UNCHANGED registryVars
       \/ /\ keyed[t] = None /\ pending = {}
          /\ \E i \in Fresh :
                /\ Registry!Register(i, c, proc[p].csr)
                /\ keyed' = [keyed EXCEPT ![t] = i]
                /\ await(i)
    /\ UNCHANGED <<grant, token, acl, live, reused, iot, requests>>

\* The enrolment ended while the request waited for it.
EnrollEnds(p) ==
    LET i == proc[p].id IN
    /\ At(p, "await")
    /\ \/ standing[i] \in {"ACTIVE", "REVOKED"} /\ Identified(p, i)
       \/ standing[i] = "FAILED" /\ Ended(p)
    /\ UNCHANGED <<registryVars, tableVars, iot, requests>>

\* Mutant: an activation that does not compare the certificate.
ActivateLoosely(p) ==
    LET c == proc[p].consumer  i == proc[p].id IN
    /\ At(p, "activate")
    /\ IF grant[c].status = "PENDING"
       THEN grant' = [grant EXCEPT ![c].status = "ACTIVE", ![c].activated = i]
       ELSE UNCHANGED grant
    /\ IF proc[p].capability = "PENDING" THEN Move(p, "consume") ELSE Answered(p)
    /\ UNCHANGED <<registryVars, token, keyed, acl, live, reused, iot, requests>>

\* Mutant: a provisioning step that failed is not noticed.
ProvisionSome(p) ==
    /\ At(p, "provision")
    /\ \E n \in iot[proc[p].id] .. Provisioned : iot' = [iot EXCEPT ![proc[p].id] = n]
    /\ Move(p, "list")
    /\ UNCHANGED <<registryVars, tableVars, requests>>

\* provision: certificate, thing and policy, each put only if it is missing, and a
\* failure after any of them.
Provision(p) ==
    /\ At(p, "provision")
    /\ \E n \in iot[proc[p].id] .. Provisioned :
          /\ iot' = [iot EXCEPT ![proc[p].id] = n]
          /\ IF n = Provisioned THEN Move(p, "list") ELSE Ended(p)
    /\ UNCHANGED <<registryVars, tableVars, requests>>

\* activateAgentGrant: a grant is activated once, or was by this very identity.
Activate(p) ==
    LET c == proc[p].consumer  i == proc[p].id IN
    /\ At(p, "activate")
    /\ \/ /\ grant[c].status = "PENDING"
          /\ grant' = [grant EXCEPT ![c].status = "ACTIVE", ![c].activated = i]
       \/ /\ grant[c].status = "ACTIVE" /\ grant[c].activated = i
          /\ UNCHANGED grant
    /\ IF proc[p].capability = "PENDING" THEN Move(p, "consume") ELSE Answered(p)
    /\ UNCHANGED <<registryVars, token, keyed, acl, live, reused, iot, requests>>

ActivateRefused(p) ==
    /\ At(p, "activate")
    /\ grant[proc[p].consumer].status = "ACTIVE"
    /\ grant[proc[p].consumer].activated # proc[p].id
    /\ Ended(p)
    /\ UNCHANGED <<registryVars, tableVars, iot, requests>>

\* consumeBootstrapCapability: likewise, and then the agent is answered.
Consume(p) ==
    LET t == proc[p].token IN
    /\ At(p, "consume")
    /\ \/ /\ token[t].status = "PENDING"
          /\ token' = [token EXCEPT ![t].status = "CONSUMED", ![t].consumed = proc[p].id]
          /\ Answered(p)
       \/ /\ token[t].status = "CONSUMED"
          /\ IF token[t].consumed = proc[p].id THEN Answered(p) ELSE Ended(p)
          /\ UNCHANGED token
    /\ UNCHANGED <<registryVars, grant, keyed, acl, live, reused, iot, requests>>

-----------------------------------------------------------------------------
(* reconcileAgentReadAccess, at the end of a redemption, before a policy update of an
   active grant, and in the script *)

\* Mutant: a reconciliation that only adds.
ListMissing(p) ==
    LET c == proc[p].consumer IN
    /\ At(p, "list")
    /\ proc' = [proc EXCEPT ![p].revoke = {}, ![p].add = proc[p].reads \ acl[c],
                            ![p].alone = TRUE, ![p].phase = "reconcile"]
    /\ UNCHANGED <<registryVars, tableVars, iot, requests>>

\* The readable secrets are listed once, and what to do follows from that list.
ListAccess(p) ==
    LET c == proc[p].consumer IN
    /\ At(p, "list")
    /\ proc' = [proc EXCEPT ![p].revoke = acl[c] \ proc[p].reads,
                            ![p].add = proc[p].reads \ acl[c],
                            ![p].alone = TRUE, ![p].phase = "reconcile"]
    /\ UNCHANGED <<registryVars, tableVars, iot, requests>>

\* A change of the ACL of consumer c that process p makes, seen by the others.
ChangeAcl(p, c, new, record) ==
    /\ acl' = [acl EXCEPT ![c] = new]
    /\ proc' = [r \in Processes |->
          IF r = p THEN record
          ELSE IF proc[r].consumer = c THEN [proc[r] EXCEPT !.alone = FALSE] ELSE proc[r]]

\* revokeConsumerSecretGrant: a secret that is gone, or lost the grant, is an error.
RevokeAccess(p, s) ==
    LET c == proc[p].consumer IN
    /\ At(p, "reconcile") /\ s \in proc[p].revoke
    /\ IF s \in live /\ s \in acl[c]
       THEN ChangeAcl(p, c, acl[c] \ {s}, [proc[p] EXCEPT !.revoke = @ \ {s}])
       ELSE Ended(p) /\ UNCHANGED acl
    /\ UNCHANGED <<registryVars, grant, token, keyed, live, reused, iot, requests>>

\* grantAgentConsumerReadAccess: a reused name is passed over, a free one is an error,
\* and the consumer must be active.
AddAccess(p, s) ==
    LET c == proc[p].consumer
        added == [proc[p] EXCEPT !.add = @ \ {s}] IN
    /\ At(p, "reconcile") /\ proc[p].revoke = {} /\ s \in proc[p].add
    /\ IF s \in reused \/ (s \in live /\ s \in acl[c])
       THEN proc' = [proc EXCEPT ![p] = added] /\ UNCHANGED acl
       ELSE IF s \in live /\ status[c] = "ACTIVE"
       THEN ChangeAcl(p, c, acl[c] \cup {s}, added)
       ELSE Ended(p) /\ UNCHANGED acl
    /\ UNCHANGED <<registryVars, grant, token, keyed, live, reused, iot, requests>>

Reconciled(p) ==
    /\ At(p, "reconcile") /\ proc[p].revoke = {} /\ proc[p].add = {}
    /\ Move(p, CASE proc[p].kind = "redeem" -> "activate"
                 [] proc[p].kind = "update" -> "write"
                 [] OTHER -> "answered")
    /\ UNCHANGED <<registryVars, tableVars, iot, requests>>

-----------------------------------------------------------------------------
(* Policy updates and repair *)

\* update: a grant that is not active has no projection to bring along.
BeginUpdate(p, c, reads) ==
    /\ grant[c] # NoGrant /\ reads \subseteq live
    /\ Begin(p, [Idle EXCEPT !.kind = "update", !.consumer = c, !.reads = reads,
                    !.status = grant[c].status,
                    !.phase = IF grant[c].status = "ACTIVE" THEN "list" ELSE "write"])

\* Mutant: the record as it was read is put back whole.
PutGrant(p) ==
    LET c == proc[p].consumer IN
    /\ At(p, "write")
    /\ grant' = [grant EXCEPT ![c] =
          [status |-> proc[p].status, reads |-> proc[p].reads,
           activated |-> IF proc[p].status = "PENDING" THEN None ELSE grant[c].activated]]
    /\ Ended(p)
    /\ UNCHANGED <<registryVars, token, keyed, acl, live, reused, iot, requests>>

\* updateAgentGrant compares nothing but that the grant exists.
WriteGrant(p) ==
    /\ At(p, "write")
    /\ grant' = [grant EXCEPT ![proc[p].consumer].reads = proc[p].reads]
    /\ Ended(p)
    /\ UNCHANGED <<registryVars, token, keyed, acl, live, reused, iot, requests>>

\* reconcileAgentGrantAccess, for one active grant of its scan.
BeginScript(p, c) ==
    /\ Quiesced /\ grant[c].status = "ACTIVE"
    /\ Begin(p, [Idle EXCEPT !.phase = "list", !.kind = "script", !.consumer = c,
                             !.status = "ACTIVE", !.reads = grant[c].reads])

-----------------------------------------------------------------------------
(* The rest of the system *)

\* Enrolments end, and administrators enrol consumers, rotate and revoke certificates.
RegistryStep ==
    /\ \/ \E i \in Identities, c \in Consumers :
             Registry!Activate(i, c) \/ Registry!Reject(i, c)
       \/ \E i \in Fresh, c \in Consumers, q \in Csrs :
             Registry!Register(i, c, q) \/ Registry!Rotate(i, c, q)
       \/ \E i \in Identities : Registry!Revoke(i)
    /\ UNCHANGED <<tableVars, iot, proc, requests>>

\* A secret is archived, which revokes its readers, and its name may be taken again.
Archive(s) ==
    /\ s \in live /\ ~ScriptRuns
    /\ live' = live \ {s}
    /\ acl' = [c \in Consumers |-> acl[c] \ {s}]
    /\ proc' = [p \in Processes |-> [proc[p] EXCEPT !.alone = FALSE]]
    /\ UNCHANGED <<registryVars, grant, token, keyed, reused, iot, requests>>

ReuseName(s) ==
    /\ s \notin live \cup reused /\ ~ScriptRuns
    /\ reused' = reused \cup {s}
    /\ UNCHANGED <<registryVars, grant, token, keyed, acl, live, iot, proc, requests>>

Expire(t) ==
    /\ token[t].status = "PENDING" /\ ~token[t].expired
    /\ token' = [token EXCEPT ![t].expired = TRUE]
    /\ UNCHANGED <<registryVars, grant, keyed, acl, live, reused, iot, proc, requests>>

\* An invocation ends early: a failed call, a lost compare-and-swap, a timeout.
Stop(p) ==
    /\ proc[p].phase \notin {"idle", "answered"}
    /\ Ended(p)
    /\ UNCHANGED <<registryVars, tableVars, iot, requests>>

-----------------------------------------------------------------------------

Advance(p) ==
    \/ CreateGrant(p) \/ CreateCapability(p)
    \/ ReadGrant(p) \/ Recover(p) \/ Enroll(p) \/ EnrollEnds(p) \/ Provision(p)
    \/ Activate(p) \/ ActivateRefused(p) \/ Consume(p)
    \/ ListAccess(p) \/ Reconciled(p) \/ WriteGrant(p)
    \/ \E s \in Secrets : RevokeAccess(p, s) \/ AddAccess(p, s)

Next ==
    \/ \E p \in Processes :
          \/ \E c \in Consumers :
                \/ \E reads \in SUBSET Secrets : BeginCreate(p, c, reads) \/ BeginUpdate(p, c, reads)
                \/ \E t \in Tokens : BeginIssue(p, c, t)
                \/ BeginScript(p, c)
          \/ \E t \in Tokens, q \in Csrs : BeginRedeem(p, t, q)
          \/ Advance(p)
          \/ Stop(p)
    \/ RegistryStep
    \/ \E s \in Secrets : Archive(s) \/ ReuseName(s)
    \/ \E t \in Tokens : Expire(t)

Spec == Init /\ [][Next]_vars

-----------------------------------------------------------------------------
(* Properties *)

\* A reconciliation nobody disturbed leaves the consumer with exactly the readable
\* secrets of its policy, whatever an earlier one that stopped half way had left.
QuietReconcileIsExact ==
    \A p \in Processes :
        /\ proc[p].alone
        /\ \/ proc[p].phase \in {"activate"}
           \/ At(p, "write") /\ proc[p].status = "ACTIVE"
           \/ At(p, "answered") /\ proc[p].kind = "script"
        => acl[proc[p].consumer] = proc[p].reads \cap live

\* However many capabilities, retries and keys race for a grant, it belongs to one
\* certificate, and no other one is ever told that it does.
OneIdentityPerGrant ==
    /\ \A p \in Processes : At(p, "answered") /\ proc[p].kind = "redeem" =>
          proc[p].id = grant[proc[p].consumer].activated
    /\ \A t \in Tokens : token[t].status = "CONSUMED" =>
          token[t].consumed = grant[token[t].grant].activated

\* Grants, capabilities and certificates are well formed and name each other consistently.
GrantsInv == TypeOK /\ OneIdentityPerGrant

\* A grant is active only when its agent's certificate was issued for its consumer and
\* is fully provisioned.
ActiveGrantsAreProvisioned ==
    \A c \in Consumers : grant[c].status = "ACTIVE" =>
        /\ iot[grant[c].activated] = Provisioned
        /\ owner[grant[c].activated] = c
        /\ standing[grant[c].activated] \in {"ACTIVE", "REVOKED"}

\* An activation is final: neither policy updates, nor late redemptions, nor expiry
\* take a grant or a capability back, or give either to another certificate.
ActivationsAreFinal ==
    [][/\ \A c \in Consumers : grant[c].status = "ACTIVE" =>
             grant'[c].status = "ACTIVE" /\ grant'[c].activated = grant[c].activated
       /\ \A t \in Tokens : token[t].status = "CONSUMED" => token'[t] = token[t]]_vars
=============================================================================
