-------------------------- MODULE AgentGrantsProofs --------------------------
(***************************************************************************)
(* Proofs about AgentGrants: for any number of agents, certificates,       *)
(* capabilities, secrets and invocations, a grant belongs to one fully     *)
(* provisioned certificate, for good, and a reconciliation that nobody     *)
(* disturbed is exact.                                                     *)
(***************************************************************************)
EXTENDS AgentGrants, TLAPS

-----------------------------------------------------------------------------
(* The invariant *)

Issued(i, c) == i \in Identities /\ owner[i] = c /\ standing[i] \in {"ACTIVE", "REVOKED"}
Usable(i, c) == Issued(i, c) /\ iot[i] = Provisioned
Holds(i, c) == i \in Identities /\ grant[c].status = "ACTIVE" /\ grant[c].activated = i

\* An enrolment that a capability began, or a request waits for, is the consumer's own.
Enrolled(i, c) == i \in Identities /\ owner[i] = c /\ standing[i] # "none"

GrantsBelong ==
    \A c \in Consumers : grant[c].status = "ACTIVE" => Usable(grant[c].activated, c)

TokensBelong ==
    \A t \in Tokens :
        /\ keyed[t] # None => token[t] # NoToken /\ Enrolled(keyed[t], token[t].grant)
        /\ token[t].status = "CONSUMED" => Holds(token[t].consumed, token[t].grant)

\* What an invocation has learnt, phase by phase, is still so.
Redeeming == {"grant", "identify", "await", "provision", "activate", "consume"}

Knows(r) ==
    /\ r.phase # "idle" => r.kind # "none"
    /\ r.kind # "none" => r.consumer \in Consumers
    /\ r.phase \in Redeeming => r.kind = "redeem"
    /\ r.phase = "issue" <=> r.kind = "issue"
    /\ r.phase = "write" => r.kind = "update"
    /\ r.kind = "redeem" =>
          /\ r.token \in Tokens /\ token[r.token] # NoToken
          /\ token[r.token].grant = r.consumer
    /\ r.kind = "update" => grant[r.consumer] # NoGrant
    /\ r.phase = "await" => Enrolled(r.id, r.consumer)
    /\ r.phase = "provision" => Issued(r.id, r.consumer)
    /\ r.kind = "redeem" /\ r.phase \in {"list", "reconcile", "activate"} =>
          Usable(r.id, r.consumer)
    /\ r.kind = "redeem" /\ r.phase \in {"consume", "answered"} => Holds(r.id, r.consumer)

\* What is left to do accounts for every difference between the ACL and the policy.
Exact(r) ==
    r.alone =>
        /\ r.phase = "reconcile" =>
              /\ r.revoke = acl[r.consumer] \ r.reads /\ r.add \subseteq r.reads
              /\ r.reads \cap live \subseteq acl[r.consumer] \cup r.add
        /\ \/ r.phase = "activate"
           \/ r.phase = "write" /\ r.status = "ACTIVE"
           \/ r.phase = "answered" /\ r.kind = "script"
           => acl[r.consumer] = r.reads \cap live

InvocationsKnow == \A p \in Processes : Knows(proc[p]) /\ Exact(proc[p])

\* A capability is issued by one invocation, and used by none before.
IssuesAreNew ==
    \A p \in Processes : proc[p].kind = "issue" =>
        /\ proc[p].token \in Tokens /\ token[proc[p].token] = NoToken
        /\ \A q \in Processes \ {p} : proc[q].kind = "issue" => proc[q].token # proc[p].token

\* An archived secret has no readers.
ReadersOfTheLiving == \A c \in Consumers : acl[c] \subseteq live

GrantingInv ==
    GrantsBelong /\ TokensBelong /\ InvocationsKnow /\ IssuesAreNew /\ ReadersOfTheLiving

-----------------------------------------------------------------------------
(* What no step takes back *)

LEMMA Blank ==
    /\ Idle \in Invocation /\ Idle.phase = "idle" /\ Idle.kind = "none"
    /\ NoGrant.status = "none" /\ NoToken.status = "none"
  BY DEF Idle, Invocation, Phases, NoGrant, NoToken

LEMMA Typed ==
    ASSUME TypeOK
    PROVE  /\ \A c \in Consumers : /\ grant[c].status \in {"none", "PENDING", "ACTIVE"}
                                   /\ grant[c].status = "none" => grant[c] = NoGrant
                                   /\ grant[c].status # "none" => grant[c] \in GrantRecord
           /\ \A t \in Tokens : /\ token[t].status \in {"none", "PENDING", "CONSUMED"}
                                /\ token[t].status = "none" => token[t] = NoToken
                                /\ token[t].status # "none" => token[t] \in TokenRecord
  BY Blank DEF TypeOK, GrantRecord, TokenRecord

\* An activation and the certificate it is for are final, and so are a capability's
\* consumption, the owner of a certificate and its provisioning.
Forward ==
    /\ \A c \in Consumers :
          /\ grant[c] # NoGrant => grant'[c] # NoGrant
          /\ grant[c].status = "ACTIVE" =>
                grant'[c].status = "ACTIVE" /\ grant'[c].activated = grant[c].activated
    /\ \A t \in Tokens :
          /\ token[t] # NoToken => token'[t] # NoToken /\ token'[t].grant = token[t].grant
          /\ token[t].status = "CONSUMED" => token'[t] = token[t]
    /\ \A i \in Identities :
          /\ standing[i] # "none" => standing'[i] # "none" /\ owner'[i] = owner[i]
          /\ standing[i] \in {"ACTIVE", "REVOKED"} => standing'[i] \in {"ACTIVE", "REVOKED"}
          /\ iot[i] = Provisioned => iot'[i] = Provisioned

LEMMA ForwardKeeps ==
    ASSUME Forward, NEW c \in Consumers, NEW i
    PROVE  /\ Issued(i, c) => Issued(i, c)'
           /\ Usable(i, c) => Usable(i, c)'
           /\ Enrolled(i, c) => Enrolled(i, c)'
           /\ Holds(i, c) => Holds(i, c)'
  BY DEF Forward, Issued, Usable, Enrolled, Holds

LEMMA KnowsForward ==
    ASSUME Forward, NEW r \in Invocation, Knows(r) PROVE Knows(r)'
  <1>1. r.kind # "none" => r.consumer \in Consumers
    BY DEF Knows
  <1>2. CASE r.kind = "none"
    BY <1>2 DEF Knows, Redeeming
  <1>3. CASE r.kind # "none"
    <2>1. PICK c \in Consumers : c = r.consumer
      BY <1>1, <1>3
    <2>2. PICK i : i = r.id
      OBVIOUS
    <2>3. /\ Issued(i, c) => Issued(i, c)'
          /\ Usable(i, c) => Usable(i, c)'
          /\ Enrolled(i, c) => Enrolled(i, c)'
          /\ Holds(i, c) => Holds(i, c)'
      BY <2>1, ForwardKeeps
    <2>4. /\ r.kind = "redeem" => token'[r.token] # NoToken /\ token'[r.token].grant = r.consumer
          /\ r.kind = "update" => grant'[r.consumer] # NoGrant
      BY <2>1 DEF Knows, Forward
    <2> QED
      BY <2>1, <2>2, <2>3, <2>4 DEF Knows
  <1> QED
    BY <1>2, <1>3

\* Records of grants and capabilities that change are as they should be.
LEMMA RecordsKept ==
    ASSUME TypeOK, TypeOK', GrantingInv, Forward,
           \A c \in Consumers : grant'[c].status = "ACTIVE" =>
               grant[c].status = "ACTIVE" \/ Usable(grant[c].activated, c)',
           \A t \in Tokens : keyed'[t] # None =>
               \/ keyed'[t] = keyed[t]
               \/ token'[t] # NoToken /\ Enrolled(keyed[t], token[t].grant)',
           \A t \in Tokens : token'[t].status = "CONSUMED" =>
               token'[t] = token[t] \/ Holds(token[t].consumed, token[t].grant)'
    PROVE  GrantsBelong' /\ TokensBelong'
  <1>1. ASSUME NEW c \in Consumers, grant'[c].status = "ACTIVE"
        PROVE  Usable(grant[c].activated, c)'
    <2>1. PICK i : i = grant[c].activated
      OBVIOUS
    <2>2. CASE grant[c].status = "ACTIVE"
      <3>1. Usable(i, c) /\ grant'[c].activated = i
        BY <2>1, <2>2 DEF GrantingInv, GrantsBelong, Forward
      <3> QED
        BY <3>1, ForwardKeeps
    <2> QED
      BY <1>1, <2>2
  <1>2. ASSUME NEW t \in Tokens, keyed'[t] # None
        PROVE  token'[t] # NoToken /\ Enrolled(keyed[t], token[t].grant)'
    <2>1. CASE keyed'[t] = keyed[t]
      <3>1. PICK i : i = keyed[t]
        OBVIOUS
      <3>2. token[t] # NoToken /\ Enrolled(i, token[t].grant)
        BY <1>2, <2>1, <3>1 DEF GrantingInv, TokensBelong
      <3>3. PICK c \in Consumers : c = token[t].grant
        BY <3>2, Typed DEF TypeOK, TokenRecord
      <3>4. token'[t] # NoToken /\ token'[t].grant = c
        BY <3>2, <3>3 DEF Forward
      <3> QED
        BY <2>1, <3>1, <3>2, <3>3, <3>4, ForwardKeeps
    <2> QED
      BY <1>2, <2>1
  <1>3. ASSUME NEW t \in Tokens, token'[t].status = "CONSUMED"
        PROVE  Holds(token[t].consumed, token[t].grant)'
    <2>1. CASE token'[t] = token[t]
      <3>1. PICK i : i = token[t].consumed
        OBVIOUS
      <3>2. PICK c \in Consumers : c = token[t].grant
        BY <1>3, <2>1, Typed DEF TypeOK, TokenRecord
      <3>3. Holds(i, c)
        BY <1>3, <2>1, <3>1, <3>2 DEF GrantingInv, TokensBelong
      <3> QED
        BY <2>1, <3>1, <3>2, <3>3, ForwardKeeps
    <2> QED
      BY <1>3, <2>1
  <1> QED
    BY <1>1, <1>2, <1>3 DEF GrantsBelong, TokensBelong

\* One invocation moves and the ACLs stay.
LEMMA OneMoves ==
    ASSUME TypeOK, GrantingInv, Forward, NEW p \in Processes, NEW n \in Invocation,
           proc' = [proc EXCEPT ![p] = n], acl' = acl, live' = live,
           Knows(n)', Exact(n)',
           n.kind = "issue" =>
               /\ n.token \in Tokens /\ token'[n.token] = NoToken
               /\ \A q \in Processes \ {p} : proc[q].kind = "issue" => proc[q].token # n.token,
           \A q \in Processes \ {p} : proc[q].kind = "issue" => token'[proc[q].token] = NoToken
    PROVE  InvocationsKnow' /\ IssuesAreNew' /\ ReadersOfTheLiving'
  <1>1. proc'[p] = n /\ \A q \in Processes \ {p} : proc'[q] = proc[q]
    BY DEF TypeOK
  <1>2. ASSUME NEW q \in Processes PROVE Knows(proc[q])' /\ Exact(proc[q])'
    <2>1. CASE q = p
      BY <1>1, <2>1
    <2>2. CASE q # p
      <3>1. PICK r \in Invocation : r = proc[q]
        BY DEF TypeOK
      <3>2. proc'[q] = r /\ Knows(r) /\ Exact(r)
        BY <1>1, <2>2, <3>1 DEF GrantingInv, InvocationsKnow
      <3>3. Knows(r)'
        BY <3>2, KnowsForward
      <3>4. Exact(r)'
        BY <3>2 DEF Exact
      <3> QED
        BY <3>2, <3>3, <3>4
    <2> QED
      BY <2>1, <2>2
  <1>3. IssuesAreNew'
    BY <1>1 DEF GrantingInv, IssuesAreNew
  <1>4. ReadersOfTheLiving'
    BY DEF GrantingInv, ReadersOfTheLiving
  <1> QED
    BY <1>2, <1>3, <1>4 DEF InvocationsKnow

\* An invocation reads, decides or ends: nothing else changes.
LEMMA OnlyOneMoves ==
    ASSUME TypeOK, GrantingInv, NEW p \in Processes, NEW n \in Invocation,
           proc' = [proc EXCEPT ![p] = n], UNCHANGED <<registryVars, tableVars, iot>>,
           requests' \in 0 .. MaxRequests, Knows(n), Exact(n),
           n.kind = "issue" =>
               /\ n.token \in Tokens /\ token[n.token] = NoToken
               /\ \A q \in Processes \ {p} : proc[q].kind = "issue" => proc[q].token # n.token
    PROVE  TypeOK' /\ GrantingInv' /\ Forward
  <1>1. UNCHANGED <<status, standing, owner, keyOf, grant, token, keyed, acl, live, reused, iot>>
    BY DEF registryVars, tableVars
  <1>2. TypeOK'
    BY <1>1 DEF TypeOK
  <1>3. Forward
    BY <1>1 DEF Forward
  <1>4. GrantsBelong' /\ TokensBelong'
    BY <1>1 DEF GrantingInv, GrantsBelong, TokensBelong, Usable, Issued, Enrolled, Holds
  <1>5. Knows(n)' /\ Exact(n)'
    BY <1>1, <1>3, KnowsForward DEF Exact
  <1>6. \A q \in Processes \ {p} : proc[q].kind = "issue" => token'[proc[q].token] = NoToken
    BY <1>1 DEF GrantingInv, IssuesAreNew
  <1> QED
    BY <1>1, <1>2, <1>3, <1>4, <1>5, <1>6, OneMoves DEF GrantingInv

\* An invocation that ends knows nothing.
LEMMA NothingKnown == Knows(Idle) /\ Exact(Idle)
  BY Blank DEF Knows, Exact, Redeeming

LEMMA EndsKeep ==
    ASSUME TypeOK, GrantingInv, NEW p \in Processes, Ended(p),
           UNCHANGED <<registryVars, tableVars, iot, requests>>
    PROVE  TypeOK' /\ GrantingInv' /\ Forward
  <1>1. proc' = [proc EXCEPT ![p] = Idle] /\ requests' \in 0 .. MaxRequests
    BY DEF Ended, TypeOK
  <1> QED
    BY <1>1, Blank, NothingKnown, OnlyOneMoves

-----------------------------------------------------------------------------
(* Requests begin and read *)

LEMMA BeginKeeps ==
    ASSUME TypeOK, GrantingInv, NEW p \in Processes,
           \/ \E c \in Consumers :
                 \/ \E reads \in SUBSET Secrets : BeginCreate(p, c, reads) \/ BeginUpdate(p, c, reads)
                 \/ \E t \in Tokens : BeginIssue(p, c, t)
                 \/ BeginScript(p, c)
           \/ \E t \in Tokens, q \in Csrs : BeginRedeem(p, t, q)
    PROVE  TypeOK' /\ GrantingInv' /\ Forward
  <1>1. ASSUME NEW n \in Invocation, Begin(p, n), Knows(n), Exact(n),
               n.kind = "issue" =>
                   /\ n.token \in Tokens /\ token[n.token] = NoToken
                   /\ \A q \in Processes \ {p} : proc[q].kind = "issue" => proc[q].token # n.token
        PROVE  TypeOK' /\ GrantingInv' /\ Forward
    <2>1. /\ proc' = [proc EXCEPT ![p] = n] /\ UNCHANGED <<registryVars, tableVars, iot>>
          /\ requests < MaxRequests /\ requests' = requests + 1
      BY <1>1 DEF Begin
    <2>2. requests' \in 0 .. MaxRequests
      BY <2>1, BoundAssumption DEF TypeOK
    <2> QED
      BY <1>1, <2>1, <2>2, OnlyOneMoves
  <1>2. ASSUME NEW c \in Consumers, NEW reads \in SUBSET Secrets, BeginCreate(p, c, reads)
        PROVE  TypeOK' /\ GrantingInv' /\ Forward
    <2>1. PICK n : n = [Idle EXCEPT !.phase = "create", !.kind = "create", !.consumer = c,
                                    !.reads = reads]
      OBVIOUS
    <2>2. /\ n \in Invocation /\ n.phase = "create" /\ n.kind = "create" /\ n.consumer = c
          /\ Begin(p, n)
      BY <1>2, <2>1 DEF BeginCreate, Idle, Invocation, Phases
    <2>3. Knows(n) /\ Exact(n)
      BY <2>2 DEF Knows, Exact, Redeeming
    <2> QED
      BY <1>1, <2>2, <2>3
  <1>3. ASSUME NEW c \in Consumers, NEW reads \in SUBSET Secrets, BeginUpdate(p, c, reads)
        PROVE  TypeOK' /\ GrantingInv' /\ Forward
    <2>1. PICK n : n = [Idle EXCEPT !.kind = "update", !.consumer = c, !.reads = reads,
                            !.status = grant[c].status,
                            !.phase = IF grant[c].status = "ACTIVE" THEN "list" ELSE "write"]
      OBVIOUS
    <2>2. /\ n \in Invocation /\ n.kind = "update" /\ n.consumer = c
          /\ n.status = grant[c].status
          /\ n.phase = IF n.status = "ACTIVE" THEN "list" ELSE "write"
          /\ Begin(p, n) /\ grant[c] # NoGrant
      BY <1>3, <2>1, Typed, ZenonT(60) DEF BeginUpdate, Idle, Invocation, Phases
    <2>3. Knows(n) /\ Exact(n)
      BY <2>2 DEF Knows, Exact, Redeeming
    <2> QED
      BY <1>1, <2>2, <2>3
  <1>4. ASSUME NEW c \in Consumers, NEW t \in Tokens, BeginIssue(p, c, t)
        PROVE  TypeOK' /\ GrantingInv' /\ Forward
    <2>1. PICK n : n = [Idle EXCEPT !.phase = "issue", !.kind = "issue", !.consumer = c,
                                    !.token = t]
      OBVIOUS
    <2>2. /\ n \in Invocation /\ n.phase = "issue" /\ n.kind = "issue" /\ n.consumer = c
          /\ n.token = t
      BY <2>1 DEF Idle, Invocation, Phases
    <2>3. /\ Begin(p, n) /\ token[t] = NoToken
          /\ \A q \in Processes : proc[q].kind = "issue" => proc[q].token # t
      BY <1>4, <2>1 DEF BeginIssue
    <2>4. Knows(n) /\ Exact(n)
      BY <2>2 DEF Knows, Exact, Redeeming
    <2> QED
      BY <1>1, <2>2, <2>3, <2>4
  <1>5. ASSUME NEW c \in Consumers, BeginScript(p, c)
        PROVE  TypeOK' /\ GrantingInv' /\ Forward
    <2>1. PICK n : n = [Idle EXCEPT !.phase = "list", !.kind = "script", !.consumer = c,
                                    !.status = "ACTIVE", !.reads = grant[c].reads]
      OBVIOUS
    <2>2. grant[c].reads \subseteq Secrets
      BY Typed DEF TypeOK, GrantRecord, NoGrant
    <2>3. /\ n \in Invocation /\ n.phase = "list" /\ n.kind = "script" /\ n.consumer = c
      BY <2>1, <2>2 DEF Idle, Invocation, Phases
    <2>4. Begin(p, n)
      BY <1>5, <2>1 DEF BeginScript
    <2>5. Knows(n) /\ Exact(n)
      BY <2>3 DEF Knows, Exact, Redeeming
    <2> QED
      BY <1>1, <2>3, <2>4, <2>5
  <1>6. ASSUME NEW t \in Tokens, NEW q \in Csrs, BeginRedeem(p, t, q)
        PROVE  TypeOK' /\ GrantingInv' /\ Forward
    <2>1. PICK n : n = [Idle EXCEPT !.phase = "grant", !.kind = "redeem", !.token = t, !.csr = q,
                             !.consumer = token[t].grant, !.capability = token[t].status]
      OBVIOUS
    <2>2. token[t] \in TokenRecord /\ token[t] # NoToken
      BY <1>6, Typed, Blank DEF BeginRedeem
    <2>3. /\ n \in Invocation /\ n.phase = "grant" /\ n.kind = "redeem" /\ n.token = t
          /\ n.consumer = token[t].grant /\ n.consumer \in Consumers
      BY <2>1, <2>2 DEF Idle, Invocation, Phases, TokenRecord
    <2>4. Begin(p, n)
      BY <1>6, <2>1 DEF BeginRedeem
    <2>5. Knows(n) /\ Exact(n)
      BY <2>2, <2>3 DEF Knows, Exact, Redeeming
    <2> QED
      BY <1>1, <2>3, <2>4, <2>5
  <1> QED
    BY <1>2, <1>3, <1>4, <1>5, <1>6

LEMMA ReadKeeps ==
    ASSUME TypeOK, GrantingInv, NEW p \in Processes,
           ReadGrant(p) \/ Recover(p) \/ EnrollEnds(p) \/ ActivateRefused(p) \/ Stop(p)
    PROVE  TypeOK' /\ GrantingInv' /\ Forward
  <1>1. PICK r \in Invocation : r = proc[p]
    BY DEF TypeOK
  <1>2. Knows(r)
    BY <1>1 DEF GrantingInv, InvocationsKnow
  <1>3. CASE Ended(p)
    BY <1>3, EndsKeep DEF ReadGrant, Recover, EnrollEnds, ActivateRefused, Stop
  <1>4. ASSUME NEW n \in Invocation, proc' = [proc EXCEPT ![p] = n], Knows(n), Exact(n),
               UNCHANGED <<registryVars, tableVars, iot, requests>>, n.kind # "issue"
        PROVE  TypeOK' /\ GrantingInv' /\ Forward
    <2>1. requests' \in 0 .. MaxRequests
      BY <1>4 DEF TypeOK
    <2> QED
      BY <1>4, <2>1, OnlyOneMoves
  <1>5. CASE ReadGrant(p) /\ ~Ended(p)
    <2>1. PICK n : n = [r EXCEPT !.status = grant[r.consumer].status,
                                 !.reads = grant[r.consumer].reads, !.phase = "identify"]
      OBVIOUS
    <2>2. /\ proc' = [proc EXCEPT ![p] = n] /\ r.phase = "grant" /\ r.consumer \in Consumers
          /\ UNCHANGED <<registryVars, tableVars, iot, requests>>
      BY <1>1, <1>2, <1>5, <2>1 DEF ReadGrant, At, TypeOK, Knows
    <2>3. grant[r.consumer].reads \subseteq Secrets
      BY <2>2, Typed DEF TypeOK, GrantRecord, NoGrant
    <2>4. /\ n \in Invocation /\ n.phase = "identify" /\ n.kind = r.kind
          /\ n.consumer = r.consumer /\ n.token = r.token
      BY <2>1, <2>2, <2>3, Typed DEF Invocation, Phases
    <2>5. Knows(n) /\ Exact(n)
      BY <1>2, <2>2, <2>4 DEF Knows, Exact, Redeeming
    <2>6. n.kind # "issue"
      BY <1>2, <2>2, <2>4 DEF Knows
    <2> QED
      BY <1>4, <2>2, <2>4, <2>5, <2>6
  <1>6. ASSUME NEW i \in Identities, Identified(p, i), ~Ended(p), Issued(i, r.consumer),
               r.phase \in {"identify", "await"},
               UNCHANGED <<registryVars, tableVars, iot, requests>>
        PROVE  TypeOK' /\ GrantingInv' /\ Forward
    <2>1. PICK n : n = [r EXCEPT !.id = i, !.phase = "provision"]
      OBVIOUS
    <2>2. proc' = [proc EXCEPT ![p] = n]
      BY <1>1, <1>6, <2>1 DEF Identified, TypeOK
    <2>3. /\ n \in Invocation /\ n.phase = "provision" /\ n.kind = r.kind /\ n.id = i
          /\ n.consumer = r.consumer /\ n.token = r.token
      BY <2>1 DEF Invocation, Phases
    <2>4. Knows(n) /\ Exact(n) /\ n.kind # "issue"
      BY <1>2, <1>6, <2>3 DEF Knows, Exact, Redeeming
    <2> QED
      BY <1>4, <1>6, <2>2, <2>3, <2>4
  <1>7. CASE Recover(p) /\ ~Ended(p)
    BY <1>1, <1>6, <1>7 DEF Recover, At, Issued
  <1>8. CASE EnrollEnds(p) /\ ~Ended(p)
    BY <1>1, <1>2, <1>6, <1>8 DEF EnrollEnds, At, Issued, Knows, Enrolled
  <1> QED
    BY <1>3, <1>5, <1>7, <1>8 DEF ActivateRefused, Stop

-----------------------------------------------------------------------------
(* Grants, capabilities and certificates come about *)

LEMMA CreateGrantKeeps ==
    ASSUME TypeOK, GrantingInv, NEW p \in Processes, CreateGrant(p)
    PROVE  TypeOK' /\ GrantingInv' /\ Forward
  <1>1. PICK r \in Invocation : r = proc[p]
    BY DEF TypeOK
  <1>2. Knows(r) /\ r.phase = "create"
    BY <1>1 DEF GrantingInv, InvocationsKnow, CreateGrant, At
  <1>3. PICK c \in Consumers : c = r.consumer
    BY <1>2 DEF Knows
  <1>4. CASE grant[c] # NoGrant
    BY <1>1, <1>3, <1>4, EndsKeep DEF CreateGrant, tableVars
  <1>5. CASE grant[c] = NoGrant
    <2>1. PICK g : g = [status |-> "PENDING", reads |-> r.reads, activated |-> None]
      OBVIOUS
    <2>2. g \in GrantRecord /\ g.status = "PENDING"
      BY <2>1 DEF GrantRecord, Invocation
    <2>3. /\ grant' = [grant EXCEPT ![c] = g] /\ proc' = [proc EXCEPT ![p] = Idle]
          /\ UNCHANGED <<registryVars, token, keyed, acl, live, reused, iot, requests>>
      BY <1>1, <1>3, <1>5, <2>1 DEF CreateGrant, Ended
    <2>4. TypeOK'
      BY <2>2, <2>3, Blank DEF TypeOK, registryVars
    <2>5. Forward
      BY <1>5, <2>2, <2>3, Blank DEF Forward, TypeOK, registryVars
    <2>6. GrantsBelong' /\ TokensBelong'
      <3>1. \A d \in Consumers : grant'[d].status = "ACTIVE" => grant[d].status = "ACTIVE"
        BY <2>2, <2>3 DEF TypeOK
      <3>2. keyed' = keyed /\ token' = token
        BY <2>3
      <3> QED
        BY <2>4, <2>5, <3>1, <3>2, RecordsKept
    <2>7. Knows(Idle)' /\ Exact(Idle)'
      BY <2>5, Blank, NothingKnown, KnowsForward DEF Exact
    <2>8. \A q \in Processes \ {p} : proc[q].kind = "issue" => token'[proc[q].token] = NoToken
      BY <2>3 DEF GrantingInv, IssuesAreNew
    <2>9. InvocationsKnow' /\ IssuesAreNew' /\ ReadersOfTheLiving'
      BY <2>3, <2>5, <2>7, <2>8, Blank, OneMoves
    <2> QED
      BY <2>4, <2>5, <2>6, <2>9 DEF GrantingInv
  <1> QED
    BY <1>4, <1>5

LEMMA CreateCapabilityKeeps ==
    ASSUME TypeOK, GrantingInv, NEW p \in Processes, CreateCapability(p)
    PROVE  TypeOK' /\ GrantingInv' /\ Forward
  <1>1. PICK r \in Invocation : r = proc[p]
    BY DEF TypeOK
  <1>2. Knows(r) /\ r.phase = "issue" /\ r.kind = "issue"
    BY <1>1 DEF GrantingInv, InvocationsKnow, CreateCapability, At, Knows
  <1>3. PICK c \in Consumers : c = r.consumer
    BY <1>2 DEF Knows
  <1>4. /\ r.token \in Tokens /\ token[r.token] = NoToken
        /\ \A q \in Processes \ {p} : proc[q].kind = "issue" => proc[q].token # r.token
    BY <1>1, <1>2 DEF GrantingInv, IssuesAreNew
  <1>5. PICK t \in Tokens : t = r.token
    BY <1>4
  <1>6. PICK k : k = [status |-> "PENDING", grant |-> c, expired |-> FALSE, consumed |-> None]
    OBVIOUS
  <1>7. k \in TokenRecord /\ k.status = "PENDING" /\ k # NoToken
    BY <1>6, Blank DEF TokenRecord
  <1>8. /\ token' = [token EXCEPT ![t] = k] /\ proc' = [proc EXCEPT ![p] = Idle]
        /\ UNCHANGED <<registryVars, grant, keyed, acl, live, reused, iot, requests>>
    BY <1>1, <1>3, <1>5, <1>6 DEF CreateCapability, Ended
  <1>9. TypeOK'
    BY <1>7, <1>8, Blank DEF TypeOK, registryVars
  <1>10. token'[t] = k /\ \A u \in Tokens \ {t} : token'[u] = token[u]
    BY <1>8 DEF TypeOK
  <1>11. Forward
    BY <1>4, <1>5, <1>7, <1>8, <1>10, Blank DEF Forward, registryVars
  <1>12. GrantsBelong' /\ TokensBelong'
    <2>1. \A u \in Tokens : token'[u].status = "CONSUMED" => token'[u] = token[u]
      BY <1>7, <1>10
    <2>2. grant' = grant /\ keyed' = keyed
      BY <1>8
    <2> QED
      BY <1>9, <1>11, <2>1, <2>2, RecordsKept
  <1>13. Knows(Idle)' /\ Exact(Idle)'
    BY <1>11, Blank, NothingKnown, KnowsForward DEF Exact
  <1>14. \A q \in Processes \ {p} : proc[q].kind = "issue" => token'[proc[q].token] = NoToken
    BY <1>4, <1>5, <1>10 DEF GrantingInv, IssuesAreNew
  <1>15. InvocationsKnow' /\ IssuesAreNew' /\ ReadersOfTheLiving'
    BY <1>8, <1>11, <1>13, <1>14, Blank, OneMoves
  <1> QED
    BY <1>9, <1>11, <1>12, <1>15 DEF GrantingInv

\* The registry keeps its types, and a certificate its owner and its end.
LEMMA RegistryMoves ==
    ASSUME TypeOK, NEW i \in Identities, NEW c \in Consumers \cup {None}, NEW q \in Csrs \cup {None},
           \/ Registry!Register(i, c, q) \/ Registry!Rotate(i, c, q)
           \/ Registry!Activate(i, c) \/ Registry!Reject(i, c) \/ Registry!Revoke(i)
    PROVE  /\ status' \in [Consumers -> {"none", "PENDING", "ACTIVE"}]
           /\ standing' \in [Identities -> {"none", "PENDING", "ACTIVE", "FAILED", "REVOKED"}]
           /\ owner' \in [Identities -> Consumers \cup {None}]
           /\ keyOf' \in [Identities -> Csrs \cup {None}]
           /\ \A j \in Identities :
                 /\ standing[j] # "none" => standing'[j] # "none" /\ owner'[j] = owner[j]
                 /\ standing[j] \in {"ACTIVE", "REVOKED"} => standing'[j] \in {"ACTIVE", "REVOKED"}
  <1>1. CASE Registry!Register(i, c, q) \/ Registry!Rotate(i, c, q)
    BY <1>1 DEF TypeOK, Registry!Register, Registry!Rotate, Registry!Issue
  <1>2. CASE Registry!Activate(i, c) \/ Registry!Reject(i, c) \/ Registry!Revoke(i)
    BY <1>2 DEF TypeOK, Registry!Activate, Registry!Reject, Registry!Revoke
  <1> QED
    BY <1>1, <1>2

LEMMA EnrollKeeps ==
    ASSUME TypeOK, GrantingInv, NEW p \in Processes, Enroll(p)
    PROVE  TypeOK' /\ GrantingInv' /\ Forward
  <1>1. PICK r \in Invocation : r = proc[p]
    BY DEF TypeOK
  <1>2. /\ Knows(r) /\ r.phase = "identify" /\ r.kind = "redeem"
        /\ UNCHANGED <<grant, token, acl, live, reused, iot, requests>>
    BY <1>1 DEF GrantingInv, InvocationsKnow, Enroll, At, Knows, Redeeming
  <1>3. PICK c \in Consumers : c = r.consumer
    BY <1>2 DEF Knows
  <1>4. PICK t \in Tokens : t = r.token /\ token[t] # NoToken /\ token[t].grant = c
    BY <1>2, <1>3 DEF Knows
  <1>5. ASSUME NEW i \in Identities, Enrolled(i, c)', Forward,
               proc' = [proc EXCEPT ![p] = [proc[p] EXCEPT !.id = i, !.phase = "await"]],
               /\ status' \in [Consumers -> {"none", "PENDING", "ACTIVE"}]
               /\ standing' \in [Identities -> {"none", "PENDING", "ACTIVE", "FAILED", "REVOKED"}]
               /\ owner' \in [Identities -> Consumers \cup {None}]
               /\ keyOf' \in [Identities -> Csrs \cup {None}],
               keyed' = keyed \/ keyed' = [keyed EXCEPT ![t] = i]
        PROVE  TypeOK' /\ GrantingInv' /\ Forward
    <2>1. PICK n : n = [r EXCEPT !.id = i, !.phase = "await"]
      OBVIOUS
    <2>2. /\ n \in Invocation /\ n.phase = "await" /\ n.kind = "redeem" /\ n.id = i
          /\ n.consumer = c /\ n.token = t
      BY <1>2, <1>3, <1>4, <2>1 DEF Invocation, Phases
    <2>3. proc' = [proc EXCEPT ![p] = n]
      BY <1>1, <1>5, <2>1
    <2>4. keyed' \in [Tokens -> Identities \cup {None}]
      BY <1>5 DEF TypeOK
    <2>5. TypeOK'
      BY <1>2, <1>5, <2>2, <2>3, <2>4 DEF TypeOK
    <2>6. GrantsBelong' /\ TokensBelong'
      <3>1. \A u \in Tokens : keyed'[u] # None =>
                \/ keyed'[u] = keyed[u]
                \/ token'[u] # NoToken /\ Enrolled(keyed[u], token[u].grant)'
        BY <1>2, <1>4, <1>5 DEF TypeOK
      <3> QED
        BY <1>2, <1>5, <2>5, <3>1, RecordsKept
    <2>7. Knows(n)'
      BY <1>2, <1>4, <1>5, <2>2 DEF Knows, Redeeming
    <2>8. Exact(n)'
      BY <2>2 DEF Exact
    <2>9. \A q \in Processes \ {p} : proc[q].kind = "issue" => token'[proc[q].token] = NoToken
      BY <1>2 DEF GrantingInv, IssuesAreNew
    <2>10. InvocationsKnow' /\ IssuesAreNew' /\ ReadersOfTheLiving'
      BY <1>2, <1>5, <2>2, <2>3, <2>7, <2>8, <2>9, OneMoves
    <2> QED
      BY <1>5, <2>5, <2>6, <2>10 DEF GrantingInv
  <1>6. CASE Ended(p) /\ UNCHANGED <<registryVars, keyed>>
    BY <1>2, <1>6, EndsKeep DEF tableVars
  <1>7. ASSUME NEW i \in Identities, Enrolled(i, c), UNCHANGED registryVars,
               proc' = [proc EXCEPT ![p] = [proc[p] EXCEPT !.id = i, !.phase = "await"]],
               keyed' = keyed \/ keyed' = [keyed EXCEPT ![t] = i]
        PROVE  TypeOK' /\ GrantingInv' /\ Forward
    <2>1. Forward
      BY <1>2, <1>7 DEF Forward, registryVars
    <2>2. Enrolled(i, c)'
      BY <1>7 DEF Enrolled, registryVars
    <2> QED
      BY <1>5, <1>7, <2>1, <2>2 DEF registryVars, TypeOK
  <1>8. CASE keyed[t] # None /\ ~Ended(p) /\ UNCHANGED <<registryVars, keyed>>
    <2>1. PICK i \in Identities : i = keyed[t]
      BY <1>8 DEF TypeOK
    <2>2. Enrolled(i, c)
      BY <1>4, <1>8, <2>1 DEF GrantingInv, TokensBelong
    <2>3. proc' = [proc EXCEPT ![p] = [proc[p] EXCEPT !.id = i, !.phase = "await"]]
      BY <1>1, <1>4, <1>8, <2>1 DEF Enroll
    <2> QED
      BY <1>7, <1>8, <2>2, <2>3
  <1>9. ASSUME NEW i \in Identities, owner[i] = c, standing[i] = "PENDING",
               proc' = [proc EXCEPT ![p] = [proc[p] EXCEPT !.id = i, !.phase = "await"]],
               keyed' = [keyed EXCEPT ![t] = i], UNCHANGED registryVars
        PROVE  TypeOK' /\ GrantingInv' /\ Forward
    <2>1. Enrolled(i, c)
      BY <1>9 DEF Enrolled
    <2> QED
      BY <1>7, <1>9, <2>1
  <1>10. ASSUME NEW i \in Identities, Registry!Register(i, c, r.csr),
                proc' = [proc EXCEPT ![p] = [proc[p] EXCEPT !.id = i, !.phase = "await"]],
                keyed' = [keyed EXCEPT ![t] = i]
         PROVE  TypeOK' /\ GrantingInv' /\ Forward
    <2>1. PICK q \in Csrs \cup {None} : q = r.csr
      BY DEF Invocation
    <2>2. /\ status' \in [Consumers -> {"none", "PENDING", "ACTIVE"}]
          /\ standing' \in [Identities -> {"none", "PENDING", "ACTIVE", "FAILED", "REVOKED"}]
          /\ owner' \in [Identities -> Consumers \cup {None}]
          /\ keyOf' \in [Identities -> Csrs \cup {None}]
          /\ \A j \in Identities :
                /\ standing[j] # "none" => standing'[j] # "none" /\ owner'[j] = owner[j]
                /\ standing[j] \in {"ACTIVE", "REVOKED"} => standing'[j] \in {"ACTIVE", "REVOKED"}
      BY <1>10, <2>1, RegistryMoves
    <2>3. Forward
      BY <1>2, <2>2 DEF Forward
    <2>4. Enrolled(i, c)'
      BY <1>10 DEF Enrolled, Registry!Register, Registry!Issue, TypeOK
    <2> QED
      BY <1>5, <1>10, <2>2, <2>3, <2>4
  <1> DEFINE Await(i) == proc' = [proc EXCEPT ![p] = [proc[p] EXCEPT !.id = i, !.phase = "await"]]
  <1>11. \/ keyed[t] # None /\ UNCHANGED <<registryVars, keyed>>
         \/ Ended(p) /\ UNCHANGED <<registryVars, keyed>>
         \/ \E i \in Identities : /\ owner[i] = c /\ standing[i] = "PENDING" /\ Await(i)
                                   /\ keyed' = [keyed EXCEPT ![t] = i] /\ UNCHANGED registryVars
         \/ \E i \in Identities : /\ Registry!Register(i, c, r.csr) /\ Await(i)
                                   /\ keyed' = [keyed EXCEPT ![t] = i]
    <2>1. CASE keyed[t] # None
      BY <1>1, <1>4, <2>1 DEF Enroll
    <2>2. CASE keyed[t] = None
      <3>1. proc[p].token = t /\ proc[p].consumer = c /\ proc[p].csr = r.csr
        BY <1>1, <1>3, <1>4
      <3>2. \/ /\ \E i \in {j \in Identities : owner[j] = c /\ standing[j] = "PENDING"} :
                     IF keyOf[i] = r.csr
                     THEN Await(i) /\ keyed' = [keyed EXCEPT ![t] = i]
                     ELSE Ended(p) /\ UNCHANGED keyed
               /\ UNCHANGED registryVars
            \/ \E i \in Fresh : /\ Registry!Register(i, c, r.csr)
                                /\ keyed' = [keyed EXCEPT ![t] = i] /\ Await(i)
        <4> HIDE DEF Await
        <4>1. \A i : Await(i) <=> proc' = [proc EXCEPT ![p].id = i, ![p].phase = "await"]
          BY DEF Await
        <4> QED
          BY <2>2, <3>1, <4>1, ZenonT(30) DEF Enroll
      <3>3. Fresh \subseteq Identities
        BY DEF Fresh
      <3> HIDE DEF Await
      <3>4. CASE \E i \in Fresh : /\ Registry!Register(i, c, r.csr)
                                  /\ keyed' = [keyed EXCEPT ![t] = i] /\ Await(i)
        BY <3>3, <3>4
      <3>5. CASE /\ \E i \in {j \in Identities : owner[j] = c /\ standing[j] = "PENDING"} :
                        IF keyOf[i] = r.csr
                        THEN Await(i) /\ keyed' = [keyed EXCEPT ![t] = i]
                        ELSE Ended(p) /\ UNCHANGED keyed
                 /\ UNCHANGED registryVars
        BY <3>5
      <3> QED
        BY <3>2, <3>4, <3>5
    <2> QED
      BY ZenonT(60), <2>1, <2>2
  <1> QED
    BY <1>6, <1>8, <1>9, <1>10, <1>11

LEMMA ProvisionKeeps ==
    ASSUME TypeOK, GrantingInv, NEW p \in Processes, Provision(p)
    PROVE  TypeOK' /\ GrantingInv' /\ Forward
  <1>1. PICK r \in Invocation : r = proc[p]
    BY DEF TypeOK
  <1>2. /\ Knows(r) /\ r.phase = "provision" /\ r.kind = "redeem"
        /\ UNCHANGED <<registryVars, tableVars, requests>>
    BY <1>1 DEF GrantingInv, InvocationsKnow, Provision, At, Knows, Redeeming
  <1>3. PICK c \in Consumers : c = r.consumer
    BY <1>2 DEF Knows
  <1>4. PICK i \in Identities : i = r.id /\ Issued(i, c)
    BY <1>2, <1>3 DEF Knows, Issued
  <1>5. PICK m \in iot[i] .. Provisioned :
            /\ iot' = [iot EXCEPT ![i] = m]
            /\ IF m = Provisioned THEN Move(p, "list") ELSE Ended(p)
    BY <1>1, <1>4 DEF Provision
  <1>6. PICK n : n = IF m = Provisioned THEN [r EXCEPT !.phase = "list"] ELSE Idle
    OBVIOUS
  <1>7. /\ n \in Invocation /\ n.kind # "issue" /\ proc' = [proc EXCEPT ![p] = n]
        /\ m = Provisioned => /\ n.phase = "list" /\ n.kind = "redeem" /\ n.id = i
                              /\ n.consumer = c /\ n.token = r.token
    BY <1>1, <1>2, <1>3, <1>4, <1>5, <1>6, Blank DEF Move, Ended, Invocation, Phases
  <1>8. iot' \in [Identities -> 0 .. Provisioned] /\ \A j \in Identities : iot'[j] >= iot[j]
    BY <1>5 DEF TypeOK, Provisioned
  <1>9. TypeOK'
    BY <1>2, <1>7, <1>8 DEF TypeOK, registryVars, tableVars
  <1>10. Forward
    <2>1. \A j \in Identities : iot[j] = Provisioned => iot'[j] = Provisioned
      BY <1>8 DEF TypeOK, Provisioned
    <2> QED
      BY <1>2, <2>1 DEF Forward, registryVars, tableVars
  <1>11. GrantsBelong' /\ TokensBelong'
    <2>1. grant' = grant /\ token' = token /\ keyed' = keyed
      BY <1>2 DEF tableVars
    <2> QED
      BY <1>9, <1>10, <2>1, RecordsKept
  <1>12. Knows(n)' /\ Exact(n)'
    <2>1. CASE m = Provisioned
      <3>1. Issued(i, c)' /\ iot'[i] = Provisioned
        BY <1>4, <1>5, <1>10, <2>1, ForwardKeeps DEF TypeOK
      <3>2. token' = token
        BY <1>2 DEF tableVars
      <3> QED
        BY <1>2, <1>3, <1>7, <2>1, <3>1, <3>2 DEF Knows, Exact, Redeeming, Usable
    <2>2. CASE m # Provisioned
      <3>1. n = Idle
        BY <1>6, <2>2
      <3> QED
        BY <1>7, <1>10, <3>1, Blank, NothingKnown, KnowsForward DEF Exact
    <2> QED
      BY <2>1, <2>2
  <1>13. \A q \in Processes \ {p} : proc[q].kind = "issue" => token'[proc[q].token] = NoToken
    BY <1>2 DEF GrantingInv, IssuesAreNew, tableVars
  <1>14. InvocationsKnow' /\ IssuesAreNew' /\ ReadersOfTheLiving'
    <2>1. acl' = acl /\ live' = live
      BY <1>2 DEF tableVars
    <2> QED
      BY <1>7, <1>10, <1>12, <1>13, <2>1, OneMoves
  <1> QED
    BY <1>9, <1>10, <1>11, <1>14 DEF GrantingInv

LEMMA ActivateKeeps ==
    ASSUME TypeOK, GrantingInv, NEW p \in Processes, Activate(p)
    PROVE  TypeOK' /\ GrantingInv' /\ Forward
  <1>1. PICK r \in Invocation : r = proc[p]
    BY DEF TypeOK
  <1>2. /\ Knows(r) /\ r.phase = "activate" /\ r.kind = "redeem"
        /\ UNCHANGED <<registryVars, token, keyed, acl, live, reused, iot, requests>>
    BY <1>1 DEF GrantingInv, InvocationsKnow, Activate, At, Knows, Redeeming
  <1>3. PICK c \in Consumers : c = r.consumer
    BY <1>2 DEF Knows
  <1>4. PICK i \in Identities : i = r.id /\ Usable(i, c)
    BY <1>2, <1>3 DEF Knows, Usable, Issued
  <1>5. PICK n : n = [r EXCEPT !.phase = IF r.capability = "PENDING" THEN "consume" ELSE "answered"]
    OBVIOUS
  <1>6. /\ n \in Invocation /\ n.kind = "redeem" /\ n.id = i /\ n.consumer = c
        /\ n.token = r.token /\ n.phase \in {"consume", "answered"}
        /\ proc' = [proc EXCEPT ![p] = n]
    BY <1>1, <1>2, <1>3, <1>4, <1>5 DEF Activate, Move, Answered, Invocation, Phases
  <1>7. /\ grant' \in [Consumers -> {NoGrant} \cup GrantRecord]
        /\ \A d \in Consumers \ {c} : grant'[d] = grant[d]
        /\ grant'[c].status = "ACTIVE" /\ grant'[c].activated = i
        /\ grant[c].status = "ACTIVE" => grant[c].activated = i
    <2>1. CASE grant[c].status = "PENDING"
      <3>1. grant[c] \in GrantRecord
        BY <2>1, Typed
      <3>2. PICK g : g = [grant[c] EXCEPT !.status = "ACTIVE", !.activated = i]
        OBVIOUS
      <3>3. g \in GrantRecord /\ g.status = "ACTIVE" /\ g.activated = i
        BY <3>1, <3>2 DEF GrantRecord
      <3>4. grant' = [grant EXCEPT ![c] = g]
        BY <1>1, <1>3, <1>4, <2>1, <3>2 DEF Activate
      <3> QED
        BY <2>1, <3>3, <3>4 DEF TypeOK
    <2>2. CASE grant[c].status = "ACTIVE" /\ grant[c].activated = i /\ UNCHANGED grant
      BY <2>2 DEF TypeOK
    <2> QED
      BY <1>1, <1>3, <1>4, <2>1, <2>2 DEF Activate
  <1>8. TypeOK'
    BY <1>2, <1>6, <1>7 DEF TypeOK, registryVars
  <1>9. Forward
    <2>1. \A d \in Consumers :
             /\ grant[d] # NoGrant => grant'[d] # NoGrant
             /\ grant[d].status = "ACTIVE" =>
                   grant'[d].status = "ACTIVE" /\ grant'[d].activated = grant[d].activated
      BY <1>7, Blank
    <2> QED
      BY <1>2, <2>1 DEF Forward, registryVars
  <1>10. GrantsBelong' /\ TokensBelong'
    <2>1. Usable(i, c)'
      BY <1>4, <1>9, ForwardKeeps
    <2>2. \A d \in Consumers : grant'[d].status = "ACTIVE" =>
              grant[d].status = "ACTIVE" \/ Usable(grant[d].activated, d)'
      BY <1>7, <2>1
    <2> QED
      BY <1>2, <1>8, <1>9, <2>2, RecordsKept
  <1>11. Knows(n)' /\ Exact(n)'
    <2>1. Holds(i, c)'
      BY <1>7 DEF Holds
    <2> QED
      BY <1>2, <1>3, <1>6, <2>1 DEF Knows, Exact, Redeeming
  <1>12. \A q \in Processes \ {p} : proc[q].kind = "issue" => token'[proc[q].token] = NoToken
    BY <1>2 DEF GrantingInv, IssuesAreNew
  <1>13. InvocationsKnow' /\ IssuesAreNew' /\ ReadersOfTheLiving'
    BY <1>2, <1>6, <1>9, <1>11, <1>12, OneMoves
  <1> QED
    BY <1>8, <1>9, <1>10, <1>13 DEF GrantingInv

LEMMA ConsumeKeeps ==
    ASSUME TypeOK, GrantingInv, NEW p \in Processes, Consume(p)
    PROVE  TypeOK' /\ GrantingInv' /\ Forward
  <1>1. PICK r \in Invocation : r = proc[p]
    BY DEF TypeOK
  <1>2. /\ Knows(r) /\ r.phase = "consume" /\ r.kind = "redeem"
        /\ UNCHANGED <<registryVars, grant, keyed, acl, live, reused, iot, requests>>
    BY <1>1 DEF GrantingInv, InvocationsKnow, Consume, At, Knows, Redeeming
  <1>3. PICK c \in Consumers : c = r.consumer
    BY <1>2 DEF Knows
  <1>4. PICK t \in Tokens : t = r.token /\ token[t] # NoToken /\ token[t].grant = c
    BY <1>2, <1>3 DEF Knows
  <1>5. PICK i \in Identities : i = r.id /\ Holds(i, c)
    BY <1>2, <1>3 DEF Knows, Holds
  <1>6. CASE Ended(p) /\ UNCHANGED token
    BY <1>2, <1>6, EndsKeep DEF tableVars
  <1>7. CASE Answered(p)
    <2>1. PICK n : n = [r EXCEPT !.phase = "answered"]
      OBVIOUS
    <2>2. /\ n \in Invocation /\ n.kind = "redeem" /\ n.id = i /\ n.consumer = c
          /\ n.token = t /\ n.phase = "answered" /\ proc' = [proc EXCEPT ![p] = n]
      BY <1>1, <1>2, <1>3, <1>4, <1>5, <1>7, <2>1 DEF Answered, Invocation, Phases
    <2>3. /\ token' \in [Tokens -> {NoToken} \cup TokenRecord]
          /\ \A u \in Tokens \ {t} : token'[u] = token[u]
          /\ \/ token'[t] = token[t]
             \/ /\ token[t].status = "PENDING" /\ token'[t] # NoToken
                /\ token'[t].grant = c /\ token'[t].consumed = i
      <3>1. CASE token[t].status = "PENDING"
        <4>1. token[t] \in TokenRecord
          BY <3>1, Typed
        <4>2. PICK k : k = [token[t] EXCEPT !.status = "CONSUMED", !.consumed = i]
          OBVIOUS
        <4>3. k \in TokenRecord /\ k.status = "CONSUMED" /\ k.consumed = i /\ k.grant = c
          BY <1>4, <4>1, <4>2 DEF TokenRecord
        <4>4. token' = [token EXCEPT ![t] = k]
          BY <1>1, <1>4, <1>5, <3>1, <4>2 DEF Consume
        <4> QED
          BY <3>1, <4>3, <4>4, Blank DEF TypeOK
      <3>2. CASE token' = token
        BY <3>2 DEF TypeOK
      <3> QED
        BY <1>1, <1>4, <3>1, <3>2 DEF Consume
    <2>4. TypeOK'
      BY <1>2, <2>2, <2>3 DEF TypeOK, registryVars
    <2>5. Forward
      <3>1. \A u \in Tokens :
               /\ token[u] # NoToken => token'[u] # NoToken /\ token'[u].grant = token[u].grant
               /\ token[u].status = "CONSUMED" => token'[u] = token[u]
        BY <1>4, <2>3
      <3> QED
        BY <1>2, <3>1 DEF Forward, registryVars
    <2>6. Holds(i, c)'
      BY <1>5, <2>5, ForwardKeeps
    <2>7. GrantsBelong' /\ TokensBelong'
      <3>1. \A u \in Tokens : token'[u].status = "CONSUMED" =>
                token'[u] = token[u] \/ Holds(token[u].consumed, token[u].grant)'
        BY <2>3, <2>6
      <3> QED
        BY <1>2, <2>4, <2>5, <3>1, RecordsKept
    <2>8. Knows(n)' /\ Exact(n)'
      BY <1>3, <1>4, <2>2, <2>3, <2>6 DEF Knows, Exact, Redeeming
    <2>9. \A q \in Processes \ {p} : proc[q].kind = "issue" => token'[proc[q].token] = NoToken
      BY <1>4, <2>3 DEF GrantingInv, IssuesAreNew
    <2>10. InvocationsKnow' /\ IssuesAreNew' /\ ReadersOfTheLiving'
      BY <1>2, <2>2, <2>5, <2>8, <2>9, OneMoves
    <2> QED
      BY <2>4, <2>5, <2>7, <2>10 DEF GrantingInv
  <1> QED
    BY <1>6, <1>7 DEF Consume

LEMMA WriteKeeps ==
    ASSUME TypeOK, GrantingInv, NEW p \in Processes, WriteGrant(p)
    PROVE  TypeOK' /\ GrantingInv' /\ Forward
  <1>1. PICK r \in Invocation : r = proc[p]
    BY DEF TypeOK
  <1>2. /\ Knows(r) /\ r.phase = "write" /\ r.kind = "update"
        /\ UNCHANGED <<registryVars, token, keyed, acl, live, reused, iot, requests>>
    BY <1>1 DEF GrantingInv, InvocationsKnow, WriteGrant, At, Knows
  <1>3. PICK c \in Consumers : c = r.consumer
    BY <1>2 DEF Knows
  <1>4. grant[c] \in GrantRecord
    BY <1>2, <1>3, Typed DEF Knows
  <1>5. PICK g : g = [grant[c] EXCEPT !.reads = r.reads]
    OBVIOUS
  <1>6. /\ g \in GrantRecord /\ g.status = grant[c].status /\ g.activated = grant[c].activated
        /\ g # NoGrant
    BY <1>4, <1>5, Blank DEF GrantRecord, Invocation
  <1>7. grant' = [grant EXCEPT ![c] = g] /\ proc' = [proc EXCEPT ![p] = Idle]
    BY <1>1, <1>3, <1>5 DEF WriteGrant, Ended
  <1>8. TypeOK'
    BY <1>2, <1>6, <1>7, Blank DEF TypeOK, registryVars
  <1>9. grant'[c] = g /\ \A d \in Consumers \ {c} : grant'[d] = grant[d]
    BY <1>7 DEF TypeOK
  <1>10. Forward
    BY <1>2, <1>6, <1>9 DEF Forward, registryVars
  <1>11. GrantsBelong' /\ TokensBelong'
    <2>1. \A d \in Consumers : grant'[d].status = "ACTIVE" => grant[d].status = "ACTIVE"
      BY <1>6, <1>9
    <2> QED
      BY <1>2, <1>8, <1>10, <2>1, RecordsKept
  <1>12. Knows(Idle)' /\ Exact(Idle)'
    BY <1>10, Blank, NothingKnown, KnowsForward DEF Exact
  <1>13. \A q \in Processes \ {p} : proc[q].kind = "issue" => token'[proc[q].token] = NoToken
    BY <1>2 DEF GrantingInv, IssuesAreNew
  <1>14. InvocationsKnow' /\ IssuesAreNew' /\ ReadersOfTheLiving'
    BY <1>2, <1>7, <1>10, <1>12, <1>13, Blank, OneMoves
  <1> QED
    BY <1>8, <1>10, <1>11, <1>14 DEF GrantingInv

\* Nobody moves, and the records of grants and ACLs stay.
LEMMA NobodyMoves ==
    ASSUME TypeOK, TypeOK', GrantingInv, Forward, UNCHANGED <<grant, keyed, acl, live, proc>>,
           \A t \in Tokens : token[t] = NoToken => token'[t] = NoToken,
           \A t \in Tokens : token'[t].status = "CONSUMED" => token'[t] = token[t]
    PROVE  GrantingInv'
  <1>1. GrantsBelong' /\ TokensBelong'
    BY RecordsKept
  <1>2. ASSUME NEW q \in Processes PROVE Knows(proc[q])' /\ Exact(proc[q])'
    <2>1. PICK r \in Invocation : r = proc[q]
      BY DEF TypeOK
    <2>2. Knows(r) /\ Exact(r) /\ proc'[q] = r
      BY <2>1 DEF GrantingInv, InvocationsKnow
    <2>3. Knows(r)' /\ Exact(r)'
      BY <2>2, KnowsForward DEF Exact
    <2> QED
      BY <2>2, <2>3
  <1>3. IssuesAreNew' /\ ReadersOfTheLiving'
    BY DEF GrantingInv, IssuesAreNew, ReadersOfTheLiving
  <1> QED
    BY <1>1, <1>2, <1>3 DEF GrantingInv, InvocationsKnow

LEMMA OutsideKeeps ==
    ASSUME TypeOK, GrantingInv,
           RegistryStep \/ (\E s \in Secrets : ReuseName(s)) \/ (\E t \in Tokens : Expire(t))
    PROVE  TypeOK' /\ GrantingInv' /\ Forward
  <1>1. CASE RegistryStep
    <2>1. PICK i \in Identities, c \in Consumers \cup {None}, q \in Csrs \cup {None} :
             \/ Registry!Register(i, c, q) \/ Registry!Rotate(i, c, q)
             \/ Registry!Activate(i, c) \/ Registry!Reject(i, c) \/ Registry!Revoke(i)
      <3>1. Fresh \subseteq Identities
        BY DEF Fresh
      <3> QED
        BY <1>1, <3>1, Zenon DEF RegistryStep
    <2>2. UNCHANGED <<tableVars, iot, proc, requests>>
      BY <1>1 DEF RegistryStep
    <2>3. TypeOK'
      BY <2>1, <2>2, RegistryMoves DEF TypeOK, tableVars
    <2>4. Forward
      BY <2>1, <2>2, RegistryMoves DEF Forward, tableVars
    <2> QED
      BY <2>2, <2>3, <2>4, NobodyMoves DEF tableVars
  <1>2. CASE \E s \in Secrets : ReuseName(s)
    <2>1. /\ reused' \subseteq Secrets \ live
          /\ UNCHANGED <<registryVars, grant, token, keyed, acl, live, iot, proc, requests>>
      BY <1>2 DEF ReuseName, TypeOK
    <2>2. TypeOK' /\ Forward
      BY <2>1 DEF TypeOK, Forward, registryVars
    <2> QED
      BY <2>1, <2>2, NobodyMoves
  <1>3. ASSUME NEW t \in Tokens, Expire(t) PROVE TypeOK' /\ GrantingInv' /\ Forward
    <2>1. token[t] \in TokenRecord /\ token[t].status = "PENDING"
      BY <1>3, Typed DEF Expire
    <2>2. PICK k : k = [token[t] EXCEPT !.expired = TRUE]
      OBVIOUS
    <2>3. k \in TokenRecord /\ k.status = "PENDING" /\ k.grant = token[t].grant /\ k # NoToken
      BY <2>1, <2>2, Blank DEF TokenRecord
    <2>4. /\ token' = [token EXCEPT ![t] = k]
          /\ UNCHANGED <<registryVars, grant, keyed, acl, live, reused, iot, proc, requests>>
      BY <1>3, <2>2 DEF Expire
    <2>5. TypeOK'
      BY <2>3, <2>4 DEF TypeOK, registryVars
    <2>6. token'[t] = k /\ \A u \in Tokens \ {t} : token'[u] = token[u]
      BY <2>4 DEF TypeOK
    <2>7. Forward
      BY <2>1, <2>3, <2>4, <2>6 DEF Forward, registryVars
    <2>8. \A u \in Tokens : /\ token[u] = NoToken => token'[u] = NoToken
                            /\ token'[u].status = "CONSUMED" => token'[u] = token[u]
      BY <2>1, <2>3, <2>6, Blank
    <2> QED
      BY <2>4, <2>5, <2>7, <2>8, NobodyMoves
  <1> QED
    BY <1>1, <1>2, <1>3

-----------------------------------------------------------------------------
(* Reconciliation *)

LEMMA ListKeeps ==
    ASSUME TypeOK, GrantingInv, NEW p \in Processes, ListAccess(p) \/ Reconciled(p)
    PROVE  TypeOK' /\ GrantingInv' /\ Forward
  <1>1. PICK r \in Invocation : r = proc[p]
    BY DEF TypeOK
  <1>2. /\ Knows(r) /\ Exact(r) /\ r.phase \in {"list", "reconcile"}
        /\ UNCHANGED <<registryVars, tableVars, iot, requests>>
        /\ requests' \in 0 .. MaxRequests
    BY <1>1 DEF GrantingInv, InvocationsKnow, ListAccess, Reconciled, At, TypeOK
  <1>3. PICK c \in Consumers : c = r.consumer
    BY <1>2 DEF Knows
  <1>4. acl[c] \subseteq Secrets /\ acl[c] \subseteq live /\ r.reads \subseteq Secrets
    BY DEF TypeOK, GrantingInv, ReadersOfTheLiving, Invocation
  <1>5. CASE ListAccess(p)
    <2>1. PICK n : n = [r EXCEPT !.revoke = acl[c] \ r.reads, !.add = r.reads \ acl[c],
                                 !.alone = TRUE, !.phase = "reconcile"]
      OBVIOUS
    <2>2. /\ n \in Invocation /\ n.phase = "reconcile" /\ n.kind = r.kind /\ n.id = r.id
          /\ n.consumer = c /\ n.token = r.token /\ n.reads = r.reads
          /\ n.revoke = acl[c] \ r.reads /\ n.add = r.reads \ acl[c]
          /\ r.phase = "list" /\ proc' = [proc EXCEPT ![p] = n]
      <3>1. PICK R \in SUBSET Secrets, A \in SUBSET Secrets :
               R = acl[c] \ r.reads /\ A = r.reads \ acl[c]
        BY <1>4
      <3>2. n = [r EXCEPT !.revoke = R, !.add = A, !.alone = TRUE, !.phase = "reconcile"]
        BY <2>1, <3>1
      <3>3. /\ n \in Invocation /\ n.phase = "reconcile" /\ n.kind = r.kind /\ n.id = r.id
            /\ n.consumer = c /\ n.token = r.token /\ n.reads = r.reads
            /\ n.revoke = R /\ n.add = A
        BY <1>3, <3>2 DEF Invocation, Phases
      <3>4. r.phase = "list" /\ proc' = [proc EXCEPT ![p] = n]
        BY <1>1, <1>3, <1>5, <2>1 DEF ListAccess, At
      <3> QED
        BY <3>1, <3>3, <3>4
    <2>3. Knows(n) /\ n.kind # "issue"
      BY <1>2, <1>3, <2>2 DEF Knows, Redeeming
    <2>4. Exact(n)
      BY <2>2 DEF Exact
    <2> QED
      BY <1>2, <2>2, <2>3, <2>4, OnlyOneMoves
  <1>6. CASE Reconciled(p)
    <2>1. PICK n : n = [r EXCEPT !.phase = CASE r.kind = "redeem" -> "activate"
                                             [] r.kind = "update" -> "write"
                                             [] OTHER -> "answered"]
      OBVIOUS
    <2>2. /\ n.phase = CASE r.kind = "redeem" -> "activate"
                         [] r.kind = "update" -> "write"
                         [] OTHER -> "answered"
          /\ n \in Invocation /\ n.kind = r.kind /\ n.id = r.id
          /\ n.consumer = c /\ n.token = r.token /\ n.reads = r.reads /\ n.alone = r.alone
          /\ r.phase = "reconcile" /\ r.revoke = {} /\ r.add = {}
          /\ proc' = [proc EXCEPT ![p] = n]
      BY <1>1, <1>3, <1>6, <2>1 DEF Reconciled, Move, At, Invocation, Phases
    <2>3. Knows(n) /\ n.kind # "issue"
      BY <1>2, <1>3, <2>2 DEF Knows, Redeeming
    <2>4. r.alone => acl[c] = r.reads \cap live
      BY <1>2, <1>3, <1>4, <2>2 DEF Exact
    <2>5. Exact(n)
      BY <2>2, <2>4 DEF Exact
    <2> QED
      BY <1>2, <2>2, <2>3, <2>5, OnlyOneMoves
  <1> QED
    BY <1>5, <1>6

\* One invocation changes the ACL of its consumer; those it disturbs are not alone.
LEMMA AclMoves ==
    ASSUME TypeOK, GrantingInv, NEW p \in Processes, NEW n \in Invocation, NEW c \in Consumers,
           NEW new \in SUBSET live, ChangeAcl(p, c, new, n),
           UNCHANGED <<registryVars, grant, token, keyed, live, reused, iot, requests>>,
           Knows(n), n.kind # "issue", Exact(n)'
    PROVE  TypeOK' /\ GrantingInv' /\ Forward
  <1>1. /\ acl' = [acl EXCEPT ![c] = new]
        /\ proc' = [r \in Processes |->
              IF r = p THEN n
              ELSE IF proc[r].consumer = c THEN [proc[r] EXCEPT !.alone = FALSE] ELSE proc[r]]
    BY DEF ChangeAcl
  <1>2. ASSUME NEW q \in Processes \ {p}
        PROVE  /\ proc'[q] \in Invocation
               /\ proc'[q] = proc[q] \/ proc'[q] = [proc[q] EXCEPT !.alone = FALSE]
               /\ proc[q].consumer = c => proc'[q] = [proc[q] EXCEPT !.alone = FALSE]
    <2>1. proc[q] \in Invocation
      BY DEF TypeOK
    <2>2. [proc[q] EXCEPT !.alone = FALSE] \in Invocation
      BY <2>1 DEF Invocation
    <2> QED
      BY <1>1, <2>1, <2>2
  <1>3. proc'[p] = n
    BY <1>1
  <1>4. TypeOK'
    <2>1. proc' \in [Processes -> Invocation]
      BY <1>1, <1>2, <1>3
    <2>2. acl' \in [Consumers -> SUBSET Secrets]
      BY <1>1 DEF TypeOK
    <2> QED
      BY <2>1, <2>2 DEF TypeOK, registryVars
  <1>5. Forward
    BY DEF Forward, registryVars
  <1>6. GrantsBelong' /\ TokensBelong'
    BY <1>4, <1>5, RecordsKept
  <1>7. ASSUME NEW q \in Processes \ {p}
        PROVE  /\ Knows(proc[q])' /\ Exact(proc[q])'
               /\ proc'[q].kind = proc[q].kind /\ proc'[q].token = proc[q].token
    <2>1. PICK r \in Invocation : r = proc[q]
      BY DEF TypeOK
    <2>2. PICK m \in Invocation : m = proc'[q]
      BY <1>2
    <2>3. Knows(r) /\ Exact(r)
      BY <2>1 DEF GrantingInv, InvocationsKnow
    <2>4. m = r \/ m = [r EXCEPT !.alone = FALSE]
      BY <1>2, <2>1, <2>2
    <2>5. /\ m.phase = r.phase /\ m.kind = r.kind /\ m.consumer = r.consumer
          /\ m.token = r.token /\ m.id = r.id /\ m.reads = r.reads /\ m.status = r.status
          /\ m.revoke = r.revoke /\ m.add = r.add
      BY <2>4 DEF Invocation
    <2>6. Knows(m)
      BY <2>3, <2>5 DEF Knows
    <2>7. Knows(m)'
      BY <1>5, <2>6, KnowsForward
    <2>8. Exact(m)'
      <3>1. CASE r.consumer = c
        <4>1. ~m.alone
          BY <1>2, <2>1, <2>2, <3>1, ZenonT(60) DEF Invocation
        <4> QED
          BY <4>1 DEF Exact
      <3>2. CASE r.consumer # c
        <4>1. m = r
          BY <1>1, <2>1, <2>2, <3>2
        <4>2. r.kind # "none" => acl'[r.consumer] = acl[r.consumer]
          BY <1>1, <2>3, <3>2 DEF Knows, TypeOK
        <4>3. r.kind = "none" => r.phase = "idle"
          BY <2>3 DEF Knows
        <4> QED
          BY <2>3, <4>1, <4>2, <4>3 DEF Exact
      <3> QED
        BY <3>1, <3>2
    <2> QED
      BY <2>1, <2>2, <2>5, <2>7, <2>8
  <1>8. InvocationsKnow'
    <2>1. Knows(n)'
      BY <1>5, KnowsForward
    <2> QED
      BY <1>3, <1>7, <2>1 DEF InvocationsKnow
  <1>9. IssuesAreNew'
    BY <1>3, <1>7 DEF GrantingInv, IssuesAreNew
  <1>10. ReadersOfTheLiving'
    BY <1>1 DEF GrantingInv, ReadersOfTheLiving, TypeOK
  <1> QED
    BY <1>4, <1>5, <1>6, <1>8, <1>9, <1>10 DEF GrantingInv

LEMMA ReconcileKeeps ==
    ASSUME TypeOK, GrantingInv, NEW p \in Processes, NEW s \in Secrets,
           RevokeAccess(p, s) \/ AddAccess(p, s)
    PROVE  TypeOK' /\ GrantingInv' /\ Forward
  <1>1. PICK r \in Invocation : r = proc[p]
    BY DEF TypeOK
  <1>2. /\ Knows(r) /\ Exact(r) /\ r.phase = "reconcile"
        /\ UNCHANGED <<registryVars, grant, token, keyed, live, reused, iot, requests>>
        /\ requests' \in 0 .. MaxRequests
    BY <1>1 DEF GrantingInv, InvocationsKnow, RevokeAccess, AddAccess, At, TypeOK
  <1>3. PICK c \in Consumers : c = r.consumer
    BY <1>2 DEF Knows
  <1>4. /\ acl[c] \subseteq live /\ acl[c] \subseteq Secrets /\ live \subseteq Secrets
        /\ reused \cap live = {}
    BY DEF TypeOK, GrantingInv, ReadersOfTheLiving
  <1>5. CASE Ended(p) /\ UNCHANGED acl
    BY <1>2, <1>5, EndsKeep DEF tableVars
  <1>6. ASSUME NEW n \in Invocation, n.phase = r.phase, n.kind = r.kind, n.id = r.id,
               n.consumer = r.consumer, n.token = r.token
        PROVE  Knows(n) /\ n.kind # "issue"
    BY <1>2, <1>6 DEF Knows
  <1>7. CASE RevokeAccess(p, s) /\ s \in live /\ s \in acl[c]
    <2>1. PICK n : n = [r EXCEPT !.revoke = r.revoke \ {s}]
      OBVIOUS
    <2>2. /\ n \in Invocation /\ n.phase = r.phase /\ n.kind = r.kind /\ n.id = r.id
          /\ n.consumer = r.consumer /\ n.token = r.token /\ n.reads = r.reads
          /\ n.alone = r.alone /\ n.add = r.add /\ n.revoke = r.revoke \ {s}
      BY <2>1 DEF Invocation
    <2>3. ChangeAcl(p, c, acl[c] \ {s}, n) /\ s \in r.revoke
      BY <1>1, <1>3, <1>7, <2>1 DEF RevokeAccess
    <2>4. acl'[c] = acl[c] \ {s} /\ live' = live
      BY <1>2, <2>3 DEF ChangeAcl, TypeOK
    <2>5. Exact(n)'
      BY <1>2, <1>3, <2>2, <2>3, <2>4 DEF Exact
    <2> QED
      BY <1>2, <1>4, <1>6, <2>2, <2>3, <2>5, AclMoves
  <1>8. CASE AddAccess(p, s)
    <2>1. PICK n : n = [r EXCEPT !.add = r.add \ {s}]
      OBVIOUS
    <2>2. /\ n \in Invocation /\ n.phase = r.phase /\ n.kind = r.kind /\ n.id = r.id
          /\ n.consumer = r.consumer /\ n.token = r.token /\ n.reads = r.reads
          /\ n.alone = r.alone /\ n.add = r.add \ {s} /\ n.revoke = r.revoke
      BY <2>1 DEF Invocation
    <2>3. s \in r.add /\ r.revoke = {}
      BY <1>1, <1>8 DEF AddAccess
    <2>4. CASE s \in reused \/ (s \in live /\ s \in acl[c])
      <3>1. proc' = [proc EXCEPT ![p] = n] /\ UNCHANGED acl
        BY <1>1, <1>3, <1>8, <2>1, <2>4 DEF AddAccess
      <3>2. Exact(n)
        BY <1>2, <1>3, <1>4, <2>2, <2>4 DEF Exact
      <3> QED
        BY <1>2, <1>6, <2>2, <3>1, <3>2, OnlyOneMoves DEF tableVars
    <2>5. CASE ~(s \in reused \/ (s \in live /\ s \in acl[c])) /\ s \in live /\ status[c] = "ACTIVE"
      <3>1. ChangeAcl(p, c, acl[c] \cup {s}, n)
        BY <1>1, <1>3, <1>8, <2>1, <2>5 DEF AddAccess
      <3>2. acl'[c] = acl[c] \cup {s} /\ live' = live
        BY <1>2, <3>1 DEF ChangeAcl, TypeOK
      <3>3. Exact(n)'
        BY <1>2, <1>3, <2>2, <2>3, <3>2 DEF Exact
      <3> QED
        BY <1>2, <1>4, <1>6, <2>2, <2>5, <3>1, <3>3, AclMoves
    <2> QED
      BY <1>1, <1>3, <1>5, <1>8, <2>4, <2>5 DEF AddAccess
  <1> QED
    BY <1>1, <1>3, <1>5, <1>7, <1>8 DEF RevokeAccess

LEMMA ArchiveKeeps ==
    ASSUME TypeOK, GrantingInv, NEW s \in Secrets, Archive(s)
    PROVE  TypeOK' /\ GrantingInv' /\ Forward
  <1>1. /\ live' = live \ {s} /\ acl' = [c \in Consumers |-> acl[c] \ {s}]
        /\ proc' = [p \in Processes |-> [proc[p] EXCEPT !.alone = FALSE]]
        /\ UNCHANGED <<registryVars, grant, token, keyed, reused, iot, requests>>
    BY DEF Archive
  <1>2. ASSUME NEW q \in Processes
        PROVE  proc'[q] = [proc[q] EXCEPT !.alone = FALSE] /\ proc'[q] \in Invocation
    <2>1. PICK r \in Invocation : r = proc[q]
      BY DEF TypeOK
    <2>2. [r EXCEPT !.alone = FALSE] \in Invocation
      BY DEF Invocation
    <2> QED
      BY <1>1, <2>1, <2>2
  <1>3. TypeOK'
    <2>1. proc' \in [Processes -> Invocation]
      BY <1>1, <1>2
    <2> QED
      BY <1>1, <2>1 DEF TypeOK, registryVars
  <1>4. Forward
    BY <1>1 DEF Forward, registryVars
  <1>5. GrantsBelong' /\ TokensBelong'
    BY <1>1, <1>3, <1>4, RecordsKept
  <1>6. ASSUME NEW q \in Processes
        PROVE  /\ Knows(proc[q])' /\ Exact(proc[q])'
               /\ proc'[q].kind = proc[q].kind /\ proc'[q].token = proc[q].token
    <2>1. PICK r \in Invocation : r = proc[q]
      BY DEF TypeOK
    <2>2. PICK m \in Invocation : m = proc'[q]
      BY <1>2
    <2>3. Knows(r)
      BY <2>1 DEF GrantingInv, InvocationsKnow
    <2>4. m = [r EXCEPT !.alone = FALSE]
      BY <1>2, <2>1, <2>2
    <2>5. /\ m.phase = r.phase /\ m.kind = r.kind /\ m.consumer = r.consumer
          /\ m.token = r.token /\ m.id = r.id /\ ~m.alone
      BY <2>4 DEF Invocation
    <2>6. Knows(m)
      BY <2>3, <2>5 DEF Knows
    <2>7. Knows(m)'
      BY <1>4, <2>6, KnowsForward
    <2>8. Exact(m)'
      BY <2>5 DEF Exact
    <2> QED
      BY <2>1, <2>2, <2>5, <2>7, <2>8
  <1>7. IssuesAreNew'
    <2>1. \A q \in Processes : proc'[q].kind = proc[q].kind /\ proc'[q].token = proc[q].token
      BY <1>6
    <2>2. token' = token
      BY <1>1
    <2> QED
      BY <2>1, <2>2 DEF GrantingInv, IssuesAreNew
  <1>8. ReadersOfTheLiving'
    BY <1>1 DEF GrantingInv, ReadersOfTheLiving
  <1> QED
    BY <1>3, <1>4, <1>5, <1>6, <1>7, <1>8 DEF GrantingInv, InvocationsKnow

-----------------------------------------------------------------------------
(* What follows *)

LEMMA GrantsInit == Init => TypeOK /\ GrantingInv
  <1> SUFFICES ASSUME Init PROVE TypeOK /\ GrantingInv
    OBVIOUS
  <1>1. TypeOK
    BY Blank, BoundAssumption DEF Init, TypeOK, Registry!Init, Provisioned
  <1>2. GrantsBelong /\ TokensBelong
    BY Blank DEF Init, GrantsBelong, TokensBelong
  <1>3. InvocationsKnow /\ IssuesAreNew
    BY Blank, NothingKnown DEF Init, InvocationsKnow, IssuesAreNew
  <1>4. ReadersOfTheLiving
    BY DEF Init, ReadersOfTheLiving
  <1> QED
    BY <1>1, <1>2, <1>3, <1>4 DEF GrantingInv

LEMMA GrantsStep ==
    ASSUME TypeOK, GrantingInv, [Next]_vars PROVE TypeOK' /\ GrantingInv' /\ Forward
  <1>1. ASSUME NEW p \in Processes, Advance(p) PROVE TypeOK' /\ GrantingInv' /\ Forward
    BY <1>1, CreateGrantKeeps, CreateCapabilityKeeps, ReadKeeps, EnrollKeeps, ProvisionKeeps,
       ActivateKeeps, ConsumeKeeps, ListKeeps, WriteKeeps, ReconcileKeeps DEF Advance
  <1>2. ASSUME NEW p \in Processes, Stop(p) PROVE TypeOK' /\ GrantingInv' /\ Forward
    BY <1>2, ReadKeeps
  <1>3. CASE UNCHANGED vars
    <2>1. TypeOK' /\ Forward
      BY <1>3 DEF vars, registryVars, tableVars, TypeOK, Forward
    <2> QED
      BY <1>3, <2>1, NobodyMoves DEF vars, registryVars, tableVars
  <1>4. CASE RegistryStep \/ (\E s \in Secrets : ReuseName(s)) \/ (\E t \in Tokens : Expire(t))
    BY <1>4, OutsideKeeps
  <1>5. CASE \E s \in Secrets : Archive(s)
    BY <1>5, ArchiveKeeps
  <1>6. ASSUME NEW p \in Processes,
               \/ \E c \in Consumers :
                     \/ \E reads \in SUBSET Secrets :
                           BeginCreate(p, c, reads) \/ BeginUpdate(p, c, reads)
                     \/ \E t \in Tokens : BeginIssue(p, c, t)
                     \/ BeginScript(p, c)
               \/ \E t \in Tokens, q \in Csrs : BeginRedeem(p, t, q)
        PROVE  TypeOK' /\ GrantingInv' /\ Forward
    BY <1>6, BeginKeeps
  <1> QED
    BY <1>1, <1>2, <1>3, <1>4, <1>5, <1>6 DEF Next

LEMMA GrantingIsKept == Spec => [](TypeOK /\ GrantingInv)
  <1>1. TypeOK /\ GrantingInv /\ [Next]_vars => (TypeOK /\ GrantingInv)'
    BY GrantsStep
  <1> QED
    BY <1>1, GrantsInit, PTL DEF Spec

\* However many capabilities, retries and keys race for a grant, it belongs to one
\* certificate and no other one is told that it does, and grants, capabilities,
\* certificates and invocations keep their types.
THEOREM OneIdentityForEachGrant == Spec => []GrantsInv
  <1>1. TypeOK /\ GrantingInv => GrantsInv
    <2> SUFFICES ASSUME TypeOK, GrantingInv PROVE OneIdentityPerGrant
      BY DEF GrantsInv
    <2> QED
      BY DEF GrantingInv, InvocationsKnow, TokensBelong, Knows, Holds, At, OneIdentityPerGrant
  <1> QED
    BY <1>1, GrantingIsKept, PTL

\* A reconciliation nobody disturbed leaves the consumer with exactly the readable
\* secrets of its policy, whatever an earlier one that stopped half way had left.
THEOREM QuietReconciliationsAreExact == Spec => []QuietReconcileIsExact
  <1>1. GrantingInv => QuietReconcileIsExact
    BY DEF GrantingInv, InvocationsKnow, Exact, At, QuietReconcileIsExact
  <1> QED
    BY <1>1, GrantingIsKept, PTL

\* A grant is active only when its agent's certificate was issued for its consumer and
\* is fully provisioned.
THEOREM ActiveGrantsWereProvisioned == Spec => []ActiveGrantsAreProvisioned
  <1>1. GrantingInv => ActiveGrantsAreProvisioned
    BY DEF GrantingInv, GrantsBelong, Usable, Issued, ActiveGrantsAreProvisioned
  <1> QED
    BY <1>1, GrantingIsKept, PTL

\* An activation is final: neither policy updates, nor late redemptions, nor expiry take
\* a grant or a capability back, or give either to another certificate.
THEOREM ActivationsStand == Spec => ActivationsAreFinal
  <1> DEFINE Final ==
        /\ \A c \in Consumers : grant[c].status = "ACTIVE" =>
              grant'[c].status = "ACTIVE" /\ grant'[c].activated = grant[c].activated
        /\ \A t \in Tokens : token[t].status = "CONSUMED" => token'[t] = token[t]
  <1>1. TypeOK /\ GrantingInv /\ [Next]_vars => [Final]_vars
    BY GrantsStep DEF Forward
  <1> QED
    BY <1>1, GrantingIsKept, PTL DEF Spec, ActivationsAreFinal
=============================================================================
