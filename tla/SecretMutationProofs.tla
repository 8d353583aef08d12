------------------------ MODULE SecretMutationProofs ------------------------
(***************************************************************************)
(* Proofs about SecretMutation, for any number of requests, names and      *)
(* consumers, any interleaving of them and every failure of theirs and of  *)
(* recovery; the second half shows that it implements SecretRegistry.      *)
(***************************************************************************)
EXTENDS SecretMutation, TLAPS

LEMMA ChooseKeyType ==
    ASSUME NEW o \in Ops, key \in [Ops -> OpOrNone], ChooseKey(o)
    PROVE  /\ key' \in [Ops -> OpOrNone]
           /\ key'[o] \in Ops
           /\ \A p \in Ops \ {o} : key'[p] = key[p]
  BY DEF ChooseKey, OpOrNone

LEMMA NextRevisionType ==
    ASSUME NEW o \in Ops, local \in [Ops -> Locals], NEW c \in ControlRevision
    PROVE  NextRevision(o, c) \in ControlRevision
  BY DEF NextRevision, ControlRevision, Locals, OpOrNone, SecretStates, PayloadRequests

LEMMA NoHeadFields ==
    /\ NoHead.status = "ABSENT" /\ NoHead.name = None /\ NoHead.control = None
    /\ NoHead.payload = None /\ NoHead.state = "PENDING_VALUE"
    /\ NoHead.catalog = "live" /\ NoHead.lease = None
  BY DEF NoHead

\* A head that exists has the fields of its record.
LEMMA HeadFields ==
    ASSUME NEW h \in HeadRecord, h.status # "ABSENT" \/ h.lease # None \/ h.control # None
    PROVE  /\ h \in [status : {"PREPARED", "READY"}, name : Names, control : Ops,
                     payload : OpOrNone, state : SecretStates,
                     catalog : {"live", "archived"}, lease : OpOrNone]
           /\ h.status \in {"PREPARED", "READY"} /\ h.name \in Names /\ h.control \in Ops
           /\ h.payload \in OpOrNone
  BY NoHeadFields DEF HeadRecord

LEMMA TypeInit == Init => TypeOK
  <1> SUFFICES ASSUME Init PROVE TypeOK
    OBVIOUS
  <1>1. TableTypeOK
    BY DEF Init, TableTypeOK, HeadRecord, OpOrNone, NoRows, Rows
  <1>2. BucketTypeOK
    BY DEF Init, BucketTypeOK
  <1>3. NoRevision \in ControlRevision
    BY DEF NoRevision, ControlRevision, SecretStates, OpOrNone
  <1>4. NoLocals \in Locals
    BY DEF NoLocals, Locals, Requests, OpOrNone, NoRows, Rows
  <1>5. RequestTypeOK
    BY <1>3, <1>4 DEF Init, RequestTypeOK, PCs, OpOrNone
  <1>6. ASSUME NEW o \in Ops PROVE RequestIsAddressed(o)
    BY DEF Init, RequestIsAddressed, InFlight, Preparing, Persisting
  <1>7. recovery \in RecoveryRecord
    BY DEF Init, RecoveryRecord, NoPass, RecoveryPhases, OpOrNone
  <1> QED
    BY <1>1, <1>2, <1>5, <1>6, <1>7 DEF TypeOK

-----------------------------------------------------------------------------
(* Every step keeps the types. *)

LEMMA TypeBegin ==
    ASSUME TypeOK, NEW o \in Ops, Begin(o) PROVE TypeOK'
  <1> USE DEF TypeOK
  <1>1. NoLocals \in Locals /\ NoRevision \in ControlRevision
    BY SMTT(60) DEF NoLocals, NoRevision, Locals, ControlRevision, Requests, OpOrNone, NoRows,
           Rows, SecretStates
  <1>2. /\ pc[o] = "idle" /\ pc'[o] \in InFlight /\ pc' \in [Ops -> PCs]
        /\ \A p \in Ops \ {o} : pc'[p] = pc[p]
    BY ZenonT(60) DEF Begin, BeginCreate, BeginByName, BeginByAgent, RequestTypeOK, PCs,
           InFlight, Preparing
  <1>3. /\ key' \in [Ops -> OpOrNone] /\ key'[o] \in Ops
        /\ \A p \in Ops \ {o} : key'[p] = key[p]
    BY ChooseKeyType DEF Begin, BeginCreate, BeginByName, BeginByAgent, RequestTypeOK
  <1>4. CASE \E n \in Names, acl \in SUBSET Consumers : BeginCreate(o, n, acl)
    <2> PICK n \in Names, acl \in SUBSET Consumers : BeginCreate(o, n, acl)
      BY <1>4
    <2>1. RequestTypeOK'
      BY <1>1, <1>2, <1>3
         DEF BeginCreate, RequestTypeOK, NoRevision, ControlRevision, NoLocals, Locals,
             OpOrNone, SecretStates, Requests
    <2>2. ASSUME NEW p \in Ops PROVE RequestIsAddressed(p)'
      BY <1>2, <1>3 DEF BeginCreate, RequestIsAddressed, RequestTypeOK, NoLocals, InFlight,
                        Preparing
    <2> QED
      BY <2>1, <2>2 DEF BeginCreate, TableTypeOK, tableVars, bucketVars, BucketTypeOK
  <1>5. ASSUME NEW request \in {"acl", "payload", "archive"}, NEW n \in Names,
               NEW acl \in SUBSET Consumers, BeginByName(o, request, n, acl)
        PROVE  TypeOK'
    <2>1. lookup[n] \in Ops /\ head[lookup[n]].control \in Ops
      BY <1>5, HeadFields DEF BeginByName, TableTypeOK, OpOrNone
    <2>2. RequestTypeOK'
      BY <1>1, <1>2, <1>3, <1>5, <2>1
         DEF BeginByName, RequestTypeOK, NoLocals, Locals, OpOrNone, Requests
    <2>3. ASSUME NEW p \in Ops PROVE RequestIsAddressed(p)'
      BY <1>2, <1>3, <1>5, <2>1
         DEF BeginByName, RequestIsAddressed, RequestTypeOK, NoLocals, InFlight, Preparing
    <2> QED
      BY <1>5, <2>2, <2>3 DEF BeginByName, TableTypeOK, tableVars, bucketVars, BucketTypeOK
  <1>6. ASSUME NEW request \in AgentRequests, NEW u \in Ops, BeginByAgent(o, request, u)
        PROVE  TypeOK'
    <2>1. head[u].name \in Names /\ head[u].control \in Ops
      BY <1>6, HeadFields DEF BeginByAgent, TableTypeOK
    <2>2. RequestTypeOK'
      BY <1>1, <1>2, <1>3, <1>6, <2>1
         DEF BeginByAgent, RequestTypeOK, NoLocals, Locals, OpOrNone, Requests, AgentRequests
    <2>3. ASSUME NEW p \in Ops PROVE RequestIsAddressed(p)'
      BY <1>2, <1>3, <1>6, <2>1
         DEF BeginByAgent, RequestIsAddressed, RequestTypeOK, NoLocals, InFlight, Preparing
    <2> QED
      BY <1>6, <2>2, <2>3 DEF BeginByAgent, TableTypeOK, tableVars, bucketVars, BucketTypeOK
  <1> QED
    BY <1>4, <1>5, <1>6 DEF Begin

LEMMA TypePrepare ==
    ASSUME TypeOK, NEW o \in Ops, ResolveName(o) \/ ReadHead(o) \/ ReadAccess(o) \/ Prepare(o)
    PROVE  TypeOK'
  <1> USE DEF TypeOK
  <1>1. CASE ResolveName(o)
    <2>1. lookup[local[o].name] \in Ops
      BY <1>1 DEF ResolveName, TableTypeOK, OpOrNone, RequestIsAddressed, InFlight, Preparing
    <2>2. RequestTypeOK'
      BY <1>1, <2>1 DEF ResolveName, RequestTypeOK, OpOrNone, PCs, InFlight, Preparing
    <2>3. ASSUME NEW p \in Ops PROVE RequestIsAddressed(p)'
      BY <1>1, <2>1 DEF ResolveName, RequestIsAddressed, RequestTypeOK, InFlight, Preparing,
                        Persisting
    <2> QED
      BY <1>1, <2>2, <2>3 DEF ResolveName, TableTypeOK, tableVars, bucketVars, BucketTypeOK
  <1>2. CASE ReadHead(o)
    <2> DEFINE h == head[target[o]]
    <2>1. target[o] \in Ops /\ h \in HeadRecord /\ h.control \in Ops /\ h.payload \in OpOrNone
      BY <1>2, HeadFields DEF ReadHead, TableTypeOK, RequestIsAddressed, InFlight, Preparing
    <2>2. NextRevision(o, revision[h.control]) \in ControlRevision
      BY <2>1, NextRevisionType DEF RequestTypeOK
    <2>3. local' \in [Ops -> Locals]
      <3>1. [local[o] EXCEPT !.control = h.control, !.payload = h.payload] \in Locals
        BY <2>1, ZenonT(60) DEF RequestTypeOK, Locals, OpOrNone
      <3> QED
        BY <1>2, <3>1 DEF ReadHead, RequestTypeOK
    <2>4. RequestTypeOK'
      BY <1>2, <2>2, <2>3 DEF ReadHead, RequestTypeOK, PCs, InFlight, Preparing
    <2>5. ASSUME NEW p \in Ops PROVE RequestIsAddressed(p)'
      BY <1>2 DEF ReadHead, RequestIsAddressed, RequestTypeOK, Locals, InFlight, Preparing,
                  Persisting
    <2> QED
      BY <1>2, <2>4, <2>5 DEF ReadHead, TableTypeOK, tableVars, bucketVars, BucketTypeOK
  <1>3. CASE ReadAccess(o)
    <2>1. local' \in [Ops -> Locals]
      <3> DEFINE u == lookup[local[o].name]
                 seen == [c \in Consumers |->
                             IF u # None /\ c \in revision[local[o].control].acl
                             THEN access[u][c] ELSE "none"]
      <3>1. u \in OpOrNone
        BY <1>3 DEF ReadAccess, TableTypeOK, RequestIsAddressed, InFlight, Preparing
      <3>2. seen \in [Consumers -> Rows]
        BY <3>1 DEF TableTypeOK, OpOrNone, Rows
      <3>3. local' = [local EXCEPT ![o].seen = seen]
        BY <1>3 DEF ReadAccess
      <3> HIDE DEF seen
      <3> QED
        BY <3>2, <3>3, ZenonT(60) DEF RequestTypeOK, Locals
    <2>2. RequestTypeOK'
      BY <1>3, <2>1 DEF ReadAccess, RequestTypeOK, PCs, InFlight, Preparing
    <2>3. ASSUME NEW p \in Ops PROVE RequestIsAddressed(p)'
      BY <1>3 DEF ReadAccess, RequestIsAddressed, RequestTypeOK, Locals, InFlight, Preparing,
                  Persisting
    <2> QED
      BY <1>3, <2>2, <2>3 DEF ReadAccess, TableTypeOK, tableVars, bucketVars, BucketTypeOK
  <1>4. CASE Prepare(o)
    <2>1. target[o] \in Ops /\ key[o] \in Ops /\ local[o].name \in Names
      BY <1>4 DEF Prepare, RequestIsAddressed, InFlight, Preparing
    <2>2. head' \in [Ops -> HeadRecord] /\ lookup' \in [Names -> OpOrNone]
      <3>1. CASE PrepareCreate(o)
        <4>1. [NoHead EXCEPT !.status = "PREPARED", !.name = local[o].name,
                             !.control = o, !.lease = o] \in HeadRecord
          BY <2>1 DEF HeadRecord, NoHead, OpOrNone, SecretStates
        <4> QED
          BY <2>1, <3>1, <4>1 DEF PrepareCreate, TableTypeOK, OpOrNone
      <3>2. CASE PrepareUpdate(o)
        <4>1. head[target[o]].control \in Ops
          BY <1>4, <3>2 DEF Prepare, PrepareUpdate, RequestIsAddressed, InFlight, Preparing
        <4>2. head[target[o]] \in [status : {"PREPARED", "READY"}, name : Names, control : Ops,
                     payload : OpOrNone, state : SecretStates,
                     catalog : {"live", "archived"}, lease : OpOrNone]
          BY <2>1, <4>1, HeadFields, NoneAssumption DEF TableTypeOK
        <4> QED
          BY <2>1, <3>2, <4>2 DEF PrepareUpdate, TableTypeOK, HeadRecord, OpOrNone
      <3> QED
        BY <1>4, <3>1, <3>2 DEF Prepare
    <2>3. TableTypeOK'
      BY <1>4, <2>1, <2>2 DEF Prepare, TableTypeOK, Revisions, OpOrNone
    <2>4. RequestTypeOK'
      BY <1>4 DEF Prepare, RequestTypeOK, PCs, InFlight, Persisting
    <2>5. ASSUME NEW p \in Ops PROVE RequestIsAddressed(p)'
      BY <1>4 DEF Prepare, RequestIsAddressed, RequestTypeOK, InFlight, Preparing, Persisting
    <2> QED
      BY <1>4, <2>3, <2>4, <2>5 DEF Prepare, bucketVars, BucketTypeOK
  <1> QED
    BY <1>1, <1>2, <1>3, <1>4

LEMMA TypePersist ==
    ASSUME TypeOK, NEW o \in Ops, PutControl(o) \/ PutPayload(o) \/ Extend(o) \/ Complete(o)
    PROVE  TypeOK'
  <1> USE DEF TypeOK
  <1>1. CASE PutControl(o) \/ PutPayload(o) \/ Extend(o)
    <2>1. /\ target' = target /\ key' = key /\ local' = local /\ revision' = revision
          /\ pc' \in [Ops -> PCs] /\ pc[o] \in Persisting /\ pc'[o] \in Persisting
          /\ \A p \in Ops \ {o} : pc'[p] = pc[p]
      BY <1>1 DEF PutControl, PutPayload, Extend, RequestTypeOK, PCs, InFlight, Persisting
    <2>2. ASSUME NEW p \in Ops PROVE RequestIsAddressed(p)'
      BY <2>1 DEF RequestIsAddressed, InFlight, Persisting
    <2>3. BucketTypeOK'
      BY <1>1 DEF PutControl, PutPayload, Extend, Superseded, BucketTypeOK, Revisions, Kinds
    <2>4. TableTypeOK' /\ recovery' \in RecoveryRecord
      BY <1>1 DEF PutControl, PutPayload, Extend, tableVars, TableTypeOK
    <2> QED
      BY <2>1, <2>2, <2>3, <2>4 DEF RequestTypeOK
  <1>2. CASE Complete(o)
    <2> DEFINE u == target[o]
    <2>1. u \in Ops /\ local[o] \in Locals /\ local[o].name \in Names
      BY <1>2 DEF Complete, RequestIsAddressed, RequestTypeOK, InFlight, Persisting
    <2>2. head' \in [Ops -> HeadRecord]
      <3>1. head[u] \in [status : {"PREPARED", "READY"}, name : Names, control : Ops,
                     payload : OpOrNone, state : SecretStates,
                     catalog : {"live", "archived"}, lease : OpOrNone]
        BY <1>2, <2>1, HeadFields, NoneAssumption DEF Complete, CommitConditions, TableTypeOK
      <3>2. revision[o].state \in SecretStates /\ local[o].payload \in OpOrNone
        BY <2>1 DEF RequestTypeOK, ControlRevision, Locals
      <3>3. CommittedHead(o) \in HeadRecord
        BY <2>1, <3>1, <3>2, ZenonT(60) DEF CommittedHead, HeadRecord, OpOrNone
      <3> QED
        BY <1>2, <3>3 DEF Complete, TableTypeOK
    <2>3. lookup' \in [Names -> OpOrNone]
      BY <1>2 DEF Complete, ReleaseName, TableTypeOK, OpOrNone
    <2>4. access' \in [Ops -> [Consumers -> Rows]]
      <3>1. AccessItems(o) \in [Consumers -> Rows]
        BY <2>1 DEF AccessItems, TableTypeOK, Rows
      <3> QED
        BY <1>2, <3>1 DEF Complete, TableTypeOK
    <2>5. workflow' \in [Revisions -> {"none", "PREPARED", "RETRYABLE", "READY", "DELETED"}]
      BY <1>2 DEF Complete, TableTypeOK
    <2>6. retention' \in [Revisions -> {"none", "scheduled", "due"}]
      BY <1>2 DEF Complete, TableTypeOK
    <2>7. TableTypeOK'
      BY <1>2, <2>2, <2>3, <2>4, <2>5, <2>6 DEF Complete, TableTypeOK
    <2>8. RequestTypeOK'
      BY <1>2 DEF Complete, RequestTypeOK, PCs, InFlight
    <2>9. ASSUME NEW p \in Ops PROVE RequestIsAddressed(p)'
      BY <1>2 DEF Complete, RequestIsAddressed, RequestTypeOK, InFlight, Persisting
    <2> QED
      BY <1>2, <2>7, <2>8, <2>9 DEF Complete, bucketVars, BucketTypeOK
  <1> QED
    BY <1>1, <1>2

LEMMA TypeEnd ==
    ASSUME TypeOK, NEW o \in Ops, RecordSuccess(o) \/ Abandon(o) \/ Expire(o)
    PROVE  TypeOK'
  <1> USE DEF TypeOK
  <1>1. NoLocals \in Locals /\ NoRevision \in ControlRevision
    BY DEF NoLocals, NoRevision, Locals, ControlRevision, Requests, OpOrNone, NoRows,
           Rows, SecretStates
  <1>2. CASE RecordSuccess(o)
    <2>1. RequestTypeOK'
      BY <1>1, <1>2 DEF RecordSuccess, RequestTypeOK, PCs
    <2>2. ASSUME NEW p \in Ops PROVE RequestIsAddressed(p)'
      BY <1>2 DEF RecordSuccess, RequestIsAddressed, RequestTypeOK, InFlight, Preparing,
                  Persisting
    <2>3. BucketTypeOK'
      BY <1>2 DEF RecordSuccess, BucketTypeOK
    <2> QED
      BY <1>2, <2>1, <2>2, <2>3 DEF RecordSuccess, tableVars, TableTypeOK
  <1>3. CASE Abandon(o)
    <2>1. RequestTypeOK'
      BY <1>1, <1>3 DEF Abandon, RequestTypeOK, PCs, OpOrNone
    <2>2. ASSUME NEW p \in Ops PROVE RequestIsAddressed(p)'
      BY <1>3 DEF Abandon, RequestIsAddressed, RequestTypeOK, InFlight, Preparing, Persisting
    <2> QED
      BY <1>3, <2>1, <2>2 DEF Abandon, tableVars, bucketVars, TableTypeOK, BucketTypeOK
  <1>4. CASE Expire(o)
    BY <1>4 DEF Expire, TableTypeOK, bucketVars, BucketTypeOK, requestVars, RequestTypeOK,
                RequestIsAddressed
  <1> QED
    BY <1>2, <1>3, <1>4

LEMMA TypeRecovery ==
    ASSUME TypeOK, RecoveryStep \/ RecoveryStop PROVE TypeOK'
  <1> USE DEF TypeOK
  <1>1. /\ pc' = pc /\ target' = target /\ key' = key /\ revision' = revision
        /\ local' = local /\ objects' = objects /\ locked' = locked
    BY DEF RecoveryStep, RecoveryStop, RecoveryList, RecoveryFinish, RecoveryTake,
           RecoveryMark, RecoveryReadHead, RecoveryAbort, RecoveryRelease, RecoveryAudit,
           bucketVars, requestVars
  <1>2. RequestTypeOK' /\ \A p \in Ops : RequestIsAddressed(p)'
    BY <1>1 DEF RequestTypeOK, RequestIsAddressed
  <1>3. recovery' \in RecoveryRecord /\ BucketTypeOK'
    <2> USE DEF RecoveryRecord, RecoveryPhases, OpOrNone
    <2>0. NoPass \in RecoveryRecord
      BY DEF NoPass
    <2>1. CASE RecoveryList
      BY <2>0, <2>1 DEF RecoveryList, NoPass, Overdue, TableTypeOK, bucketVars, BucketTypeOK
    <2>2. CASE RecoveryFinish \/ RecoveryStop
      BY <2>0, <2>2 DEF RecoveryFinish, RecoveryStop, bucketVars, BucketTypeOK
    <2>3. ASSUME NEW o \in Ops, RecoveryTake(o)
          PROVE  recovery' \in RecoveryRecord /\ BucketTypeOK'
      BY <2>3 DEF RecoveryTake, bucketVars, BucketTypeOK
    <2>4. ASSUME NEW o \in Ops, RecoveryReadHead(o) \/ RecoveryRelease(o)
          PROVE  recovery' \in RecoveryRecord /\ BucketTypeOK'
      BY <2>4 DEF RecoveryReadHead, RecoveryRelease, bucketVars, BucketTypeOK
    <2>7. ASSUME NEW o \in Ops, NEW k \in Kinds, RecoveryMark(o, k)
          PROVE  recovery' \in RecoveryRecord /\ BucketTypeOK'
      BY <2>7 DEF RecoveryMark, bucketVars, BucketTypeOK
    <2>5. ASSUME NEW o \in Ops, RecoveryAbort(o)
          PROVE  recovery' \in RecoveryRecord /\ BucketTypeOK'
      BY <2>0, <2>5 DEF RecoveryAbort, bucketVars, BucketTypeOK
    <2>6. ASSUME NEW o \in Ops, RecoveryAudit(o)
          PROVE  recovery' \in RecoveryRecord /\ BucketTypeOK'
      BY <2>6 DEF RecoveryAudit, BucketTypeOK
    <2> QED
      BY <2>1, <2>2, <2>3, <2>4, <2>5, <2>6, <2>7 DEF RecoveryStep
  <1>4. TableTypeOK'
    <2>1. ASSUME NEW o \in Ops, NEW k \in Kinds, RecoveryMark(o, k) PROVE TableTypeOK'
      BY <2>1 DEF RecoveryMark, TableTypeOK, Revisions
    <2>2. ASSUME NEW o \in Ops, RecoveryAbort(o) PROVE TableTypeOK'
      BY <2>2 DEF RecoveryAbort, TableTypeOK, HeadRecord, OpOrNone
    <2>3. ASSUME NEW o \in Ops, RecoveryRelease(o) PROVE TableTypeOK'
      <3>1. CASE target[o] \in Ops /\ head[target[o]].lease = o
        <4>1. head[target[o]] \in [status : {"PREPARED", "READY"}, name : Names, control : Ops,
                     payload : OpOrNone, state : SecretStates,
                     catalog : {"live", "archived"}, lease : OpOrNone]
          BY <3>1, HeadFields, NoneAssumption DEF TableTypeOK
        <4>2. [head[target[o]] EXCEPT !.lease = None] \in HeadRecord
          BY <4>1 DEF HeadRecord, OpOrNone
        <4> QED
          BY <2>3, <3>1, <4>2 DEF RecoveryRelease, TableTypeOK
      <3>2. CASE ~(target[o] \in Ops /\ head[target[o]].lease = o)
        BY <2>3, <3>2 DEF RecoveryRelease, TableTypeOK
      <3> QED
        BY <3>1, <3>2
    <2> QED
      BY <2>1, <2>2, <2>3
         DEF RecoveryStep, RecoveryStop, RecoveryList, RecoveryFinish, RecoveryTake,
             RecoveryReadHead, RecoveryAudit, tableVars, TableTypeOK
  <1> QED
    BY <1>2, <1>3, <1>4

\* Types, and the addressing of requests: no request goes on with a key, a name,
\* a secret or an expected revision missing.
THEOREM TypeCorrectness == Spec => []TypeOK
  <1>1. Init => TypeOK
    BY TypeInit
  <1>2. TypeOK /\ [Next]_vars => TypeOK'
    <2> SUFFICES ASSUME TypeOK, [Next]_vars PROVE TypeOK'
      OBVIOUS
    <2>1. CASE \E o \in Ops : Mutate(o) \/ Expire(o)
      BY <2>1, TypeBegin, TypePrepare, TypePersist, TypeEnd DEF Mutate
    <2>2. CASE RecoveryStep \/ RecoveryStop
      BY <2>2, TypeRecovery
    <2>3. CASE UNCHANGED vars
      BY <2>3 DEF vars, tableVars, bucketVars, requestVars, TypeOK, TableTypeOK,
                  BucketTypeOK, RequestTypeOK, RequestIsAddressed
    <2> QED
      BY <2>1, <2>2, <2>3 DEF Next
  <1> QED
    BY <1>1, <1>2, PTL DEF Spec

-----------------------------------------------------------------------------
(* The lease protects the version a mutation was based on. *)

\* A lease belongs to an operation that went through prepareMutation.  While
\* that operation runs, the head it holds is the one it mutates and still has
\* the control version named by its If-Match: others may take the lease away,
\* but nobody can move the version under it.
LeaseInv(o) ==
    /\ pc[o] \in InFlight /\ local[o].request = "create"
          => pc[o] # "begun" /\ target[o] = o
    /\ \A u \in Ops : head[u].lease = o =>
          /\ pc[o] \notin {"idle"} \cup Preparing
          /\ pc[o] \in Persisting =>
                /\ target[o] = u
                /\ head[u].status = "READY" => local[o].ifMatch = head[u].control

LeasesInv == \A o \in Ops : LeaseInv(o)

LEMMA LeaseInit == Init => LeasesInv
  BY NoneAssumption, NoHeadFields
     DEF Init, LeasesInv, LeaseInv, InFlight, Preparing, Persisting

\* Steps that leave every head alone.
LEMMA LeaseLocal ==
    ASSUME TypeOK, LeasesInv, NEW o \in Ops,
           \/ Begin(o) \/ ResolveName(o) \/ ReadHead(o) \/ ReadAccess(o)
           \/ PutControl(o) \/ PutPayload(o) \/ Extend(o)
           \/ RecordSuccess(o) \/ Abandon(o) \/ Expire(o)
    PROVE  LeasesInv'
  <1> USE DEF TypeOK, RequestTypeOK
  <1>1. head' = head
    BY ZenonT(60) DEF Begin, BeginCreate, BeginByName, BeginByAgent, ResolveName,
           ReadHead, ReadAccess, PutControl, PutPayload, Extend, RecordSuccess, Abandon, Expire, tableVars
  <1>2. ASSUME NEW p \in Ops \ {o} PROVE LeaseInv(p)'
    <2>1. pc'[p] = pc[p] /\ target'[p] = target[p] /\ local'[p] = local[p]
      BY ZenonT(60) DEF Begin, BeginCreate, BeginByName, BeginByAgent, ResolveName,
             ReadHead, ReadAccess, PutControl, PutPayload, Extend, RecordSuccess, Abandon, Expire, requestVars
    <2> QED
      BY <1>1, <2>1 DEF LeasesInv, LeaseInv
  <1>3. LeaseInv(o)'
    <2>1. CASE Begin(o)
      <3>1. \A u \in Ops : head[u].lease # o
        BY <2>1, ZenonT(60) DEF Begin, BeginCreate, BeginByName, BeginByAgent, LeasesInv,
               LeaseInv
      <3>2. local'[o].request = "create" => pc'[o] # "begun" /\ target'[o] = o
        BY <2>1, ZenonT(60) DEF Begin, BeginCreate, BeginByName, BeginByAgent, NoLocals,
               AgentRequests
      <3> QED
        BY <1>1, <3>1, <3>2 DEF LeaseInv
    <2>2. CASE ResolveName(o) \/ ReadHead(o) \/ ReadAccess(o)
      <3>1. \A u \in Ops : head[u].lease # o
        BY <2>2 DEF ResolveName, ReadHead, ReadAccess, LeasesInv, LeaseInv, Preparing
      <3>2. local'[o].request = local[o].request
        <4>1. local[o] \in Locals
          OBVIOUS
        <4>2. CASE ResolveName(o)
          BY <4>2 DEF ResolveName
        <4>3. CASE ReadHead(o)
          <5>1. PICK c, p : local' = [local EXCEPT ![o] = [@ EXCEPT !.control = c, !.payload = p]]
            BY <4>3 DEF ReadHead
          <5> QED
            BY <4>1, <5>1 DEF Locals
        <4>4. CASE ReadAccess(o)
          <5>1. PICK rows : local' = [local EXCEPT ![o].seen = rows]
            BY <4>4 DEF ReadAccess
          <5> QED
            BY <4>1, <5>1 DEF Locals
        <4> QED
          BY <2>2, <4>2, <4>3, <4>4
      <3>3. /\ pc[o] \in InFlight /\ pc'[o] # "begun"
            /\ pc[o] # "begun" => target'[o] = target[o]
            /\ local'[o].request = "create" => pc[o] # "begun"
        BY <2>2, <3>2 DEF ResolveName, ReadHead, ReadAccess, LeasesInv, LeaseInv, InFlight,
                          Preparing
      <3> QED
        BY <1>1, <3>1, <3>2, <3>3 DEF LeasesInv, LeaseInv
    <2>3. CASE PutControl(o) \/ PutPayload(o) \/ Extend(o)
      <3>1. /\ pc[o] \in Persisting /\ pc'[o] \in Persisting
            /\ target' = target /\ local' = local
        BY <2>3 DEF PutControl, PutPayload, Extend, Persisting
      <3> QED
        BY <1>1, <3>1 DEF LeasesInv, LeaseInv, InFlight, Persisting, Preparing
    <2>4. CASE RecordSuccess(o) \/ Abandon(o)
      <3>1. pc'[o] \in {"done", "ended"}
        BY <2>4 DEF RecordSuccess, Abandon
      <3> QED
        BY <3>1 DEF LeaseInv, InFlight, Persisting, Preparing
    <2>5. CASE Expire(o)
      BY <1>1, <2>5 DEF Expire, requestVars, LeasesInv, LeaseInv
    <2> QED
      BY <2>1, <2>2, <2>3, <2>4, <2>5
  <1> QED
    BY <1>2, <1>3, SMTT(60) DEF LeasesInv

LEMMA LeasePrepare ==
    ASSUME TypeOK, LeasesInv, NEW o \in Ops, Prepare(o) PROVE LeasesInv'
  <1> USE DEF TypeOK, TableTypeOK, RequestTypeOK
  <1>1. /\ target' = target /\ local' = local /\ pc[o] = "ready" /\ pc'[o] = "prepared"
        /\ \A p \in Ops \ {o} : pc'[p] = pc[p]
    BY DEF Prepare
  <1>2. target[o] \in Ops /\ \A u \in Ops : head[u].lease # o
    BY <1>1 DEF RequestIsAddressed, InFlight, Preparing, LeasesInv, LeaseInv
  <1>3. CASE PrepareCreate(o)
    <2>1. target[o] = o
      BY <1>1, <1>3 DEF PrepareCreate, LeasesInv, LeaseInv, InFlight, Preparing
    <2>2. /\ head'[o].lease = o /\ head'[o].status = "PREPARED"
          /\ \A u \in Ops \ {o} : head'[u] = head[u]
      BY <1>3 DEF PrepareCreate, NoHead
    <2>3. ASSUME NEW p \in Ops PROVE LeaseInv(p)'
      BY SMTT(60), <1>1, <1>2, <2>1, <2>2, <2>3
         DEF LeasesInv, LeaseInv, InFlight, Preparing, Persisting
    <2> QED
      BY <2>3 DEF LeasesInv
  <1>4. CASE PrepareUpdate(o)
    <2>1. head[target[o]] # NoHead
      BY <1>1, <1>4, NoHeadFields, NoneAssumption
         DEF PrepareUpdate, RequestIsAddressed, InFlight, Preparing
    <2>2. /\ head'[target[o]].lease = o
          /\ head'[target[o]].status = head[target[o]].status
          /\ head'[target[o]].control = head[target[o]].control
          /\ head[target[o]].control = local[o].ifMatch
          /\ \A u \in Ops \ {target[o]} : head'[u] = head[u]
      BY <1>2, <1>4, <2>1 DEF PrepareUpdate, HeadRecord
    <2>3. pc'[o] = "prepared" /\ local'[o] = local[o] /\ target'[o] = target[o]
      BY <1>1
    <2>4. LeaseInv(o)'
      <3>1. ASSUME NEW u \in Ops, head'[u].lease = o PROVE u = target[o]
        BY <1>2, <2>2, <3>1
      <3> QED
        BY <1>1, <2>2, <2>3, <3>1
           DEF LeasesInv, LeaseInv, InFlight, Preparing, Persisting
    <2>5. ASSUME NEW p \in Ops \ {o} PROVE LeaseInv(p)'
      <3>1. pc'[p] = pc[p] /\ local'[p] = local[p] /\ target'[p] = target[p]
        BY <1>1
      <3>2. ASSUME NEW u \in Ops, head'[u].lease = p PROVE head'[u] = head[u]
        BY <2>2, <3>2
      <3> QED
        BY <3>1, <3>2 DEF LeasesInv, LeaseInv, InFlight
    <2> QED
      BY <2>4, <2>5 DEF LeasesInv
  <1> QED
    BY <1>3, <1>4 DEF Prepare

\* What the final transaction does to the heads.
LEMMA CompleteHeads ==
    ASSUME TypeOK, LeasesInv, NEW o \in Ops, Complete(o)
    PROVE  /\ target[o] \in Ops
           /\ head[target[o]].lease = o
           /\ head'[target[o]].lease = None
           /\ head'[target[o]].control = o
           /\ head'[target[o]].status = "READY"
           /\ \A u \in Ops \ {target[o]} : head'[u] = head[u] /\ head[u].lease # o
  <1> USE DEF TypeOK, TableTypeOK
  <1>1. target[o] \in Ops /\ head[target[o]].lease = o /\ pc[o] = "extended"
    BY DEF Complete, CommitConditions, RequestIsAddressed, InFlight, Persisting
  <1>2. head[target[o]] \in [status : {"PREPARED", "READY"}, name : Names, control : Ops,
                     payload : OpOrNone, state : SecretStates,
                     catalog : {"live", "archived"}, lease : OpOrNone]
    BY <1>1, HeadFields, NoneAssumption
  <1>3. head' = [head EXCEPT ![target[o]] = CommittedHead(o)]
    BY DEF Complete
  <1>4. /\ CommittedHead(o).lease = None /\ CommittedHead(o).control = o
        /\ CommittedHead(o).status = "READY"
    BY <1>2 DEF CommittedHead
  <1>5. \A u \in Ops \ {target[o]} : head[u].lease # o
    BY <1>1 DEF LeasesInv, LeaseInv, Persisting
  <1> QED
    BY <1>1, <1>3, <1>4, <1>5

LEMMA LeaseComplete ==
    ASSUME TypeOK, LeasesInv, NEW o \in Ops, Complete(o) PROVE LeasesInv'
  <1>1. /\ target' = target /\ local' = local /\ pc[o] = "extended"
        /\ pc'[o] = "committed" /\ \A p \in Ops \ {o} : pc'[p] = pc[p]
    BY DEF Complete, TypeOK, RequestTypeOK
  <1>2. ASSUME NEW p \in Ops PROVE LeaseInv(p)'
    BY <1>1, <1>2, CompleteHeads, NoneAssumption
       DEF LeasesInv, LeaseInv, InFlight, Preparing, Persisting
  <1> QED
    BY <1>2 DEF LeasesInv

\* Recovery deletes heads that are still PREPARED and removes leases.
LEMMA RecoveryHeads ==
    ASSUME TypeOK, RecoveryStep \/ RecoveryStop, NEW u \in Ops
    PROVE  \/ head'[u] = head[u]
           \/ head[u].status = "PREPARED" /\ head'[u] = NoHead
           \/ /\ head'[u].lease = None /\ head'[u].status = head[u].status
              /\ head'[u].control = head[u].control
  <1> USE DEF TypeOK, TableTypeOK
  <1>1. ASSUME NEW o \in Ops, RecoveryAbort(o)
        PROVE  head'[u] = head[u] \/ (head[u].status = "PREPARED" /\ head'[u] = NoHead)
    BY <1>1 DEF RecoveryAbort, StillPreparedCreate
  <1>2. ASSUME NEW o \in Ops, RecoveryRelease(o)
        PROVE  \/ head'[u] = head[u]
               \/ /\ head'[u].lease = None /\ head'[u].status = head[u].status
                  /\ head'[u].control = head[u].control
    <2>1. CASE target[o] = u /\ head[u].lease = o
      <3>1. head[u] \in [status : {"PREPARED", "READY"}, name : Names, control : Ops,
                     payload : OpOrNone, state : SecretStates,
                     catalog : {"live", "archived"}, lease : OpOrNone]
        BY <2>1, HeadFields, NoneAssumption
      <3> QED
        BY <1>2, <2>1, <3>1 DEF RecoveryRelease
    <2>2. CASE ~(target[o] = u /\ head[u].lease = o)
      BY <1>2, <2>2 DEF RecoveryRelease
    <2> QED
      BY <2>1, <2>2
  <1> QED
    BY <1>1, <1>2 DEF RecoveryStep, RecoveryStop, RecoveryList, RecoveryFinish, RecoveryTake,
                      RecoveryMark, RecoveryReadHead, RecoveryAudit, tableVars

LEMMA LeaseRecovery ==
    ASSUME TypeOK, LeasesInv, RecoveryStep \/ RecoveryStop PROVE LeasesInv'
  <1>1. pc' = pc /\ target' = target /\ local' = local
    BY DEF RecoveryStep, RecoveryStop, RecoveryList, RecoveryFinish, RecoveryTake,
           RecoveryMark, RecoveryReadHead, RecoveryAbort, RecoveryRelease, RecoveryAudit,
           requestVars
  <1>2. ASSUME NEW p \in Ops PROVE LeaseInv(p)'
    <2>1. ASSUME NEW u \in Ops, head'[u].lease = p
          PROVE  head[u].lease = p /\ head'[u].status = head[u].status
                 /\ head'[u].control = head[u].control
      BY <2>1, RecoveryHeads, NoHeadFields, NoneAssumption
    <2> QED
      BY <1>1, <2>1 DEF LeasesInv, LeaseInv
  <1> QED
    BY <1>2 DEF LeasesInv

LEMMA LeaseStep == TypeOK /\ LeasesInv /\ [Next]_vars => LeasesInv'
  <1> SUFFICES ASSUME TypeOK, LeasesInv, [Next]_vars PROVE LeasesInv'
    OBVIOUS
  <1>1. CASE \E o \in Ops : Mutate(o) \/ Expire(o)
    BY <1>1, LeaseLocal, LeasePrepare, LeaseComplete DEF Mutate
  <1>2. CASE RecoveryStep \/ RecoveryStop
    BY <1>2, LeaseRecovery
  <1>3. CASE UNCHANGED vars
    BY <1>3 DEF vars, tableVars, requestVars, LeasesInv, LeaseInv
  <1> QED
    BY <1>1, <1>2, <1>3 DEF Next

\* A commit replaces exactly the version its client named: the conditional write
\* of completeMutation compares only the lease owner, and that is enough.
THEOREM LostUpdatesAreImpossible == Spec => NoLostUpdate
  <1> DEFINE Kept(u) ==
        head[u].status = "READY" /\ head'[u].control # head[u].control
        => local[head'[u].control].ifMatch = head[u].control
  <1>1. Init => TypeOK /\ LeasesInv
    BY TypeInit, LeaseInit
  <1>2. LeasesInv /\ TypeOK /\ [Next]_vars => LeasesInv'
    BY LeaseStep
  <1>3. TypeOK /\ LeasesInv /\ [Next]_vars => \A u \in Ops : Kept(u)
    <2> SUFFICES ASSUME TypeOK, LeasesInv, [Next]_vars, NEW u \in Ops PROVE Kept(u)
      OBVIOUS
    <2>1. ASSUME NEW o \in Ops, Complete(o) PROVE Kept(u)
      <3>1. pc[o] \in Persisting
        BY <2>1 DEF Complete, Persisting
      <3> QED
        BY <2>1, <3>1, CompleteHeads DEF LeasesInv, LeaseInv
    <2>2. ASSUME NEW o \in Ops, Prepare(o) PROVE Kept(u)
      <3>1. CASE PrepareCreate(o)
        BY <3>1, NoHeadFields DEF PrepareCreate, TypeOK, TableTypeOK
      <3>2. CASE PrepareUpdate(o)
        <4>1. head[u].status = "READY" => head'[u].control = head[u].control
          <5>1. CASE head[u].status = "READY"
            BY <3>2, <5>1, HeadFields DEF PrepareUpdate, TypeOK, TableTypeOK
          <5> QED
            BY <5>1
        <4> QED
          BY <4>1
      <3> QED
        BY <2>2, <3>1, <3>2 DEF Prepare
    <2>3. CASE RecoveryStep \/ RecoveryStop
      BY <2>3, RecoveryHeads
    <2>4. CASE head' = head
      BY <2>4
    <2> QED
      BY ZenonT(60), <2>1, <2>2, <2>3, <2>4
         DEF Next, Mutate, Begin, BeginCreate, BeginByName, BeginByAgent, ResolveName,
             ReadHead, ReadAccess, PutControl, PutPayload, Extend, RecordSuccess, Abandon,
             Expire, tableVars, vars
  <1> QED
    BY <1>1, <1>2, <1>3, TypeCorrectness, PTL DEF Spec, NoLostUpdate

-----------------------------------------------------------------------------
(* Workflow records: what an operation left in the table outlives it. *)

\* The records of an operation appear with its idempotency record, commit together
\* and are made retryable one by one, and the ones it writes are those its request
\* calls for.
Uncommitted == {"PREPARED", "RETRYABLE"}
RecordInv(o) ==
    /\ pc[o] \in {"idle"} \cup Preparing => \A k \in Kinds : workflow[<<k, o>>] = "none"
    /\ workflow[<<"control", o>>] # "none" => idempotency[key[o]] = o
    /\ \/ workflow[<<"payload", o>>] \in {"none", workflow[<<"control", o>>]}
       \/ \A k \in Kinds : workflow[<<k, o>>] \in Uncommitted
    /\ pc[o] \in Persisting /\ workflow[<<"payload", o>>] # "none" => "payload" \in Writes(o)

RecordsInv == \A o \in Ops : RecordInv(o)

LEMMA RecordInit == Init => RecordsInv
  BY DEF Init, RecordsInv, RecordInv, Revisions, Kinds, Persisting

\* Steps of a request that leave every record alone.
LEMMA RecordLocal ==
    ASSUME TypeOK, RecordsInv, NEW o \in Ops,
           \/ Begin(o) \/ ResolveName(o) \/ ReadHead(o) \/ ReadAccess(o)
           \/ PutControl(o) \/ PutPayload(o) \/ Extend(o)
           \/ RecordSuccess(o) \/ Abandon(o) \/ Expire(o)
    PROVE  RecordsInv'
  <1> USE DEF TypeOK, RequestTypeOK
  <1>1. workflow' = workflow /\ idempotency' = idempotency
    BY DEF Begin, BeginCreate, BeginByName, BeginByAgent, ResolveName, ReadHead, ReadAccess,
           PutControl, PutPayload, Extend, RecordSuccess, Abandon, Expire, tableVars
  <1>2. ASSUME NEW p \in Ops \ {o} PROVE RecordInv(p)'
    <2>1. pc'[p] = pc[p] /\ local'[p] = local[p] /\ key'[p] = key[p]
      BY ZenonT(60), ChooseKeyType
         DEF Begin, BeginCreate, BeginByName, BeginByAgent, ResolveName, ReadHead, ReadAccess,
             PutControl, PutPayload, Extend, RecordSuccess, Abandon, Expire, requestVars
    <2> QED
      BY <1>1, <2>1 DEF RecordsInv, RecordInv, Writes
  <1>3. RecordInv(o)'
    <2>1. CASE Begin(o)
      <3>1. pc[o] = "idle" /\ pc'[o] \in Preparing
        BY <2>1, ZenonT(60) DEF Begin, BeginCreate, BeginByName, BeginByAgent, Preparing
      <3> QED
        BY <1>1, <3>1 DEF RecordsInv, RecordInv, Preparing, Persisting, Kinds
    <2>2. CASE ResolveName(o) \/ ReadHead(o) \/ ReadAccess(o)
      <3>1. pc[o] \in Preparing /\ pc'[o] \in Preparing /\ key' = key
        BY <2>2 DEF ResolveName, ReadHead, ReadAccess, Preparing
      <3> QED
        BY <1>1, <3>1 DEF RecordsInv, RecordInv, Preparing, Persisting, Kinds
    <2>3. CASE PutControl(o) \/ PutPayload(o) \/ Extend(o)
      <3>1. pc[o] \in Persisting /\ pc'[o] \in Persisting /\ key' = key /\ local' = local
        BY <2>3 DEF PutControl, PutPayload, Extend, Persisting
      <3> QED
        BY <1>1, <3>1 DEF RecordsInv, RecordInv, Preparing, Persisting, Writes
    <2>4. CASE RecordSuccess(o) \/ Abandon(o)
      <3>1. pc'[o] \in {"done", "ended"} /\ key' = key
        BY <2>4 DEF RecordSuccess, Abandon
      <3> QED
        BY <1>1, <3>1 DEF RecordsInv, RecordInv, Preparing, Persisting
    <2>5. CASE Expire(o)
      BY <1>1, <2>5 DEF Expire, requestVars, RecordsInv, RecordInv, Writes
    <2> QED
      BY <2>1, <2>2, <2>3, <2>4, <2>5
  <1> QED
    BY ZenonT(60), <1>2, <1>3 DEF RecordsInv

LEMMA RecordPrepare ==
    ASSUME TypeOK, RecordsInv, NEW o \in Ops, Prepare(o) PROVE RecordsInv'
  <1> USE DEF TypeOK, TableTypeOK, RequestTypeOK
  <1>1. /\ pc[o] = "ready" /\ pc'[o] = "prepared" /\ \A p \in Ops \ {o} : pc'[p] = pc[p]
        /\ key' = key /\ local' = local /\ key[o] \in Ops
        /\ idempotency[key[o]] = None
        /\ idempotency' = [idempotency EXCEPT ![key[o]] = o]
    BY DEF Prepare, KeyFree, RequestIsAddressed
  <1>2. \A r \in Revisions :
           workflow'[r] = IF r[2] = o /\ r[1] \in Writes(o) THEN "PREPARED" ELSE workflow[r]
    BY DEF Prepare
  <1>3. \A k \in Kinds, p \in Ops : <<k, p>> \in Revisions
    BY DEF Revisions
  <1>4. ASSUME NEW p \in Ops \ {o} PROVE RecordInv(p)'
    <2>1. \A k \in Kinds : workflow'[<<k, p>>] = workflow[<<k, p>>]
      BY <1>2, <1>3
    <2>2. workflow[<<"control", p>>] # "none" => idempotency'[key[p]] = p
      <3>1. CASE pc[p] = "idle"
        BY <3>1 DEF RecordsInv, RecordInv, Kinds
      <3>2. CASE pc[p] # "idle"
        BY <1>1, <3>2, NoneAssumption, ZenonT(60) DEF RecordsInv, RecordInv, RequestIsAddressed
      <3> QED
        BY <3>1, <3>2
    <2> QED
      BY <1>1, <2>1, <2>2 DEF RecordsInv, RecordInv, Writes, Kinds
  <1>5. RecordInv(o)'
    <2>1. \A k \in Kinds : workflow[<<k, o>>] = "none"
      BY <1>1 DEF RecordsInv, RecordInv, Preparing
    <2>2. \A k \in Kinds :
             workflow'[<<k, o>>] = IF k \in Writes(o) THEN "PREPARED" ELSE "none"
      BY <1>2, <1>3, <2>1
    <2> QED
      BY <1>1, <2>2 DEF RecordInv, Writes, Kinds, Preparing
  <1> QED
    BY <1>4, <1>5 DEF RecordsInv

LEMMA RecordComplete ==
    ASSUME TypeOK, RecordsInv, NEW o \in Ops, Complete(o)
    PROVE  /\ RecordsInv'
           /\ \A k \in Kinds, p \in Ops : workflow[<<k, p>>] \in {"RETRYABLE", "DELETED"}
                 => workflow'[<<k, p>>] = workflow[<<k, p>>]
  <1> USE DEF TypeOK, TableTypeOK, RequestTypeOK
  <1>1. /\ pc[o] = "extended" /\ pc'[o] = "committed"
        /\ \A p \in Ops \ {o} : pc'[p] = pc[p]
        /\ key' = key /\ local' = local /\ idempotency' = idempotency
        /\ \A k \in Writes(o) : workflow[<<k, o>>] = "PREPARED"
    BY DEF Complete, CommitConditions
  <1>2. \A k \in Kinds, p \in Ops : workflow'[<<k, p>>] =
           IF p = o /\ k \in Writes(o) THEN "READY" ELSE workflow[<<k, p>>]
    BY DEF Complete, Revisions
  <1>3. ASSUME NEW p \in Ops \ {o} PROVE RecordInv(p)'
    BY <1>1, <1>2 DEF RecordsInv, RecordInv, Writes, Kinds
  <1>4. RecordInv(o)'
    BY <1>1, <1>2 DEF RecordsInv, RecordInv, Writes, Kinds, Preparing, Persisting
  <1> QED
    BY <1>1, <1>2, <1>3, <1>4 DEF RecordsInv, Kinds

LEMMA RecordRecovery ==
    ASSUME TypeOK, RecordsInv, RecoveryStep \/ RecoveryStop
    PROVE  /\ RecordsInv'
           /\ \A k \in Kinds, p \in Ops : workflow[<<k, p>>] = "RETRYABLE"
                 => workflow'[<<k, p>>] = "RETRYABLE"
  <1> USE DEF TypeOK, TableTypeOK
  <1>1. pc' = pc /\ key' = key /\ local' = local /\ idempotency' = idempotency
    BY DEF RecoveryStep, RecoveryStop, RecoveryList, RecoveryFinish, RecoveryTake,
           RecoveryMark, RecoveryReadHead, RecoveryAbort, RecoveryRelease, RecoveryAudit,
           tableVars, requestVars
  <1>2. CASE workflow' = workflow
    BY <1>1, <1>2 DEF RecordsInv, RecordInv, Writes
  <1>3. ASSUME NEW o \in Ops, NEW l \in Kinds, RecoveryMark(o, l)
        PROVE  /\ RecordsInv'
               /\ \A k \in Kinds, p \in Ops : workflow[<<k, p>>] = "RETRYABLE"
                    => workflow'[<<k, p>>] = "RETRYABLE"
    <2>1. \A k \in Kinds, p \in Ops : workflow'[<<k, p>>] =
             IF p = o /\ k = l /\ workflow[<<k, p>>] = "PREPARED" THEN "RETRYABLE"
             ELSE workflow[<<k, p>>]
      BY <1>3 DEF RecoveryMark, Revisions
    <2>2. ASSUME NEW p \in Ops PROVE RecordInv(p)'
      BY <1>1, <2>1 DEF RecordsInv, RecordInv, Writes, Kinds, Uncommitted
    <2> QED
      BY <2>1, <2>2 DEF RecordsInv
  <1> QED
    BY <1>2, <1>3 DEF RecoveryStep, RecoveryStop, RecoveryList, RecoveryFinish, RecoveryTake,
           RecoveryReadHead, RecoveryAbort, RecoveryRelease, RecoveryAudit, tableVars

LEMMA RecordStep == TypeOK /\ RecordsInv /\ [Next]_vars => RecordsInv'
  <1> SUFFICES ASSUME TypeOK, RecordsInv, [Next]_vars PROVE RecordsInv'
    OBVIOUS
  <1>1. CASE \E o \in Ops : Mutate(o) \/ Expire(o)
    BY <1>1, RecordLocal, RecordPrepare, RecordComplete DEF Mutate
  <1>2. CASE RecoveryStep \/ RecoveryStop
    BY <1>2, RecordRecovery
  <1>3. CASE UNCHANGED vars
    BY <1>3 DEF vars, tableVars, requestVars, RecordsInv, RecordInv, Writes
  <1> QED
    BY <1>1, <1>2, <1>3 DEF Next

\* Of the requests that carry one idempotency key at most one ever commits.
THEOREM KeysCommitOnce == Spec => []AtMostOncePerKey
  <1>1. Init => TypeOK /\ RecordsInv
    BY TypeInit, RecordInit
  <1>2. TypeOK /\ RecordsInv /\ [Next]_vars => RecordsInv'
    BY RecordStep
  <1>3. RecordsInv => AtMostOncePerKey
    BY DEF RecordsInv, RecordInv, AtMostOncePerKey, Committed
  <1> QED
    BY <1>1, <1>2, <1>3, TypeCorrectness, PTL DEF Spec

-----------------------------------------------------------------------------
(* Recovery reports no failure of what committed or can still commit. *)

\* Once recovery has moved a record of an operation, and in whatever it audits, a
\* record of the operation is RETRYABLE, where it stays.
GivenUp(o) == \E k \in Kinds : workflow[<<k, o>>] = "RETRYABLE"

EvidenceInv ==
    /\ (recovery.phase = "mark" => recovery.moved) /\ recovery.phase \notin {"idle", "next"}
          => recovery.operation \in Ops /\ GivenUp(recovery.operation)
    /\ \A o \in Ops : "failed" \in audit[o] => GivenUp(o)

LEMMA GivenUpIsUncommitted ==
    ASSUME RecordsInv, NEW o \in Ops, GivenUp(o)
    PROVE  workflow[<<"control", o>>] \in Uncommitted
  BY DEF RecordsInv, RecordInv, GivenUp, Uncommitted, Kinds

LEMMA GivenUpIsStable ==
    ASSUME TypeOK, RecordsInv, [Next]_vars, NEW o \in Ops, GivenUp(o) PROVE GivenUp(o)'
  <1> PICK k \in Kinds : workflow[<<k, o>>] = "RETRYABLE"
    BY DEF GivenUp
  <1>1. ASSUME NEW p \in Ops, Prepare(p) PROVE workflow'[<<k, o>>] = "RETRYABLE"
    <2>1. o # p
      BY <1>1 DEF Prepare, RecordsInv, RecordInv, Preparing, Kinds
    <2> QED
      BY <1>1, <2>1 DEF Prepare, Revisions, Kinds
  <1>2. ASSUME NEW p \in Ops, Complete(p) PROVE workflow'[<<k, o>>] = "RETRYABLE"
    BY <1>2, RecordComplete DEF Kinds
  <1>3. CASE RecoveryStep \/ RecoveryStop
    BY <1>3, RecordRecovery DEF GivenUp
  <1>4. CASE workflow' = workflow
    BY <1>4 DEF GivenUp
  <1> QED
    BY ZenonT(60), <1>1, <1>2, <1>3, <1>4
       DEF Next, Mutate, Begin, BeginCreate, BeginByName, BeginByAgent, ResolveName,
           ReadHead, ReadAccess, PutControl, PutPayload, Extend, RecordSuccess, Abandon,
           Expire, tableVars, vars, GivenUp

LEMMA EvidenceStep ==
    ASSUME TypeOK, RecordsInv, EvidenceInv, [Next]_vars PROVE EvidenceInv'
  <1>1. \A o \in Ops : GivenUp(o) => GivenUp(o)'
    BY GivenUpIsStable
  <1>2. CASE \E o \in Ops : Mutate(o) \/ Expire(o)
    <2>1. recovery' = recovery
      BY <1>2, ZenonT(60) DEF Mutate, Begin, BeginCreate, BeginByName, BeginByAgent,
             ResolveName, ReadHead, ReadAccess, Prepare, PutControl, PutPayload, Extend, Complete,
           RecordSuccess, Abandon, Expire
    <2>2. \A o \in Ops : "failed" \in audit'[o] => "failed" \in audit[o]
      <3>1. ASSUME NEW p \in Ops, RecordSuccess(p), NEW o \in Ops, "failed" \in audit'[o]
            PROVE  "failed" \in audit[o]
        BY <3>1 DEF RecordSuccess, TypeOK, BucketTypeOK
      <3>2. CASE audit' = audit
        BY <3>2
      <3> QED
        BY ZenonT(60), <1>2, <3>1, <3>2
           DEF Mutate, Begin, BeginCreate, BeginByName, BeginByAgent, ResolveName, ReadHead,
               ReadAccess, Prepare, PutControl, PutPayload, Extend, Complete, Abandon,
               Expire, bucketVars
    <2> QED
      BY <1>1, <2>1, <2>2 DEF EvidenceInv
  <1>3. ASSUME NEW o \in Ops, NEW k \in Kinds, RecoveryMark(o, k) PROVE EvidenceInv'
    <2>1. audit' = audit /\ recovery.phase = "mark"
          /\ recovery.operation = o /\ recovery'.operation = o
      BY <1>3 DEF RecoveryMark, bucketVars, TypeOK, RecoveryRecord
    <2>2. recovery'.phase = "head" \/ (recovery'.phase = "mark" /\ recovery'.moved)
          => recovery.moved \/ workflow[<<k, o>>] = "PREPARED"
      BY <1>3 DEF RecoveryMark, TypeOK, RecoveryRecord
    <2>3. workflow[<<k, o>>] = "PREPARED" => GivenUp(o)'
      BY <1>3 DEF RecoveryMark, GivenUp, Revisions, TypeOK, TableTypeOK
    <2>4. recovery.moved => GivenUp(o)'
      BY <1>1, <2>1 DEF EvidenceInv
    <2>5. recovery'.phase \in {"mark", "next", "head"}
      BY <1>3 DEF RecoveryMark, TypeOK, RecoveryRecord
    <2>6. \A p \in Ops : "failed" \in audit'[p] => GivenUp(p)'
      BY <1>1, <2>1 DEF EvidenceInv
    <2> QED
      BY <2>1, <2>2, <2>3, <2>4, <2>5, <2>6 DEF EvidenceInv
  <1>4. ASSUME NEW o \in Ops, RecoveryReadHead(o) \/ RecoveryAbort(o) \/ RecoveryRelease(o)
        PROVE  EvidenceInv'
    <2>1. recovery.operation = o /\ recovery.phase \in {"head", "abort", "release"}
      BY <1>4 DEF RecoveryReadHead, RecoveryAbort, RecoveryRelease
    <2>2. recovery'.phase \in {"idle", "next"} \/ recovery'.operation = o
      BY <1>4 DEF RecoveryReadHead, RecoveryAbort, RecoveryRelease, NoPass, TypeOK,
                  RecoveryRecord
    <2>3. audit' = audit
      BY <1>4 DEF RecoveryReadHead, RecoveryAbort, RecoveryRelease, bucketVars
    <2> QED
      BY <1>1, <2>1, <2>2, <2>3 DEF EvidenceInv
  <1>5. ASSUME NEW o \in Ops, RecoveryAudit(o) PROVE EvidenceInv'
    <2>1. GivenUp(o)
      BY <1>5 DEF RecoveryAudit, EvidenceInv
    <2>2. recovery'.phase = "next"
      BY <1>5 DEF RecoveryAudit, TypeOK, RecoveryRecord
    <2>3. audit' = [audit EXCEPT ![o] = @ \cup {"failed"}]
      BY <1>5 DEF RecoveryAudit
    <2> QED
      BY <1>1, <2>1, <2>2, <2>3 DEF EvidenceInv, TypeOK, BucketTypeOK
  <1>6. CASE RecoveryList \/ RecoveryFinish \/ RecoveryStop \/ \E o \in Ops : RecoveryTake(o)
    <2>1. recovery'.phase \in {"idle", "next", "mark"} /\ audit' = audit
          /\ (recovery'.phase = "mark" => ~recovery'.moved)
      <3>1. CASE RecoveryFinish \/ RecoveryStop
        BY <3>1 DEF RecoveryFinish, RecoveryStop, NoPass, bucketVars
      <3>3. CASE RecoveryList
        <4>1. recovery'.phase = "next"
          BY <3>3 DEF RecoveryList, NoPass
        <4> QED
          BY <3>3, <4>1 DEF RecoveryList, bucketVars
      <3>2. ASSUME NEW o \in Ops, RecoveryTake(o)
            PROVE  recovery'.phase = "mark" /\ ~recovery'.moved /\ audit' = audit
        BY <3>2 DEF RecoveryTake, bucketVars
      <3> QED
        BY <1>6, <3>1, <3>2, <3>3
    <2> QED
      BY <1>1, <2>1 DEF EvidenceInv
  <1>7. CASE UNCHANGED vars
    BY <1>7 DEF vars, tableVars, bucketVars, EvidenceInv, GivenUp
  <1> QED
    BY <1>2, <1>3, <1>4, <1>5, <1>6, <1>7 DEF Next, RecoveryStep

\* A mutation that recovery reported as failed has not committed and never will,
\* whenever its Lambda wakes up again.
THEOREM FailuresAreFinal == Spec => []FailureEvidenceIsFinal
  <1>1. Init => TypeOK /\ RecordsInv /\ EvidenceInv
    BY TypeInit, RecordInit DEF Init, EvidenceInv, NoPass
  <1>2. TypeOK /\ RecordsInv /\ EvidenceInv /\ [Next]_vars => RecordsInv' /\ EvidenceInv'
    BY RecordStep, EvidenceStep
  <1>3. RecordsInv /\ EvidenceInv => FailureEvidenceIsFinal
    BY GivenUpIsUncommitted DEF EvidenceInv, FailureEvidenceIsFinal, Committed, Uncommitted
  <1> QED
    BY <1>1, <1>2, <1>3, TypeCorrectness, PTL DEF Spec

-----------------------------------------------------------------------------
(* SecretMutation implements SecretRegistry.  What this rests on: names,   *)
(* heads, revisions, objects and access rows agree.                        *)

Readable(u) == {c \in Consumers : access[u][c] = "readable"}
SeenReadable(o) == {c \in Consumers : local[o].seen[c] = "readable"}
OnceCurrent(c) == c \in Ops /\ workflow[<<"control", c>>] = "READY"

\* A committed head has a revision of its own, which says what the head says, whose
\* objects exist and whose readers are the secret's.  Only a secret without
\* readers, that is one that was archived, is not reached by its name.
ReadyHead(u) ==
    LET h == head[u] IN
    /\ OnceCurrent(h.control)
    /\ target[h.control] = u
    /\ revision[h.control].state = h.state
    /\ revision[h.control].payload = h.payload
    /\ <<"control", h.control>> \in objects
    /\ h.payload # None => <<"payload", h.payload>> \in objects
    /\ h.state = "ACTIVE" => h.payload # None
    /\ Readable(u) = revision[h.control].acl
    /\ lookup[h.name] = u \/ revision[h.control].acl = {}

\* A head under creation belongs to the request that makes it, holds its name and
\* has no reader yet; nobody else can lease it.
PreparedHead(u) ==
    LET h == head[u] IN
    /\ workflow[<<"control", u>>] \in {"PREPARED", "RETRYABLE"}
    /\ h.control = u
    /\ h.lease \in {u, None}
    /\ lookup[h.name] = u
    /\ Readable(u) = {}
    /\ pc[u] \in Persisting => local[u].request = "create" /\ local[u].name = h.name

HeadInv(u) ==
    /\ head[u].status = "READY" => ReadyHead(u)
    /\ head[u].status = "PREPARED" => PreparedHead(u)
    /\ head[u].status = "ABSENT" => Readable(u) = {}

NameInv(n) ==
    lookup[n] # None => LET h == head[lookup[n]] IN
        h.status # "ABSENT" /\ h.name = n /\ h.catalog = "live"

StillCurrent(u, o) == head[u].status = "READY" /\ head[u].control = local[o].ifMatch

Revised == {"read", "ready"} \cup Persisting

\* What a request has read is still true as long as the revision it replaces is
\* current: the name, its lookup if an administrator asks, and the rows.
RequestInv(o) ==
    /\ workflow[<<"control", o>>] # "none" => target[o] \in Ops
    /\ pc[o] \in {"begun", "resolved", "read"} => local[o].request # "create"
    /\ pc[o] \in {"control", "stored", "extended"} => <<"control", o>> \in objects
    /\ pc[o] \in {"stored", "extended"} /\ "payload" \in Writes(o)
          => <<"payload", o>> \in objects
    /\ pc[o] \in Preparing \cup Persisting /\ local[o].request = "create" =>
          /\ revision[o].state = "PENDING_VALUE" /\ revision[o].payload = None
          /\ local[o].ifMatch = None /\ local[o].payload = None
          /\ SeenReadable(o) = {}
    /\ pc[o] \in Preparing \cup Persisting /\ local[o].request # "create" =>
          /\ OnceCurrent(local[o].ifMatch)
          /\ \A u \in Ops : StillCurrent(u, o) =>
                /\ head[u].name = local[o].name
                /\ local[o].request \notin AgentRequests => lookup[head[u].name] = u
          /\ pc[o] \in Revised =>
                /\ local[o].control = local[o].ifMatch
                /\ local[o].payload = revision[local[o].ifMatch].payload
                /\ revision[o] = NextRevision(o, revision[local[o].ifMatch])
          /\ pc[o] \in {"ready"} \cup Persisting /\ StillCurrent(target[o], o)
                => SeenReadable(o) = revision[local[o].ifMatch].acl

RegistryInv ==
    /\ \A u \in Ops : HeadInv(u)
    /\ \A n \in Names : NameInv(n)
    /\ \A o \in Ops : RequestInv(o)

LEMMA RegistryInit == Init => RegistryInv
  <1> SUFFICES ASSUME Init PROVE RegistryInv
    OBVIOUS
  <1>1. ASSUME NEW u \in Ops PROVE HeadInv(u)
    <2>1. head[u] = NoHead /\ \A c \in Consumers : access[u][c] = "none"
      BY DEF Init, NoRows
    <2> QED
      BY <2>1, NoHeadFields DEF HeadInv, Readable
  <1>2. ASSUME NEW n \in Names PROVE NameInv(n)
    BY DEF Init, NameInv
  <1>3. ASSUME NEW o \in Ops PROVE RequestInv(o)
    BY DEF Init, RequestInv, Preparing, Persisting, Revisions, Kinds
  <1> QED
    BY <1>1, <1>2, <1>3 DEF RegistryInv

\* A revision that was current once belongs to a request that has left its
\* preparation behind, so that its revision and its secret stay what they are.
LEMMA OnceCurrentIsOld ==
    ASSUME TypeOK, RecordsInv, NEW c, OnceCurrent(c)
    PROVE  c \in Ops /\ pc[c] \notin {"idle"} \cup Preparing
  BY DEF OnceCurrent, RecordsInv, RecordInv, Kinds

\* Steps of a request that touch neither heads nor names, rows or records.
LEMMA LocalFrame ==
    ASSUME TypeOK, RecordsInv, NEW o \in Ops,
           \/ Begin(o) \/ ResolveName(o) \/ ReadHead(o) \/ ReadAccess(o)
           \/ PutControl(o) \/ PutPayload(o) \/ Extend(o)
           \/ RecordSuccess(o) \/ Abandon(o) \/ Expire(o)
    PROVE  /\ head' = head /\ lookup' = lookup /\ access' = access /\ workflow' = workflow
           /\ objects \subseteq objects'
           /\ pc[o] \notin {"idle"} \cup Preparing =>
                 target'[o] = target[o] /\ revision'[o] = revision[o]
           /\ \A p \in Ops \ {o} :
                 /\ target'[p] = target[p] /\ revision'[p] = revision[p]
                 /\ pc'[p] = pc[p] /\ local'[p] = local[p]
           /\ pc'[o] \in Persisting => pc[o] \in Persisting /\ local'[o] = local[o]
  <1> USE DEF TypeOK, RequestTypeOK
  <1>1. head' = head /\ lookup' = lookup /\ access' = access /\ workflow' = workflow
    BY ZenonT(60) DEF Begin, BeginCreate, BeginByName, BeginByAgent, ResolveName,
           ReadHead, ReadAccess, PutControl, PutPayload, Extend, RecordSuccess, Abandon, Expire, tableVars
  <1>2. objects \subseteq objects'
    BY ZenonT(60) DEF Begin, BeginCreate, BeginByName, BeginByAgent, ResolveName,
           ReadHead, ReadAccess, PutControl, PutPayload, Extend, RecordSuccess, Abandon, Expire, bucketVars
  <1>3. \A p \in Ops \ {o} :
           /\ target'[p] = target[p] /\ revision'[p] = revision[p]
           /\ pc'[p] = pc[p] /\ local'[p] = local[p]
    BY ZenonT(60) DEF Begin, BeginCreate, BeginByName, BeginByAgent, ResolveName,
           ReadHead, ReadAccess, PutControl, PutPayload, Extend, RecordSuccess, Abandon, Expire, requestVars
  <1>4. CASE Begin(o) \/ ResolveName(o) \/ ReadHead(o) \/ ReadAccess(o)
    <2>1. pc[o] \in {"idle"} \cup Preparing
      BY <1>4, ZenonT(60) DEF Begin, BeginCreate, BeginByName, BeginByAgent, ResolveName,
             ReadHead, ReadAccess, Preparing
    <2>2. pc'[o] \in Preparing
      BY <1>4, ZenonT(60) DEF Begin, BeginCreate, BeginByName, BeginByAgent, ResolveName,
             ReadHead, ReadAccess, Preparing
    <2> QED
      BY <1>1, <1>2, <1>3, <2>1, <2>2 DEF Preparing, Persisting
  <1>5. CASE PutControl(o) \/ PutPayload(o) \/ Extend(o)
    <2>1. pc[o] \in Persisting /\ target' = target /\ revision' = revision /\ local' = local
      BY <1>5 DEF PutControl, PutPayload, Extend, Persisting
    <2> QED
      BY <1>1, <1>2, <1>3, <2>1
  <1>6. CASE RecordSuccess(o) \/ Abandon(o)
    <2>1. pc'[o] \in {"done", "ended"}
      BY <1>6 DEF RecordSuccess, Abandon
    <2>2. pc[o] \notin Preparing => target' = target /\ revision' = revision
      BY <1>6 DEF RecordSuccess, Abandon
    <2> QED
      BY <1>1, <1>2, <1>3, <2>1, <2>2 DEF Persisting
  <1>7. CASE Expire(o)
    BY <1>1, <1>2, <1>3, <1>7 DEF Expire, requestVars
  <1> QED
    BY <1>4, <1>5, <1>6, <1>7

LEMMA LocalHeads ==
    ASSUME TypeOK, RecordsInv, RegistryInv, NEW o \in Ops,
           \/ Begin(o) \/ ResolveName(o) \/ ReadHead(o) \/ ReadAccess(o)
           \/ PutControl(o) \/ PutPayload(o) \/ Extend(o)
           \/ RecordSuccess(o) \/ Abandon(o) \/ Expire(o)
    PROVE  /\ \A u \in Ops : HeadInv(u)'
           /\ \A n \in Names : NameInv(n)'
           /\ \A p \in Ops \ {o} : RequestInv(p)'
           /\ \A c : OnceCurrent(c) => /\ c \in Ops /\ OnceCurrent(c)'
                                       /\ target'[c] = target[c] /\ revision'[c] = revision[c]
  <1> USE DEF RegistryInv
  <1> DEFINE Frame ==
        /\ head' = head /\ lookup' = lookup /\ access' = access /\ workflow' = workflow
        /\ objects \subseteq objects'
        /\ \A p \in Ops \ {o} :
              /\ target'[p] = target[p] /\ revision'[p] = revision[p]
              /\ pc'[p] = pc[p] /\ local'[p] = local[p]
        /\ pc'[o] \in Persisting => pc[o] \in Persisting /\ local'[o] = local[o]
  <1>1. Frame
    BY LocalFrame
  <1>2. ASSUME NEW c, OnceCurrent(c)
        PROVE  /\ c \in Ops /\ OnceCurrent(c)'
               /\ target'[c] = target[c] /\ revision'[c] = revision[c]
    BY <1>2, LocalFrame, OnceCurrentIsOld DEF OnceCurrent
  <1>3. ASSUME NEW u \in Ops PROVE HeadInv(u)'
    <2>1. head[u].status = "READY" => ReadyHead(u)'
      BY <1>1, <1>2, SMTT(60) DEF HeadInv, ReadyHead, Readable
    <2>2. head[u].status = "PREPARED" => PreparedHead(u)'
      BY <1>1 DEF HeadInv, PreparedHead, Readable
    <2> QED
      BY <1>1, <2>1, <2>2 DEF HeadInv, Readable
  <1>4. ASSUME NEW n \in Names PROVE NameInv(n)'
    BY <1>1 DEF NameInv
  <1>5. ASSUME NEW p \in Ops \ {o} PROVE RequestInv(p)'
    <2>1. /\ StillCurrent(target[p], p)' = StillCurrent(target[p], p)
          /\ target'[p] = target[p] /\ revision'[p] = revision[p]
          /\ pc'[p] = pc[p] /\ local'[p] = local[p]
          /\ SeenReadable(p)' = SeenReadable(p) /\ Writes(p)' = Writes(p)
          /\ \A c : NextRevision(p, c)' = NextRevision(p, c)
      BY <1>1 DEF StillCurrent, SeenReadable, Writes, NextRevision
    <2>2. \A u \in Ops : StillCurrent(u, p)' = StillCurrent(u, p)
      BY <1>1 DEF StillCurrent
    <2> QED
      BY <1>1, <1>2, <2>1, <2>2 DEF RequestInv
  <1> QED
    BY <1>2, <1>3, <1>4, <1>5

\* A request that begins names a revision that is current, of the secret it names.
LEMMA BeginRequest ==
    ASSUME TypeOK, RecordsInv, RegistryInv, NEW o \in Ops, Begin(o)
    PROVE  RequestInv(o)'
  <1> USE DEF TypeOK, RequestTypeOK, RegistryInv
  <1>0. /\ head' = head /\ lookup' = lookup /\ workflow' = workflow
        /\ workflow[<<"control", o>>] = "none"
    BY LocalFrame DEF Begin, BeginCreate, BeginByName, BeginByAgent, RecordsInv,
           RecordInv, Kinds
  <1>1. ASSUME NEW n \in Names, NEW acl \in SUBSET Consumers, BeginCreate(o, n, acl)
        PROVE  RequestInv(o)'
    <2>1. pc'[o] = "ready" /\ local'[o] = [NoLocals EXCEPT !.name = n]
          /\ revision'[o] = [NoRevision EXCEPT !.acl = acl]
      BY <1>1 DEF BeginCreate
    <2>2. /\ local'[o].request = "create" /\ local'[o].payload = None /\ local'[o].ifMatch = None
          /\ \A c \in Consumers : local'[o].seen[c] = "none"
          /\ revision'[o].state = "PENDING_VALUE" /\ revision'[o].payload = None
      BY <2>1 DEF NoLocals, NoRows, NoRevision
    <2> QED
      BY <1>0, <2>1, <2>2 DEF RequestInv, SeenReadable
  <1>2. ASSUME NEW n \in Names, NEW u \in Ops,
               head[u].status = "READY", head[u].name = n,
               pc'[o] \in {"begun", "resolved"},
               local'[o].request # "create", local'[o].name = n,
               local'[o].request \notin AgentRequests => lookup[n] = u,
               local'[o].ifMatch = head[u].control
        PROVE  RequestInv(o)'
    <2>2. OnceCurrent(head[u].control) /\ target[head[u].control] = u
      BY <1>2 DEF HeadInv, ReadyHead
    <2>3. OnceCurrent(local[o].ifMatch)'
      BY <1>0, <1>2, <2>2 DEF OnceCurrent
    <2>4. ASSUME NEW v \in Ops, StillCurrent(v, o)' PROVE v = u
      <3>1. head[v].status = "READY" /\ head[v].control = head[u].control
        BY <1>0, <1>2, <2>4 DEF StillCurrent
      <3>2. target[head[v].control] = v
        BY <3>1 DEF HeadInv, ReadyHead
      <3> QED
        BY <2>2, <3>1, <3>2
    <2>5. \A v \in Ops : StillCurrent(v, o)' =>
              /\ head'[v].name = local'[o].name
              /\ local'[o].request \notin AgentRequests => lookup'[head'[v].name] = v
      BY <1>0, <1>2, <2>4
    <2> QED
      BY <1>0, <1>2, <2>3, <2>5 DEF RequestInv, Revised, Preparing, Persisting
  <1>3. ASSUME NEW request \in {"acl", "payload", "archive"}, NEW n \in Names,
               NEW acl \in SUBSET Consumers, BeginByName(o, request, n, acl)
        PROVE  RequestInv(o)'
    <2>1. lookup[n] \in Ops /\ head[lookup[n]].status = "READY" /\ head[lookup[n]].name = n
      BY <1>3 DEF BeginByName, NameInv, TableTypeOK, OpOrNone
    <2>2. /\ local'[o].request # "create" /\ pc'[o] = "begun"
          /\ local'[o].name = n /\ local'[o].ifMatch = head[lookup[n]].control
      BY <1>3 DEF BeginByName, NoLocals
    <2> QED
      BY <1>2, <2>1, <2>2
  <1>4. ASSUME NEW request \in AgentRequests, NEW u \in Ops, BeginByAgent(o, request, u)
        PROVE  RequestInv(o)'
    <2>1. head[u].status = "READY" /\ head[u].name \in Names
      BY <1>4, HeadFields DEF BeginByAgent, TableTypeOK
    <2>2. /\ local'[o].request \in AgentRequests /\ local'[o].request # "create"
          /\ pc'[o] = "resolved"
          /\ local'[o].name = head[u].name /\ local'[o].ifMatch = head[u].control
      BY <1>4 DEF BeginByAgent, AgentRequests, NoLocals
    <2> QED
      BY <1>2, <1>4, <2>1, <2>2
  <1> QED
    BY <1>1, <1>3, <1>4 DEF Begin

\* What a request reads about the revision it replaces.
LEMMA ReadRequest ==
    ASSUME TypeOK, RecordsInv, RegistryInv, NEW o \in Ops,
           ResolveName(o) \/ ReadHead(o) \/ ReadAccess(o)
    PROVE  RequestInv(o)'
  <1> USE DEF TypeOK, RequestTypeOK, RegistryInv
  <1> DEFINE m == local[o].ifMatch
  <1>0. /\ head' = head /\ lookup' = lookup /\ access' = access /\ workflow' = workflow
        /\ workflow[<<"control", o>>] = "none" /\ local[o] \in Locals
        /\ pc[o] \in {"begun", "resolved", "read"} /\ local[o].request # "create"
    BY LocalFrame DEF ResolveName, ReadHead, ReadAccess, RecordsInv, RecordInv, Kinds,
                      Preparing, RequestInv
  <1>1. /\ OnceCurrent(m) /\ m # o
        /\ \A u \in Ops : StillCurrent(u, o) =>
              /\ head[u].name = local[o].name
              /\ local[o].request \notin AgentRequests => lookup[head[u].name] = u
    BY <1>0 DEF RequestInv, Preparing, OnceCurrent
  <1>2. CASE ResolveName(o)
    <2>1. pc'[o] = "resolved" /\ local' = local
      BY <1>2 DEF ResolveName
    <2>2. OnceCurrent(m)' /\ \A u \in Ops : StillCurrent(u, o)' = StillCurrent(u, o)
      BY <1>0, <1>1, <2>1 DEF OnceCurrent, StillCurrent
    <2> QED
      BY <1>0, <1>1, <2>1, <2>2 DEF RequestInv, Revised, Persisting
  <1>3. CASE ReadHead(o)
    <2> DEFINE h == head[target[o]]
    <2>1. /\ pc'[o] = "read" /\ h.status = "READY" /\ h.control = m /\ target[o] \in Ops
          /\ local' = [local EXCEPT ![o] = [@ EXCEPT !.control = m, !.payload = h.payload]]
          /\ revision' = [revision EXCEPT ![o] = NextRevision(o, revision[m])]
      BY <1>3 DEF ReadHead, RequestIsAddressed, InFlight, Preparing
    <2>2. /\ local'[o].control = m /\ local'[o].payload = h.payload
          /\ local'[o].ifMatch = m /\ local'[o].name = local[o].name
          /\ local'[o].request = local[o].request /\ local'[o].acl = local[o].acl
      BY <1>0, <2>1 DEF Locals
    <2>3. h.payload = revision[m].payload
      BY <2>1 DEF HeadInv, ReadyHead
    <2>4. /\ revision'[m] = revision[m]
          /\ revision'[o] = NextRevision(o, revision[m])
          /\ \A c : NextRevision(o, c)' = NextRevision(o, c)
      BY <1>1, <2>1, <2>2 DEF NextRevision
    <2>5. revision'[o] = NextRevision(o, revision[local[o].ifMatch])'
      BY <1>1, <2>1, <2>2, <2>4 DEF NextRevision
    <2>6. OnceCurrent(m)' /\ \A u \in Ops : StillCurrent(u, o)' = StillCurrent(u, o)
      BY <1>0, <1>1, <2>2 DEF OnceCurrent, StillCurrent
    <2> QED
      BY <1>0, <1>1, <2>1, <2>2, <2>3, <2>4, <2>5, <2>6 DEF RequestInv, Revised, Persisting
  <1>4. CASE ReadAccess(o)
    <2> DEFINE u == lookup[local[o].name]
               t == target[o]
               seen == [c \in Consumers |->
                           IF u # None /\ c \in revision[local[o].control].acl
                           THEN access[u][c] ELSE "none"]
    <2>1. /\ pc'[o] = "ready" /\ target' = target /\ revision' = revision
          /\ local' = [local EXCEPT ![o].seen = seen]
          /\ t \in Ops /\ u \in OpOrNone
          /\ local[o].control = m /\ local[o].payload = revision[m].payload
          /\ revision[o] = NextRevision(o, revision[m])
          /\ revision[m].acl \subseteq Consumers
      BY <1>0, <1>1, <1>4 DEF ReadAccess, RequestIsAddressed, InFlight, Preparing, TableTypeOK,
                         RequestInv, Revised, OnceCurrent, ControlRevision
    <2> HIDE DEF seen
    <2>2. /\ local'[o].seen = seen /\ local'[o].control = m
          /\ local'[o].payload = local[o].payload
          /\ local'[o].ifMatch = m /\ local'[o].name = local[o].name
          /\ local'[o].request = local[o].request /\ local'[o].acl = local[o].acl
      BY <1>0, <2>1 DEF Locals
    <2>3. ASSUME StillCurrent(t, o) PROVE SeenReadable(o)' = revision[m].acl
      <3>0. /\ ReadyHead(t) /\ head[t].control = m /\ head[t].name = local[o].name
        BY <1>1, <2>1, <2>3 DEF StillCurrent, HeadInv
      <3>1. Readable(t) = revision[m].acl
        BY <3>0 DEF ReadyHead
      <3>2. SeenReadable(o)' = {c \in Consumers : seen[c] = "readable"}
        BY <2>2 DEF SeenReadable
      <3>3. CASE u = t
        BY <2>1, <3>0, <3>1, <3>2, <3>3, NoneAssumption DEF seen, Readable
      <3>4. CASE u # t
        <4>1. revision[m].acl = {}
          BY <3>0, <3>4 DEF ReadyHead
        <4> QED
          BY <2>1, <3>2, <4>1 DEF seen
      <3> QED
        BY <3>3, <3>4
    <2>4. OnceCurrent(m)' /\ \A v \in Ops : StillCurrent(v, o)' = StillCurrent(v, o)
      BY <1>0, <1>1, <2>2 DEF OnceCurrent, StillCurrent
    <2>5. NextRevision(o, revision[m])' = NextRevision(o, revision[m])
      BY <2>1, <2>2 DEF NextRevision
    <2>6. /\ StillCurrent(target[o], o)' = StillCurrent(t, o)
          /\ target'[o] = t /\ revision'[m] = revision[m] /\ revision'[o] = revision[o]
      BY <1>0, <2>1, <2>2 DEF StillCurrent
    <2>7. NextRevision(o, revision[local[o].ifMatch])' = revision'[o]
      BY <2>1, <2>2, <2>5, <2>6 DEF NextRevision
    <2> QED
      BY <1>0, <1>1, <2>1, <2>2, <2>3, <2>4, <2>6, <2>7 DEF RequestInv, Revised, Persisting
  <1> QED
    BY <1>2, <1>3, <1>4

\* The objects are written, and the request ends.
LEMMA StoreRequest ==
    ASSUME TypeOK, RecordsInv, RegistryInv, NEW o \in Ops,
           \/ PutControl(o) \/ PutPayload(o) \/ Extend(o)
           \/ RecordSuccess(o) \/ Abandon(o) \/ Expire(o)
    PROVE  RequestInv(o)'
  <1> USE DEF TypeOK, RequestTypeOK, RegistryInv
  <1>0. /\ head' = head /\ lookup' = lookup /\ access' = access /\ workflow' = workflow
        /\ objects \subseteq objects'
    BY LocalFrame
  <1>1. ASSUME pc[o] \in Persisting, pc'[o] \in Persisting, UNCHANGED <<target, revision, local>>,
               pc'[o] \in {"control", "stored", "extended"} => <<"control", o>> \in objects',
               pc'[o] \in {"stored", "extended"} /\ "payload" \in Writes(o)
                   => <<"payload", o>> \in objects'
        PROVE  RequestInv(o)'
    <2>1. /\ Writes(o)' = Writes(o) /\ SeenReadable(o)' = SeenReadable(o)
          /\ \A u \in Ops : StillCurrent(u, o)' = StillCurrent(u, o)
          /\ StillCurrent(target[o], o)' = StillCurrent(target[o], o)
          /\ NextRevision(o, revision[local[o].ifMatch])'
             = NextRevision(o, revision[local[o].ifMatch])
          /\ OnceCurrent(local[o].ifMatch)' = OnceCurrent(local[o].ifMatch)
      BY <1>0, <1>1 DEF Writes, SeenReadable, StillCurrent, NextRevision, OnceCurrent
    <2> QED
      BY <1>0, <1>1, <2>1 DEF RequestInv, Revised, Persisting, Preparing
  <1>2. CASE PutControl(o)
    BY <1>0, <1>1, <1>2 DEF PutControl, Persisting, RequestInv
  <1>3. CASE PutPayload(o)
    BY <1>0, <1>1, <1>3 DEF PutPayload, Persisting, RequestInv
  <1>4. CASE Extend(o)
    BY <1>0, <1>1, <1>4 DEF Extend, Persisting, RequestInv
  <1>5. CASE RecordSuccess(o) \/ Abandon(o)
    <2>1. pc'[o] \in {"done", "ended"} /\ (pc[o] \notin Preparing => target' = target)
      BY <1>5 DEF RecordSuccess, Abandon
    <2>2. pc[o] \in Preparing => workflow[<<"control", o>>] = "none"
      BY DEF RecordsInv, RecordInv, Kinds
    <2> QED
      BY <1>0, <2>1, <2>2 DEF RequestInv, Persisting, Preparing
  <1>6. CASE Expire(o)
    <2>1. /\ UNCHANGED <<pc, target, revision, local, objects>>
      BY <1>6 DEF Expire, requestVars, bucketVars
    <2>2. /\ Writes(o)' = Writes(o) /\ SeenReadable(o)' = SeenReadable(o)
          /\ \A u \in Ops : StillCurrent(u, o)' = StillCurrent(u, o)
          /\ StillCurrent(target[o], o)' = StillCurrent(target[o], o)
          /\ NextRevision(o, revision[local[o].ifMatch])'
             = NextRevision(o, revision[local[o].ifMatch])
          /\ OnceCurrent(local[o].ifMatch)' = OnceCurrent(local[o].ifMatch)
      BY <1>0, <2>1 DEF Writes, SeenReadable, StillCurrent, NextRevision, OnceCurrent
    <2> QED
      BY <1>0, <2>1, <2>2 DEF RequestInv
  <1> QED
    BY <1>2, <1>3, <1>4, <1>5, <1>6

LEMMA RegistryLocal ==
    ASSUME TypeOK, RecordsInv, RegistryInv, NEW o \in Ops,
           \/ Begin(o) \/ ResolveName(o) \/ ReadHead(o) \/ ReadAccess(o)
           \/ PutControl(o) \/ PutPayload(o) \/ Extend(o)
           \/ RecordSuccess(o) \/ Abandon(o) \/ Expire(o)
    PROVE  RegistryInv'
  <1>1. RequestInv(o)'
    BY BeginRequest, ReadRequest, StoreRequest
  <1> QED
    BY <1>1, LocalHeads DEF RegistryInv

-----------------------------------------------------------------------------
(* prepareMutation *)

\* Two heads that differ in their lease only.
SameSecret(g, h) ==
    /\ g.status = h.status /\ g.name = h.name /\ g.control = h.control
    /\ g.payload = h.payload /\ g.state = h.state /\ g.catalog = h.catalog

\* A create makes a head and takes a free name.
CreatesHead(o) ==
    /\ local[o].request = "create" /\ target[o] = o /\ local[o].name \in Names
    /\ head[o].status = "ABSENT"
    /\ head'[o].status = "PREPARED" /\ head'[o].name = local[o].name
    /\ head'[o].control = o /\ head'[o].lease = o /\ head'[o].catalog = "live"
    /\ \A u \in Ops \ {o} : head'[u] = head[u]
    /\ lookup[local[o].name] = None
    /\ lookup' = [lookup EXCEPT ![local[o].name] = o]

\* Every other request leases a head that is committed.
LeasesHead(o) ==
    /\ target[o] \in Ops
    /\ head[target[o]].status = "READY"
    /\ \A u \in Ops : SameSecret(head'[u], head[u])
    /\ \A u \in Ops \ {target[o]} : head'[u] = head[u]
    /\ lookup' = lookup

LEMMA PrepareStores ==
    ASSUME TypeOK, LeasesInv, RecordsInv, RegistryInv, NEW o \in Ops, Prepare(o)
    PROVE  /\ CreatesHead(o) \/ LeasesHead(o)
           /\ workflow[<<"control", o>>] = "none" /\ workflow'[<<"control", o>>] = "PREPARED"
           /\ \A p \in Ops \ {o} : workflow'[<<"control", p>>] = workflow[<<"control", p>>]
  <1> USE DEF TypeOK, TableTypeOK, RequestTypeOK, RegistryInv
  <1>1. /\ pc[o] = "ready" /\ target[o] \in Ops /\ local[o].name \in Names
        /\ workflow[<<"control", o>>] = "none"
    BY DEF Prepare, RequestIsAddressed, InFlight, Preparing, RecordsInv, RecordInv, Kinds
  <1>2. /\ workflow'[<<"control", o>>] = "PREPARED"
        /\ \A p \in Ops \ {o} : workflow'[<<"control", p>>] = workflow[<<"control", p>>]
    BY DEF Prepare, Revisions, Kinds, Writes
  <1>3. CASE PrepareCreate(o)
    <2>1. target[o] = o
      BY <1>1, <1>3 DEF PrepareCreate, LeasesInv, LeaseInv, InFlight, Preparing
    <2>2. /\ head'[o] = [NoHead EXCEPT !.status = "PREPARED", !.name = local[o].name,
                                       !.control = o, !.lease = o]
          /\ \A u \in Ops \ {o} : head'[u] = head[u]
          /\ local[o].request = "create" /\ head[o] = NoHead
          /\ lookup[local[o].name] = None
          /\ lookup' = [lookup EXCEPT ![local[o].name] = o]
      BY <1>3 DEF PrepareCreate
    <2>3. CreatesHead(o)
      BY <1>1, <2>1, <2>2, NoHeadFields DEF NoHead, CreatesHead
    <2> QED
      BY <1>1, <1>2, <2>3
  <1>4. CASE PrepareUpdate(o)
    <2> DEFINE t == target[o]
    <2>1. /\ OnceCurrent(local[o].ifMatch) /\ head[t].control = local[o].ifMatch
          /\ head' = [head EXCEPT ![t].lease = o] /\ lookup' = lookup
      BY <1>1, <1>4 DEF PrepareUpdate, RequestInv, Preparing
    <2>2. /\ head[t] \in [status : {"PREPARED", "READY"}, name : Names, control : Ops,
                     payload : OpOrNone, state : SecretStates,
                     catalog : {"live", "archived"}, lease : OpOrNone]
          /\ head[t].status \in {"PREPARED", "READY"}
      BY <1>1, <2>1, HeadFields, NoneAssumption DEF OnceCurrent
    <2>3. head[t].status = "READY"
      <3>1. ASSUME head[t].status = "PREPARED" PROVE FALSE
        <4>1. PreparedHead(t)
          BY <1>1, <3>1 DEF HeadInv
        <4> QED
          BY <2>1, <4>1 DEF PreparedHead, OnceCurrent
      <3> QED
        BY <2>2, <3>1
    <2>4. SameSecret(head'[t], head[t]) /\ \A u \in Ops \ {t} : head'[u] = head[u]
      BY <1>1, <2>1, <2>2 DEF SameSecret
    <2>5. \A u \in Ops : SameSecret(head'[u], head[u])
      BY <2>4 DEF SameSecret
    <2> QED
      BY <1>1, <1>2, <2>1, <2>3, <2>4, <2>5 DEF LeasesHead
  <1> QED
    BY <1>3, <1>4 DEF Prepare

LEMMA RegistryPrepare ==
    ASSUME TypeOK, LeasesInv, RecordsInv, RegistryInv, NEW o \in Ops, Prepare(o)
    PROVE  RegistryInv'
  <1> USE DEF RegistryInv
  <1>1. /\ CreatesHead(o) \/ LeasesHead(o)
        /\ workflow[<<"control", o>>] = "none" /\ workflow'[<<"control", o>>] = "PREPARED"
        /\ \A p \in Ops \ {o} : workflow'[<<"control", p>>] = workflow[<<"control", p>>]
    BY PrepareStores
  <1>2. /\ access' = access /\ objects' = objects /\ UNCHANGED <<target, revision, local>>
        /\ pc[o] = "ready" /\ pc'[o] = "prepared"
        /\ \A p \in Ops \ {o} : pc'[p] = pc[p]
        /\ target[o] \in Ops
    BY DEF Prepare, bucketVars, TypeOK, RequestTypeOK, RequestIsAddressed, InFlight, Preparing
  <1>3. \A c : OnceCurrent(c) => c # o /\ c \in Ops /\ OnceCurrent(c)'
    BY <1>1 DEF OnceCurrent
  <1>4. \A n \in Names, u \in Ops : lookup[n] = u => lookup'[n] = u
    BY <1>1, NoneAssumption DEF CreatesHead, LeasesHead, TypeOK, TableTypeOK
  <1>5. \A u \in Ops : /\ head[u].status = "READY" <=> head'[u].status = "READY"
                       /\ head[u].status = "READY" => SameSecret(head'[u], head[u])
    BY <1>1 DEF CreatesHead, LeasesHead, SameSecret
  <1>6. \A u \in Ops : head[u].status = "READY" => head[u].name \in Names
    BY HeadFields DEF TypeOK, TableTypeOK
  <1>7. ASSUME NEW u \in Ops PROVE HeadInv(u)'
    <2>1. ASSUME head'[u].status = "READY" PROVE ReadyHead(u)'
      <3>1. ReadyHead(u) /\ SameSecret(head'[u], head[u]) /\ head[u].name \in Names
        BY <1>5, <1>6, <2>1 DEF HeadInv
      <3> QED
        BY <1>2, <1>3, <1>4, <3>1 DEF ReadyHead, Readable, SameSecret
    <2>2. ASSUME head'[u].status = "PREPARED" PROVE PreparedHead(u)'
      <3>1. CASE u = o /\ CreatesHead(o)
        <4>1. head[o].status = "ABSENT" /\ Readable(o) = {}
          BY <3>1 DEF CreatesHead, HeadInv
        <4>2. /\ head'[o].name = local[o].name /\ local[o].name \in Names
              /\ head'[o].control = o /\ head'[o].lease = o
              /\ lookup' = [lookup EXCEPT ![local[o].name] = o]
              /\ local[o].request = "create"
          BY <3>1 DEF CreatesHead
        <4>3. lookup'[head'[o].name] = o
          BY <4>2 DEF TypeOK, TableTypeOK
        <4> QED
          BY <1>1, <1>2, <3>1, <4>1, <4>2, <4>3 DEF PreparedHead, Readable
      <3>2. CASE ~(u = o /\ CreatesHead(o))
        <4>1. head'[u] = head[u]
          BY <1>1, <1>5, <2>2, <3>2 DEF CreatesHead, LeasesHead, SameSecret
        <4>2. PreparedHead(u) /\ head[u].name \in Names
          BY <2>2, <4>1, HeadFields DEF HeadInv, TypeOK, TableTypeOK
        <4>3. u # o
          BY <1>1, <4>2 DEF PreparedHead
        <4> QED
          BY <1>1, <1>2, <1>4, <4>1, <4>2, <4>3 DEF PreparedHead, Readable
      <3> QED
        BY <3>1, <3>2
    <2>3. ASSUME head'[u].status = "ABSENT" PROVE Readable(u)' = {}
      <3>1. head[u].status = "ABSENT"
        BY <1>1, <2>3 DEF CreatesHead, LeasesHead, SameSecret
      <3> QED
        BY <1>2, <3>1 DEF HeadInv, Readable
    <2> QED
      BY <2>1, <2>2, <2>3 DEF HeadInv
  <1>8. ASSUME NEW n \in Names PROVE NameInv(n)'
    <2>1. CASE CreatesHead(o)
      <3>1. CASE n = local[o].name
        BY <2>1, <3>1 DEF CreatesHead, NameInv, TypeOK, TableTypeOK
      <3>2. CASE n # local[o].name
        <4>1. lookup'[n] = lookup[n] /\ lookup[n] \in OpOrNone
          BY <2>1, <3>2 DEF CreatesHead, TypeOK, TableTypeOK
        <4>2. lookup[n] # o
          BY <2>1, NoneAssumption DEF CreatesHead, NameInv
        <4> QED
          BY <2>1, <4>1, <4>2 DEF CreatesHead, NameInv, OpOrNone
      <3> QED
        BY <3>1, <3>2
    <2>2. CASE LeasesHead(o)
      <3>1. lookup' = lookup /\ lookup[n] \in OpOrNone
        BY <2>2 DEF LeasesHead, TypeOK, TableTypeOK
      <3> QED
        BY <2>2, <3>1 DEF LeasesHead, NameInv, SameSecret, OpOrNone
    <2> QED
      BY <1>1, <2>1, <2>2
  <1>9. ASSUME NEW p \in Ops PROVE RequestInv(p)'
    <2>1. \A u \in Ops : StillCurrent(u, p)' <=> StillCurrent(u, p)
      BY <1>2, <1>5 DEF StillCurrent, SameSecret
    <2>2. /\ Writes(p)' = Writes(p) /\ SeenReadable(p)' = SeenReadable(p)
          /\ \A c : NextRevision(p, c)' = NextRevision(p, c)
          /\ target'[p] = target[p] /\ revision' = revision /\ local'[p] = local[p]
      BY <1>2 DEF Writes, SeenReadable, NextRevision
    <2>3. pc[p] \in Preparing \cup Persisting /\ local[p].request # "create" =>
              /\ OnceCurrent(local[p].ifMatch)'
              /\ \A u \in Ops : StillCurrent(u, p)' =>
                    /\ head'[u].name = local[p].name
                    /\ local[p].request \notin AgentRequests => lookup'[head'[u].name] = u
      <3> SUFFICES ASSUME pc[p] \in Preparing \cup Persisting, local[p].request # "create"
                   PROVE  /\ OnceCurrent(local[p].ifMatch)'
                          /\ \A u \in Ops : StillCurrent(u, p)' =>
                                /\ head'[u].name = local[p].name
                                /\ local[p].request \notin AgentRequests
                                      => lookup'[head'[u].name] = u
        OBVIOUS
      <3>1. OnceCurrent(local[p].ifMatch) /\ OnceCurrent(local[p].ifMatch)'
        BY <1>2, <1>3, <2>2 DEF RequestInv, OnceCurrent
      <3>2. ASSUME NEW u \in Ops, StillCurrent(u, p)'
            PROVE  /\ head'[u].name = local[p].name
                   /\ local[p].request \notin AgentRequests => lookup'[head'[u].name] = u
        <4>1. /\ StillCurrent(u, p) /\ SameSecret(head'[u], head[u]) /\ head[u].name \in Names
          BY <1>5, <1>6, <2>1, <3>2 DEF StillCurrent
        <4>2. /\ head[u].name = local[p].name
              /\ local[p].request \notin AgentRequests => lookup[head[u].name] = u
          BY <4>1 DEF RequestInv
        <4> QED
          BY <1>4, <4>1, <4>2 DEF SameSecret
      <3> QED
        BY <3>1, <3>2
    <2>4. StillCurrent(target[p], p)' /\ target[p] \in Ops => StillCurrent(target[p], p)
      BY <1>2, <2>1
    <2>5. pc[p] \in {"ready"} \cup Persisting => target[p] \in Ops
      BY DEF TypeOK, RequestIsAddressed, InFlight, Preparing, Persisting
    <2>6. NextRevision(p, revision[local[p].ifMatch])' = NextRevision(p, revision[local[p].ifMatch])
      BY <1>2 DEF NextRevision
    <2>7. CASE p = o
      BY <1>2, <2>2, <2>3, <2>4, <2>5, <2>6, <2>7 DEF RequestInv, Revised, Preparing, Persisting
    <2>8. CASE p # o
      BY <1>1, <1>2, <2>2, <2>3, <2>4, <2>5, <2>6, <2>8 DEF RequestInv, Revised
    <2> QED
      BY <2>7, <2>8
  <1> QED
    BY <1>7, <1>8, <1>9

-----------------------------------------------------------------------------
(* completeMutation *)

\* A commit turns the head that its request leased, and no other, to its revision.
CommitsHead(o) ==
    LET t == target[o] IN
    /\ t \in Ops
    /\ head'[t].status = "READY" /\ head'[t].name = head[t].name
    /\ head'[t].control = o /\ head'[t].state = revision[o].state
    /\ head'[t].payload = revision[o].payload
    /\ local[o].request # "archive" => head'[t].catalog = "live"
    /\ \A u \in Ops \ {t} : head'[u] = head[u]

\* The head is the one the request prepared, or the revision it was based on is
\* still current.
CommitsFrom(o) ==
    LET t == target[o] IN
    \/ /\ local[o].request = "create" /\ t = o
       /\ head[t].status = "PREPARED" /\ head[t].name = local[o].name
    \/ /\ local[o].request # "create"
       /\ StillCurrent(t, o)

LEMMA CommitStart ==
    ASSUME TypeOK, LeasesInv, RecordsInv, RegistryInv, NEW o \in Ops, Complete(o)
    PROVE  /\ CommitsFrom(o) /\ target[o] \in Ops
           /\ workflow[<<"control", o>>] = "PREPARED" /\ workflow'[<<"control", o>>] = "READY"
           /\ \A p \in Ops \ {o} : workflow'[<<"control", p>>] = workflow[<<"control", p>>]
           /\ \A u \in Ops \ {target[o]} : head[u].status = "PREPARED" => u # o
  <1> USE DEF TypeOK, TableTypeOK, RequestTypeOK, RegistryInv
  <1> DEFINE t == target[o]
  <1>1. /\ pc[o] = "extended" /\ t \in Ops /\ head[t].lease = o
        /\ workflow[<<"control", o>>] = "PREPARED"
    BY DEF Complete, CommitConditions, Writes, RequestIsAddressed, InFlight, Persisting
  <1>2. /\ workflow'[<<"control", o>>] = "READY"
        /\ \A p \in Ops \ {o} : workflow'[<<"control", p>>] = workflow[<<"control", p>>]
    BY DEF Complete, Writes, Revisions, Kinds
  <1>3. head[t].status \in {"PREPARED", "READY"}
    BY <1>1, HeadFields, NoneAssumption
  <1>4. ASSUME NEW u \in Ops, head[u].status = "PREPARED", u = o
        PROVE  /\ local[o].request = "create" /\ t = o
               /\ head[t].status = "PREPARED" /\ head[t].name = local[o].name
    <2>1. PreparedHead(o)
      BY <1>4 DEF HeadInv
    <2>2. local[o].request = "create" /\ head[o].name = local[o].name
      BY <1>1, <2>1 DEF PreparedHead, Persisting
    <2>3. t = o
      BY <1>1, <2>2 DEF LeasesInv, LeaseInv, InFlight, Persisting
    <2> QED
      BY <1>4, <2>2, <2>3
  <1>5. CASE head[t].status = "PREPARED"
    <2>1. PreparedHead(t)
      BY <1>1, <1>5 DEF HeadInv
    <2>2. t = o
      BY <1>1, <2>1, NoneAssumption DEF PreparedHead
    <2> QED
      BY <1>1, <1>2, <1>4, <1>5, <2>2 DEF CommitsFrom
  <1>6. CASE head[t].status = "READY"
    <2>1. local[o].ifMatch = head[t].control
      BY <1>1, <1>6 DEF LeasesInv, LeaseInv, Persisting
    <2>2. ASSUME local[o].request = "create" PROVE FALSE
      <3>1. local[o].ifMatch = None
        BY <1>1, <2>2 DEF RequestInv, Persisting
      <3> QED
        BY <1>1, <1>6, <2>1, <3>1, HeadFields, NoneAssumption
    <2> QED
      BY <1>1, <1>2, <1>4, <1>6, <2>1, <2>2 DEF CommitsFrom, StillCurrent
  <1> QED
    BY <1>3, <1>5, <1>6

LEMMA CommitHead ==
    ASSUME TypeOK, LeasesInv, RecordsInv, RegistryInv, NEW o \in Ops, Complete(o)
    PROVE  CommitsHead(o)
  <1> USE DEF TypeOK, TableTypeOK, RequestTypeOK, RegistryInv
  <1> DEFINE t == target[o]
             m == local[o].ifMatch
  <1>1. /\ CommitsFrom(o) /\ t \in Ops /\ head[t].lease = o /\ pc[o] = "extended"
    BY CommitStart DEF Complete, CommitConditions
  <1>2. head' = [head EXCEPT ![t] = CommittedHead(o)]
    BY DEF Complete
  <1>3. head[t] \in [status : {"PREPARED", "READY"}, name : Names, control : Ops,
                     payload : OpOrNone, state : SecretStates,
                     catalog : {"live", "archived"}, lease : OpOrNone]
    BY <1>1, HeadFields, NoneAssumption
  <1>4. /\ CommittedHead(o).status = "READY" /\ CommittedHead(o).name = head[t].name
        /\ CommittedHead(o).control = o /\ CommittedHead(o).state = revision[o].state
        /\ CommittedHead(o).payload =
              IF "payload" \in Writes(o) THEN o ELSE local[o].payload
        /\ local[o].request # "archive" => CommittedHead(o).catalog = "live"
    BY <1>3 DEF CommittedHead
  <1>5. revision[o].payload = IF "payload" \in Writes(o) THEN o ELSE local[o].payload
    <2>1. CASE local[o].request = "create"
      BY <1>1, <2>1 DEF RequestInv, Persisting, Writes, PayloadRequests
    <2>2. CASE local[o].request # "create"
      <3>1. local[o].payload = revision[m].payload /\ revision[o] = NextRevision(o, revision[m])
        BY <1>1, <2>2 DEF RequestInv, Persisting, Revised
      <3> QED
        BY <3>1 DEF NextRevision, Writes
    <2> QED
      BY <2>1, <2>2
  <1> QED
    BY <1>1, <1>2, <1>4, <1>5 DEF CommitsHead

\* The rows are replaced only if the set of readers changes, but what they are
\* replaced with, or left at, is the ACL of the new revision.
LEMMA CommitReaders ==
    ASSUME TypeOK, LeasesInv, RecordsInv, RegistryInv, NEW o \in Ops, Complete(o)
    PROVE  /\ Readable(target[o])' = revision[o].acl
           /\ \A u \in Ops \ {target[o]} : Readable(u)' = Readable(u)
  <1> USE DEF TypeOK, TableTypeOK, RequestTypeOK, RegistryInv
  <1> DEFINE t == target[o]
             m == local[o].ifMatch
  <1>1. /\ CommitsFrom(o) /\ t \in Ops /\ pc[o] = "extended" /\ target' = target
        /\ revision[o].acl \subseteq Consumers
        /\ access' = IF AccessChanged(o) THEN [access EXCEPT ![t] = AccessItems(o)] ELSE access
    BY CommitStart DEF Complete, ControlRevision
  <1>2. Readable(t) = SeenReadable(o)
    <2>1. CASE local[o].request = "create"
      <3>1. head[t].status = "PREPARED" /\ SeenReadable(o) = {}
        BY <1>1, <2>1 DEF CommitsFrom, RequestInv, Persisting
      <3>2. PreparedHead(t)
        BY <1>1, <3>1 DEF HeadInv
      <3> QED
        BY <3>1, <3>2 DEF PreparedHead
    <2>2. CASE local[o].request # "create"
      <3>1. StillCurrent(t, o) /\ SeenReadable(o) = revision[m].acl
        BY <1>1, <2>2 DEF CommitsFrom, RequestInv, Persisting
      <3>2. ReadyHead(t) /\ head[t].control = m
        BY <1>1, <3>1 DEF HeadInv, StillCurrent
      <3> QED
        BY <3>1, <3>2 DEF ReadyHead
    <2> QED
      BY <2>1, <2>2
  <1>3. AccessChanged(o) <=> revision[o].acl # SeenReadable(o)
    BY DEF AccessChanged, SeenReadable
  <1>4. CASE AccessChanged(o)
    <2>1. access'[t] = AccessItems(o) /\ \A u \in Ops \ {t} : access'[u] = access[u]
      BY <1>1, <1>4
    <2>2. \A c \in Consumers : AccessItems(o)[c] = "readable" <=> c \in revision[o].acl
      <3> TAKE c \in Consumers
      <3>1. AccessItems(o)[c] =
              IF c \in revision[o].acl THEN "readable"
              ELSE IF local[o].seen[c] # "none" THEN "revoked" ELSE access[t][c]
        BY DEF AccessItems
      <3>2. access[t][c] = "readable" => local[o].seen[c] = "readable"
        BY <1>2 DEF Readable, SeenReadable
      <3> QED
        BY <3>1, <3>2
    <2> QED
      BY <1>1, <2>1, <2>2 DEF Readable
  <1>5. CASE ~AccessChanged(o)
    <2>1. access' = access
      BY <1>1, <1>5
    <2> QED
      BY <1>1, <1>2, <1>3, <1>5, <2>1 DEF Readable
  <1> QED
    BY <1>4, <1>5

\* Only an archive gives a name up, its own.
LEMMA CommitNames ==
    ASSUME TypeOK, LeasesInv, RecordsInv, RegistryInv, NEW o \in Ops, Complete(o)
    PROVE  /\ local[o].request # "archive" => lookup' = lookup
           /\ local[o].request = "archive" =>
                 /\ local[o].name \in Names /\ lookup[local[o].name] = target[o]
                 /\ head[target[o]].name = local[o].name
                 /\ lookup' = [lookup EXCEPT ![local[o].name] = None]
           /\ \A n \in Names, u \in Ops \ {target[o]} : lookup[n] = u => lookup'[n] = u
  <1> USE DEF TypeOK, TableTypeOK, RegistryInv
  <1>1. local[o].name \in Names /\ target[o] \in Ops
    BY DEF Complete, RequestIsAddressed, InFlight, Persisting
  <1>2. CASE local[o].request = "archive"
    <2>1. /\ lookup[local[o].name] = target[o]
          /\ lookup' = [lookup EXCEPT ![local[o].name] = None]
      BY <1>2 DEF Complete, ReleaseName
    <2>2. head[target[o]].name = local[o].name
      BY <1>1, <2>1, NoneAssumption DEF NameInv
    <2> QED
      BY <1>1, <1>2, <2>1, <2>2
  <1>3. CASE local[o].request # "archive"
    BY <1>3 DEF Complete, ReleaseName
  <1> QED
    BY <1>2, <1>3

LEMMA RegistryComplete ==
    ASSUME TypeOK, LeasesInv, RecordsInv, RegistryInv, NEW o \in Ops, Complete(o)
    PROVE  RegistryInv'
  <1> USE DEF RegistryInv
  <1> DEFINE t == target[o]
             m == local[o].ifMatch
  <1>1. /\ CommitsFrom(o) /\ t \in Ops
        /\ workflow[<<"control", o>>] = "PREPARED" /\ workflow'[<<"control", o>>] = "READY"
        /\ \A p \in Ops \ {o} : workflow'[<<"control", p>>] = workflow[<<"control", p>>]
        /\ \A u \in Ops \ {t} : head[u].status = "PREPARED" => u # o
    BY CommitStart
  <1>2. /\ CommitsHead(o)
        /\ Readable(t)' = revision[o].acl
        /\ \A u \in Ops \ {t} : Readable(u)' = Readable(u)
        /\ \A n \in Names, u \in Ops \ {t} : lookup[n] = u => lookup'[n] = u
    BY CommitHead, CommitReaders, CommitNames
  <1>3. /\ objects' = objects /\ UNCHANGED <<target, revision, local>>
        /\ pc[o] = "extended" /\ pc'[o] = "committed"
        /\ \A p \in Ops \ {o} : pc'[p] = pc[p]
    BY DEF Complete, bucketVars, TypeOK, RequestTypeOK
  <1>4. \A c : OnceCurrent(c) => c # o /\ c \in Ops /\ OnceCurrent(c)'
    BY <1>1 DEF OnceCurrent
  <1>5. \A u \in Ops : head[u].status \in {"READY", "PREPARED"} => head[u].name \in Names
    BY HeadFields DEF TypeOK, TableTypeOK
  <1>6. ReadyHead(t)'
    <2>1. /\ head'[t].control = o /\ target'[o] = t /\ OnceCurrent(o)'
          /\ revision'[o] = revision[o] /\ head'[t].name = head[t].name
          /\ head'[t].state = revision[o].state /\ head'[t].payload = revision[o].payload
      BY <1>1, <1>2, <1>3 DEF CommitsHead, OnceCurrent
    <2>2. <<"control", o>> \in objects
      BY <1>3 DEF RequestInv
    <2>3. /\ revision[o].payload # None => <<"payload", revision[o].payload>> \in objects
          /\ revision[o].state = "ACTIVE" => revision[o].payload # None
          /\ lookup'[head[t].name] = t \/ revision[o].acl = {}
      <3>1. CASE local[o].request = "create"
        <4>1. revision[o].payload = None /\ revision[o].state = "PENDING_VALUE"
          BY <1>3, <3>1 DEF RequestInv, Persisting
        <4>2. PreparedHead(t) /\ lookup' = lookup
          BY <1>1, <3>1, CommitNames DEF CommitsFrom, HeadInv
        <4> QED
          BY <4>1, <4>2 DEF PreparedHead
      <3>2. CASE local[o].request # "create"
        <4>1. /\ StillCurrent(t, o) /\ revision[o] = NextRevision(o, revision[m])
              /\ local[o].request \notin AgentRequests => lookup[head[t].name] = t
          BY <1>1, <1>3, <3>2 DEF CommitsFrom, RequestInv, Persisting, Revised
        <4>2. ReadyHead(t) /\ head[t].control = m
          BY <1>1, <4>1 DEF HeadInv, StillCurrent
        <4>3. /\ revision[m].payload # None => <<"payload", revision[m].payload>> \in objects
              /\ revision[m].state = "ACTIVE" => revision[m].payload # None
              /\ lookup[head[t].name] = t \/ revision[m].acl = {}
          BY <4>2 DEF ReadyHead
        <4>4. "payload" \in Writes(o) => <<"payload", o>> \in objects
          BY <1>3 DEF RequestInv
        <4>5. revision[o].payload # None => <<"payload", revision[o].payload>> \in objects
          BY <4>1, <4>3, <4>4 DEF NextRevision, Writes
        <4>6. revision[o].state = "ACTIVE" => revision[o].payload # None
          BY <4>1, <4>3, NoneAssumption DEF NextRevision
        <4>7. CASE local[o].request = "archive"
          BY <4>1, <4>5, <4>6, <4>7 DEF NextRevision
        <4>8. CASE local[o].request # "archive"
          <5>1. lookup' = lookup
            BY <4>8, CommitNames
          <5>2. local[o].request \in AgentRequests => revision[o].acl = revision[m].acl
            BY <4>1, <4>8 DEF NextRevision, AgentRequests
          <5> QED
            BY <4>1, <4>3, <4>5, <4>6, <5>1, <5>2
        <4> QED
          BY <4>7, <4>8
      <3> QED
        BY <3>1, <3>2
    <2> QED
      BY <1>2, <1>3, <2>1, <2>2, <2>3 DEF ReadyHead
  <1>7. ASSUME NEW u \in Ops PROVE HeadInv(u)'
    <2>1. CASE u = t
      BY <1>2, <1>3, <1>6, <2>1 DEF HeadInv, CommitsHead
    <2>2. CASE u # t
      <3>1. head'[u] = head[u] /\ Readable(u)' = Readable(u)
        BY <1>2, <2>2 DEF CommitsHead
      <3>2. ASSUME head[u].status = "READY" PROVE ReadyHead(u)'
        <4>1. ReadyHead(u) /\ head[u].name \in Names
          BY <1>5, <3>2 DEF HeadInv
        <4> QED
          BY <1>2, <1>3, <1>4, <2>2, <3>1, <4>1 DEF ReadyHead
      <3>3. ASSUME head[u].status = "PREPARED" PROVE PreparedHead(u)'
        <4>1. PreparedHead(u) /\ head[u].name \in Names /\ u # o
          BY <1>1, <1>5, <2>2, <3>3 DEF HeadInv
        <4> QED
          BY <1>1, <1>2, <1>3, <2>2, <3>1, <4>1 DEF PreparedHead
      <3> QED
        BY <3>1, <3>2, <3>3 DEF HeadInv
    <2> QED
      BY <2>1, <2>2
  <1>8. ASSUME NEW n \in Names PROVE NameInv(n)'
    <2> SUFFICES ASSUME lookup'[n] # None
                 PROVE  LET h == head'[lookup'[n]] IN
                        h.status # "ABSENT" /\ h.name = n /\ h.catalog = "live"
      BY DEF NameInv
    <2>1. lookup'[n] = lookup[n] /\ lookup[n] \in Ops
      BY CommitNames DEF TypeOK, TableTypeOK, OpOrNone
    <2>2. head[lookup[n]].status # "ABSENT" /\ head[lookup[n]].name = n
          /\ head[lookup[n]].catalog = "live"
      BY <2>1, NoneAssumption DEF NameInv
    <2>3. CASE lookup[n] = t
      <3>1. local[o].request # "archive"
        BY <2>1, <2>2, <2>3, CommitNames, NoneAssumption DEF TypeOK, TableTypeOK
      <3> QED
        BY <1>2, <2>1, <2>2, <2>3, <3>1 DEF CommitsHead
    <2>4. CASE lookup[n] # t
      BY <1>2, <2>1, <2>2, <2>4 DEF CommitsHead
    <2> QED
      BY <2>3, <2>4
  <1>9. RequestInv(o)'
    BY <1>1, <1>3 DEF RequestInv, Preparing, Persisting
  <1>10. ASSUME NEW p \in Ops \ {o} PROVE RequestInv(p)'
    <2>1. /\ Writes(p)' = Writes(p) /\ SeenReadable(p)' = SeenReadable(p)
          /\ NextRevision(p, revision[local[p].ifMatch])'
             = NextRevision(p, revision[local[p].ifMatch])
          /\ target'[p] = target[p] /\ revision' = revision /\ local'[p] = local[p]
      BY <1>3 DEF Writes, SeenReadable, NextRevision
    <2>2. ASSUME pc[p] \in Preparing \cup Persisting, local[p].request # "create"
          PROVE  /\ OnceCurrent(local[p].ifMatch)'
                 /\ \A u \in Ops : StillCurrent(u, p)' =>
                       /\ StillCurrent(u, p) /\ head'[u].name = local[p].name
                       /\ local[p].request \notin AgentRequests => lookup'[head'[u].name] = u
      <3>1. /\ OnceCurrent(local[p].ifMatch) /\ OnceCurrent(local[p].ifMatch)'
            /\ local[p].ifMatch # o
        BY <1>3, <1>4, <2>2 DEF RequestInv, OnceCurrent
      <3>2. ASSUME NEW u \in Ops, StillCurrent(u, p)'
            PROVE  /\ StillCurrent(u, p) /\ head'[u].name = local[p].name
                   /\ local[p].request \notin AgentRequests => lookup'[head'[u].name] = u
        <4>1. u # t
          BY <1>2, <1>3, <3>1, <3>2 DEF StillCurrent, CommitsHead
        <4>2. head'[u] = head[u] /\ StillCurrent(u, p) /\ head[u].name \in Names
          BY <1>2, <1>3, <1>5, <3>2, <4>1 DEF StillCurrent, CommitsHead
        <4>3. /\ head[u].name = local[p].name
              /\ local[p].request \notin AgentRequests => lookup[head[u].name] = u
          BY <2>2, <4>2 DEF RequestInv
        <4> QED
          BY <1>2, <4>1, <4>2, <4>3
      <3> QED
        BY <3>1, <3>2
    <2>3. pc[p] \in {"ready"} \cup Persisting => target[p] \in Ops
      BY DEF TypeOK, RequestIsAddressed, InFlight, Preparing, Persisting
    <2>4. pc[p] \in {"ready"} \cup Persisting /\ local[p].request # "create"
              /\ StillCurrent(target[p], p)' => StillCurrent(target[p], p)
      BY <2>1, <2>2, <2>3 DEF Preparing
    <2> QED
      BY <1>1, <1>3, <2>1, <2>2, <2>4 DEF RequestInv, Revised
  <1> QED
    BY <1>7, <1>8, <1>9, <1>10

-----------------------------------------------------------------------------
(* Recovery *)

\* Steps that move nothing but leases and workflow records that are not READY.
LEMMA RegistryQuiet ==
    ASSUME TypeOK, RegistryInv,
           UNCHANGED <<lookup, access, objects, pc, target, revision, local>>,
           \A u \in Ops : SameSecret(head'[u], head[u]) /\ head'[u].lease \in {head[u].lease, None},
           \A o \in Ops :
               LET w == workflow[<<"control", o>>]
                   v == workflow'[<<"control", o>>] IN
               v = w \/ (w = "PREPARED" /\ v = "RETRYABLE")
    PROVE  RegistryInv'
  <1> USE DEF RegistryInv
  <1>1. ASSUME NEW u \in Ops PROVE HeadInv(u)'
    <2>1. ASSUME head[u].status = "READY" PROVE ReadyHead(u)'
      <3>1. ReadyHead(u) /\ SameSecret(head'[u], head[u])
        BY <2>1 DEF HeadInv
      <3>2. OnceCurrent(head[u].control) => OnceCurrent(head[u].control)'
        BY <3>1 DEF OnceCurrent, SameSecret
      <3> QED
        BY <3>1, <3>2 DEF ReadyHead, Readable, SameSecret
    <2>2. ASSUME head[u].status = "PREPARED" PROVE PreparedHead(u)'
      <3>1. PreparedHead(u)
        BY <2>2 DEF HeadInv
      <3> QED
        BY <3>1 DEF PreparedHead, Readable, SameSecret
    <2> QED
      BY <2>1, <2>2 DEF HeadInv, Readable, SameSecret
  <1>2. ASSUME NEW n \in Names PROVE NameInv(n)'
    BY NoneAssumption DEF NameInv, SameSecret, TypeOK, TableTypeOK, OpOrNone
  <1>3. ASSUME NEW p \in Ops PROVE RequestInv(p)'
    <2>1. /\ \A u \in Ops : StillCurrent(u, p)' <=> StillCurrent(u, p)
          /\ Writes(p)' = Writes(p) /\ SeenReadable(p)' = SeenReadable(p)
          /\ NextRevision(p, revision[local[p].ifMatch])'
             = NextRevision(p, revision[local[p].ifMatch])
          /\ OnceCurrent(local[p].ifMatch) => OnceCurrent(local[p].ifMatch)'
      BY DEF StillCurrent, SameSecret, Writes, SeenReadable, NextRevision, OnceCurrent
    <2>2. pc[p] \in {"ready"} \cup Persisting => target[p] \in Ops
      BY DEF TypeOK, RequestIsAddressed, InFlight, Preparing, Persisting
    <2>3. pc[p] \in {"ready"} \cup Persisting =>
              (StillCurrent(target[p], p)' <=> StillCurrent(target[p], p))
      BY <2>1, <2>2
    <2>4. \A u \in Ops : head'[u].name = head[u].name
      BY DEF SameSecret
    <2> QED
      BY <2>1, <2>3, <2>4 DEF RequestInv
  <1> QED
    BY <1>1, <1>2, <1>3

\* Recovery takes back a create: its head, and the name it held.
LEMMA RegistryAbort ==
    ASSUME TypeOK, RegistryInv, NEW t \in Ops, head[t].status = "PREPARED",
           UNCHANGED <<access, workflow, objects, pc, target, revision, local>>,
           head' = [head EXCEPT ![t] = NoHead],
           lookup' = [lookup EXCEPT ![head[t].name] = None]
    PROVE  RegistryInv'
  <1> USE DEF RegistryInv
  <1>1. PreparedHead(t) /\ head[t].name \in Names
    BY HeadFields DEF HeadInv, TypeOK, TableTypeOK
  <1>2. head'[t].status = "ABSENT" /\ \A u \in Ops \ {t} : head'[u] = head[u]
    BY NoHeadFields DEF TypeOK, TableTypeOK
  <1>3. /\ \A n \in Names, u \in Ops \ {t} : lookup[n] = u => lookup'[n] = u
        /\ \A n \in Names \ {head[t].name} : lookup'[n] = lookup[n]
        /\ lookup'[head[t].name] = None
    BY <1>1 DEF PreparedHead, TypeOK, TableTypeOK
  <1>4. \A c : OnceCurrent(c)' <=> OnceCurrent(c)
    BY DEF OnceCurrent
  <1>5. \A u \in Ops : head[u].status \in {"READY", "PREPARED"} => head[u].name \in Names
    BY HeadFields DEF TypeOK, TableTypeOK
  <1>6. ASSUME NEW u \in Ops PROVE HeadInv(u)'
    <2>1. CASE u = t
      BY <1>1, <1>2, <2>1 DEF HeadInv, PreparedHead, Readable
    <2>2. CASE u # t
      <3>1. head'[u] = head[u] /\ Readable(u)' = Readable(u)
        BY <1>2, <2>2 DEF Readable
      <3>2. ASSUME head[u].status = "READY" PROVE ReadyHead(u)'
        <4>1. ReadyHead(u) /\ head[u].name \in Names
          BY <1>5, <3>2 DEF HeadInv
        <4>2. OnceCurrent(head[u].control) => OnceCurrent(head[u].control)'
          BY <3>1 DEF OnceCurrent
        <4> QED
          BY <1>3, <2>2, <3>1, <4>1, <4>2 DEF ReadyHead
      <3>3. ASSUME head[u].status = "PREPARED" PROVE PreparedHead(u)'
        <4>1. PreparedHead(u) /\ head[u].name \in Names
          BY <1>5, <3>3 DEF HeadInv
        <4> QED
          BY <1>3, <2>2, <3>1, <4>1 DEF PreparedHead
      <3> QED
        BY <3>1, <3>2, <3>3 DEF HeadInv
    <2> QED
      BY <2>1, <2>2
  <1>7. ASSUME NEW n \in Names PROVE NameInv(n)'
    <2>1. CASE n = head[t].name
      BY <1>3, <2>1 DEF NameInv
    <2>2. CASE n # head[t].name
      <3>1. lookup'[n] = lookup[n] /\ lookup[n] \in OpOrNone
        BY <1>3, <2>2 DEF TypeOK, TableTypeOK
      <3>2. lookup[n] # t
        BY <2>2, NoneAssumption DEF NameInv
      <3> QED
        BY <1>2, <3>1, <3>2 DEF NameInv, OpOrNone
    <2> QED
      BY <2>1, <2>2
  <1>8. ASSUME NEW p \in Ops PROVE RequestInv(p)'
    <2>1. /\ Writes(p)' = Writes(p) /\ SeenReadable(p)' = SeenReadable(p)
          /\ NextRevision(p, revision[local[p].ifMatch])'
             = NextRevision(p, revision[local[p].ifMatch])
          /\ OnceCurrent(local[p].ifMatch) => OnceCurrent(local[p].ifMatch)'
      BY DEF Writes, SeenReadable, NextRevision, OnceCurrent
    <2>2. ASSUME NEW u \in Ops, StillCurrent(u, p)'
          PROVE  /\ StillCurrent(u, p) /\ head'[u].name = head[u].name
                 /\ lookup[head[u].name] = u => lookup'[head[u].name] = u
      <3>1. u # t /\ head'[u] = head[u]
        BY <1>2, <2>2 DEF StillCurrent
      <3> QED
        BY <1>3, <1>5, <2>2, <3>1 DEF StillCurrent
    <2>3. pc[p] \in {"ready"} \cup Persisting => target[p] \in Ops
      BY DEF TypeOK, RequestIsAddressed, InFlight, Preparing, Persisting
    <2>4. pc[p] \in {"ready"} \cup Persisting /\ StillCurrent(target[p], p)'
              => StillCurrent(target[p], p)
      BY <2>2, <2>3
    <2> QED
      BY <2>1, <2>2, <2>4 DEF RequestInv
  <1> QED
    BY <1>6, <1>7, <1>8

\* What recovery does, as far as heads and names are concerned.
LEMMA RecoveryMoves ==
    ASSUME TypeOK, RecordsInv, EvidenceInv, RegistryInv, RecoveryStep \/ RecoveryStop
    PROVE  /\ UNCHANGED <<access, objects, pc, target, revision, local>>
           /\ \/ /\ lookup' = lookup
                 /\ \A u \in Ops : SameSecret(head'[u], head[u])
                                   /\ head'[u].lease \in {head[u].lease, None}
                 /\ \A o \in Ops : LET w == workflow[<<"control", o>>]
                                       v == workflow'[<<"control", o>>] IN
                                   v = w \/ (w = "PREPARED" /\ v = "RETRYABLE")
              \/ \E t \in Ops :
                    /\ head[t].status = "PREPARED" /\ lookup[head[t].name] = t
                    /\ workflow' = workflow
                    /\ head' = [head EXCEPT ![t] = NoHead]
                    /\ lookup' = [lookup EXCEPT ![head[t].name] = None]
  <1> USE DEF TypeOK, TableTypeOK
  <1>1. UNCHANGED <<access, objects, pc, target, revision, local>>
    BY DEF RecoveryStep, RecoveryStop, RecoveryList, RecoveryFinish, RecoveryTake,
           RecoveryMark, RecoveryReadHead, RecoveryAbort, RecoveryRelease, RecoveryAudit,
           tableVars, bucketVars, requestVars
  <1>2. ASSUME head' = head
        PROVE  \A u \in Ops : SameSecret(head'[u], head[u])
                              /\ head'[u].lease \in {head[u].lease, None}
    BY <1>2 DEF SameSecret
  <1>3. CASE head' = head /\ lookup' = lookup /\ workflow' = workflow
    BY <1>1, <1>2, <1>3
  <1>4. ASSUME NEW o \in Ops, NEW k \in Kinds, RecoveryMark(o, k)
        PROVE  /\ head' = head /\ lookup' = lookup
               /\ \A p \in Ops : LET w == workflow[<<"control", p>>]
                                     v == workflow'[<<"control", p>>] IN
                                 v = w \/ (w = "PREPARED" /\ v = "RETRYABLE")
    BY <1>4 DEF RecoveryMark, Revisions, Kinds
  <1>5. ASSUME NEW o \in Ops, RecoveryAbort(o) \/ RecoveryRelease(o) PROVE target[o] \in Ops
    <2>1. GivenUp(o)
      BY <1>5 DEF RecoveryAbort, RecoveryRelease, EvidenceInv
    <2>2. workflow[<<"control", o>>] # "none"
      BY <2>1, GivenUpIsUncommitted DEF Uncommitted
    <2> QED
      BY <2>2 DEF RegistryInv, RequestInv
  <1>6. ASSUME NEW o \in Ops, RecoveryAbort(o)
        PROVE  \/ head' = head /\ lookup' = lookup /\ workflow' = workflow
               \/ \E t \in Ops :
                    /\ head[t].status = "PREPARED" /\ lookup[head[t].name] = t
                    /\ workflow' = workflow
                    /\ head' = [head EXCEPT ![t] = NoHead]
                    /\ lookup' = [lookup EXCEPT ![head[t].name] = None]
    BY <1>5, <1>6 DEF RecoveryAbort, StillPreparedCreate
  <1>7. ASSUME NEW o \in Ops, RecoveryRelease(o)
        PROVE  /\ lookup' = lookup /\ workflow' = workflow
               /\ \A u \in Ops : SameSecret(head'[u], head[u])
                                 /\ head'[u].lease \in {head[u].lease, None}
    <2> DEFINE t == target[o]
    <2>1. t \in Ops /\ lookup' = lookup /\ workflow' = workflow
      BY <1>5, <1>7 DEF RecoveryRelease
    <2>2. CASE head[t].lease = o
      <3>1. head[t] \in [status : {"PREPARED", "READY"}, name : Names, control : Ops,
                     payload : OpOrNone, state : SecretStates,
                     catalog : {"live", "archived"}, lease : OpOrNone]
        BY <2>1, <2>2, HeadFields, NoneAssumption
      <3>2. head' = [head EXCEPT ![t].lease = None]
        BY <1>7, <2>2 DEF RecoveryRelease
      <3>3. SameSecret(head'[t], head[t]) /\ head'[t].lease = None
        BY <2>1, <3>1, <3>2 DEF SameSecret
      <3>4. \A u \in Ops \ {t} : head'[u] = head[u]
        BY <3>2
      <3>5. ASSUME NEW u \in Ops PROVE SameSecret(head'[u], head[u])
                                      /\ head'[u].lease \in {head[u].lease, None}
        BY <3>3, <3>4 DEF SameSecret
      <3> QED
        BY <2>1, <3>5
    <2>3. CASE head[t].lease # o
      BY <1>2, <1>7, <2>1, <2>3 DEF RecoveryRelease
    <2> QED
      BY <2>2, <2>3
  <1> QED
    BY <1>1, <1>2, <1>3, <1>4, <1>6, <1>7
       DEF RecoveryStep, RecoveryStop, RecoveryList, RecoveryFinish, RecoveryTake,
           RecoveryReadHead, RecoveryAudit, tableVars

LEMMA RegistryStep ==
    TypeOK /\ LeasesInv /\ RecordsInv /\ EvidenceInv /\ RegistryInv /\ [Next]_vars
    => RegistryInv'
  <1> SUFFICES ASSUME TypeOK, LeasesInv, RecordsInv, EvidenceInv, RegistryInv, [Next]_vars
               PROVE  RegistryInv'
    OBVIOUS
  <1>1. CASE \E o \in Ops : Mutate(o) \/ Expire(o)
    BY <1>1, RegistryLocal, RegistryPrepare, RegistryComplete DEF Mutate
  <1>2. CASE RecoveryStep \/ RecoveryStop
    <2>1. \A t \in Ops : head[t].status = "PREPARED" /\ lookup[head[t].name] = t
              /\ UNCHANGED <<access, workflow, objects, pc, target, revision, local>>
              /\ head' = [head EXCEPT ![t] = NoHead]
              /\ lookup' = [lookup EXCEPT ![head[t].name] = None] => RegistryInv'
      BY RegistryAbort
    <2> QED
      BY <1>2, <2>1, RecoveryMoves, RegistryQuiet
  <1>3. CASE UNCHANGED vars
    <2>1. UNCHANGED <<lookup, access, objects, pc, target, revision, local, head, workflow>>
      BY <1>3 DEF vars, tableVars, bucketVars, requestVars
    <2>2. \A u \in Ops : SameSecret(head'[u], head[u]) /\ head'[u].lease \in {head[u].lease, None}
      BY <2>1 DEF SameSecret
    <2> QED
      BY <2>1, <2>2, RegistryQuiet
  <1> QED
    BY <1>1, <1>2, <1>3 DEF Next

\* The records of the registry hold in every state that can be reached.
LEMMA RegistryInvariant == Spec => [](LeasesInv /\ RecordsInv /\ EvidenceInv /\ RegistryInv)
  <1> DEFINE I == LeasesInv /\ RecordsInv /\ EvidenceInv /\ RegistryInv
  <1>1. Init => I
    BY TypeInit, LeaseInit, RecordInit, RegistryInit DEF Init, EvidenceInv, NoPass
  <1>2. TypeOK /\ I /\ [Next]_vars => I'
    BY LeaseStep, RecordStep, EvidenceStep, RegistryStep
  <1> QED
    BY <1>1, <1>2, TypeCorrectness, PTL DEF Spec

\* A committed head, the control revision and the payload it points at agree, and both
\* objects exist, in every state and not only after the steps that wrote them.
THEOREM HeadsMatchTheirRevisions == Spec => []HeadMatchesRevision
  <1>1. RegistryInv => HeadMatchesRevision
    BY DEF RegistryInv, HeadInv, ReadyHead, HeadMatchesRevision
  <1> QED
    BY <1>1, RegistryInvariant, PTL

\* No create, archive, abort or late request takes a name from the secret it reaches.
THEOREM NamesAreKept == Spec => []NamesReachTheirSecret
  <1>1. RegistryInv => NamesReachTheirSecret
    BY DEF RegistryInv, HeadInv, PreparedHead, NameInv, NamesReachTheirSecret
  <1> QED
    BY <1>1, RegistryInvariant, PTL

-----------------------------------------------------------------------------
(* The delivery rows, whoever writes *)

LEMMA HeadStatus == TypeOK => \A u \in Ops : head[u].status \in {"READY", "PREPARED", "ABSENT"}
  BY NoHeadFields DEF TypeOK, TableTypeOK, HeadRecord

\* The consumers a secret's rows let read it are those of the ACL in its current
\* revision, for administrators' and agents' writes alike.
THEOREM ReadersFollowTheAcl == Spec => []AccessMatchesAcl
  <1>1. TypeOK /\ RegistryInv => AccessMatchesAcl
    BY HeadStatus DEF RegistryInv, HeadInv, ReadyHead, PreparedHead, Readable, AccessMatchesAcl
  <1> QED
    BY <1>1, TypeCorrectness, RegistryInvariant, PTL

\* Nobody reads a secret that its name does not reach: an archive takes the readers
\* away for good, and an agent that writes the archived secret by its UID does not
\* bring them back.
THEOREM UnreachedSecretsAreUnread == Spec => []UnreachedIsUnread
  <1>1. TypeOK /\ RegistryInv => UnreachedIsUnread
    <2> SUFFICES ASSUME TypeOK, RegistryInv, NEW u \in Ops, head[u].status # "ABSENT",
                        lookup[head[u].name] # u
                 PROVE  Readable(u) = {}
      BY DEF UnreachedIsUnread, Readable
    <2>1. CASE head[u].status = "READY"
      BY <2>1 DEF RegistryInv, HeadInv, ReadyHead
    <2>2. CASE head[u].status = "PREPARED"
      BY <2>2 DEF RegistryInv, HeadInv, PreparedHead
    <2> QED
      BY <2>1, <2>2, HeadStatus
  <1> QED
    BY <1>1, TypeCorrectness, RegistryInvariant, PTL

-----------------------------------------------------------------------------
(* The refinement of SecretRegistry *)

CurrentOf(u) == IF head[u].status = "READY" THEN head[u].control ELSE None
ContentOf(u) == IF head[u].status = "READY" THEN revision[head[u].control] ELSE NoRevision
BoundOf(n) == IF lookup[n] # None /\ head[lookup[n]].status = "READY" THEN lookup[n] ELSE None

LEMMA RegistryStutters ==
    ASSUME \A u \in Ops : /\ CurrentOf(u)' = CurrentOf(u) /\ ContentOf(u)' = ContentOf(u)
                          /\ Readable(u)' = Readable(u),
           \A n \in Names : BoundOf(n)' = BoundOf(n),
           Committed' = Committed
    PROVE  UNCHANGED Promised!vars
  BY DEF Promised!vars, CurrentOf, ContentOf, Readable, BoundOf

\* Until it commits, nothing a request does shows.
LEMMA LocalStutters ==
    ASSUME TypeOK, RecordsInv, RegistryInv, NEW o \in Ops,
           \/ Begin(o) \/ ResolveName(o) \/ ReadHead(o) \/ ReadAccess(o)
           \/ PutControl(o) \/ PutPayload(o) \/ Extend(o)
           \/ RecordSuccess(o) \/ Abandon(o) \/ Expire(o)
    PROVE  UNCHANGED Promised!vars
  <1>1. head' = head /\ lookup' = lookup /\ access' = access /\ workflow' = workflow
    BY LocalFrame
  <1>2. \A c : OnceCurrent(c) => revision'[c] = revision[c]
    BY LocalHeads
  <1>3. \A u \in Ops : head[u].status = "READY" => OnceCurrent(head[u].control)
    BY DEF RegistryInv, HeadInv, ReadyHead
  <1>4. \A u \in Ops : /\ CurrentOf(u)' = CurrentOf(u) /\ ContentOf(u)' = ContentOf(u)
                       /\ Readable(u)' = Readable(u)
    BY <1>1, <1>2, <1>3 DEF CurrentOf, ContentOf, Readable
  <1>5. (\A n \in Names : BoundOf(n)' = BoundOf(n)) /\ Committed' = Committed
    BY <1>1 DEF BoundOf, Committed
  <1> QED
    BY <1>4, <1>5, RegistryStutters

LEMMA PrepareStutters ==
    ASSUME TypeOK, LeasesInv, RecordsInv, RegistryInv, NEW o \in Ops, Prepare(o)
    PROVE  UNCHANGED Promised!vars
  <1>1. /\ CreatesHead(o) \/ LeasesHead(o)
        /\ workflow[<<"control", o>>] = "none" /\ workflow'[<<"control", o>>] = "PREPARED"
        /\ \A p \in Ops \ {o} : workflow'[<<"control", p>>] = workflow[<<"control", p>>]
    BY PrepareStores
  <1>2. access' = access /\ revision' = revision
    BY DEF Prepare
  <1>3. \A u \in Ops : /\ head'[u].status = "READY" <=> head[u].status = "READY"
                       /\ head[u].status = "READY" => head'[u].control = head[u].control
    BY <1>1 DEF CreatesHead, LeasesHead, SameSecret
  <1>4. \A u \in Ops : /\ CurrentOf(u)' = CurrentOf(u) /\ ContentOf(u)' = ContentOf(u)
                       /\ Readable(u)' = Readable(u)
    BY <1>2, <1>3 DEF CurrentOf, ContentOf, Readable
  <1>5. ASSUME NEW n \in Names PROVE BoundOf(n)' = BoundOf(n)
    <2>1. lookup[n] \in OpOrNone
      BY DEF TypeOK, TableTypeOK
    <2>2. \/ lookup'[n] = lookup[n]
          \/ lookup[n] = None /\ lookup'[n] = o /\ head'[o].status = "PREPARED"
      BY <1>1 DEF CreatesHead, LeasesHead, TypeOK, TableTypeOK
    <2> QED
      BY <1>3, <2>1, <2>2 DEF BoundOf, OpOrNone
  <1>6. Committed' = Committed
    BY <1>1 DEF Committed
  <1> QED
    BY <1>4, <1>5, <1>6, RegistryStutters

LEMMA RecoveryStutters ==
    ASSUME TypeOK, RecordsInv, EvidenceInv, RegistryInv, RecoveryStep \/ RecoveryStop
    PROVE  UNCHANGED Promised!vars
  <1>1. access' = access /\ revision' = revision
    BY RecoveryMoves
  <1>2. CASE /\ lookup' = lookup
             /\ \A u \in Ops : SameSecret(head'[u], head[u])
             /\ \A o \in Ops : LET w == workflow[<<"control", o>>]
                                   v == workflow'[<<"control", o>>] IN
                               v = w \/ (w = "PREPARED" /\ v = "RETRYABLE")
    <2>1. \A u \in Ops : /\ CurrentOf(u)' = CurrentOf(u) /\ ContentOf(u)' = ContentOf(u)
                         /\ Readable(u)' = Readable(u)
      BY <1>1, <1>2 DEF CurrentOf, ContentOf, Readable, SameSecret
    <2>2. \A n \in Names : BoundOf(n)' = BoundOf(n)
      BY <1>2 DEF BoundOf, SameSecret, TypeOK, TableTypeOK, OpOrNone
    <2>3. Committed' = Committed
      BY <1>2 DEF Committed
    <2> QED
      BY <2>1, <2>2, <2>3, RegistryStutters
  <1>3. ASSUME NEW t \in Ops, head[t].status = "PREPARED", lookup[head[t].name] = t,
               workflow' = workflow, head' = [head EXCEPT ![t] = NoHead],
               lookup' = [lookup EXCEPT ![head[t].name] = None]
        PROVE  UNCHANGED Promised!vars
    <2>1. head'[t].status = "ABSENT" /\ \A u \in Ops \ {t} : head'[u] = head[u]
      BY <1>3, NoHeadFields DEF TypeOK, TableTypeOK
    <2>2. \A u \in Ops : /\ CurrentOf(u)' = CurrentOf(u) /\ ContentOf(u)' = ContentOf(u)
                         /\ Readable(u)' = Readable(u)
      BY <1>1, <1>3, <2>1 DEF CurrentOf, ContentOf, Readable
    <2>3. ASSUME NEW n \in Names PROVE BoundOf(n)' = BoundOf(n)
      <3>1. lookup[n] \in OpOrNone
        BY DEF TypeOK, TableTypeOK
      <3>2. lookup'[n] = lookup[n] \/ (lookup[n] = t /\ lookup'[n] = None)
        BY <1>3 DEF TypeOK, TableTypeOK
      <3> QED
        BY <1>3, <2>1, <3>1, <3>2 DEF BoundOf, OpOrNone
    <2>4. Committed' = Committed
      BY <1>3 DEF Committed
    <2> QED
      BY <2>2, <2>3, <2>4, RegistryStutters
  <1> QED
    BY <1>2, <1>3, RecoveryMoves

\* What a step of the registry installs, secret by secret.
LEMMA InstallsAt ==
    ASSUME NEW t \in Ops, NEW o, NEW v,
           CurrentOf(t)' = o, ContentOf(t)' = v, Readable(t)' = v.acl,
           \A u \in Ops \ {t} : /\ CurrentOf(u)' = CurrentOf(u)
                                /\ ContentOf(u)' = ContentOf(u)
                                /\ Readable(u)' = Readable(u)
    PROVE  Promised!Install(t, o, v)
  <1>1. [u \in Ops |-> CurrentOf(u)]' = [[u \in Ops |-> CurrentOf(u)] EXCEPT ![t] = o]
    BY ZenonT(30)
  <1>2. [u \in Ops |-> ContentOf(u)]' = [[u \in Ops |-> ContentOf(u)] EXCEPT ![t] = v]
    BY ZenonT(30)
  <1>3. [u \in Ops |-> Readable(u)]' = [[u \in Ops |-> Readable(u)] EXCEPT ![t] = v.acl]
    BY ZenonT(30)
  <1> QED
    BY <1>1, <1>2, <1>3 DEF Promised!Install, CurrentOf, ContentOf, Readable

\* The final transaction is one step of the registry: a create, a change of readers, a
\* change of the payload, or an archive.
LEMMA CommitRefines ==
    ASSUME TypeOK, LeasesInv, RecordsInv, RegistryInv, NEW o \in Ops, Complete(o)
    PROVE  Promised!Next
  <1> USE DEF TypeOK, RequestTypeOK
  <1>a. PICK t \in Ops : t = target[o]
    BY CommitStart
  <1>b. PICK m, n : m = local[o].ifMatch /\ n = local[o].name
    OBVIOUS
  <1>c. PICK v \in ControlRevision : v = revision[o]
    OBVIOUS
  <1>1. /\ CommitsFrom(o)
        /\ head'[t].status = "READY" /\ head'[t].name = head[t].name /\ head'[t].control = o
        /\ \A u \in Ops \ {t} : head'[u] = head[u]
        /\ workflow[<<"control", o>>] = "PREPARED" /\ workflow'[<<"control", o>>] = "READY"
        /\ \A p \in Ops \ {o} : workflow'[<<"control", p>>] = workflow[<<"control", p>>]
    BY <1>a, CommitStart, CommitHead DEF CommitsHead
  <1>r. /\ Readable(t)' = v.acl
        /\ \A u \in Ops \ {t} : Readable(u)' = Readable(u)
    <2>1. target' = target
      BY DEF Complete
    <2> QED
      BY <1>a, <1>c, <2>1, CommitReaders DEF Readable
  <1>2. revision' = revision /\ pc[o] = "extended"
    BY DEF Complete
  <1>3. o \notin Committed /\ Committed' = Committed \cup {o}
    BY <1>1 DEF Committed
  <1>4. /\ CurrentOf(t)' = o /\ ContentOf(t)' = v
        /\ \A u \in Ops \ {t} : CurrentOf(u)' = CurrentOf(u) /\ ContentOf(u)' = ContentOf(u)
    BY <1>c, <1>1, <1>2 DEF CurrentOf, ContentOf
  <1>5. Promised!Install(t, o, v)
    BY <1>r, <1>4, InstallsAt
  <1>6. \A k \in Names : lookup[k] \in OpOrNone
    BY DEF TableTypeOK
  <1>7. CASE local[o].request = "create"
    <2>1. /\ t = o /\ head[t].status = "PREPARED" /\ head[t].name = n /\ lookup' = lookup
      BY <1>a, <1>b, <1>1, <1>7, CommitNames DEF CommitsFrom
    <2>2. n \in Names /\ lookup[n] = t
      BY <2>1, HeadFields, ZenonT(60) DEF TableTypeOK, RegistryInv, HeadInv, PreparedHead
    <2>3. v = [state |-> "PENDING_VALUE", acl |-> v.acl, payload |-> None]
      <3>1. v.state = "PENDING_VALUE" /\ v.payload = None
        BY <1>c, <1>2, <1>7 DEF RegistryInv, RequestInv, Persisting
      <3> QED
        BY <3>1 DEF ControlRevision
    <2>4. ASSUME NEW k \in Names PROVE BoundOf(k)' = IF k = n THEN t ELSE BoundOf(k)
      <3>1. k # n => lookup[k] # t
        BY <2>1, NoneAssumption DEF RegistryInv, NameInv
      <3> QED
        BY <1>1, <1>6, <2>1, <2>2, <3>1, NoneAssumption DEF BoundOf, OpOrNone
    <2>5. CurrentOf(t) = None /\ BoundOf(n) = None
      BY <2>1, <2>2 DEF CurrentOf, BoundOf
    <2>6. PICK acl \in SUBSET Consumers :
             v = [state |-> "PENDING_VALUE", acl |-> acl, payload |-> None]
      BY <2>3 DEF ControlRevision
    <2>7. Promised!Create(t, o, n, acl)
      BY <1>5, <2>2, <2>4, <2>5, <2>6 DEF Promised!Create, CurrentOf, BoundOf
    <2> QED
      BY <1>3, <2>2, <2>7 DEF Promised!Next
  <1>8. CASE local[o].request # "create"
    <2>1. StillCurrent(t, o) /\ v = NextRevision(o, revision[m])
      BY <1>a, <1>b, <1>c, <1>1, <1>2, <1>8
         DEF CommitsFrom, RegistryInv, RequestInv, Persisting, Revised
    <2>2. ReadyHead(t) /\ head[t].control = m /\ head[t].status = "READY"
      BY <1>b, <2>1 DEF StillCurrent, RegistryInv, HeadInv
    <2>3. m \in Ops
      BY <2>2 DEF ReadyHead, OnceCurrent
    <2>4. PICK w \in ControlRevision : w = revision[m]
      BY <2>3
    <2>5. CurrentOf(t) = m /\ m # None /\ ContentOf(t) = w
      BY <2>2, <2>3, <2>4, NoneAssumption DEF CurrentOf, ContentOf
    <2>v. v = NextRevision(o, w)
      BY <2>1, <2>4
    <2>w. [u \in Ops |-> IF head[u].status = "READY" THEN revision[head[u].control]
                         ELSE NoRevision][t] = w
      BY <2>5 DEF ContentOf
    <2>6. CASE local[o].request = "archive"
      <3>1. n \in Names /\ lookup[n] = t /\ lookup' = [lookup EXCEPT ![n] = None]
            /\ head[t].name = n
        BY <1>a, <1>b, <2>6, CommitNames
      <3>2. v = [w EXCEPT !.state = "ARCHIVED", !.acl = {}]
        <4>1. v.state = "ARCHIVED" /\ v.acl = {} /\ v.payload = w.payload
          BY <2>v, <2>6 DEF NextRevision, PayloadRequests
        <4> QED
          BY <4>1 DEF ControlRevision
      <3>3. ASSUME NEW k \in Names PROVE BoundOf(k)' = IF k = n THEN None ELSE BoundOf(k)
        <4>1. k # n => lookup[k] # t /\ lookup'[k] = lookup[k]
          BY <3>1, NoneAssumption DEF RegistryInv, NameInv
        <4>2. lookup'[n] = None
          BY <3>1 DEF TableTypeOK
        <4> QED
          BY <1>1, <1>6, <4>1, <4>2 DEF BoundOf, OpOrNone
      <3>4. BoundOf(n) = t
        BY <2>2, <3>1, NoneAssumption DEF BoundOf
      <3>5. Promised!Archive(t, o, n)
        <4>1. v = [[u \in Ops |-> IF head[u].status = "READY" THEN revision[head[u].control]
                                  ELSE NoRevision][t] EXCEPT !.state = "ARCHIVED", !.acl = {}]
          BY <2>w, <3>2, Zenon
        <4>2. [k \in Names |-> BoundOf(k)]' = [[k \in Names |-> BoundOf(k)] EXCEPT ![n] = None]
          BY <3>1, <3>3
        <4>3. [k \in Names |-> BoundOf(k)][n] = t
          BY <3>1, <3>4
        <4> QED
          BY <1>5, <4>1, <4>2, <4>3 DEF Promised!Archive, Promised!Install, BoundOf
      <3> QED
        BY <1>3, <3>1, <3>5 DEF Promised!Next
    <2>7. CASE local[o].request # "archive"
      <3>1. \A k \in Names : BoundOf(k)' = BoundOf(k)
        <4>1. lookup' = lookup
          BY <2>7, CommitNames
        <4> QED
          BY <1>1, <1>6, <2>2, <4>1 DEF BoundOf, OpOrNone
      <3>2. CASE local[o].request \in PayloadRequests
        <4>1. v = [w EXCEPT !.payload = o, !.state = "ACTIVE"]
          <5>1. v.state = "ACTIVE" /\ v.acl = w.acl /\ v.payload = o
            BY <2>v, <3>2 DEF NextRevision, PayloadRequests
          <5> QED
            BY <5>1 DEF ControlRevision
        <4>2. Promised!ReplacePayload(t, o)
          <5>1. v = [[u \in Ops |-> IF head[u].status = "READY"
                                    THEN revision[head[u].control]
                                    ELSE NoRevision][t] EXCEPT !.payload = o, !.state = "ACTIVE"]
            BY <2>w, <4>1, Zenon
          <5> QED
            BY <1>5, <2>5, <3>1, <5>1
               DEF Promised!ReplacePayload, Promised!Install, CurrentOf, BoundOf
        <4> QED
          BY <1>3, <4>2 DEF Promised!Next
      <3>3. CASE local[o].request \notin PayloadRequests
        <4>1. v = [w EXCEPT !.acl = v.acl]
          <5>1. v.state = w.state /\ v.payload = w.payload
            BY <2>v, <2>7, <3>3 DEF NextRevision
          <5> QED
            BY <5>1 DEF ControlRevision
        <4>2. PICK acl \in SUBSET Consumers : v = [w EXCEPT !.acl = acl]
          BY <4>1 DEF ControlRevision
        <4>3. Promised!ReplaceAcl(t, o, acl)
          <5>1. v = [[u \in Ops |-> IF head[u].status = "READY"
                                    THEN revision[head[u].control]
                                    ELSE NoRevision][t] EXCEPT !.acl = acl]
            BY <2>w, <4>2, Zenon
          <5> QED
            BY <1>5, <2>5, <3>1, <5>1
               DEF Promised!ReplaceAcl, Promised!Install, CurrentOf, BoundOf
        <4> QED
          BY <1>3, <4>3 DEF Promised!Next
      <3> QED
        BY <3>2, <3>3
    <2> QED
      BY <2>6, <2>7
  <1> QED
    BY <1>7, <1>8

\* Two transactions, four objects or rows, a lease and recovery lie between a request and
\* its answer; callers see one compare-and-swap, or nothing.
THEOREM MutationsImplementTheRegistry == Spec => ImplementsRegistry
  <1> DEFINE I == LeasesInv /\ RecordsInv /\ EvidenceInv /\ RegistryInv
  <1>1. Init => Promised!Init
    BY NoHeadFields DEF Init, Promised!Init, NoRows, NoRevision, Committed, Revisions, Kinds
  <1>2. TypeOK /\ I /\ [Next]_vars => [Promised!Next]_(Promised!vars)
    <2> SUFFICES ASSUME TypeOK, I, [Next]_vars
                 PROVE  Promised!Next \/ UNCHANGED Promised!vars
      OBVIOUS
    <2>1. CASE \E o \in Ops : Mutate(o) \/ Expire(o)
      BY <2>1, LocalStutters, PrepareStutters, CommitRefines DEF Mutate
    <2>2. CASE RecoveryStep \/ RecoveryStop
      BY <2>2, RecoveryStutters
    <2>3. CASE UNCHANGED vars
      <3>1. UNCHANGED <<head, lookup, access, workflow, revision>>
        BY <2>3 DEF vars, tableVars, requestVars
      <3> QED
        BY <3>1 DEF Promised!vars, Committed
    <2> QED
      BY <2>1, <2>2, <2>3 DEF Next
  <1> QED
    BY <1>1, <1>2, TypeCorrectness, RegistryInvariant, PTL
       DEF Spec, ImplementsRegistry, Promised!Spec
=============================================================================
