------------------------ MODULE SecretDeliveryProofs ------------------------
(***************************************************************************)
(* Proofs about SecretDelivery: for any number of secrets, revisions,      *)
(* readers and requests, what is current is never deleted, a read that was *)
(* let through finds its objects, and what it delivers was authorised.     *)
(* The mutations among which this happens are those of SecretRegistry.     *)
(***************************************************************************)
EXTENDS SecretDelivery, TLAPS

-----------------------------------------------------------------------------
(* The invariant *)

\* A revision that was committed once; its content never changes again.
Committed(r) == workflow[r] # "none"

\* A committed head says what its control revision says, and only the consumers of that
\* revision have a row that lets them read.
HeadInv(s) ==
    LET h == head[s] IN
    /\ h.name \in Names /\ h.control \in Versions
    /\ Committed(<<"control", h.control>>)
    /\ revision[h.control].state = h.state
    /\ revision[h.control].payload = h.payload
    /\ h.payload # None => Committed(<<"payload", h.payload>>)
    /\ h.state = "ACTIVE" => h.payload # None
    /\ \A c \in Consumers : access[s][c] = "readable" => c \in revision[h.control].acl

\* A payload is committed with the control revision of its version, and only what was
\* committed is ever scheduled.
ScheduleInv ==
    /\ \A v \in Versions :
          Committed(<<"payload", v>>) => Committed(<<"control", v>>)
    /\ \A r \in Revisions : retention[r] # "none" => Committed(r)

\* The head of a mutation under way is still the one it read, its version is nobody
\* else's, and the prior objects are locked before they are replaced.
WriterInv ==
    writer.phase # "idle" =>
        LET v == writer.version IN
        /\ writer.secret \in Secrets /\ v \in Versions
        /\ writer.prior = head[writer.secret] /\ writer.prior # NoHead
        /\ ~Committed(<<"control", v>>)
        /\ revision[v].payload =
              IF writer.request = "payload" THEN v ELSE writer.prior.payload
        /\ revision[v].state = "ACTIVE" => revision[v].payload # None
        /\ writer.phase # "begun" => Written(writer.request, v) \subseteq objects
        /\ writer.phase = "extended" => Named(writer.prior) \subseteq locked

\* What retention is about to delete is no head's revision, and never becomes one again.
PassInv ==
    /\ \A r \in pass.todo : Committed(r)
    /\ pass.phase \in {"head", "lock", "delete", "mark"} =>
          pass.item \in Revisions /\ Committed(pass.item)
    /\ pass.phase \in {"lock", "delete", "mark"} =>
          \A s \in Secrets : pass.item \notin Named(head[s])

\* Nothing can delete an object that is current or locked, and locks pass only when
\* nobody reads.
Protected(r) == r \in objects /\ (r \in locked \/ \E s \in Secrets : r \in Named(head[s]))

\* A read that was let through holds a head that was current once.
ReadInv(q) ==
    LET h == reads[q].head IN
    /\ reads[q].phase # "failed"
    /\ reads[q].phase \in {"authorized", "control", "delivered"} =>
          /\ h.control \in Versions /\ h.payload \in Versions
          /\ Committed(<<"control", h.control>>)
          /\ revision[h.control].state = h.state
          /\ revision[h.control].payload = h.payload
          /\ reads[q].consumer # None => reads[q].consumer \in revision[h.control].acl
          /\ h.name = reads[q].name
    /\ reads[q].phase \in {"authorized", "control"} =>
          \A r \in Named(h) : Protected(r)

CustodyInv ==
    /\ \A s \in Secrets : head[s] # NoHead => HeadInv(s)
    /\ CurrentObjectsExist
    /\ ScheduleInv /\ WriterInv /\ PassInv
    /\ \A q \in Reads : ReadInv(q)

-----------------------------------------------------------------------------
(* Types *)

LEMMA Constants ==
    /\ NoHead \in HeadRecord /\ NoHead.control = None /\ NoHead.payload = None
    /\ NoHead.state = "PENDING_VALUE"
    /\ NoRevision \in ControlRevision
    /\ NoWriter \in WriterRecord /\ NoWriter.phase = "idle" /\ NoWriter.version = None
    /\ NoRead \in ReadRecord /\ NoRead.phase = "idle"
    /\ NoPass \in PassRecord /\ NoPass.phase = "idle" /\ NoPass.todo = {}
    /\ Named(NoHead) = {}
  <1>1. NoHead \in HeadRecord /\ NoHead.control = None /\ NoHead.payload = None
        /\ NoHead.state = "PENDING_VALUE"
    BY DEF NoHead, HeadRecord, OrNone, SecretStates
  <1>2. NoRevision \in ControlRevision
    BY DEF NoRevision, ControlRevision, OrNone, SecretStates
  <1>3. NoWriter \in WriterRecord /\ NoWriter.phase = "idle" /\ NoWriter.version = None
    BY <1>1 DEF NoWriter, WriterRecord, OrNone, Mutations
  <1>4. NoRead \in ReadRecord /\ NoRead.phase = "idle"
    BY <1>1 DEF NoRead, ReadRecord, OrNone
  <1>5. NoPass \in PassRecord /\ NoPass.phase = "idle" /\ NoPass.todo = {}
    BY DEF NoPass, PassRecord
  <1>6. Named(NoHead) = {}
    BY <1>1, DistinctNone DEF Named, Revisions
  <1> QED
    BY <1>1, <1>2, <1>3, <1>4, <1>5, <1>6

LEMMA NamedRevisions == ASSUME NEW h PROVE Named(h) \subseteq Revisions
  BY DEF Named

LEMMA TypeInit == Init => TypeOK
  BY Constants, RetentionStopsAreCounted DEF Init, TypeOK, OrNone, Rows

LEMMA MutateType == ASSUME TypeOK, WriterInv, Mutate PROVE TypeOK'
  <1> USE DEF TypeOK
  <1>1. ASSUME NEW s \in Secrets, NEW v \in Versions, NEW n \in Names,
               NEW acl \in SUBSET Consumers, Create(s, v, n, acl)
        PROVE  TypeOK'
    <2>1. [NoRevision EXCEPT !.acl = acl] \in ControlRevision
      BY Constants DEF NoRevision, ControlRevision
    <2>2. [NoHead EXCEPT !.name = n, !.control = v] \in HeadRecord
      BY Constants DEF NoHead, HeadRecord, OrNone
    <2>3. RowsFor(s, acl) \in [Consumers -> Rows]
      BY DEF RowsFor, Rows
    <2>4. <<"control", v>> \in Revisions
      BY DEF Revisions
    <2> QED
      BY <1>1, <2>1, <2>2, <2>3, <2>4 DEF Create, OrNone
  <1>2. ASSUME NEW s \in Secrets, NEW v \in Versions, NEW request \in Mutations,
               NEW acl \in SUBSET Consumers, BeginMutation(s, v, request, acl)
        PROVE  TypeOK'
    <2>1. writer' \in WriterRecord
      BY <1>2 DEF BeginMutation, WriterRecord, OrNone
    <2>2. revision' \in [Versions -> ControlRevision]
      <3> DEFINE current == revision[head[s].control]
      <3>1. current \in ControlRevision
        <4>1. head[s].control \in OrNone(Versions) /\ <<"control", head[s].control>> \in objects
          BY <1>2 DEF BeginMutation, HeadRecord
        <4>2. head[s].control \in Versions
          BY <4>1 DEF Revisions
        <4> QED
          BY <4>2
      <3>2. /\ [current EXCEPT !.acl = acl] \in ControlRevision
            /\ [current EXCEPT !.payload = v, !.state = "ACTIVE"] \in ControlRevision
            /\ [current EXCEPT !.acl = {}, !.state = "ARCHIVED"] \in ControlRevision
        BY <3>1 DEF ControlRevision, OrNone, SecretStates
      <3> QED
        BY <1>2, <3>2 DEF BeginMutation, Mutations
    <2> QED
      BY <1>2, <2>1, <2>2 DEF BeginMutation, tableVars, bucketVars
  <1>3. CASE Store
    <2>1. Written(writer.request, writer.version) \subseteq Revisions
      BY <1>3 DEF Store, WriterInv, Written, Revisions
    <2>2. writer' \in WriterRecord
      BY <1>3 DEF Store, WriterRecord
    <2> QED
      BY <1>3, <2>1, <2>2 DEF Store, tableVars
  <1>4. CASE Extend
    <2>1. writer' \in WriterRecord
      BY <1>4 DEF Extend, WriterRecord
    <2> QED
      BY <1>4, <2>1 DEF Extend, tableVars
  <1>5. CASE Commit
    <2> DEFINE s == writer.secret
               v == writer.version
    <2>1. s \in Secrets /\ v \in Versions /\ head[s] \in HeadRecord
          /\ revision[v] \in ControlRevision
      BY <1>5 DEF Commit, WriterInv
    <2>2. NextHead \in HeadRecord
      BY <2>1 DEF NextHead, HeadRecord, ControlRevision, OrNone
    <2>3. head' \in [Secrets -> HeadRecord]
      BY <1>5, <2>1, <2>2 DEF Commit
    <2>4. RowsFor(s, revision[v].acl) \in [Consumers -> Rows]
      BY DEF RowsFor, Rows
    <2>5. access' \in [Secrets -> [Consumers -> Rows]]
      BY <1>5, <2>4 DEF Commit
    <2>6. lookup' \in [Names -> OrNone(Secrets)]
      BY <1>5 DEF Commit, OrNone
    <2>7. workflow' \in [Revisions -> {"none", "READY", "DELETED"}]
      BY <1>5 DEF Commit
    <2>9. retention' \in [Revisions -> {"none", "scheduled", "due"}]
      BY <1>5 DEF Commit
    <2> QED
      BY <1>5, <2>3, <2>5, <2>6, <2>7, <2>9, Constants DEF Commit, bucketVars
  <1>6. CASE StopMutation
    BY <1>6, Constants DEF StopMutation, tableVars, bucketVars
  <1> QED
    BY <1>1, <1>2, <1>3, <1>4, <1>5, <1>6 DEF Mutate

LEMMA ReadType == ASSUME TypeOK, NEW q \in Reads, Read(q) PROVE TypeOK'
  <1> USE DEF TypeOK
  <1>1. /\ reads'[q] \in ReadRecord
        /\ reads'[q].phase \notin {"idle", "denied"} => reads'[q].secret \in Secrets
        /\ reads' = [reads EXCEPT ![q] = reads'[q]]
    <2>1. ASSUME NEW c \in OrNone(Consumers), NEW n \in Names, ReadName(q, c, n)
          PROVE  /\ reads'[q] \in ReadRecord
                 /\ reads'[q].phase \notin {"idle", "denied"} => reads'[q].secret \in Secrets
                 /\ reads' = [reads EXCEPT ![q] = reads'[q]]
      BY <2>1, Constants DEF ReadName, NoRead, ReadRecord, OrNone
    <2>2. CASE ReadHead(q)
      BY <2>2 DEF ReadHead, ReadRecord
    <2>3. CASE ReadControl(q)
      BY <2>3 DEF ReadControl, ReadRecord
    <2>4. CASE ReadPayload(q)
      BY <2>4 DEF ReadPayload, ReadRecord
    <2>5. CASE EndRead(q)
      BY <2>5, Constants DEF EndRead
    <2> QED
      BY <2>1, <2>2, <2>3, <2>4, <2>5 DEF Read
  <1>2. UNCHANGED <<tableVars, bucketVars, revision, writer, pass, stops>>
    BY DEF Read, ReadName, ReadHead, ReadControl, ReadPayload, EndRead
  <1> QED
    BY <1>1, <1>2 DEF tableVars, bucketVars

LEMMA RetainType == ASSUME TypeOK, Retain \/ StopPass PROVE TypeOK'
  <1> USE DEF TypeOK
  <1>1. CASE ListDue
    <2>1. Due \subseteq Revisions
      BY DEF Due
    <2>2. [NoPass EXCEPT !.phase = "next", !.todo = Due] \in PassRecord
      BY <2>1, Constants DEF NoPass, PassRecord
    <2> QED
      BY <1>1, <2>2 DEF ListDue, tableVars, bucketVars
  <1>2. ASSUME NEW r \in Revisions, TakeDue(r) PROVE TypeOK'
    BY <1>2 DEF TakeDue, PassRecord, tableVars, bucketVars
  <1>3. CASE CheckHead
    BY <1>3 DEF CheckHead, PassRecord, tableVars, bucketVars
  <1>4. CASE CheckLock
    BY <1>4, Constants DEF CheckLock, PassRecord, tableVars, bucketVars
  <1>5. CASE DeleteObject
    BY <1>5 DEF DeleteObject, PassRecord, tableVars
  <1>6. CASE MarkDeleted
    BY <1>6 DEF MarkDeleted, PassRecord, bucketVars
  <1>7. CASE EndPass
    BY <1>7, Constants DEF EndPass, tableVars, bucketVars
  <1>8. CASE StopPass
    BY <1>8, Constants, RetentionStopsAreCounted DEF StopPass, tableVars, bucketVars
  <1> QED
    BY <1>1, <1>2, <1>3, <1>4, <1>5, <1>6, <1>7, <1>8 DEF Retain

LEMMA TypeStep == ASSUME TypeOK, WriterInv, [Next]_vars PROVE TypeOK'
  <1>1. ASSUME NEW r \in Revisions, LockPasses(r) \/ RetentionFallsDue(r) PROVE TypeOK'
    BY <1>1 DEF TypeOK, LockPasses, RetentionFallsDue, tableVars, bucketVars
  <1>2. CASE UNCHANGED vars
    BY <1>2 DEF TypeOK, vars
  <1> QED
    BY <1>1, <1>2, MutateType, ReadType, RetainType DEF Next

-----------------------------------------------------------------------------
(* The invariant is inductive *)

\* What was committed stays committed, and its content stays what it is.
Keeps ==
    /\ \A r \in Revisions : Committed(r) => Committed(r)'
    /\ \A v \in Versions : Committed(<<"control", v>>) => revision'[v] = revision[v]

LEMMA Pairs ==
    /\ \A v \in Versions : <<"control", v>> \in Revisions /\ <<"payload", v>> \in Revisions
    /\ \A r \in Revisions : \E v \in Versions : r = <<"control", v>> \/ r = <<"payload", v>>
    /\ \A request, v : <<"control", v>> \in Written(request, v)
    /\ \A request, v : <<"payload", v>> \in Written(request, v) <=> request = "payload"
    /\ \A request, v, r : r \in Written(request, v) => r \in {<<"control", v>>, <<"payload", v>>}
  BY DEF Revisions, Written

LEMMA NamedPairs ==
    ASSUME NEW h \in HeadRecord
    PROVE  /\ h.control \in Versions => <<"control", h.control>> \in Named(h)
           /\ h.payload \in Versions => <<"payload", h.payload>> \in Named(h)
           /\ \A r \in Named(h) :
                 \/ h.control \in Versions /\ r = <<"control", h.control>>
                 \/ h.payload \in Versions /\ r = <<"payload", h.payload>>
  BY DEF Named, Revisions

LEMMA HeadFrame ==
    ASSUME TypeOK, Keeps, NEW s \in Secrets, HeadInv(s),
           head'[s] = head[s], access'[s] = access[s]
    PROVE  HeadInv(s)'
  <1>1. head[s].payload # None => <<"payload", head[s].payload>> \in Revisions
    BY Pairs DEF TypeOK, HeadRecord, OrNone
  <1>2. <<"control", head[s].control>> \in Revisions
    BY Pairs DEF HeadInv
  <1> QED
    BY <1>1, <1>2 DEF HeadInv, Keeps

LEMMA ReadFrame ==
    ASSUME Keeps, NEW q \in Reads, ReadInv(q), reads'[q] = reads[q],
           \A r \in Named(reads[q].head) : Protected(r) => Protected(r)'
    PROVE  ReadInv(q)'
  <1>1. ASSUME reads[q].phase \in {"authorized", "control", "delivered"}
        PROVE  /\ Committed(<<"control", reads[q].head.control>>)'
               /\ revision'[reads[q].head.control] = revision[reads[q].head.control]
    BY <1>1, Pairs DEF ReadInv, Keeps
  <1>2. Named(reads'[q].head) = Named(reads[q].head)
    OBVIOUS
  <1> QED
    BY <1>1, <1>2 DEF ReadInv

\* Steps that leave the table's heads and rows, and the revisions, as they are.
LEMMA TableFrame ==
    ASSUME TypeOK, CustodyInv, UNCHANGED <<head, access, revision>>,
           \A r \in Revisions : Committed(r) => Committed(r)'
    PROVE  Keeps /\ \A s \in Secrets : head'[s] # NoHead => HeadInv(s)'
  BY HeadFrame DEF CustodyInv, Keeps

\* What is committed was named by no head that is current, before or after a commit.
LEMMA CurrentIsCommitted ==
    ASSUME TypeOK, CustodyInv, NEW s \in Secrets, NEW r \in Named(head[s])
    PROVE  Committed(r) /\ r \in Revisions
  <1>1. head[s] # NoHead
    BY Constants
  <1>2. HeadInv(s)
    BY <1>1 DEF CustodyInv
  <1>3. head[s] \in HeadRecord
    BY DEF TypeOK
  <1>4. CASE head[s].control \in Versions /\ r = <<"control", head[s].control>>
    BY <1>2, <1>4, Pairs DEF HeadInv
  <1>5. CASE head[s].payload \in Versions /\ r = <<"payload", head[s].payload>>
    BY <1>2, <1>5, Pairs, DistinctNone DEF HeadInv
  <1> QED
    BY <1>3, <1>4, <1>5, NamedPairs

LEMMA CustodyInit == Init => CustodyInv
  <1> SUFFICES ASSUME Init PROVE CustodyInv
    OBVIOUS
  <1>1. \A s \in Secrets : head[s] = NoHead
    BY DEF Init
  <1>2. CurrentObjectsExist
    BY <1>1, Constants DEF CurrentObjectsExist
  <1>3. ScheduleInv
    BY Pairs DEF Init, ScheduleInv, Committed
  <1>4. WriterInv /\ PassInv
    BY Constants DEF Init, WriterInv, PassInv
  <1>5. \A q \in Reads : ReadInv(q)
    BY Constants DEF Init, ReadInv
  <1> QED
    BY <1>1, <1>2, <1>3, <1>4, <1>5 DEF CustodyInv

LEMMA CreateStep ==
    ASSUME TypeOK, CustodyInv, NEW s \in Secrets, NEW v \in Versions, NEW n \in Names,
           NEW acl \in SUBSET Consumers, Create(s, v, n, acl)
    PROVE  CustodyInv'
  <1> DEFINE c == <<"control", v>>
             new == [NoHead EXCEPT !.name = n, !.control = v]
  <1>1. /\ c \in Revisions /\ ~Committed(c) /\ ~Committed(<<"payload", v>>)
        /\ v # writer.version
    BY Pairs DEF Create, Fresh, Committed, CustodyInv, ScheduleInv
  <1>2. /\ new \in HeadRecord /\ new # NoHead /\ new.name = n /\ new.control = v
        /\ new.payload = None /\ new.state = "PENDING_VALUE" /\ Named(new) = {c}
    <2>1. new \in HeadRecord /\ new.name = n /\ new.control = v
          /\ new.payload = None /\ new.state = "PENDING_VALUE"
      BY DEF NoHead, HeadRecord, OrNone, SecretStates
    <2>2. new # NoHead
      BY <2>1, Constants, DistinctNone
    <2>3. Named(new) = {c}
      BY <2>1, <1>1, DistinctNone DEF Named, Revisions
    <2> QED
      BY <2>1, <2>2, <2>3
  <1>3. /\ head' = [head EXCEPT ![s] = new]
        /\ workflow' = [workflow EXCEPT ![c] = "READY"]
        /\ objects' = objects \cup {c} /\ locked' = locked \cup {c}
        /\ revision' = [revision EXCEPT ![v] = [NoRevision EXCEPT !.acl = acl]]
        /\ access' = [access EXCEPT ![s] = RowsFor(s, acl)]
        /\ UNCHANGED <<retention, writer, reads, pass, stops>>
        /\ head[s] = NoHead
    BY DEF Create
  <1> HIDE DEF new
  <1>4. Keeps /\ Committed(c)' /\ \A r \in Revisions : Committed(r)' => Committed(r) \/ r = c
    BY <1>1, <1>3 DEF TypeOK, Keeps, Committed
  <1>5. /\ head'[s] = new /\ \A t \in Secrets \ {s} : head'[t] = head[t]
        /\ \A t \in Secrets : Named(head[t]) \subseteq Named(head'[t])
        /\ \A t \in Secrets : \A r \in Named(head'[t]) : r \in Named(head[t]) \/ r = c
    BY <1>2, <1>3, Constants DEF TypeOK
  <1>6. ASSUME NEW t \in Secrets, head'[t] # NoHead PROVE HeadInv(t)'
    <2>1. CASE t = s
      <3>1. /\ revision'[v].state = "PENDING_VALUE" /\ revision'[v].payload = None
            /\ revision'[v].acl = acl
        BY <1>3 DEF TypeOK, NoRevision
      <3>2. \A d \in Consumers : access'[s][d] = "readable" => d \in acl
        BY <1>3 DEF TypeOK, RowsFor
      <3> QED
        BY <2>1, <3>1, <3>2, <1>2, <1>4, <1>5 DEF HeadInv
    <2>2. CASE t # s
      BY <2>2, <1>3, <1>4, <1>5, <1>6, HeadFrame DEF TypeOK, CustodyInv
    <2> QED
      BY <2>1, <2>2
  <1>7. CurrentObjectsExist'
    BY <1>3, <1>5 DEF CustodyInv, CurrentObjectsExist
  <1>8. ScheduleInv'
    BY <1>1, <1>3, <1>4, Pairs DEF CustodyInv, ScheduleInv, Keeps
  <1>9. WriterInv'
    <2> SUFFICES ASSUME writer.phase # "idle" PROVE WriterInv'
      BY <1>3 DEF WriterInv
    <2>1. /\ writer.version \in Versions /\ writer.version # v
          /\ writer.secret \in Secrets /\ writer.secret # s
      BY <1>1, <1>3 DEF CustodyInv, WriterInv
    <2>2. revision'[writer.version] = revision[writer.version]
      BY <2>1, <1>3 DEF TypeOK
    <2>3. ~Committed(<<"control", writer.version>>)'
      <3>1. <<"control", writer.version>> \in Revisions /\ <<"control", writer.version>> # c
        BY <2>1, Pairs
      <3> QED
        BY <3>1, <1>3, <1>4 DEF CustodyInv, WriterInv, Committed
    <2>4. head'[writer.secret] = head[writer.secret]
      BY <2>1, <1>5
    <2> QED
      BY <2>1, <2>2, <2>3, <2>4, <1>3 DEF CustodyInv, WriterInv
  <1>10. PassInv'
    <2>1. \A r \in pass.todo : r \in Revisions
      BY DEF TypeOK, PassRecord
    <2> QED
      BY <2>1, <1>1, <1>3, <1>4, <1>5 DEF CustodyInv, PassInv, Keeps
  <1>11. \A q \in Reads : ReadInv(q)'
    <2>1. \A r \in Revisions : Protected(r) => Protected(r)'
      BY <1>3, <1>5 DEF Protected
    <2> QED
      BY <2>1, <1>3, <1>4, ReadFrame, NamedRevisions DEF CustodyInv
  <1> QED
    BY <1>6, <1>7, <1>8, <1>9, <1>10, <1>11 DEF CustodyInv

LEMMA BeginStep ==
    ASSUME TypeOK, CustodyInv, NEW s \in Secrets, NEW v \in Versions,
           NEW request \in Mutations, NEW acl \in SUBSET Consumers,
           BeginMutation(s, v, request, acl)
    PROVE  CustodyInv'
  <1> DEFINE c == <<"control", v>>
             current == revision[head[s].control]
  <1>1. c \in Revisions /\ ~Committed(c)
    BY Pairs DEF BeginMutation, Fresh, Committed
  <1>2. /\ head[s] # NoHead /\ HeadInv(s) /\ current \in ControlRevision
    <2>1. head[s] # NoHead /\ HeadInv(s)
      BY DEF BeginMutation, CustodyInv
    <2> QED
      BY <2>1 DEF TypeOK, HeadInv
  <1>3. /\ UNCHANGED <<tableVars, bucketVars, reads, pass, stops>>
        /\ writer'.phase = "begun" /\ writer'.request = request /\ writer'.secret = s
        /\ writer'.version = v /\ writer'.prior = head[s]
    BY DEF BeginMutation
  <1>4. /\ \A w \in Versions \ {v} : revision'[w] = revision[w]
        /\ revision'[v].payload = IF request = "payload" THEN v ELSE current.payload
        /\ revision'[v].state = "ACTIVE" =>
              request = "payload" \/ (request = "acl" /\ current.state = "ACTIVE")
    <2>1. \A w \in Versions \ {v} : revision'[w] = revision[w]
      BY DEF BeginMutation, TypeOK
    <2>2. CASE request = "acl"
      <3>1. revision'[v] = [current EXCEPT !.acl = acl]
        BY <2>2 DEF BeginMutation, TypeOK
      <3> QED
        BY <2>1, <2>2, <3>1, <1>2 DEF ControlRevision
    <2>3. CASE request = "payload"
      <3>1. revision'[v] = [current EXCEPT !.payload = v, !.state = "ACTIVE"]
        BY <2>3 DEF BeginMutation, TypeOK
      <3> QED
        BY <2>1, <2>3, <3>1, <1>2 DEF ControlRevision
    <2>4. CASE request = "archive"
      <3>1. revision'[v] = [current EXCEPT !.acl = {}, !.state = "ARCHIVED"]
        BY <2>4 DEF BeginMutation, TypeOK
      <3> QED
        BY <2>1, <2>4, <3>1, <1>2 DEF ControlRevision
    <2> QED
      BY <2>2, <2>3, <2>4 DEF Mutations
  <1>5. Keeps
    BY <1>1, <1>3, <1>4 DEF Keeps, Committed, tableVars
  <1>6. ASSUME NEW t \in Secrets, head'[t] # NoHead PROVE HeadInv(t)'
    BY <1>3, <1>5, <1>6, HeadFrame DEF tableVars, CustodyInv
  <1>7. WriterInv'
    <2>1. revision'[v].state = "ACTIVE" => revision'[v].payload # None
      BY <1>2, <1>4, DistinctNone DEF HeadInv
    <2>2. ~Committed(c)' /\ head'[s] = head[s]
      BY <1>1, <1>3 DEF Committed, tableVars
    <2> QED
      BY <1>2, <1>3, <1>4, <2>1, <2>2 DEF WriterInv, HeadInv
  <1>8. CurrentObjectsExist' /\ ScheduleInv' /\ PassInv'
    BY <1>3 DEF CustodyInv, CurrentObjectsExist, ScheduleInv, PassInv, Committed,
                tableVars, bucketVars
  <1>9. \A q \in Reads : ReadInv(q)'
    <2>1. \A r \in Revisions : Protected(r) => Protected(r)'
      BY <1>3 DEF Protected, tableVars, bucketVars
    <2> QED
      BY <2>1, <1>3, <1>5, ReadFrame, NamedRevisions DEF CustodyInv
  <1> QED
    BY <1>6, <1>7, <1>8, <1>9 DEF CustodyInv

LEMMA StoreStep == ASSUME TypeOK, CustodyInv, Store \/ Extend \/ StopMutation PROVE CustodyInv'
  <1>1. /\ UNCHANGED <<tableVars, revision, reads, pass, stops>>
        /\ objects \subseteq objects' /\ locked \subseteq locked'
    BY DEF Store, Extend, StopMutation, bucketVars
  <1>2. Keeps /\ \A s \in Secrets : head'[s] # NoHead => HeadInv(s)'
    BY <1>1, TableFrame DEF tableVars, Committed
  <1>3. WriterInv'
    <2>1. CASE Store
      <3>1. /\ writer'.phase = "stored" /\ writer'.request = writer.request
            /\ writer'.secret = writer.secret /\ writer'.version = writer.version
            /\ writer'.prior = writer.prior /\ writer.phase = "begun"
            /\ Written(writer.request, writer.version) \subseteq objects'
        BY <2>1 DEF Store, TypeOK, WriterRecord
      <3> QED
        BY <3>1, <1>1 DEF CustodyInv, WriterInv, tableVars, Committed
    <2>2. CASE Extend
      <3>1. /\ writer'.phase = "extended" /\ writer'.request = writer.request
            /\ writer'.secret = writer.secret /\ writer'.version = writer.version
            /\ writer'.prior = writer.prior /\ writer.phase = "stored"
            /\ Named(writer.prior) \subseteq locked'
        BY <2>2 DEF Extend, TypeOK, WriterRecord
      <3> QED
        BY <3>1, <1>1 DEF CustodyInv, WriterInv, tableVars, Committed
    <2>3. CASE StopMutation
      BY <2>3, Constants DEF StopMutation, WriterInv
    <2> QED
      BY <2>1, <2>2, <2>3
  <1>4. CurrentObjectsExist' /\ ScheduleInv' /\ PassInv'
    BY <1>1 DEF CustodyInv, CurrentObjectsExist, ScheduleInv, PassInv, Committed, tableVars
  <1>5. \A q \in Reads : ReadInv(q)'
    <2>1. \A r \in Revisions : Protected(r) => Protected(r)'
      BY <1>1 DEF Protected, tableVars
    <2> QED
      BY <2>1, <1>1, <1>2, ReadFrame, NamedRevisions DEF CustodyInv
  <1> QED
    BY <1>2, <1>3, <1>4, <1>5 DEF CustodyInv

LEMMA CommitStep == ASSUME TypeOK, CustodyInv, Commit PROVE CustodyInv'
  <1> DEFINE s == writer.secret
             v == writer.version
             prior == head[s]
             c == <<"control", v>>
             d == <<"payload", v>>
             new == Written(writer.request, v)
  <1>1. /\ writer.phase = "extended" /\ s \in Secrets /\ v \in Versions
        /\ writer.prior = prior /\ prior # NoHead /\ HeadInv(s) /\ prior \in HeadRecord
        /\ ~Committed(c) /\ ~Committed(d)
        /\ new \subseteq objects /\ Named(prior) \subseteq locked
        /\ revision[v].payload = IF writer.request = "payload" THEN v ELSE prior.payload
        /\ revision[v].state = "ACTIVE" => revision[v].payload # None
    BY DEF Commit, CustodyInv, WriterInv, ScheduleInv, TypeOK
  <1>2. /\ head' = [head EXCEPT ![s] = NextHead]
        /\ NextHead.name = prior.name /\ NextHead.control = v
        /\ NextHead.state = revision[v].state
        /\ NextHead.payload = IF writer.request = "payload" THEN v ELSE prior.payload
    <2>1. d \in new <=> writer.request = "payload"
      BY Pairs
    <2> QED
      BY <1>1, <2>1 DEF Commit, NextHead, HeadRecord
  <1>3. /\ access' = [access EXCEPT ![s] = RowsFor(s, revision[v].acl)]
        /\ workflow' = [r \in Revisions |-> IF r \in new THEN "READY" ELSE workflow[r]]
        /\ retention' = [r \in Revisions |->
              IF r \in Named(prior) THEN "scheduled" ELSE retention[r]]
        /\ writer' = NoWriter
        /\ UNCHANGED <<bucketVars, revision, reads, pass, stops>>
    BY <1>1, Zenon DEF Commit
  <1>4. c \in Revisions /\ d \in Revisions /\ new \subseteq {c, d} /\ c \in new
    BY <1>1, Pairs
  <1>5. /\ Keeps
        /\ \A r \in new : workflow'[r] # "none" /\ ~Committed(r)
        /\ \A r \in Revisions : workflow'[r] # "none" => Committed(r) \/ r \in new
    BY <1>1, <1>3, <1>4 DEF Keeps, Committed
  <1>6. \A t \in Secrets \ {s} : head'[t] = head[t] /\ access'[t] = access[t]
    BY <1>2, <1>3 DEF TypeOK
  <1>7. head'[s] = NextHead /\ access'[s] = RowsFor(s, revision[v].acl)
    BY <1>1, <1>2, <1>3 DEF TypeOK
  <1>8. ASSUME NEW r \in Named(NextHead) PROVE r \in new \/ r \in Named(prior)
    <2>1. r = c \/ r = <<"payload", NextHead.payload>>
      BY <1>2 DEF Named
    <2>2. CASE r = d /\ writer.request = "payload"
      BY <2>2, Pairs
    <2>3. CASE r = <<"payload", prior.payload>>
      BY <2>3, <1>8 DEF Named
    <2> QED
      BY <1>2, <1>4, <2>1, <2>2, <2>3
  <1>9. ASSUME NEW t \in Secrets, head'[t] # NoHead PROVE HeadInv(t)'
    <2>1. CASE t = s
      <3>1. NextHead.payload # None => workflow'[<<"payload", NextHead.payload>>] # "none"
        <4>1. CASE writer.request = "payload"
          BY <4>1, <1>2, <1>5, Pairs
        <4>2. CASE writer.request # "payload" /\ prior.payload # None
          <5>1. <<"payload", prior.payload>> \in Revisions /\ Committed(<<"payload", prior.payload>>)
            BY <4>2, <1>1, Pairs DEF HeadInv, HeadRecord, OrNone
          <5> QED
            BY <4>2, <5>1, <1>2, <1>5 DEF Keeps, Committed
        <4> QED
          BY <4>1, <4>2, <1>2
      <3>2. \A k \in Consumers : access'[s][k] = "readable" => k \in revision[v].acl
        BY <1>7 DEF RowsFor
      <3>3. workflow'[c] # "none" /\ prior.name \in Names
        BY <1>1, <1>4, <1>5 DEF HeadInv
      <3> QED
        BY <2>1, <3>1, <3>2, <3>3, <1>1, <1>2, <1>3, <1>7 DEF HeadInv, Committed
    <2>2. CASE t # s
      BY <2>2, <1>5, <1>6, <1>9, HeadFrame DEF CustodyInv
    <2> QED
      BY <2>1, <2>2
  <1>10. CurrentObjectsExist'
    <2> SUFFICES ASSUME NEW t \in Secrets, NEW r \in Named(head'[t]) PROVE r \in objects
      BY <1>3 DEF CurrentObjectsExist, bucketVars
    <2>1. \A u \in Secrets : Named(head[u]) \subseteq objects
      BY DEF CustodyInv, CurrentObjectsExist
    <2> QED
      BY <2>1, <1>1, <1>6, <1>7, <1>8
  <1>11. ScheduleInv'
    <2>1. ASSUME NEW w \in Versions, Committed(<<"payload", w>>)'
          PROVE  Committed(<<"control", w>>)'
      <3>1. CASE w = v
        BY <3>1, <1>4, <1>5 DEF Committed
      <3>2. CASE w # v
        <4>1. /\ <<"payload", w>> \in Revisions /\ <<"control", w>> \in Revisions
              /\ <<"payload", w>> \notin new
          BY <3>2, <1>4, Pairs
        <4> QED
          BY <2>1, <4>1, <1>5 DEF CustodyInv, ScheduleInv, Keeps, Committed
      <3> QED
        BY <3>1, <3>2
    <2>2. ASSUME NEW r \in Revisions, retention'[r] # "none" PROVE Committed(r)'
      <3>1. CASE r \in Named(prior)
        BY <3>1, <1>1, <1>5, CurrentIsCommitted DEF Keeps
      <3>2. CASE r \notin Named(prior)
        BY <2>2, <3>2, <1>3, <1>5 DEF CustodyInv, ScheduleInv, Keeps, Committed
      <3> QED
        BY <3>1, <3>2
    <2> QED
      BY <2>1, <2>2 DEF ScheduleInv
  <1>12. WriterInv'
    BY <1>3, Constants DEF WriterInv
  <1>13. PassInv'
    <2>1. ASSUME pass.phase \in {"lock", "delete", "mark"}, NEW t \in Secrets
          PROVE  pass.item \notin Named(head'[t])
      <3>1. Committed(pass.item) /\ \A u \in Secrets : pass.item \notin Named(head[u])
        BY <2>1 DEF CustodyInv, PassInv
      <3> QED
        BY <3>1, <1>1, <1>5, <1>6, <1>7, <1>8
    <2>2. \A r \in pass.todo : r \in Revisions
      BY DEF TypeOK, PassRecord
    <2> QED
      BY <2>1, <2>2, <1>3, <1>5 DEF CustodyInv, PassInv, Keeps, Committed
  <1>14. \A q \in Reads : ReadInv(q)'
    <2>1. ASSUME NEW r \in Revisions, Protected(r) PROVE Protected(r)'
      <3>1. CASE r \in locked
        BY <2>1, <3>1, <1>3 DEF Protected, bucketVars
      <3>2. ASSUME NEW t \in Secrets, r \in Named(head[t]) PROVE Protected(r)'
        <4>1. CASE t = s
          BY <4>1, <3>2, <2>1, <1>1, <1>3 DEF Protected, bucketVars
        <4>2. CASE t # s
          BY <4>2, <3>2, <2>1, <1>3, <1>6 DEF Protected, bucketVars
        <4> QED
          BY <4>1, <4>2
      <3> QED
        BY <2>1, <3>1, <3>2 DEF Protected
    <2> QED
      BY <2>1, <1>3, <1>5, ReadFrame, NamedRevisions DEF CustodyInv
  <1> QED
    BY <1>9, <1>10, <1>11, <1>12, <1>13, <1>14 DEF CustodyInv

LEMMA ReadStep == ASSUME TypeOK, CustodyInv, NEW q \in Reads, Read(q) PROVE CustodyInv'
  <1>1. /\ UNCHANGED <<tableVars, bucketVars, revision, writer, pass, stops>>
        /\ \A p \in Reads \ {q} : reads'[p] = reads[p]
    BY DEF Read, ReadName, ReadHead, ReadControl, ReadPayload, EndRead, TypeOK
  <1>2. Keeps /\ \A s \in Secrets : head'[s] # NoHead => HeadInv(s)'
    BY <1>1, TableFrame DEF tableVars, Committed
  <1>3. CurrentObjectsExist' /\ ScheduleInv' /\ WriterInv' /\ PassInv'
    BY <1>1 DEF CustodyInv, CurrentObjectsExist, ScheduleInv, WriterInv, PassInv, Committed,
                tableVars, bucketVars
  <1>4. \A r \in Revisions : Protected(r)' <=> Protected(r)
    BY <1>1 DEF Protected, tableVars, bucketVars
  <1>5. \A p \in Reads \ {q} : ReadInv(p)'
    BY <1>1, <1>2, <1>4, ReadFrame, NamedRevisions DEF CustodyInv
  <1>6. ReadInv(q)
    BY DEF CustodyInv
  <1>7. ReadInv(q)'
    <2>1. ASSUME reads'[q].phase \in {"idle", "denied", "named"} PROVE ReadInv(q)'
      BY <2>1 DEF ReadInv
    <2>2. ASSUME NEW c \in OrNone(Consumers), NEW n \in Names, ReadName(q, c, n)
          PROVE  ReadInv(q)'
      <3>1. reads'[q].phase \in {"denied", "named"}
        BY <2>2 DEF ReadName, NoRead, TypeOK
      <3> QED
        BY <2>1, <3>1
    <2>3. CASE EndRead(q)
      <3>1. reads'[q].phase = "idle"
        BY <2>3, Constants DEF EndRead, TypeOK
      <3> QED
        BY <2>1, <3>1
    <2>4. CASE ReadHead(q)
      <3> DEFINE h == head[reads[q].secret]
      <3>1. CASE reads'[q].phase = "denied"
        BY <2>1, <3>1
      <3>2. CASE reads'[q].phase # "denied"
        <4>1. /\ reads'[q].phase = "authorized" /\ reads'[q].head = h
              /\ reads'[q].name = reads[q].name /\ reads'[q].consumer = reads[q].consumer
              /\ reads[q].consumer = None \/ MayRead(q)
              /\ h.name = reads[q].name /\ h.state = "ACTIVE"
              /\ reads[q].secret \in Secrets /\ reads[q].consumer \in OrNone(Consumers)
          BY <2>4, <3>2 DEF ReadHead, TypeOK, ReadRecord
        <4>2. PICK s \in Secrets : s = reads[q].secret
          BY <4>1
        <4>3. head[s] # NoHead /\ HeadInv(s) /\ head[s] \in HeadRecord
          BY <4>1, <4>2, Constants DEF CustodyInv, TypeOK
        <4>4. /\ head[s].payload \in Versions
              /\ reads[q].consumer # None =>
                    reads[q].consumer \in revision[head[s].control].acl
          BY <4>1, <4>2, <4>3 DEF HeadInv, HeadRecord, OrNone, MayRead
        <4>5. \A r \in Named(head[s]) : Protected(r)
          BY DEF CustodyInv, CurrentObjectsExist, Protected
        <4> QED
          BY <1>1, <1>4, <4>1, <4>2, <4>3, <4>4, <4>5, NamedRevisions
             DEF ReadInv, HeadInv, tableVars, Committed
      <3> QED
        BY <3>1, <3>2
    <2>5. CASE ReadControl(q)
      <3>1. /\ reads[q].phase = "authorized" /\ reads[q].head \in HeadRecord
            /\ <<"control", reads[q].head.control>> \in Named(reads[q].head)
        BY <2>5, <1>6, NamedPairs DEF ReadControl, ReadInv, TypeOK, ReadRecord
      <3>2. reads'[q] = [reads[q] EXCEPT !.phase = "control"]
        BY <2>5, <1>6, <3>1 DEF ReadControl, ReadInv, Protected, TypeOK
      <3>3. /\ reads'[q].phase = "control" /\ reads'[q].head = reads[q].head
            /\ reads'[q].name = reads[q].name /\ reads'[q].consumer = reads[q].consumer
        BY <3>2 DEF TypeOK, ReadRecord
      <3> QED
        BY <1>1, <1>4, <1>6, <3>1, <3>3, NamedRevisions DEF ReadInv, tableVars, Committed
    <2>6. CASE ReadPayload(q)
      <3>1. /\ reads[q].phase = "control" /\ reads[q].head \in HeadRecord
            /\ <<"payload", reads[q].head.payload>> \in Named(reads[q].head)
        BY <2>6, <1>6, NamedPairs DEF ReadPayload, ReadInv, TypeOK, ReadRecord
      <3>2. reads'[q] = [reads[q] EXCEPT !.phase = "delivered"]
        BY <2>6, <1>6, <3>1 DEF ReadPayload, ReadInv, Protected, TypeOK
      <3>3. /\ reads'[q].phase = "delivered" /\ reads'[q].head = reads[q].head
            /\ reads'[q].name = reads[q].name /\ reads'[q].consumer = reads[q].consumer
        BY <3>2 DEF TypeOK, ReadRecord
      <3> QED
        BY <1>1, <1>6, <3>1, <3>3 DEF ReadInv, tableVars, Committed
    <2> QED
      BY <2>2, <2>3, <2>4, <2>5, <2>6 DEF Read
  <1> QED
    BY <1>2, <1>3, <1>5, <1>7 DEF CustodyInv

\* Locks pass and dates fall due only while nobody relies on them.
LEMMA TimeStep ==
    ASSUME TypeOK, CustodyInv, NEW r \in Revisions, LockPasses(r) \/ RetentionFallsDue(r)
    PROVE  CustodyInv'
  <1>1. /\ UNCHANGED <<head, access, workflow, objects, revision, writer, reads, pass>>
        /\ writer = NoWriter /\ \A q \in Reads : reads[q] = NoRead
        /\ \A x \in Revisions : retention'[x] # "none" => retention[x] # "none"
    BY DEF LockPasses, RetentionFallsDue, Quiet, tableVars, bucketVars, TypeOK
  <1>2. \A s \in Secrets : head'[s] # NoHead => HeadInv(s)'
    BY <1>1, TableFrame DEF Committed
  <1>3. CurrentObjectsExist' /\ ScheduleInv' /\ PassInv'
    BY <1>1 DEF CustodyInv, CurrentObjectsExist, ScheduleInv, PassInv, Committed
  <1>4. WriterInv' /\ \A q \in Reads : ReadInv(q)'
    BY <1>1, Constants DEF WriterInv, ReadInv
  <1> QED
    BY <1>2, <1>3, <1>4 DEF CustodyInv

LEMMA DeleteStep == ASSUME TypeOK, CustodyInv, DeleteObject PROVE CustodyInv'
  <1> DEFINE r == pass.item
  <1>1. /\ r \in Revisions /\ r \notin locked /\ Committed(r)
        /\ \A s \in Secrets : r \notin Named(head[s])
        /\ objects' = objects \ {r}
        /\ UNCHANGED <<tableVars, locked, revision, writer, reads, stops>>
        /\ pass'.phase = "mark" /\ pass'.item = r /\ pass'.todo = pass.todo
    BY DEF DeleteObject, CustodyInv, PassInv, TypeOK, PassRecord
  <1>2. Keeps /\ \A s \in Secrets : head'[s] # NoHead => HeadInv(s)'
    BY <1>1, TableFrame DEF tableVars, Committed
  <1>3. CurrentObjectsExist' /\ ScheduleInv' /\ PassInv'
    BY <1>1 DEF CustodyInv, CurrentObjectsExist, ScheduleInv, PassInv, Committed, tableVars,
                DeleteObject
  <1>4. WriterInv'
    <2>1. ASSUME writer.phase # "idle" PROVE r \notin Written(writer.request, writer.version)
      <3>1. /\ ~Committed(<<"control", writer.version>>)
            /\ ~Committed(<<"payload", writer.version>>)
        BY <2>1 DEF CustodyInv, WriterInv, ScheduleInv
      <3> QED
        BY <1>1, <3>1, Pairs
    <2> QED
      BY <1>1, <2>1 DEF CustodyInv, WriterInv, Committed, tableVars
  <1>5. \A q \in Reads : ReadInv(q)'
    <2>1. \A x \in Revisions : Protected(x) => Protected(x)'
      BY <1>1 DEF Protected, tableVars
    <2> QED
      BY <2>1, <1>1, <1>2, ReadFrame, NamedRevisions DEF CustodyInv
  <1> QED
    BY <1>2, <1>3, <1>4, <1>5 DEF CustodyInv

LEMMA RetainStep == ASSUME TypeOK, CustodyInv, Retain \/ StopPass PROVE CustodyInv'
  <1>1. CASE DeleteObject
    BY <1>1, DeleteStep
  <1>2. CASE ~DeleteObject
    <2>1. /\ UNCHANGED <<head, access, bucketVars, revision, writer, reads>>
          /\ \A r \in Revisions : Committed(r) <=> workflow'[r] # "none"
          /\ \A r \in Revisions : retention'[r] # "none" => retention[r] # "none"
      BY <1>2 DEF Retain, ListDue, TakeDue, CheckHead, CheckLock, MarkDeleted, EndPass,
                  StopPass, tableVars, TypeOK, Committed
    <2>2. Keeps /\ \A s \in Secrets : head'[s] # NoHead => HeadInv(s)'
      BY <2>1, TableFrame DEF Committed
    <2>3. PassInv'
      <3>1. \A r \in pass.todo : r \in Revisions /\ Committed(r)
        BY DEF TypeOK, PassRecord, CustodyInv, PassInv
      <3>2. ASSUME pass' = NoPass PROVE PassInv'
        BY <3>2, Constants DEF PassInv
      <3>3. CASE ListDue
        <4>1. pass'.phase = "next" /\ pass'.todo = Due
          BY <3>3 DEF ListDue, NoPass
        <4>2. \A r \in Due : r \in Revisions /\ Committed(r)
          BY DEF Due, CustodyInv, ScheduleInv
        <4> QED
          BY <4>1, <4>2, <2>1 DEF PassInv, Committed
      <3>4. ASSUME NEW r \in Revisions, TakeDue(r) PROVE PassInv'
        <4>1. pass'.phase = "head" /\ pass'.todo \subseteq pass.todo /\ pass'.item = r
              /\ r \in pass.todo
          BY <3>4 DEF TakeDue
        <4> QED
          BY <4>1, <3>1, <2>1 DEF PassInv, Committed
      <3>5. CASE CheckHead
        <4>1. /\ pass.phase = "head" /\ pass'.item = pass.item /\ pass'.todo = pass.todo
              /\ pass'.phase = IF IsCurrent(pass.item) THEN "next" ELSE "lock"
          BY <3>5 DEF CheckHead, TypeOK, PassRecord
        <4> QED
          BY <4>1, <3>1, <2>1 DEF CustodyInv, PassInv, Committed, IsCurrent
      <3>6. CASE CheckLock
        <4>1. \/ pass' = NoPass
              \/ /\ pass'.phase \in {"next", "delete"} /\ pass'.item = pass.item
                 /\ pass'.todo = pass.todo
          BY <3>6 DEF CheckLock, TypeOK, PassRecord
        <4>2. pass.phase = "lock"
          BY <3>6 DEF CheckLock
        <4> QED
          BY <4>1, <4>2, <3>1, <3>2, <2>1 DEF CustodyInv, PassInv, Committed
      <3>7. CASE MarkDeleted
        <4>1. pass'.phase = "next" /\ pass'.todo = pass.todo
          BY <3>7 DEF MarkDeleted, TypeOK, PassRecord
        <4> QED
          BY <4>1, <3>1, <2>1 DEF PassInv, Committed
      <3>8. CASE EndPass \/ StopPass
        BY <3>2, <3>8 DEF EndPass, StopPass
      <3> QED
        BY <1>2, <3>3, <3>4, <3>5, <3>6, <3>7, <3>8 DEF Retain
    <2>4. CurrentObjectsExist' /\ ScheduleInv'
      BY <2>1, Pairs DEF CustodyInv, CurrentObjectsExist, ScheduleInv, Committed, bucketVars
    <2>5. WriterInv'
      BY <2>1, Pairs DEF CustodyInv, WriterInv, Committed, bucketVars
    <2>6. \A q \in Reads : ReadInv(q)'
      <3>1. \A x \in Revisions : Protected(x) => Protected(x)'
        BY <2>1 DEF Protected, bucketVars
      <3> QED
        BY <3>1, <2>1, <2>2, ReadFrame, NamedRevisions DEF CustodyInv
    <2> QED
      BY <2>2, <2>3, <2>4, <2>5, <2>6 DEF CustodyInv
  <1> QED
    BY <1>1, <1>2

LEMMA CustodyStep == ASSUME TypeOK, CustodyInv, [Next]_vars PROVE CustodyInv'
  <1>1. CASE UNCHANGED vars
    <2>1. UNCHANGED <<tableVars, bucketVars, revision, writer, reads, pass, stops>>
      BY <1>1 DEF vars, tableVars, bucketVars
    <2> QED
      BY <2>1 DEF CustodyInv, HeadInv, CurrentObjectsExist, ScheduleInv, WriterInv, PassInv,
                  ReadInv, Protected, Committed, tableVars, bucketVars
  <1> QED
    BY <1>1, CreateStep, BeginStep, StoreStep, CommitStep, ReadStep, TimeStep, RetainStep
       DEF Next, Mutate

-----------------------------------------------------------------------------
(* Theorems *)

LEMMA CustodyInvariant == Spec => [](TypeOK /\ CustodyInv)
  <1>1. Init => TypeOK /\ CustodyInv
    BY TypeInit, CustodyInit
  <1>2. TypeOK /\ CustodyInv /\ [Next]_vars => (TypeOK /\ CustodyInv)'
    BY TypeStep, CustodyStep DEF CustodyInv
  <1> QED
    BY <1>1, <1>2, PTL DEF Spec

\* However mutations, retention and reads interleave, no object that is current is deleted,
\* and a read that was let through finds the two objects its head named.
THEOREM CustodyIsKept == Spec => []DeliveryInv
  <1>1. TypeOK /\ CustodyInv => DeliveryInv
    BY DEF CustodyInv, ReadInv, DeliveryInv, AuthorizedReadsSucceed
  <1> QED
    BY <1>1, CustodyInvariant, PTL

\* A payload that is delivered was, in one and the same control revision, current, open to
\* its reader and the secret's that the name meant; several calls lie between the check and
\* the delivery, and the head may have been replaced since.
THEOREM DeliveriesWereAuthorized == Spec => []DeliveriesAreAuthorized
  <1>1. TypeOK /\ CustodyInv => DeliveriesAreAuthorized
    BY DEF CustodyInv, ReadInv, DeliveriesAreAuthorized
  <1> QED
    BY <1>1, CustodyInvariant, PTL
-----------------------------------------------------------------------------
(* The mutations are those of the registry *)

\* The registry as readers and retention see it.
Promised == INSTANCE SecretRegistry WITH
    current <- [s \in Secrets |-> head[s].control],
    content <- [s \in Secrets |-> IF head[s].control = None THEN NoRevision
                                  ELSE revision[head[s].control]],
    readers <- [s \in Secrets |-> {c \in Consumers : access[s][c] = "readable"}],
    bound <- lookup,
    used <- {v \in Versions : workflow[<<"control", v>>] # "none"}

\* The mutations that readers and retention meet here are those SecretMutation promises:
\* whatever a pass or a read does in between, head, revision, rows and name change together,
\* and a revision that was prepared from a head is installed on that same head.
ImplementsRegistry == Promised!Spec

\* What the mapping makes of one secret.
CurrentOf(s) == head[s].control
ContentOf(s) == IF head[s].control = None THEN NoRevision ELSE revision[head[s].control]
ReadersOf(s) == {c \in Consumers : access[s][c] = "readable"}
UsedUp == {v \in Versions : workflow[<<"control", v>>] # "none"}

\* What a mutation prepared is its request done to the revision it read.
SourceInv ==
    writer.phase # "idle" =>
        LET base == revision[writer.prior.control]
            next == revision[writer.version] IN
        /\ writer.request = "acl" =>
              \E acl \in SUBSET Consumers : next = [base EXCEPT !.acl = acl]
        /\ writer.request = "payload" =>
              next = [base EXCEPT !.payload = writer.version, !.state = "ACTIVE"]
        /\ writer.request = "archive" => next = [base EXCEPT !.acl = {}, !.state = "ARCHIVED"]

LEMMA SourceStep == ASSUME TypeOK, CustodyInv, SourceInv, [Next]_vars PROVE SourceInv'
  <1>1. ASSUME NEW s \in Secrets, NEW v \in Versions, NEW n \in Names,
               NEW acl \in SUBSET Consumers, Create(s, v, n, acl)
        PROVE  SourceInv'
    <2>1. /\ writer' = writer /\ v # writer.version /\ ~Committed(<<"control", v>>)
          /\ \A w \in Versions \ {v} : revision'[w] = revision[w]
      BY <1>1 DEF Create, Fresh, Committed, TypeOK
    <2>2. ASSUME writer.phase # "idle"
          PROVE  /\ writer.version \in Versions \ {v}
                 /\ writer.prior.control \in Versions \ {v}
      BY <2>1, <2>2 DEF CustodyInv, WriterInv, HeadInv
    <2> QED
      BY <2>1, <2>2 DEF SourceInv
  <1>2. ASSUME NEW s \in Secrets, NEW v \in Versions, NEW request \in Mutations,
               NEW acl \in SUBSET Consumers, BeginMutation(s, v, request, acl)
        PROVE  SourceInv'
    <2> DEFINE base == revision[head[s].control]
    <2>1. /\ head[s].control \in Versions /\ head[s].control # v
      BY <1>2 DEF BeginMutation, CustodyInv, HeadInv, Fresh, Committed
    <2>2. /\ writer'.request = request /\ writer'.version = v /\ writer'.prior = head[s]
          /\ revision'[head[s].control] = base
      BY <1>2, <2>1 DEF BeginMutation, TypeOK
    <2>3. revision'[v] =
             CASE request = "acl" -> [base EXCEPT !.acl = acl]
               [] request = "payload" -> [base EXCEPT !.payload = v, !.state = "ACTIVE"]
               [] request = "archive" -> [base EXCEPT !.acl = {}, !.state = "ARCHIVED"]
      BY <1>2 DEF BeginMutation, TypeOK
    <2> HIDE DEF base
    <2> QED
      BY <2>2, <2>3 DEF SourceInv, Mutations
  <1>3. CASE Store \/ Extend \/ Commit \/ StopMutation
    <2>1. /\ revision' = revision
          /\ \/ writer' = NoWriter
             \/ /\ writer.phase # "idle"
                /\ writer'.request = writer.request /\ writer'.version = writer.version
                /\ writer'.prior = writer.prior
      BY <1>3 DEF Store, Extend, Commit, StopMutation, TypeOK, WriterRecord
    <2> QED
      BY <2>1, Constants DEF SourceInv
  <1>4. CASE UNCHANGED <<revision, writer>>
    BY <1>4 DEF SourceInv
  <1>5. CASE (\E q \in Reads : Read(q)) \/ Retain \/ StopPass \/ UNCHANGED vars
             \/ \E r \in Revisions : LockPasses(r) \/ RetentionFallsDue(r)
    <2>1. UNCHANGED <<revision, writer>>
      BY <1>5 DEF Read, ReadName, ReadHead, ReadControl, ReadPayload, EndRead, Retain,
                  ListDue, TakeDue, CheckHead, CheckLock, DeleteObject, MarkDeleted,
                  EndPass, StopPass, LockPasses, RetentionFallsDue, vars
    <2> QED
      BY <1>4, <2>1
  <1> QED
    BY <1>1, <1>2, <1>3, <1>5 DEF Next, Mutate

\* Steps that leave heads, rows, names and what was committed alone.
LEMMA RegistryStutters ==
    ASSUME TypeOK, CustodyInv, UNCHANGED <<head, lookup, access>>,
           \A v \in Versions : Committed(<<"control", v>>)' <=> Committed(<<"control", v>>),
           \A v \in Versions : Committed(<<"control", v>>) => revision'[v] = revision[v]
    PROVE  UNCHANGED Promised!vars
  <1>1. \A s \in Secrets : head[s].control # None =>
            head[s].control \in Versions /\ Committed(<<"control", head[s].control>>)
    BY Constants DEF CustodyInv, HeadInv
  <1>2. [s \in Secrets |-> ContentOf(s)]' = [s \in Secrets |-> ContentOf(s)]
    BY <1>1 DEF ContentOf
  <1>3. UsedUp' = UsedUp
    BY DEF UsedUp, Committed
  <1> QED
    BY <1>2, <1>3 DEF Promised!vars, ContentOf, UsedUp

\* What a step of the registry installs, secret by secret.
LEMMA InstallsAt ==
    ASSUME NEW t \in Secrets, NEW v, NEW c,
           CurrentOf(t)' = v, ContentOf(t)' = c, ReadersOf(t)' = c.acl,
           \A s \in Secrets \ {t} : /\ CurrentOf(s)' = CurrentOf(s)
                                    /\ ContentOf(s)' = ContentOf(s)
                                    /\ ReadersOf(s)' = ReadersOf(s)
    PROVE  Promised!Install(t, v, c)
  <1>1. [s \in Secrets |-> CurrentOf(s)]' = [[s \in Secrets |-> CurrentOf(s)] EXCEPT ![t] = v]
    BY ZenonT(30)
  <1>2. [s \in Secrets |-> ContentOf(s)]' = [[s \in Secrets |-> ContentOf(s)] EXCEPT ![t] = c]
    BY ZenonT(30)
  <1>3. [s \in Secrets |-> ReadersOf(s)]' = [[s \in Secrets |-> ReadersOf(s)] EXCEPT ![t] = c.acl]
    BY ZenonT(30)
  <1> QED
    BY <1>1, <1>2, <1>3 DEF Promised!Install, CurrentOf, ContentOf, ReadersOf

\* A head moves to a version that was never current, its content and its rows with it.
LEMMA HeadMoves ==
    ASSUME TypeOK, CustodyInv, NEW s \in Secrets, NEW v \in Versions, NEW h, NEW c,
           head' = [head EXCEPT ![s] = h], h.control = v,
           access' = [access EXCEPT ![s] = RowsFor(s, c.acl)], c.acl \subseteq Consumers,
           ~Committed(<<"control", v>>), revision'[v] = c,
           \A w \in Versions : workflow'[<<"control", w>>] # "none" <=>
                                  w = v \/ Committed(<<"control", w>>),
           \A w \in Versions \ {v} : revision'[w] = revision[w]
    PROVE  /\ v \in Versions \ UsedUp /\ UsedUp' = UsedUp \cup {v}
           /\ Promised!Install(s, v, c)
  <1>1. v \in Versions \ UsedUp /\ UsedUp' = UsedUp \cup {v}
    BY DEF UsedUp, Committed
  <1>2. v # None
    BY DistinctNone
  <1>3. CurrentOf(s)' = v /\ ContentOf(s)' = c
    BY <1>2 DEF CurrentOf, ContentOf, TypeOK
  <1>4. ReadersOf(s)' = c.acl
    <2>1. access'[s] = RowsFor(s, c.acl)
      BY DEF TypeOK
    <2>2. \A r \in Consumers : access'[s][r] = "readable" <=> r \in c.acl
      BY <2>1 DEF RowsFor
    <2> QED
      BY <2>2 DEF ReadersOf
  <1>5. ASSUME NEW t \in Secrets \ {s}
        PROVE  /\ CurrentOf(t)' = CurrentOf(t) /\ ContentOf(t)' = ContentOf(t)
               /\ ReadersOf(t)' = ReadersOf(t)
    <2>1. head'[t] = head[t] /\ access'[t] = access[t]
      BY DEF TypeOK
    <2>2. head[t].control # None => head[t].control \in Versions \ {v}
      BY Constants DEF CustodyInv, HeadInv
    <2> QED
      BY <2>1, <2>2 DEF CurrentOf, ContentOf, ReadersOf
  <1>6. Promised!Install(s, v, c)
    BY <1>3, <1>4, <1>5, InstallsAt
  <1> QED
    BY <1>1, <1>6

LEMMA CreateRefines ==
    ASSUME TypeOK, CustodyInv, NEW s \in Secrets, NEW v \in Versions, NEW n \in Names,
           NEW acl \in SUBSET Consumers, Create(s, v, n, acl)
    PROVE  Promised!Next
  <1>a. PICK h : h = [NoHead EXCEPT !.name = n, !.control = v]
    OBVIOUS
  <1>b. PICK c : c = [NoRevision EXCEPT !.acl = acl]
    OBVIOUS
  <1>1. /\ head[s] = NoHead /\ lookup[n] = None /\ ~Committed(<<"control", v>>)
        /\ head' = [head EXCEPT ![s] = h] /\ h.control = v
        /\ access' = [access EXCEPT ![s] = RowsFor(s, acl)]
        /\ lookup' = [lookup EXCEPT ![n] = s]
        /\ revision' = [revision EXCEPT ![v] = c]
        /\ workflow' = [workflow EXCEPT ![<<"control", v>>] = "READY"]
    BY <1>a, <1>b DEF Create, Fresh, Committed, NoHead
  <1>2. /\ revision'[v] = c /\ \A w \in Versions \ {v} : revision'[w] = revision[w]
    BY <1>1 DEF TypeOK
  <1>3. c.acl = acl /\ c = [state |-> "PENDING_VALUE", acl |-> acl, payload |-> None]
    BY <1>b DEF NoRevision
  <1>4. \A w \in Versions : workflow'[<<"control", w>>] # "none" <=>
            w = v \/ Committed(<<"control", w>>)
    BY <1>1, Pairs DEF TypeOK, Committed
  <1>5. /\ v \in Versions \ UsedUp /\ UsedUp' = UsedUp \cup {v}
        /\ Promised!Install(s, v, c)
    BY <1>1, <1>2, <1>3, <1>4, HeadMoves
  <1>6. [t \in Secrets |-> CurrentOf(t)][s] = None
    BY <1>1, Constants DEF CurrentOf
  <1>7. Promised!Create(s, v, n, acl)
    BY <1>1, <1>3, <1>5, <1>6 DEF Promised!Create, CurrentOf
  <1> QED
    BY <1>5, <1>7 DEF Promised!Next, UsedUp

LEMMA CommitRefines ==
    ASSUME TypeOK, CustodyInv, SourceInv, Commit PROVE Promised!Next
  <1>0. writer.phase # "idle" /\ writer.secret \in Secrets /\ writer.version \in Versions
    BY DEF Commit, CustodyInv, WriterInv
  <1>a. PICK s \in Secrets : s = writer.secret
    BY <1>0
  <1>b. PICK v \in Versions : v = writer.version
    BY <1>0
  <1>c. PICK c \in ControlRevision : c = revision[v]
    BY DEF TypeOK
  <1>d. PICK h : h = NextHead
    OBVIOUS
  <1>1. /\ writer.prior = head[s] /\ head[s] # NoHead /\ HeadInv(s)
        /\ ~Committed(<<"control", v>>) /\ writer.request \in Mutations
    BY <1>0, <1>a, <1>b DEF CustodyInv, WriterInv, TypeOK, WriterRecord
  <1>e. PICK n \in Names : n = head[s].name
    BY <1>1 DEF HeadInv
  <1>f. PICK base \in ControlRevision :
            head[s].control \in Versions /\ base = revision[head[s].control]
    BY <1>1 DEF HeadInv, TypeOK
  <1>2. /\ head' = [head EXCEPT ![s] = h]
        /\ access' = [access EXCEPT ![s] = RowsFor(s, c.acl)]
        /\ lookup' = IF writer.request = "archive" THEN [lookup EXCEPT ![n] = None] ELSE lookup
        /\ writer.request = "archive" => lookup[n] = s
        /\ revision' = revision
    BY <1>a, <1>b, <1>c, <1>d, <1>e, Zenon DEF Commit
  <1>3. h.control = v
    BY <1>a, <1>b, <1>d DEF NextHead, TypeOK, HeadRecord
  <1>4. \A w \in Versions : workflow'[<<"control", w>>] # "none" <=>
            w = v \/ Committed(<<"control", w>>)
    <2>1. PICK new : new = Written(writer.request, v)
      OBVIOUS
    <2>2. workflow' = [r \in Revisions |-> IF r \in new THEN "READY" ELSE workflow[r]]
      BY <1>b, <2>1, Zenon DEF Commit
    <2>3. \A w \in Versions : <<"control", w>> \in Revisions /\ (<<"control", w>> \in new <=> w = v)
      BY <2>1 DEF Written, Revisions
    <2> QED
      BY <2>2, <2>3 DEF Committed
  <1>5. c.acl \subseteq Consumers /\ revision'[v] = c
    BY <1>c, <1>2 DEF ControlRevision
  <1>6. /\ v \in Versions \ UsedUp /\ UsedUp' = UsedUp \cup {v}
        /\ Promised!Install(s, v, c)
    BY <1>1, <1>2, <1>3, <1>4, <1>5, HeadMoves
  <1>7. /\ [t \in Secrets |-> head[t].control][s] # None
        /\ base = [t \in Secrets |-> IF head[t].control = None THEN NoRevision
                                     ELSE revision[head[t].control]][s]
    BY <1>f, DistinctNone
  <1>8. CASE writer.request = "acl"
    <2>1. PICK acl \in SUBSET Consumers : c = [base EXCEPT !.acl = acl]
      BY <1>0, <1>b, <1>c, <1>f, <1>1, <1>8 DEF SourceInv
    <2>2. c = [[t \in Secrets |-> IF head[t].control = None THEN NoRevision
                                  ELSE revision[head[t].control]][s] EXCEPT !.acl = acl]
      BY <1>7, <2>1, Zenon
    <2>3. Promised!ReplaceAcl(s, v, acl)
      BY <1>2, <1>6, <1>7, <1>8, <2>2 DEF Promised!ReplaceAcl, Promised!Install
    <2> QED
      BY <1>6, <2>3 DEF Promised!Next, UsedUp
  <1>9. CASE writer.request = "payload"
    <2>1. c = [base EXCEPT !.payload = v, !.state = "ACTIVE"]
      BY <1>0, <1>b, <1>c, <1>f, <1>1, <1>9 DEF SourceInv
    <2>2. c = [[t \in Secrets |-> IF head[t].control = None THEN NoRevision
                  ELSE revision[head[t].control]][s] EXCEPT !.payload = v, !.state = "ACTIVE"]
      BY <1>7, <2>1, Zenon
    <2>3. Promised!ReplacePayload(s, v)
      BY <1>2, <1>6, <1>7, <1>9, <2>2 DEF Promised!ReplacePayload, Promised!Install
    <2> QED
      BY <1>6, <2>3 DEF Promised!Next, UsedUp
  <1>10. CASE writer.request = "archive"
    <2>1. c = [base EXCEPT !.acl = {}, !.state = "ARCHIVED"]
      BY <1>0, <1>b, <1>c, <1>f, <1>1, <1>10 DEF SourceInv
    <2>2. c = [base EXCEPT !.state = "ARCHIVED", !.acl = {}]
      BY <1>f, <2>1 DEF ControlRevision
    <2>3. c = [[t \in Secrets |-> IF head[t].control = None THEN NoRevision
                  ELSE revision[head[t].control]][s] EXCEPT !.state = "ARCHIVED", !.acl = {}]
      BY <1>7, <2>2, Zenon
    <2>4. Promised!Archive(s, v, n)
      BY <1>2, <1>6, <1>10, <2>3 DEF Promised!Archive, Promised!Install
    <2> QED
      BY <1>6, <2>4 DEF Promised!Next, UsedUp
  <1> QED
    BY <1>1, <1>8, <1>9, <1>10 DEF Mutations

LEMMA OthersStutter ==
    ASSUME TypeOK, CustodyInv, [Next]_vars, ~Commit,
           ~\E s \in Secrets, v \in Versions, n \in Names, acl \in SUBSET Consumers :
               Create(s, v, n, acl)
    PROVE  UNCHANGED Promised!vars
  <1>1. ASSUME NEW s \in Secrets, NEW v \in Versions, NEW request \in Mutations,
               NEW acl \in SUBSET Consumers, BeginMutation(s, v, request, acl)
        PROVE  UNCHANGED Promised!vars
    <2>1. /\ UNCHANGED <<head, lookup, access, workflow>> /\ ~Committed(<<"control", v>>)
          /\ \A w \in Versions \ {v} : revision'[w] = revision[w]
      BY <1>1 DEF BeginMutation, tableVars, Fresh, Committed, TypeOK
    <2> QED
      BY <2>1, RegistryStutters DEF Committed
  <1>2. CASE MarkDeleted
    <2>1. /\ UNCHANGED <<head, lookup, access, revision>> /\ workflow[pass.item] = "READY"
          /\ workflow' = [workflow EXCEPT ![pass.item] = "DELETED"]
      BY <1>2 DEF MarkDeleted
    <2>2. \A v \in Versions : Committed(<<"control", v>>)' <=> Committed(<<"control", v>>)
      BY <2>1, Pairs DEF Committed, TypeOK
    <2> QED
      BY <2>1, <2>2, RegistryStutters
  <1>3. CASE Store \/ Extend \/ StopMutation \/ (\E q \in Reads : Read(q))
    <2>1. UNCHANGED <<head, lookup, access, workflow, revision>>
      BY <1>3 DEF Store, Extend, StopMutation, Read, ReadName, ReadHead, ReadControl,
                  ReadPayload, EndRead, tableVars
    <2> QED
      BY <2>1, RegistryStutters DEF Committed
  <1>4. CASE \/ ListDue \/ (\E r \in Revisions : TakeDue(r)) \/ CheckHead \/ CheckLock
             \/ DeleteObject \/ EndPass \/ StopPass \/ UNCHANGED vars
             \/ \E r \in Revisions : LockPasses(r) \/ RetentionFallsDue(r)
    <2>1. UNCHANGED <<head, lookup, access, workflow, revision>>
      BY <1>4 DEF ListDue, TakeDue, CheckHead, CheckLock, DeleteObject, EndPass, StopPass,
                  LockPasses, RetentionFallsDue, tableVars, vars
    <2> QED
      BY <2>1, RegistryStutters DEF Committed
  <1> QED
    BY <1>1, <1>2, <1>3, <1>4 DEF Next, Mutate, Retain

\* The stand-in for mutations that reads and retention are modelled against keeps to what
\* SecretMutation is proved to promise: one step that moves head, revision, rows and name
\* together, from the revision it was prepared from (completeMutation).
THEOREM DeliveriesImplementTheRegistry == Spec => ImplementsRegistry
  <1>1. Init => Promised!Init
    <2> SUFFICES ASSUME Init PROVE Promised!Init
      OBVIOUS
    <2>1. \A s \in Secrets : head[s].control = None
      BY Constants DEF Init
    <2>2. \A s \in Secrets : {c \in Consumers : access[s][c] = "readable"} = {}
      BY DEF Init
    <2>3. {v \in Versions : workflow[<<"control", v>>] # "none"} = {}
      BY Pairs DEF Init
    <2> QED
      BY <2>1, <2>2, <2>3 DEF Init, Promised!Init, NoRevision
  <1>2. Init => SourceInv
    BY Constants DEF Init, SourceInv
  <1>3. /\ TypeOK /\ CustodyInv /\ SourceInv /\ [Next]_vars => SourceInv'
    BY SourceStep
  <1>4. TypeOK /\ CustodyInv /\ SourceInv /\ [Next]_vars => [Promised!Next]_(Promised!vars)
    BY CreateRefines, CommitRefines, OthersStutter
  <1> QED
    BY <1>1, <1>2, <1>3, <1>4, CustodyInvariant, PTL
       DEF Spec, ImplementsRegistry, Promised!Spec
=============================================================================
