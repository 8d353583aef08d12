----------------------- MODULE SecretMigrationsProofs -----------------------
(***************************************************************************)
(* Proofs about SecretMigrations and NotificationOutbox: for any number of *)
(* secrets, readers, events and interruptions, rows stay whole, a reported *)
(* success is one, and what is called delivered was published.             *)
(***************************************************************************)
EXTENDS SecretMigrations, SequenceTheorems, FiniteSetTheorems, TLAPS

-----------------------------------------------------------------------------
(* The invariant *)

\* Each of a secret's rows, and each delivery row, is at one key.
SameRow(r, q) == r.secret = q.secret /\ r.kind = q.kind
SameReader(a, b) == a.consumer = b.consumer /\ a.secret = b.secret

RowsAreUnique ==
    /\ \A s \in Secrets, k \in Kinds : \E r \in table : r.secret = s /\ r.kind = k
    /\ \A r, q \in table : SameRow(r, q) => r = q

ReadersAreUnique ==
    /\ \A c \in Readers, s \in Secrets : \E a \in access : a.consumer = c /\ a.secret = s
    /\ \A a, b \in access : SameReader(a, b) => a = b

Stored(r, place) == [secret |-> r.secret, place |-> place] \in objects

Whole(r) == Stored(r, r.ref) /\ (r.place # "uid" => r.ref = r.place) /\ r.index \in {"none", r.place}

\* A scoped head has no revision that was left behind.
HeadsFollow ==
    \A r, q \in table :
        r.secret = q.secret /\ r.kind = "HEAD" /\ r.place = "scoped" => q.place # "legacy"

RowsInv ==
    /\ RowsAreUnique /\ ReadersAreUnique /\ HeadsFollow
    /\ \A r \in table : Whole(r)

\* A script knows the rows it has left; what a UID migration has seen where it was is
\* there still, or where it goes, and it has named, or will name, what no scan overlooked.
Job == [script : {"none", "identity", "uids", "indexes", "folders"}, copies : SUBSET Secrets,
        rows : SUBSET Row, access : SUBSET DeliveryRow, names : SUBSET Secrets,
        scope : SUBSET Secrets, grant : BOOLEAN, events : SUBSET Events,
        heads : SUBSET Secrets, read : {<<>>} \cup (Secrets \X Nat)]

IdentityKnows ==
    job.script = "identity" =>
        /\ job.rows = At("legacy")
        /\ \A r \in job.rows : r.secret \in job.copies \/ Stored(r, "scoped")

UidsKnow ==
    job.script = "uids" =>
        /\ Secrets \ overlooked \subseteq job.scope
        /\ Secrets \ overlooked \subseteq names \cup job.names
        /\ \A r \in job.rows :
              /\ Stored(r, r.ref)
              /\ \A q \in table : SameRow(r, q) => q = r \/ q.place = "uid"

FoldersKnow ==
    /\ job.script = "folders" => \A s \in Secrets \ job.heads : heads[s].listed # "path"
    /\ job.read # <<>> => LET s == job.read[1] IN
          job.read[2] <= heads[s].version
              /\ (job.read[2] # heads[s].version => heads[s].listed # "path")

\* The migrations alone move delivery rows and the grant, and neither runs on a table
\* that has its form.
JobInv ==
    /\ job \in Job
    /\ IdentityKnows /\ UidsKnow /\ FoldersKnow
    /\ job.script = "indexes" => job.rows \subseteq table
    /\ job.access \subseteq access
    /\ job.access # {} => job.script \in {"identity", "uids"}
    /\ job.grant => job.script = "uids"
    /\ job.script \in {"identity", "uids"} => "uids" \notin reports

\* No secret is archived before the release serves, so a scope that was made exact has
\* every secret that no scan overlooked.
FormInv ==
    /\ grant.exact \in BOOLEAN
    /\ grant.exact => Secrets \ overlooked \subseteq grant.secrets
    /\ "uids" \notin reports => \A s \in Secrets : ~heads[s].archived

\* Of the record that is published next, whoever was told has it.
QueueInv ==
    /\ done \in Nat
    /\ \A i \in 1 .. Len(queue) : Len(queue[i].records) > 0
    /\ IF queue = <<>> THEN done = 0 /\ told = {}
       ELSE /\ done < Len(queue[1].records)
            /\ \A c \in told : <<queue[1].records[done + 1], c>> \in published

MigrationInv == TypeOK /\ RowsInv /\ JobInv /\ FormInv /\ ReportsAreTrue
PublicationInv == OutboxTypeOK /\ QueueInv /\ DeliveredIsPublished

-----------------------------------------------------------------------------
(* The outbox *)

Batch == [records : Seq(Events), tries : 0 .. Retries]

LEMMA HeadIsFirst ==
  ASSUME NEW S, NEW s \in Seq(S), s # <<>>
  PROVE  /\ Head(s) = s[1] /\ s[1] \in S /\ Len(s) \in Nat /\ Len(s) > 0
         /\ \A i \in 1 .. Len(s) : s[i] \in S
  BY EmptySeq, ElementOfSeq, LenProperties

\* The record that is published next is an event.
LEMMA CurrentIsEvent ==
  ASSUME OutboxTypeOK, QueueInv, queue # <<>>
  PROVE  /\ Current \in Events /\ Current = queue[1].records[done + 1]
         /\ queue[1] \in Batch /\ Head(queue) = queue[1]
         /\ Len(queue[1].records) \in Nat /\ done < Len(queue[1].records)
  <1>1. queue \in Seq(Batch)
    BY DEF OutboxTypeOK, Batch
  <1>2. Head(queue) = queue[1] /\ queue[1] \in Batch
    BY <1>1, HeadIsFirst
  <1>3. queue[1].records \in Seq(Events) /\ done \in Nat /\ done < Len(queue[1].records)
    BY <1>2 DEF QueueInv, Batch
  <1>4. Len(queue[1].records) \in Nat
    BY <1>3, LenProperties
  <1>5. done + 1 \in 1 .. Len(queue[1].records)
    BY <1>3, <1>4
  <1>6. queue[1].records[done + 1] \in Events
    BY <1>3, <1>5, ElementOfSeq
  <1> QED
    BY <1>2, <1>3, <1>4, <1>6 DEF Current

\* A batch that is dropped leaves the others as they are.
LEMMA DropFirst ==
  ASSUME OutboxTypeOK, QueueInv, queue # <<>>
  PROVE  /\ Tail(queue) \in Seq(Batch)
         /\ \A i \in 1 .. Len(Tail(queue)) : Len(Tail(queue)[i].records) > 0
  <1>1. queue \in Seq(Batch)
    BY DEF OutboxTypeOK, Batch
  <1>2. /\ Tail(queue) \in Seq(Batch) /\ Len(Tail(queue)) = Len(queue) - 1
        /\ \A i \in 1 .. Len(Tail(queue)) : Tail(queue)[i] = queue[i + 1]
    BY <1>1, HeadTailProperties
  <1>3. Len(queue) \in Nat
    BY <1>1, LenProperties
  <1>4. ASSUME NEW i \in 1 .. Len(Tail(queue))
        PROVE  Len(Tail(queue)[i].records) > 0
    <2>1. i + 1 \in 1 .. Len(queue) /\ Tail(queue)[i] = queue[i + 1]
      BY <1>2, <1>3
    <2> QED
      BY <2>1 DEF QueueInv
  <1> QED
    BY <1>2, <1>4

\* A queue is served from its first record, with nobody told of it yet.
LEMMA QueueStarts ==
  ASSUME done' = 0, told' = {}, \A i \in 1 .. Len(queue') : Len(queue'[i].records) > 0,
         queue' \in Seq(Batch)
  PROVE  QueueInv'
  <1>1. CASE queue' = <<>>
    BY <1>1 DEF QueueInv
  <1>2. CASE queue' # <<>>
    <2>1. 1 \in 1 .. Len(queue')
      BY <1>2, HeadIsFirst
    <2>2. Len(queue'[1].records) > 0
      BY <2>1
    <2> QED
      BY <1>2, <2>2 DEF QueueInv
  <1> QED
    BY <1>1, <1>2

LEMMA RecordKeeps ==
  ASSUME PublicationInv, NEW e \in Events, Record(e)
  PROVE  PublicationInv'
  <1>1. stream' \in Seq(Events)
    BY AppendProperties DEF PublicationInv, OutboxTypeOK, Record
  <1>2. OutboxTypeOK'
    BY <1>1 DEF PublicationInv, OutboxTypeOK, Record
  <1>3. QueueInv'
    BY DEF PublicationInv, QueueInv, Record
  <1>4. DeliveredIsPublished'
    BY DEF PublicationInv, OutboxTypeOK, DeliveredIsPublished, Record
  <1> QED
    BY <1>2, <1>3, <1>4 DEF PublicationInv

LEMMA PollKeeps ==
  ASSUME PublicationInv, Poll
  PROVE  PublicationInv'
  <1>1. stream \in Seq(Events) /\ queue = <<>> /\ done = 0 /\ told = {} /\ Len(stream) \in Nat
    BY LenProperties DEF PublicationInv, OutboxTypeOK, QueueInv, Poll
  <1>2. PICK n \in 1 .. Len(stream) :
           /\ queue' = <<[records |-> SubSeq(stream, 1, n), tries |-> 0]>>
           /\ stream' = SubSeq(stream, n + 1, Len(stream))
    BY DEF Poll
  <1>3. \A i \in 1 .. Len(stream) : stream[i] \in Events
    BY <1>1, ElementOfSeq
  <1>4. SubSeq(stream, 1, n) \in Seq(Events) /\ Len(SubSeq(stream, 1, n)) > 0
    <2>1. n \in Int /\ 1 \in Int /\ 1 <= n /\ \A i \in 1 .. n : stream[i] \in Events
      BY <1>1, <1>2, <1>3
    <2>2. SubSeq(stream, 1, n) \in Seq(Events)
      BY <2>1, SubSeqProperties
    <2>3. Len(SubSeq(stream, 1, n)) = IF 1 <= n THEN n - 1 + 1 ELSE 0
      BY <2>1, SubSeqProperties
    <2> QED
      BY <2>1, <2>2, <2>3
  <1>5. stream' \in Seq(Events)
    <2>1. n + 1 \in Int /\ Len(stream) \in Int /\ \A i \in n + 1 .. Len(stream) : stream[i] \in Events
      BY <1>1, <1>2, <1>3
    <2> QED
      BY <1>2, <2>1, SubSeqProperties
  <1>6. queue' \in Seq(Batch) /\ \A i \in 1 .. Len(queue') : Len(queue'[i].records) > 0
    <2> DEFINE b == [records |-> SubSeq(stream, 1, n), tries |-> 0]
    <2>1. b \in Batch /\ Len(b.records) > 0
      BY <1>4, RetriesAssumption DEF Batch
    <2> HIDE DEF b
    <2>2. <<b>> \in Seq(Batch) /\ Len(<<b>>) = 1 /\ <<b>>[1] = b
      BY <2>1
    <2>3. queue' = <<b>>
      BY <1>2 DEF b
    <2> QED
      BY <2>1, <2>2, <2>3
  <1>7. QueueInv'
    BY <1>1, <1>6, QueueStarts DEF Poll
  <1>8. OutboxTypeOK'
    BY <1>5, <1>6 DEF PublicationInv, OutboxTypeOK, Poll, Batch
  <1>9. DeliveredIsPublished'
    BY DEF PublicationInv, DeliveredIsPublished, Poll
  <1> QED
    BY <1>7, <1>8, <1>9 DEF PublicationInv

LEMMA PublishKeeps ==
  ASSUME PublicationInv, NEW c \in Consumers, Publish(c)
  PROVE  PublicationInv'
  <1>1. /\ Current \in Events /\ Current = queue[1].records[done + 1] /\ queue # <<>>
        /\ UNCHANGED <<outbox, stream, queue, done, dead>>
        /\ told' = told \cup {c} /\ published' = published \cup {<<Current, c>>}
    BY CurrentIsEvent DEF PublicationInv, Publish
  <1>2. QueueInv'
    BY <1>1 DEF PublicationInv, QueueInv
  <1>3. OutboxTypeOK'
    BY <1>1 DEF PublicationInv, OutboxTypeOK
  <1>4. DeliveredIsPublished'
    BY <1>1 DEF PublicationInv, DeliveredIsPublished
  <1> QED
    BY <1>2, <1>3, <1>4 DEF PublicationInv

LEMMA DeliveredKeeps ==
  ASSUME PublicationInv, MarkDelivered
  PROVE  PublicationInv'
  <1>1. /\ Current \in Events /\ Current = queue[1].records[done + 1]
        /\ Head(queue) = queue[1] /\ queue # <<>> /\ told = Consumers /\ done \in Nat
        /\ Len(queue[1].records) \in Nat /\ done < Len(queue[1].records)
    BY CurrentIsEvent DEF PublicationInv, QueueInv, MarkDelivered
  <1>2. /\ outbox' = [outbox EXCEPT ![Current].status = "DELIVERED"]
        /\ UNCHANGED <<stream, published, dead>> /\ told' = {}
    BY DEF MarkDelivered, NextRecord
  <1>3. outbox' \in [Events -> [status : {"none", "PENDING", "DELIVERED"}, environment : BOOLEAN]]
    BY <1>1, <1>2 DEF PublicationInv, OutboxTypeOK
  <1>4. \A c \in Consumers : <<Current, c>> \in published
    BY <1>1 DEF PublicationInv, QueueInv
  <1>5. DeliveredIsPublished'
    BY <1>1, <1>2, <1>4 DEF PublicationInv, OutboxTypeOK, DeliveredIsPublished
  <1>6. QueueInv' /\ queue' \in Seq(Batch)
    <2>1. CASE done + 1 = Len(Head(queue).records)
      <3>1. queue' = Tail(queue) /\ done' = 0
        BY <2>1 DEF MarkDelivered, NextRecord
      <3> QED
        BY <1>1, <1>2, <3>1, DropFirst, QueueStarts DEF PublicationInv
    <2>2. CASE done + 1 # Len(Head(queue).records)
      <3>1. queue' = queue /\ done' = done + 1
        BY <2>2 DEF MarkDelivered, NextRecord
      <3>2. done + 1 < Len(queue[1].records)
        BY <1>1, <2>2
      <3> QED
        BY <1>1, <1>2, <3>1, <3>2 DEF PublicationInv, OutboxTypeOK, QueueInv, Batch
    <2> QED
      BY <2>1, <2>2
  <1>7. OutboxTypeOK'
    BY <1>2, <1>3, <1>6 DEF PublicationInv, OutboxTypeOK, Batch
  <1> QED
    BY <1>5, <1>6, <1>7 DEF PublicationInv

\* Both halves of a batch of several records hold some of them.
LEMMA HalvesAreBatches ==
  ASSUME NEW b \in Batch, Len(b.records) > 1
  PROVE  /\ Halves(b) \in Seq(Batch) /\ Len(Halves(b)) = 2
         /\ \A i \in 1 .. 2 : Len(Halves(b)[i].records) > 0
  <1> DEFINE n == Len(b.records)
             half == n \div 2
             one == SubSeq(b.records, 1, half)
             two == SubSeq(b.records, half + 1, n)
  <1>1. b.records \in Seq(Events) /\ b.tries \in 0 .. Retries
        /\ b = [records |-> b.records, tries |-> b.tries]
    BY DEF Batch
  <1>2. n \in Nat /\ n > 1 /\ \A i \in 1 .. n : b.records[i] \in Events
    BY <1>1, LenProperties, ElementOfSeq
  <1>3. half \in Nat /\ half >= 1 /\ half < n
    <2>1. \A m \in Nat : m > 1 => m \div 2 \in Nat /\ m \div 2 >= 1 /\ m \div 2 < m
      OBVIOUS
    <2> HIDE DEF n
    <2> QED
      BY <1>2, <2>1
  <1> HIDE DEF n, half
  <1>4. one \in Seq(Events) /\ Len(one) > 0
    <2>1. half \in Int /\ 1 \in Int /\ \A i \in 1 .. half : b.records[i] \in Events
      BY <1>2, <1>3
    <2>2. one \in Seq(Events) /\ Len(one) = IF 1 <= half THEN half - 1 + 1 ELSE 0
      BY <2>1, SubSeqProperties
    <2> QED
      BY <1>3, <2>2
  <1>5. two \in Seq(Events) /\ Len(two) > 0
    <2>1. half + 1 \in Int /\ n \in Int /\ \A i \in half + 1 .. n : b.records[i] \in Events
      BY <1>2, <1>3
    <2>2. two \in Seq(Events)
          /\ Len(two) = IF half + 1 <= n THEN n - (half + 1) + 1 ELSE 0
      BY <2>1, SubSeqProperties
    <2> QED
      BY <1>2, <1>3, <2>2
  <1>6. Halves(b) = <<[b EXCEPT !.records = one], [b EXCEPT !.records = two]>>
    BY DEF Halves, n, half
  <1> HIDE DEF one, two
  <1>7. /\ [b EXCEPT !.records = one] \in Batch /\ [b EXCEPT !.records = one].records = one
        /\ [b EXCEPT !.records = two] \in Batch /\ [b EXCEPT !.records = two].records = two
    BY <1>1, <1>4, <1>5 DEF Batch
  <1>8. ASSUME NEW x \in Batch, NEW y \in Batch, Halves(b) = <<x, y>>,
               Len(x.records) > 0, Len(y.records) > 0
        PROVE  /\ Halves(b) \in Seq(Batch) /\ Len(Halves(b)) = 2
               /\ \A i \in 1 .. 2 : Len(Halves(b)[i].records) > 0
    <2>1. <<x, y>> \in Seq(Batch) /\ Len(<<x, y>>) = 2 /\ <<x, y>>[1] = x /\ <<x, y>>[2] = y
      OBVIOUS
    <2>2. \A i \in 1 .. 2 : i = 1 \/ i = 2
      OBVIOUS
    <2> QED
      BY <1>8, <2>1, <2>2
  <1> QED
    BY <1>4, <1>5, <1>6, <1>7, <1>8

LEMMA FailureKeeps ==
  ASSUME PublicationInv, PublishFails
  PROVE  PublicationInv'
  <1> DEFINE b == queue[1]
  <1>1. /\ b \in Batch /\ Head(queue) = b /\ queue # <<>> /\ queue \in Seq(Batch)
        /\ Len(b.records) > 0 /\ Len(b.records) \in Nat /\ b.records \in Seq(Events)
    BY CurrentIsEvent DEF PublicationInv, OutboxTypeOK, QueueInv, PublishFails, Batch
  <1>2. done' = 0 /\ told' = {} /\ UNCHANGED <<outbox, stream, published>>
    BY DEF PublishFails
  <1>3. /\ queue' \in Seq(Batch)
        /\ \A i \in 1 .. Len(queue') : Len(queue'[i].records) > 0
        /\ dead' \subseteq Events
    <2>1. CASE Len(b.records) > 1
      <3> DEFINE H == Halves(b)
                 T == Tail(queue)
      <3>1. queue' = H \o T /\ dead' = dead
        BY <1>1, <2>1 DEF PublishFails
      <3>2. /\ H \in Seq(Batch) /\ Len(H) = 2 /\ \A i \in 1 .. 2 : Len(H[i].records) > 0
        BY <1>1, <2>1, HalvesAreBatches
      <3>3. T \in Seq(Batch) /\ \A i \in 1 .. Len(T) : Len(T[i].records) > 0
        BY <1>1, DropFirst DEF PublicationInv
      <3> HIDE DEF H, T
      <3>4. Len(T) \in Nat
        BY <3>3, LenProperties
      <3>5. /\ H \o T \in Seq(Batch) /\ Len(H \o T) = 2 + Len(T)
            /\ \A i \in 1 .. 2 + Len(T) : (H \o T)[i] = IF i <= 2 THEN H[i] ELSE T[i - 2]
        <4>1. \A s1, s2 \in Seq(Batch) :
                 /\ s1 \o s2 \in Seq(Batch) /\ Len(s1 \o s2) = Len(s1) + Len(s2)
                 /\ \A i \in 1 .. Len(s1) + Len(s2) :
                       (s1 \o s2)[i] = IF i <= Len(s1) THEN s1[i] ELSE s2[i - Len(s1)]
          BY ConcatProperties
        <4>2. PICK k \in Nat : k = Len(H)
          BY <3>2
        <4>3. /\ H \o T \in Seq(Batch) /\ Len(H \o T) = k + Len(T)
              /\ \A i \in 1 .. k + Len(T) : (H \o T)[i] = IF i <= k THEN H[i] ELSE T[i - k]
          BY <3>2, <3>3, <4>1, <4>2, Zenon
        <4>4. k = 2
          BY <3>2, <4>2
        <4> QED
          BY <4>3, <4>4
      <3>6. ASSUME NEW i \in 1 .. Len(H \o T)
            PROVE  Len((H \o T)[i].records) > 0
        <4>1. CASE i <= 2
          BY <3>2, <3>4, <3>5, <4>1
        <4>2. CASE i > 2
          <5>1. i - 2 \in 1 .. Len(T) /\ (H \o T)[i] = T[i - 2]
            BY <3>4, <3>5, <4>2
          <5> QED
            BY <3>3, <5>1
        <4> QED
          BY <3>4, <3>5, <4>1, <4>2
      <3> QED
        BY <3>1, <3>5, <3>6 DEF PublicationInv, OutboxTypeOK
    <2>2. CASE ~(Len(b.records) > 1) /\ b.tries < Retries
      <3>1. queue' = [queue EXCEPT ![1].tries = @ + 1] /\ dead' = dead
        BY <1>1, <2>2 DEF PublishFails
      <3> DEFINE c == [b EXCEPT !.tries = @ + 1]
      <3>2. c \in Batch /\ c.records = b.records
        BY <1>1, <2>2, RetriesAssumption DEF Batch
      <3>3. queue' = [queue EXCEPT ![1] = c]
        BY <3>1
      <3> HIDE DEF c
      <3>4. 1 \in 1 .. Len(queue)
        BY <1>1, HeadIsFirst
      <3>5. /\ queue' \in Seq(Batch) /\ Len(queue') = Len(queue)
            /\ \A j \in 1 .. Len(queue) : queue'[j] = IF j = 1 THEN c ELSE queue[j]
        BY <1>1, <3>2, <3>3, <3>4, ExceptSeq
      <3> QED
        BY <1>1, <3>1, <3>2, <3>5 DEF PublicationInv, QueueInv, OutboxTypeOK
    <2>3. CASE ~(Len(b.records) > 1) /\ ~(b.tries < Retries)
      <3>1. queue' = Tail(queue) /\ dead' = dead \cup {b.records[1]}
        BY <1>1, <2>3 DEF PublishFails
      <3>2. b.records[1] \in Events
        BY <1>1, ElementOfSeq
      <3> QED
        BY <1>1, <3>1, <3>2, DropFirst DEF PublicationInv, OutboxTypeOK
    <2> QED
      BY <2>1, <2>2, <2>3
  <1>4. QueueInv'
    BY <1>2, <1>3, QueueStarts
  <1>5. OutboxTypeOK'
    BY <1>2, <1>3 DEF PublicationInv, OutboxTypeOK, Batch
  <1>6. DeliveredIsPublished'
    BY <1>2 DEF PublicationInv, DeliveredIsPublished
  <1> QED
    BY <1>4, <1>5, <1>6 DEF PublicationInv

LEMMA PublicationInit ==
  ASSUME OutboxInit(Old)
  PROVE  PublicationInv
  <1>1. OutboxTypeOK
    BY OldAssumption, EmptySeq DEF OutboxInit, OutboxTypeOK, Unwritten
  <1>2. QueueInv
    BY EmptySeq DEF OutboxInit, QueueInv
  <1>3. DeliveredIsPublished
    BY DEF OutboxInit, DeliveredIsPublished, Unwritten
  <1> QED
    BY <1>1, <1>2, <1>3 DEF PublicationInv

LEMMA OutboxKeeps ==
  ASSUME PublicationInv, OutboxStep \/ PublishFails
  PROVE  PublicationInv'
  BY RecordKeeps, PollKeeps, PublishKeeps, DeliveredKeeps, FailureKeeps
     DEF OutboxStep, PublisherStep

\* Nothing but the first script gives an old record its environment, and nothing takes it.
LEMMA OutboxFills ==
  ASSUME PublicationInv, OutboxStep \/ PublishFails
  PROVE  Unfilled' \subseteq Unfilled
  <1>1. ASSUME NEW e \in Events, Record(e) PROVE Unfilled' \subseteq Unfilled
    BY <1>1 DEF PublicationInv, OutboxTypeOK, Record, Unfilled
  <1>2. CASE Poll \/ PublishFails \/ \E c \in Consumers : Publish(c)
    BY <1>2 DEF Poll, PublishFails, Publish, Unfilled
  <1>3. CASE MarkDelivered
    BY <1>3, CurrentIsEvent DEF PublicationInv, OutboxTypeOK, MarkDelivered, Unfilled
  <1> QED
    BY <1>1, <1>2, <1>3 DEF OutboxStep, PublisherStep

-----------------------------------------------------------------------------
(* The rows *)

\* A row that takes the place of the one of its secret and kind: it is whole, and where
\* that one was, or below the UID, or below the environment when it leaves no revision
\* of a head behind.
LEMMA RowReplaced ==
  ASSUME TypeOK, RowsInv, NEW q \in Row, Whole(q), UNCHANGED <<access, objects>>,
         table' = {x \in table : ~SameRow(x, q)} \cup {q},
         \/ q.place = "uid"
         \/ \E o \in table : SameRow(o, q) /\ o.place = q.place
         \/ /\ q.place = "scoped"
            /\ q.kind = "HEAD" => \A x \in table : x.place = "legacy" => x.kind = "HEAD"
  PROVE  RowsInv' /\ table' \subseteq Row
  <1> USE DEF SameRow
  <1>1. table' \subseteq Row
    BY DEF TypeOK
  <1>2. RowsAreUnique'
    <2>1. ASSUME NEW s \in Secrets, NEW k \in Kinds
          PROVE  \E r \in table' : r.secret = s /\ r.kind = k
      <3>1. PICK r \in table : r.secret = s /\ r.kind = k
        BY DEF RowsInv, RowsAreUnique
      <3> QED
        BY <3>1
    <2>2. \A r, x \in table' : SameRow(r, x) => r = x
      BY DEF RowsInv, RowsAreUnique
    <2> QED
      BY <2>1, <2>2 DEF RowsAreUnique
  <1>3. ReadersAreUnique'
    BY DEF RowsInv, ReadersAreUnique, SameReader
  <1>4. \A r \in table' : Whole(r)'
    BY DEF RowsInv, Whole, Stored
  <1>5. HeadsFollow'
    <2> SUFFICES ASSUME NEW r \in table', NEW x \in table', r.secret = x.secret,
                        r.kind = "HEAD", r.place = "scoped", x.place = "legacy"
                 PROVE  FALSE
      BY DEF HeadsFollow
    <2>1. CASE r \in table /\ x \in table
      BY <2>1 DEF RowsInv, HeadsFollow
    <2>2. CASE r = q /\ x \in table /\ x # q
      <3>1. x.kind # "HEAD"
        BY <2>2
      <3>2. CASE \E o \in table : SameRow(o, q) /\ o.place = q.place
        BY <2>2, <3>2 DEF RowsInv, HeadsFollow
      <3> QED
        BY <2>2, <3>1, <3>2
    <2>3. CASE x = q /\ r \in table
      <3>1. PICK o \in table : SameRow(o, q) /\ o.place = q.place
        BY <2>3
      <3> QED
        BY <2>3, <3>1 DEF RowsInv, HeadsFollow
    <2>4. CASE x = q /\ r = q
      BY <2>4
    <2> QED
      BY <2>1, <2>2, <2>3, <2>4
  <1> QED
    BY <1>1, <1>2, <1>3, <1>4, <1>5 DEF RowsInv

\* Rows stay as whole as they are while objects are only added.
LEMMA RowsStay ==
  ASSUME RowsInv, UNCHANGED <<table, access>>, objects \subseteq objects'
  PROVE  RowsInv'
  BY DEF RowsInv, RowsAreUnique, ReadersAreUnique, HeadsFollow, Whole, Stored, SameRow, SameReader

\* Uniqueness, in the words of the property: one row in each set of candidates.
LEMMA OneOfEach ==
  ASSUME RowsInv
  PROVE  RowsAreWhole
  <1>1. ASSUME NEW s \in Secrets, NEW k \in Kinds
        PROVE  Cardinality({r \in table : r.secret = s /\ r.kind = k}) = 1
    <2>1. PICK r \in table : r.secret = s /\ r.kind = k
      BY DEF RowsInv, RowsAreUnique
    <2>2. {x \in table : x.secret = s /\ x.kind = k} = {r}
      BY <2>1 DEF RowsInv, RowsAreUnique, SameRow
    <2> QED
      BY <2>2, FS_Singleton
  <1>2. ASSUME NEW c \in Readers, NEW s \in Secrets
        PROVE  Cardinality({a \in access : a.consumer = c /\ a.secret = s}) = 1
    <2>1. PICK a \in access : a.consumer = c /\ a.secret = s
      BY DEF RowsInv, ReadersAreUnique
    <2>2. {x \in access : x.consumer = c /\ x.secret = s} = {a}
      BY <2>1 DEF RowsInv, ReadersAreUnique, SameReader
    <2> QED
      BY <2>2, FS_Singleton
  <1> QED
    BY <1>1, <1>2 DEF RowsInv, HeadsFollow, Whole, Stored, RowsAreWhole

\* A scan identifies every secret whose head it does not miss, as long as none is archived.
LEMMA SecretsAreIdentified ==
  ASSUME RowsInv, FormInv, "uids" \notin reports, NEW missed \in SUBSET table,
         NEW s \in Secrets, s \notin {r.secret : r \in missed}
  PROVE  s \in Identities(table \ missed)
  <1>1. PICK r \in table : r.secret = s /\ r.kind = "HEAD"
    BY DEF RowsInv, RowsAreUnique, Kinds
  <1>2. r \notin missed
    BY <1>1
  <1> QED
    BY <1>1, <1>2 DEF FormInv, Identities

-----------------------------------------------------------------------------
(* The scripts *)

\* What a script was told to do, it forgets when it ends, and an interrupted one at once.
LEMMA DoneIsAJob ==
  Done \in Job
  BY DEF Done, Job

\* Success that was reported stays true while nothing it speaks of changes.
LEMMA ReportsStay ==
  ASSUME ReportsAreTrue, UNCHANGED <<table, access, names, grant, reports, overlooked>>,
         Unfilled' \subseteq Unfilled,
         \A s \in Secrets : heads'[s].listed = "path" => heads[s].listed = "path"
  PROVE  ReportsAreTrue'
  BY DEF ReportsAreTrue, At, Readable

LEMMA FormStays ==
  ASSUME FormInv, UNCHANGED <<grant, heads, overlooked>>, reports \subseteq reports'
  PROVE  FormInv'
  BY DEF FormInv

\* The state of the table and the service, but for the job, is as it was.
LEMMA JobEnds ==
  ASSUME MigrationInv, job' = Done, UNCHANGED <<table, access, objects, heads>>
  PROVE  JobInv'
  BY DoneIsAJob DEF JobInv, IdentityKnows, UidsKnow, FoldersKnow, Done

\* What the outbox, or a script that starts, leaves alone.
LEMMA TableStays ==
  ASSUME MigrationInv,
         UNCHANGED <<table, access, objects, names, grant, heads, reports, overlooked>>,
         outbox' = outbox, incidents' \in 0 .. MaxIncidents
  PROVE  TypeOK' /\ RowsInv' /\ FormInv' /\ ReportsAreTrue'
  <1>1. TypeOK' /\ RowsInv' /\ FormInv'
    BY RowsStay, FormStays DEF MigrationInv, TypeOK
  <1>2. ReportsAreTrue'
    BY ReportsStay DEF MigrationInv, Unfilled
  <1> QED
    BY <1>1, <1>2

LEMMA MigrationInit ==
  ASSUME Init
  PROVE  MigrationInv
  <1>1. PICK place \in {"legacy", "scoped"} :
           \E listing \in {place, "none"} : Inherited(place, listing)
    BY DEF Init
  <1>2. PICK listing \in {place, "none"} : Inherited(place, listing)
    BY <1>1
  <1>3. /\ names = {} /\ grant = Prefix /\ job = Done /\ reports = {} /\ overlooked = {}
        /\ incidents = 0
        /\ heads = [s \in Secrets |-> [version |-> 1, archived |-> FALSE, listed |-> "path"]]
    BY DEF Init
  <1> DEFINE row(s, k) == [secret |-> s, kind |-> k, place |-> place, ref |-> place,
                           index |-> IF k = "CONTROL" THEN listing ELSE "none"]
  <1>4. \A r \in table : r.secret \in Secrets /\ r.kind \in Kinds /\ r = row(r.secret, r.kind)
    <2> SUFFICES ASSUME NEW r \in table
                 PROVE  r.secret \in Secrets /\ r.kind \in Kinds /\ r = row(r.secret, r.kind)
      OBVIOUS
    <2>1. PICK s \in Secrets, k \in Kinds : r = row(s, k)
      BY <1>2 DEF Inherited
    <2>2. r.secret = s /\ r.kind = k
      BY <2>1
    <2> QED
      BY <2>1, <2>2 DEF Kinds
  <1>5. TypeOK
    <2>1. table \subseteq Row
      BY <1>4 DEF Row, Kinds, Places
    <2>2. access \subseteq DeliveryRow
      BY <1>2 DEF Inherited, DeliveryRow, Places
    <2> QED
      BY <1>3, <2>1, <2>2, MaxIncidentsAssumption DEF TypeOK, Prefix
  <1>6. RowsAreUnique
    <2>1. ASSUME NEW s \in Secrets, NEW k \in Kinds
          PROVE  \E r \in table : r.secret = s /\ r.kind = k
      <3>1. row(s, k) \in table
        BY <1>2 DEF Inherited
      <3> QED
        BY <3>1
    <2>2. \A r, q \in table : SameRow(r, q) => r = q
      BY <1>4 DEF SameRow
    <2> QED
      BY <2>1, <2>2 DEF RowsAreUnique
  <1>7. ReadersAreUnique
    <2>1. ASSUME NEW c \in Readers, NEW s \in Secrets
          PROVE  \E a \in access : a.consumer = c /\ a.secret = s
      <3>1. [consumer |-> c, secret |-> s, place |-> place] \in access
        BY <1>2 DEF Inherited
      <3> QED
        BY <3>1
    <2>2. \A a, b \in access : SameReader(a, b) => a = b
      BY <1>2 DEF Inherited, SameReader
    <2> QED
      BY <2>1, <2>2 DEF ReadersAreUnique
  <1>8. HeadsFollow /\ \A r \in table : Whole(r)
    BY <1>2, <1>4 DEF Inherited, HeadsFollow, Whole, Stored
  <1>9. JobInv
    BY <1>3, DoneIsAJob DEF JobInv, IdentityKnows, UidsKnow, FoldersKnow, Done
  <1>10. FormInv /\ ReportsAreTrue
    BY <1>3 DEF FormInv, ReportsAreTrue, Prefix
  <1> QED
    BY <1>5, <1>6, <1>7, <1>8, <1>9, <1>10 DEF MigrationInv, RowsInv

LEMMA BeginIdentityKeeps ==
  ASSUME MigrationInv, BeginIdentity
  PROVE  MigrationInv'
  <1>1. TypeOK' /\ RowsInv' /\ FormInv' /\ ReportsAreTrue'
    BY TableStays DEF MigrationInv, TypeOK, BeginIdentity, outboxVars
  <1>2. job' = [Done EXCEPT !.script = "identity", !.copies = {r.secret : r \in At("legacy")},
                     !.rows = At("legacy"), !.access = Readable("legacy"), !.events = Unfilled]
    BY DEF BeginIdentity
  <1>3. job' \in Job
    <2>1. At("legacy") \subseteq Row /\ Readable("legacy") \subseteq DeliveryRow
          /\ Unfilled \subseteq Events
      BY DEF MigrationInv, TypeOK, At, Readable, Unfilled
    <2>2. {r.secret : r \in At("legacy")} \subseteq Secrets
      BY <2>1 DEF Row
    <2> QED
      BY <1>2, <2>1, <2>2 DEF Job, Done
  <1>4. "uids" \notin reports
    BY DEF BeginIdentity, Serving
  <1>5. JobInv'
    BY <1>2, <1>3, <1>4 DEF BeginIdentity, JobInv, IdentityKnows, UidsKnow, FoldersKnow, Done,
                            At, Readable
  <1> QED
    BY <1>1, <1>5 DEF MigrationInv

LEMMA EnsureCopiedKeeps ==
  ASSUME MigrationInv, NEW s \in Secrets, EnsureCopied(s)
  PROVE  MigrationInv'
  <1>1. TypeOK' /\ RowsInv' /\ FormInv' /\ ReportsAreTrue'
    <2>1. RowsInv'
      BY RowsStay DEF MigrationInv, EnsureCopied
    <2> QED
      BY <2>1, FormStays, ReportsStay
         DEF MigrationInv, TypeOK, EnsureCopied, outboxVars, Unfilled
  <1>2. job' = [job EXCEPT !.copies = @ \ {s}]
        /\ objects' = objects \cup {[secret |-> s, place |-> "scoped"]}
        /\ UNCHANGED <<table, access, names, heads, reports, overlooked>>
    BY DEF EnsureCopied
  <1>3. job' \in Job
    BY <1>2 DEF MigrationInv, JobInv, Job
  <1>4. JobInv'
    BY <1>2, <1>3 DEF MigrationInv, JobInv, Job, IdentityKnows, UidsKnow, FoldersKnow, Stored, At
  <1> QED
    BY <1>1, <1>4 DEF MigrationInv

\* Copies come before rows, and heads after all other rows.
LEMMA MoveScopedKeeps ==
  ASSUME MigrationInv, NEW r \in job.rows, MoveScoped(r)
  PROVE  MigrationInv'
  <1> DEFINE q == ScopedRow(r)
  <1>1. /\ job.script = "identity" /\ r \in table /\ MayMove(r)
        /\ table' = (table \ {r}) \cup {q} /\ job' = [job EXCEPT !.rows = @ \ {r}]
        /\ UNCHANGED <<access, objects, names, grant, heads, reports, overlooked,
                       incidents, outbox>>
    BY DEF MoveScoped, outboxVars
  <1>2. r \in Row /\ r.place = "legacy" /\ job.rows = At("legacy")
    BY <1>1 DEF MigrationInv, TypeOK, JobInv, IdentityKnows, At
  <1>3. /\ q \in Row /\ SameRow(q, r) /\ q.place = "scoped" /\ q.ref = "scoped"
        /\ q.secret = r.secret /\ q.kind = r.kind /\ q.index \in {"none", "scoped"}
    BY <1>2 DEF Row, Places, ScopedRow, SameRow
  <1> HIDE DEF q
  <1>4. Whole(q)
    <2>1. Stored(r, "scoped")
      BY <1>1 DEF MigrationInv, JobInv, IdentityKnows, MayMove
    <2> QED
      BY <1>3, <2>1 DEF Whole, Stored
  <1>5. table' = {x \in table : ~SameRow(x, q)} \cup {q}
    BY <1>1, <1>3 DEF MigrationInv, RowsInv, RowsAreUnique, SameRow
  <1>6. q.kind = "HEAD" => \A x \in table : x.place = "legacy" => x.kind = "HEAD"
    BY <1>1, <1>2, <1>3 DEF MayMove, At
  <1>7. RowsInv' /\ table' \subseteq Row
    BY <1>1, <1>3, <1>4, <1>5, <1>6, RowReplaced DEF MigrationInv
  <1>8. TypeOK' /\ FormInv'
    BY <1>1, <1>7, FormStays DEF MigrationInv, TypeOK
  <1>9. "uids" \notin reports
    BY <1>1 DEF MigrationInv, JobInv
  <1>10. ReportsAreTrue'
    BY <1>1, <1>3, <1>9 DEF MigrationInv, ReportsAreTrue, At, Readable, Unfilled
  <1>11. JobInv'
    <2>1. job' \in Job
      BY <1>1 DEF MigrationInv, JobInv, Job
    <2>2. job'.rows = At("legacy")'
      BY <1>1, <1>2, <1>3 DEF MigrationInv, JobInv, Job, At
    <2> QED
      BY <1>1, <2>1, <2>2 DEF MigrationInv, JobInv, Job, IdentityKnows, UidsKnow, FoldersKnow, Stored
  <1> QED
    BY <1>7, <1>8, <1>10, <1>11 DEF MigrationInv

LEMMA MoveAccessKeeps ==
  ASSUME MigrationInv, NEW a \in job.access, MoveAccess(a)
  PROVE  MigrationInv'
  <1> DEFINE b == [a EXCEPT !.place = IF job.script = "identity" THEN "scoped" ELSE "uid"]
  <1>1. /\ access' = (access \ {a}) \cup {b} /\ job' = [job EXCEPT !.access = @ \ {a}]
        /\ UNCHANGED <<table, objects, names, grant, heads, reports, overlooked,
                       incidents, outbox>>
    BY DEF MoveAccess, outboxVars
  <1>2. /\ a \in access /\ a \in DeliveryRow /\ job.script \in {"identity", "uids"}
        /\ "uids" \notin reports
    BY DEF MigrationInv, TypeOK, JobInv
  <1>3. b \in DeliveryRow /\ SameReader(b, a) /\ b.place # "legacy"
    BY <1>2 DEF DeliveryRow, Places, SameReader
  <1> HIDE DEF b
  <1>4. ReadersAreUnique'
    <2>1. ASSUME NEW c \in Readers, NEW s \in Secrets
          PROVE  \E x \in access' : x.consumer = c /\ x.secret = s
      <3>1. PICK x \in access : x.consumer = c /\ x.secret = s
        BY DEF MigrationInv, RowsInv, ReadersAreUnique
      <3> QED
        BY <1>1, <1>3, <3>1 DEF SameReader
    <2>2. \A x, y \in access' : SameReader(x, y) => x = y
      BY <1>1, <1>2, <1>3 DEF MigrationInv, RowsInv, ReadersAreUnique, SameReader
    <2> QED
      BY <2>1, <2>2 DEF ReadersAreUnique
  <1>5. RowsInv'
    BY <1>1, <1>4 DEF MigrationInv, RowsInv, RowsAreUnique, HeadsFollow, Whole, Stored, SameRow
  <1>6. TypeOK' /\ FormInv'
    BY <1>1, <1>3, FormStays DEF MigrationInv, TypeOK
  <1>7. ReportsAreTrue'
    BY <1>1, <1>2, <1>3 DEF MigrationInv, ReportsAreTrue, At, Readable, Unfilled
  <1>8. JobInv'
    <2>1. job' \in Job /\ job'.access \subseteq access'
      BY <1>1 DEF MigrationInv, JobInv, Job
    <2> QED
      BY <1>1, <1>2, <2>1
         DEF MigrationInv, JobInv, Job, IdentityKnows, UidsKnow, FoldersKnow, Stored, At
  <1> QED
    BY <1>5, <1>6, <1>7, <1>8 DEF MigrationInv

LEMMA FillKeeps ==
  ASSUME MigrationInv, OutboxTypeOK, NEW e \in job.events, FillEnvironment(e)
  PROVE  MigrationInv' /\ (PublicationInv => PublicationInv')
  <1>1. /\ outbox' = [outbox EXCEPT ![e].environment = TRUE]
        /\ job' = [job EXCEPT !.events = @ \ {e}]
        /\ UNCHANGED <<table, access, objects, names, grant, heads, reports, overlooked,
                       incidents, stream, queue, done, told, published, dead>>
    BY DEF FillEnvironment
  <1>2. e \in Events
    BY DEF MigrationInv, JobInv, Job
  <1>3. /\ outbox' \in [Events -> [status : {"none", "PENDING", "DELIVERED"}, environment : BOOLEAN]]
        /\ \A f \in Events : outbox'[f].status = outbox[f].status
        /\ \A f \in Events : outbox[f].environment => outbox'[f].environment
    BY <1>1, <1>2 DEF OutboxTypeOK
  <1>4. Unfilled' \subseteq Unfilled
    BY <1>3 DEF Unfilled
  <1>5. TypeOK' /\ RowsInv' /\ FormInv' /\ ReportsAreTrue'
    BY <1>1, <1>4, RowsStay, FormStays, ReportsStay DEF MigrationInv, TypeOK
  <1>6. JobInv'
    <2>1. job' \in Job
      BY <1>1 DEF MigrationInv, JobInv, Job
    <2> QED
      BY <1>1, <2>1
         DEF MigrationInv, JobInv, Job, IdentityKnows, UidsKnow, FoldersKnow, Stored, At
  <1>7. PublicationInv => PublicationInv'
    BY <1>1, <1>3 DEF PublicationInv, OutboxTypeOK, QueueInv, DeliveredIsPublished
  <1> QED
    BY <1>5, <1>6, <1>7 DEF MigrationInv

LEMMA VerifyIdentityKeeps ==
  ASSUME MigrationInv, VerifyIdentity
  PROVE  MigrationInv'
  <1>1. /\ job' = Done /\ job.script = "identity"
        /\ UNCHANGED <<table, access, objects, names, grant, heads, overlooked, incidents, outbox>>
        /\ \/ reports' = reports
           \/ reports' = reports \cup {"identity"}
              /\ At("legacy") = {} /\ Readable("legacy") = {} /\ Unfilled = {}
    BY DEF VerifyIdentity, Report, outboxVars
  <1>2. JobInv'
    BY <1>1, JobEnds
  <1>3. TypeOK' /\ RowsInv' /\ FormInv'
    BY <1>1, RowsStay, FormStays DEF MigrationInv, TypeOK
  <1>4. ReportsAreTrue'
    BY <1>1 DEF MigrationInv, ReportsAreTrue, At, Readable, Unfilled
  <1> QED
    BY <1>2, <1>3, <1>4 DEF MigrationInv

LEMMA BeginUidsKeeps ==
  ASSUME MigrationInv, BeginUids
  PROVE  MigrationInv'
  <1>1. "uids" \notin reports
        /\ UNCHANGED <<table, access, objects, names, grant, heads, reports, outbox>>
    BY DEF BeginUids, Serving, outboxVars
  <1>2. PICK stale \in SUBSET At("uid"), missed \in SUBSET table :
           /\ IF stale \cup missed = {} THEN UNCHANGED incidents ELSE Incident
           /\ job' = [Done EXCEPT !.script = "uids",
                           !.rows = At("scoped") \cup {ScopedOf(r) : r \in stale},
                           !.access = Readable("scoped"), !.names = Identities(table \ missed),
                           !.scope = Identities(table \ missed), !.grant = ~grant.exact]
           /\ overlooked' = overlooked \cup {r.secret : r \in missed}
    <2>1. MovedHeads \subseteq table
      BY DEF MovedHeads, At
    <2> QED
      BY <2>1 DEF BeginUids
  <1>3. missed \subseteq Row /\ {r.secret : r \in missed} \subseteq Secrets
    BY DEF MigrationInv, TypeOK, Row
  <1>4. TypeOK' /\ RowsInv' /\ FormInv' /\ ReportsAreTrue'
    <2>1. incidents' \in 0 .. MaxIncidents
      BY <1>2, MaxIncidentsAssumption DEF MigrationInv, TypeOK, Incident
    <2>2. TypeOK'
      BY <1>1, <1>2, <1>3, <2>1 DEF MigrationInv, TypeOK
    <2>3. RowsInv'
      BY <1>1, RowsStay DEF MigrationInv
    <2>4. FormInv' /\ ReportsAreTrue'
      BY <1>1, <1>2 DEF MigrationInv, FormInv, ReportsAreTrue, At, Readable, Unfilled
    <2> QED
      BY <2>2, <2>3, <2>4
  <1>5. ASSUME NEW r \in stale
        PROVE  /\ ScopedOf(r) \in Row /\ Stored(ScopedOf(r), ScopedOf(r).ref)
               /\ \A q \in table : SameRow(ScopedOf(r), q) => q.place = "uid"
    <2>1. r \in table /\ r \in Row /\ r.place = "uid" /\ Whole(r)
      BY DEF MigrationInv, TypeOK, RowsInv, At
    <2>2. /\ ScopedOf(r) \in Row /\ ScopedOf(r).secret = r.secret /\ ScopedOf(r).kind = r.kind
          /\ ScopedOf(r).ref = r.ref
      BY <2>1 DEF ScopedOf, Row, Places
    <2> QED
      BY <2>1, <2>2 DEF MigrationInv, RowsInv, RowsAreUnique, SameRow, Whole, Stored
  <1>6. ASSUME NEW r \in At("scoped")
        PROVE  /\ r \in Row /\ Stored(r, r.ref)
               /\ \A q \in table : SameRow(r, q) => q = r
    BY DEF MigrationInv, TypeOK, RowsInv, RowsAreUnique, Whole, At
  <1>7. Secrets \ overlooked' \subseteq Identities(table \ missed)
    BY <1>1, <1>2, SecretsAreIdentified DEF MigrationInv
  <1>8. /\ job'.rows = At("scoped") \cup {ScopedOf(r) : r \in stale} /\ job'.script = "uids"
        /\ job'.access = Readable("scoped") /\ job'.read = <<>>
        /\ job'.scope = Identities(table \ missed) /\ job'.names = Identities(table \ missed)
    BY <1>2 DEF Done
  <1>9. job' \in Job
    <2>1. At("scoped") \cup {ScopedOf(r) : r \in stale} \subseteq Row
      BY <1>5, <1>6
    <2>2. Readable("scoped") \subseteq DeliveryRow /\ Identities(table \ missed) \subseteq Secrets
      BY DEF MigrationInv, TypeOK, Readable, Identities
    <2>3. (~grant.exact) \in BOOLEAN
      OBVIOUS
    <2> HIDE DEF Identities
    <2> QED
      BY <1>2, <2>1, <2>2, <2>3 DEF Job, Done
  <1>10. UidsKnow'
    <2>1. ASSUME NEW r \in job'.rows
          PROVE  /\ Stored(r, r.ref)'
                 /\ \A q \in table' : SameRow(r, q) => q = r \/ q.place = "uid"
      BY <1>1, <1>5, <1>6, <1>8 DEF Stored
    <2> QED
      BY <1>7, <1>8, <2>1 DEF UidsKnow
  <1>11. JobInv'
    BY <1>1, <1>8, <1>9, <1>10 DEF JobInv, IdentityKnows, FoldersKnow, Readable
  <1> QED
    BY <1>4, <1>11 DEF MigrationInv

\* Whatever the scan saw, the row ends below the UID, once.
LEMMA MoveUidKeeps ==
  ASSUME MigrationInv, NEW r \in job.rows, MoveUid(r)
  PROVE  MigrationInv'
  <1> DEFINE q == UidRow(r)
  <1>1. /\ job.script = "uids" /\ job' = [job EXCEPT !.rows = @ \ {r}]
        /\ table' = {x \in table : x # r
                        /\ ~(x.place = "uid" /\ x.secret = r.secret /\ x.kind = r.kind)} \cup {q}
        /\ UNCHANGED <<access, objects, names, grant, heads, reports, overlooked,
                       incidents, outbox>>
    BY DEF MoveUid, outboxVars
  <1>2. /\ r \in Row /\ "uids" \notin reports /\ Stored(r, r.ref)
        /\ \A x \in table : SameRow(r, x) => x = r \/ x.place = "uid"
    BY <1>1 DEF MigrationInv, JobInv, Job, UidsKnow
  <1>3. /\ q \in Row /\ q.place = "uid" /\ q.ref = r.ref /\ q.secret = r.secret
        /\ q.kind = r.kind /\ q.index \in {"none", "uid"}
    BY <1>2 DEF Row, Places, UidRow
  <1> HIDE DEF q
  <1>4. Whole(q)
    BY <1>2, <1>3 DEF Whole, Stored
  <1>5. table' = {x \in table : ~SameRow(x, q)} \cup {q}
    BY <1>1, <1>2, <1>3 DEF SameRow
  <1>6. RowsInv' /\ table' \subseteq Row
    BY <1>1, <1>3, <1>4, <1>5, RowReplaced DEF MigrationInv
  <1>7. TypeOK' /\ FormInv'
    BY <1>1, <1>6, FormStays DEF MigrationInv, TypeOK
  <1>8. ReportsAreTrue'
    BY <1>1, <1>2, <1>3 DEF MigrationInv, ReportsAreTrue, At, Readable, Unfilled
  <1>9. JobInv'
    <2>1. job' \in Job
      BY <1>1 DEF MigrationInv, JobInv, Job
    <2>2. UidsKnow'
      <3>1. job'.names = job.names /\ job'.scope = job.scope
        BY <1>1 DEF MigrationInv, JobInv, Job
      <3>2. job'.rows \subseteq job.rows
        BY <1>1 DEF MigrationInv, JobInv, Job
      <3>3. ASSUME NEW x \in job'.rows
            PROVE  /\ Stored(x, x.ref)
                   /\ \A y \in table' : SameRow(x, y) => y = x \/ y.place = "uid"
        BY <1>1, <1>3, <3>2 DEF MigrationInv, JobInv, UidsKnow
      <3> QED
        BY <1>1, <3>1, <3>3 DEF MigrationInv, JobInv, UidsKnow, Stored
    <2> QED
      BY <1>1, <2>1, <2>2 DEF MigrationInv, JobInv, Job, IdentityKnows, FoldersKnow
  <1> QED
    BY <1>6, <1>7, <1>8, <1>9 DEF MigrationInv

LEMMA PutLookupKeeps ==
  ASSUME MigrationInv, NEW s \in Secrets, PutLookup(s)
  PROVE  MigrationInv'
  <1>1. /\ names' = names \cup {s} /\ job' = [job EXCEPT !.names = @ \ {s}]
        /\ UNCHANGED <<table, access, objects, grant, heads, reports, overlooked,
                       incidents, outbox>>
    BY DEF PutLookup, outboxVars
  <1>2. TypeOK' /\ RowsInv' /\ FormInv'
    BY <1>1, RowsStay, FormStays DEF MigrationInv, TypeOK
  <1>3. ReportsAreTrue'
    BY <1>1 DEF MigrationInv, ReportsAreTrue, At, Readable, Unfilled
  <1>4. JobInv'
    <2>1. job' \in Job
      BY <1>1 DEF MigrationInv, JobInv, Job
    <2> QED
      BY <1>1, <2>1
         DEF MigrationInv, JobInv, Job, IdentityKnows, UidsKnow, FoldersKnow, Stored, At
  <1> QED
    BY <1>2, <1>3, <1>4 DEF MigrationInv

LEMMA MigrateGrantKeeps ==
  ASSUME MigrationInv, MigrateGrant
  PROVE  MigrationInv'
  <1>1. /\ grant' = [exact |-> TRUE, secrets |-> job.scope] /\ job.grant
        /\ job' = [job EXCEPT !.grant = FALSE]
        /\ UNCHANGED <<table, access, objects, names, heads, reports, overlooked,
                       incidents, outbox>>
    BY DEF MigrateGrant, outboxVars
  <1>2. job.script = "uids" /\ "uids" \notin reports
    BY <1>1 DEF MigrationInv, JobInv
  <1>3. job.scope \subseteq Secrets /\ Secrets \ overlooked \subseteq job.scope
    BY <1>2 DEF MigrationInv, JobInv, Job, UidsKnow
  <1>4. FormInv'
    BY <1>1, <1>3 DEF MigrationInv, FormInv
  <1>5. TypeOK' /\ RowsInv'
    BY <1>1, <1>3, RowsStay DEF MigrationInv, TypeOK
  <1>6. ReportsAreTrue'
    BY <1>1, <1>2 DEF MigrationInv, ReportsAreTrue, At, Readable, Unfilled
  <1>7. JobInv'
    <2>1. job' \in Job
      BY <1>1 DEF MigrationInv, JobInv, Job
    <2> QED
      BY <1>1, <2>1
         DEF MigrationInv, JobInv, Job, IdentityKnows, UidsKnow, FoldersKnow, Stored, At
  <1> QED
    BY <1>4, <1>5, <1>6, <1>7 DEF MigrationInv

\* A run that ended has put every name it was to put.
LEMMA VerifyUidsKeeps ==
  ASSUME MigrationInv, VerifyUids
  PROVE  MigrationInv'
  <1>1. /\ job' = Done /\ job.script = "uids" /\ job.names = {}
        /\ UNCHANGED <<table, access, objects, names, grant, heads, overlooked, outbox>>
        /\ \/ reports' = reports
           \/ /\ reports' = reports \cup {"uids"} /\ At("scoped") = {}
              /\ Readable("scoped") = {} /\ grant.exact
    BY DEF VerifyUids, Ended, Report, outboxVars
  <1>2. incidents' \in 0 .. MaxIncidents
    <2>1. UNCHANGED incidents \/ Incident
      BY Zenon DEF VerifyUids
    <2> QED
      BY <2>1, MaxIncidentsAssumption DEF MigrationInv, TypeOK, Incident
  <1>3. JobInv'
    BY <1>1, JobEnds
  <1>4. TypeOK' /\ RowsInv' /\ FormInv'
    BY <1>1, <1>2, RowsStay, FormStays DEF MigrationInv, TypeOK
  <1>5. Secrets \ overlooked \subseteq names
    BY <1>1 DEF MigrationInv, JobInv, UidsKnow
  <1>6. ReportsAreTrue'
    BY <1>1, <1>5 DEF MigrationInv, FormInv, ReportsAreTrue, At, Readable, Unfilled
  <1> QED
    BY <1>3, <1>4, <1>6 DEF MigrationInv

LEMMA BeginIndexesKeeps ==
  ASSUME MigrationInv, BeginIndexes
  PROVE  MigrationInv'
  <1>1. /\ job' = [Done EXCEPT !.script = "indexes", !.rows = Unlisted]
        /\ UNCHANGED <<table, access, objects, names, grant, heads, reports, overlooked,
                       incidents, outbox>>
    BY DEF BeginIndexes, outboxVars
  <1>2. TypeOK' /\ RowsInv' /\ FormInv' /\ ReportsAreTrue'
    BY <1>1, TableStays DEF MigrationInv, TypeOK
  <1>3. Unlisted \subseteq table /\ table \subseteq Row
    BY DEF MigrationInv, TypeOK, Unlisted
  <1>4. JobInv'
    BY <1>1, <1>3 DEF JobInv, Job, Done, IdentityKnows, UidsKnow, FoldersKnow
  <1> QED
    BY <1>2, <1>4 DEF MigrationInv

\* A row is listed where it is.
LEMMA UpdateIndexKeeps ==
  ASSUME MigrationInv, NEW r \in job.rows, UpdateIndex(r)
  PROVE  MigrationInv'
  <1> DEFINE q == [r EXCEPT !.index = r.place]
  <1>1. /\ job.script = "indexes" /\ job' = [job EXCEPT !.rows = @ \ {r}]
        /\ table' = (table \ {r}) \cup {q}
        /\ UNCHANGED <<access, objects, names, grant, heads, reports, overlooked,
                       incidents, outbox>>
    BY DEF UpdateIndex, outboxVars
  <1>2. r \in table /\ r \in Row /\ job.rows \subseteq table /\ Whole(r)
    BY <1>1 DEF MigrationInv, TypeOK, RowsInv, JobInv
  <1>3. /\ q \in Row /\ q.place = r.place /\ q.ref = r.ref /\ q.secret = r.secret
        /\ q.kind = r.kind /\ q.index = r.place
    BY <1>2 DEF Row
  <1> HIDE DEF q
  <1>4. Whole(q) /\ SameRow(r, q)
    BY <1>2, <1>3 DEF Whole, Stored, SameRow
  <1>5. table' = {x \in table : ~SameRow(x, q)} \cup {q}
    BY <1>1, <1>2, <1>3 DEF MigrationInv, RowsInv, RowsAreUnique, SameRow
  <1>6. RowsInv' /\ table' \subseteq Row
    BY <1>1, <1>2, <1>3, <1>4, <1>5, RowReplaced DEF MigrationInv
  <1>7. TypeOK' /\ FormInv'
    BY <1>1, <1>6, FormStays DEF MigrationInv, TypeOK
  <1>8. ReportsAreTrue'
    BY <1>1, <1>2, <1>3 DEF MigrationInv, ReportsAreTrue, At, Readable, Unfilled
  <1>9. JobInv'
    <2>1. job' \in Job /\ job'.rows \subseteq table'
      BY <1>1, <1>2 DEF MigrationInv, JobInv, Job
    <2> QED
      BY <1>1, <2>1 DEF MigrationInv, JobInv, Job, IdentityKnows, UidsKnow, FoldersKnow
  <1> QED
    BY <1>6, <1>7, <1>8, <1>9 DEF MigrationInv

LEMMA EndIndexesKeeps ==
  ASSUME MigrationInv, EndIndexes
  PROVE  MigrationInv'
  <1>1. /\ job' = Done /\ reports' = reports \cup {"indexes"}
        /\ UNCHANGED <<table, access, objects, names, grant, heads, overlooked, incidents, outbox>>
    BY DEF EndIndexes, Report, outboxVars
  <1>2. JobInv'
    BY <1>1, JobEnds
  <1>3. TypeOK' /\ RowsInv' /\ FormInv'
    BY <1>1, RowsStay, FormStays DEF MigrationInv, TypeOK
  <1>4. ReportsAreTrue'
    BY <1>1 DEF MigrationInv, ReportsAreTrue, At, Readable, Unfilled
  <1> QED
    BY <1>2, <1>3, <1>4 DEF MigrationInv

LEMMA BeginFoldersKeeps ==
  ASSUME MigrationInv, BeginFolders
  PROVE  MigrationInv'
  <1>1. /\ job' = [Done EXCEPT !.script = "folders", !.heads = Secrets]
        /\ UNCHANGED <<table, access, objects, names, grant, heads, reports, overlooked,
                       incidents, outbox>>
    BY DEF BeginFolders, outboxVars
  <1>2. TypeOK' /\ RowsInv' /\ FormInv' /\ ReportsAreTrue'
    BY <1>1, TableStays DEF MigrationInv, TypeOK
  <1>3. JobInv'
    BY <1>1 DEF JobInv, Job, Done, IdentityKnows, UidsKnow, FoldersKnow
  <1> QED
    BY <1>2, <1>3 DEF MigrationInv

LEMMA ReadHeadKeeps ==
  ASSUME MigrationInv, NEW s \in Secrets, ReadHead(s)
  PROVE  MigrationInv'
  <1>1. /\ s \in job.heads /\ job.read = <<>>
        /\ UNCHANGED <<table, access, objects, names, grant, heads, reports, overlooked,
                       incidents, outbox>>
    BY DEF ReadHead, outboxVars
  <1>2. TypeOK' /\ RowsInv' /\ FormInv' /\ ReportsAreTrue'
    BY <1>1, TableStays DEF MigrationInv, TypeOK
  <1>3. heads[s].version \in Nat
    BY DEF MigrationInv, TypeOK
  <1>4. JobInv'
    <2>1. CASE heads[s].listed = "id"
      <3>1. job' = [job EXCEPT !.heads = @ \ {s}]
        BY <2>1 DEF ReadHead
      <3>2. job' \in Job
        BY <3>1 DEF MigrationInv, JobInv, Job
      <3>3. FoldersKnow'
        BY <1>1, <2>1, <3>1 DEF MigrationInv, JobInv, Job, FoldersKnow
      <3> QED
        BY <1>1, <3>1, <3>2, <3>3
           DEF MigrationInv, JobInv, Job, IdentityKnows, UidsKnow, Stored, At
    <2>2. CASE heads[s].listed # "id"
      <3>1. job' = [job EXCEPT !.read = <<s, heads[s].version>>]
        BY <2>2 DEF ReadHead
      <3>2. job' \in Job /\ job'.read[1] = s /\ job'.read[2] = heads[s].version
        BY <1>3, <3>1 DEF MigrationInv, JobInv, Job
      <3>3. FoldersKnow'
        BY <1>1, <1>3, <3>1, <3>2 DEF MigrationInv, JobInv, Job, FoldersKnow
      <3> QED
        BY <1>1, <3>1, <3>2, <3>3
           DEF MigrationInv, JobInv, Job, IdentityKnows, UidsKnow, Stored, At
    <2> QED
      BY <2>1, <2>2
  <1> QED
    BY <1>2, <1>4 DEF MigrationInv

\* A head that was revised since it was read was listed by the service.
LEMMA UpdateHeadKeeps ==
  ASSUME MigrationInv, UpdateHead
  PROVE  MigrationInv'
  <1> DEFINE s == job.read[1]
  <1>1. /\ job.read # <<>>
        /\ heads' = IF heads[s].version = job.read[2] THEN [heads EXCEPT ![s].listed = "id"]
                    ELSE heads
        /\ job' = [job EXCEPT !.heads = @ \ {s}, !.read = <<>>]
        /\ UNCHANGED <<table, access, objects, names, grant, reports, overlooked,
                       incidents, outbox>>
    BY DEF UpdateHead, outboxVars
  <1>2. s \in Secrets
    <2>1. PICK t \in Secrets, v \in Nat : job.read = <<t, v>>
      BY <1>1 DEF MigrationInv, JobInv, Job
    <2> QED
      BY <2>1
  <1>3. job.read[2] # heads[s].version => heads[s].listed # "path"
    BY <1>1 DEF MigrationInv, JobInv, FoldersKnow
  <1> HIDE DEF s
  <1>4. /\ heads' \in [Secrets -> [version : Nat, archived : BOOLEAN,
                                   listed : {"path", "id", "archived"}]]
        /\ heads'[s].listed # "path"
        /\ \A t \in Secrets : /\ t # s => heads'[t] = heads[t]
                              /\ heads'[t].archived = heads[t].archived
    BY <1>1, <1>2, <1>3 DEF MigrationInv, TypeOK
  <1>5. TypeOK' /\ RowsInv'
    BY <1>1, <1>4, RowsStay DEF MigrationInv, TypeOK
  <1>6. FormInv'
    BY <1>1, <1>4 DEF MigrationInv, FormInv
  <1>7. ReportsAreTrue'
    BY <1>1, <1>4 DEF MigrationInv, ReportsAreTrue, At, Readable, Unfilled
  <1>8. JobInv'
    <2>1. job' \in Job
      BY <1>1 DEF MigrationInv, JobInv, Job
    <2>2. FoldersKnow'
      <3>1. job'.read = <<>> /\ job'.heads = job.heads \ {s} /\ job'.script = job.script
        BY <1>1 DEF MigrationInv, JobInv, Job
      <3> QED
        BY <1>4, <3>1 DEF MigrationInv, JobInv, FoldersKnow
    <2> QED
      BY <1>1, <2>1, <2>2
         DEF MigrationInv, JobInv, Job, IdentityKnows, UidsKnow, Stored, At
  <1> QED
    BY <1>5, <1>6, <1>7, <1>8 DEF MigrationInv

LEMMA EndFoldersKeeps ==
  ASSUME MigrationInv, EndFolders
  PROVE  MigrationInv'
  <1>1. /\ job' = Done /\ reports' = reports \cup {"folders"}
        /\ job.script = "folders" /\ job.heads = {}
        /\ UNCHANGED <<table, access, objects, names, grant, heads, overlooked, incidents, outbox>>
    BY DEF EndFolders, Report, Ended, outboxVars
  <1>2. JobInv'
    BY <1>1, JobEnds
  <1>3. TypeOK' /\ RowsInv' /\ FormInv'
    BY <1>1, RowsStay, FormStays DEF MigrationInv, TypeOK
  <1>4. \A s \in Secrets : heads[s].listed # "path"
    BY <1>1 DEF MigrationInv, JobInv, FoldersKnow
  <1>5. ReportsAreTrue'
    BY <1>1, <1>4 DEF MigrationInv, ReportsAreTrue, At, Readable, Unfilled
  <1> QED
    BY <1>2, <1>3, <1>5 DEF MigrationInv

-----------------------------------------------------------------------------
(* Around the scripts *)

LEMMA InterruptKeeps ==
  ASSUME MigrationInv, Interrupt
  PROVE  MigrationInv'
  <1>1. /\ job' = Done
        /\ UNCHANGED <<table, access, objects, names, grant, heads, reports, overlooked, outbox>>
    BY DEF Interrupt, outboxVars
  <1>2. incidents' \in 0 .. MaxIncidents
    BY MaxIncidentsAssumption DEF MigrationInv, TypeOK, Interrupt, Incident
  <1> QED
    BY <1>1, <1>2, JobEnds, TableStays DEF MigrationInv

LEMMA ReviseKeeps ==
  ASSUME MigrationInv, NEW s \in Secrets, NEW archive \in BOOLEAN, Revise(s, archive)
  PROVE  MigrationInv'
  <1>1. /\ "uids" \in reports
        /\ heads' = [heads EXCEPT ![s] = [version |-> @.version + 1, archived |-> archive,
                                          listed |-> IF archive THEN "archived" ELSE "id"]]
        /\ UNCHANGED <<table, access, objects, names, grant, job, reports, overlooked, outbox>>
    BY DEF Revise, Serving, outboxVars
  <1>2. incidents' \in 0 .. MaxIncidents
    BY MaxIncidentsAssumption DEF MigrationInv, TypeOK, Revise, Incident
  <1>3. /\ heads' \in [Secrets -> [version : Nat, archived : BOOLEAN,
                                   listed : {"path", "id", "archived"}]]
        /\ heads'[s].listed # "path" /\ heads'[s].version = heads[s].version + 1
        /\ \A t \in Secrets : t # s => heads'[t] = heads[t]
    BY <1>1 DEF MigrationInv, TypeOK
  <1>4. TypeOK' /\ RowsInv'
    BY <1>1, <1>2, <1>3, RowsStay DEF MigrationInv, TypeOK
  <1>5. FormInv' /\ ReportsAreTrue'
    BY <1>1, <1>3 DEF MigrationInv, FormInv, ReportsAreTrue, At, Readable, Unfilled
  <1>6. FoldersKnow'
    <2>1. job.script = "folders" => \A t \in Secrets \ job.heads : heads'[t].listed # "path"
      BY <1>3 DEF MigrationInv, JobInv, FoldersKnow
    <2>2. ASSUME job.read # <<>>
          PROVE  /\ job.read[2] <= heads'[job.read[1]].version
                 /\ job.read[2] # heads'[job.read[1]].version
                       => heads'[job.read[1]].listed # "path"
      <3>1. PICK t \in Secrets, v \in Nat : job.read = <<t, v>>
        BY <2>2 DEF MigrationInv, JobInv, Job
      <3>2. v <= heads[t].version /\ (v # heads[t].version => heads[t].listed # "path")
        BY <2>2, <3>1 DEF MigrationInv, JobInv, FoldersKnow
      <3>3. heads[t].version \in Nat
        BY DEF MigrationInv, TypeOK
      <3>4. v <= heads'[t].version /\ (v # heads'[t].version => heads'[t].listed # "path")
        BY <1>3, <3>1, <3>2, <3>3
      <3> QED
        BY <3>1, <3>4
    <2> QED
      BY <1>1, <2>1, <2>2 DEF FoldersKnow
  <1>7. JobInv'
    BY <1>1, <1>6 DEF MigrationInv, JobInv, IdentityKnows, UidsKnow, Stored, At
  <1> QED
    BY <1>4, <1>5, <1>7 DEF MigrationInv

\* The publisher and those who record leave the table to the scripts.
LEMMA PublisherKeeps ==
  ASSUME MigrationInv, PublicationInv, Outbox(OutboxStep) \/ PublisherFails
  PROVE  MigrationInv'
  <1>1. /\ UNCHANGED <<table, access, objects, names, grant, heads, job, reports, overlooked>>
        /\ OutboxStep \/ PublishFails
    BY DEF Outbox, PublisherFails, migrationVars
  <1>2. incidents' \in 0 .. MaxIncidents
    BY MaxIncidentsAssumption
       DEF MigrationInv, TypeOK, Outbox, PublisherFails, Incident, migrationVars
  <1>3. TypeOK' /\ RowsInv' /\ FormInv'
    BY <1>1, <1>2, RowsStay, FormStays DEF MigrationInv, TypeOK
  <1>4. ReportsAreTrue'
    BY <1>1, OutboxFills, ReportsStay DEF MigrationInv
  <1>5. JobInv'
    BY <1>1 DEF MigrationInv, JobInv, IdentityKnows, UidsKnow, FoldersKnow, Stored, At
  <1> QED
    BY <1>3, <1>4, <1>5 DEF MigrationInv

-----------------------------------------------------------------------------
(* Every step *)

LEMMA StepKeeps ==
  ASSUME MigrationInv, PublicationInv, Next
  PROVE  MigrationInv' /\ PublicationInv'
  <1> DEFINE Quiet == UNCHANGED outboxVars
  <1>1. CASE Quiet
    <2>1. PublicationInv'
      BY <1>1 DEF outboxVars, PublicationInv, OutboxTypeOK, QueueInv, DeliveredIsPublished, Current
    <2> HIDE DEF Quiet
    <2>2. CASE Begin \/ BeginIndexes
      BY <2>1, <2>2, BeginIdentityKeeps, BeginUidsKeeps, BeginFoldersKeeps, BeginIndexesKeeps
         DEF Begin
    <2>3. CASE \E s \in Secrets : EnsureCopied(s) \/ PutLookup(s) \/ ReadHead(s)
      BY <2>1, <2>3, EnsureCopiedKeeps, PutLookupKeeps, ReadHeadKeeps
    <2>4. CASE \E r \in job.rows : MoveScoped(r) \/ MoveUid(r) \/ UpdateIndex(r)
      BY <2>1, <2>4, MoveScopedKeeps, MoveUidKeeps, UpdateIndexKeeps
    <2>5. CASE \E a \in job.access : MoveAccess(a)
      BY <2>1, <2>5, MoveAccessKeeps
    <2>6. CASE \E e \in job.events : FillEnvironment(e)
      BY <2>1, <2>6, FillKeeps DEF PublicationInv
    <2>7. CASE MigrateGrant \/ UpdateHead
      BY <2>1, <2>7, MigrateGrantKeeps, UpdateHeadKeeps
    <2>8. CASE VerifyIdentity \/ VerifyUids \/ EndIndexes \/ EndFolders
      BY <2>1, <2>8, VerifyIdentityKeeps, VerifyUidsKeeps, EndIndexesKeeps, EndFoldersKeeps
    <2>9. CASE Interrupt
      BY <2>1, <2>9, InterruptKeeps
    <2>10. CASE \E s \in Secrets, archive \in BOOLEAN : Revise(s, archive)
      BY <2>1, <2>10, ReviseKeeps
    <2>11. CASE Outbox(OutboxStep) \/ PublisherFails
      BY <2>1, <2>11, PublisherKeeps
    <2> QED
      BY <2>2, <2>3, <2>4, <2>5, <2>6, <2>7, <2>8, <2>9, <2>10, <2>11 DEF Next, Work
  <1>2. CASE \E e \in job.events : FillEnvironment(e)
    BY <1>2, FillKeeps DEF PublicationInv
  <1>3. CASE Outbox(OutboxStep) \/ PublisherFails
    BY <1>3, PublisherKeeps, OutboxKeeps DEF Outbox, PublisherFails
  <1>4. Quiet \/ (\E e \in job.events : FillEnvironment(e)) \/ Outbox(OutboxStep) \/ PublisherFails
    BY DEF Next, Begin, Work, BeginIdentity, BeginUids, BeginFolders, BeginIndexes, EnsureCopied,
           PutLookup, ReadHead, MoveScoped, MoveUid, UpdateIndex, MoveAccess, MigrateGrant,
           UpdateHead, VerifyIdentity, VerifyUids, EndIndexes, EndFolders, Interrupt, Revise
  <1> QED
    BY <1>1, <1>2, <1>3, <1>4

\* However often scripts are interrupted and started again, on scans as stale as may be,
\* and whatever the publisher does meanwhile: every row is at one key, whole and with its
\* object, every success that was reported is one, and what is called delivered has reached
\* the broker for every recipient.
THEOREM UpgradesStayWhole == Spec => []UpgradeInv
  <1> DEFINE I == MigrationInv /\ PublicationInv
  <1>1. Init => I
    BY MigrationInit, PublicationInit DEF Init
  <1>2. I /\ [Next]_vars => I'
    <2>1. CASE Next
      BY <2>1, StepKeeps
    <2>2. ASSUME I, UNCHANGED vars
          PROVE  I'
      <3>1. UNCHANGED outboxVars /\ UNCHANGED migrationVars
        BY <2>2 DEF vars
      <3>2. PublicationInv'
        BY <2>2, <3>1
           DEF outboxVars, PublicationInv, OutboxTypeOK, QueueInv, DeliveredIsPublished
      <3>3. MigrationInv'
        BY <2>2, <3>1
           DEF outboxVars, migrationVars, MigrationInv, TypeOK, RowsInv, RowsAreUnique,
               ReadersAreUnique, HeadsFollow, Whole, Stored, JobInv, IdentityKnows, UidsKnow,
               FoldersKnow, FormInv, ReportsAreTrue, At, Readable, Unfilled
      <3> QED
        BY <3>2, <3>3
    <2> QED
      BY <2>1, <2>2
  <1>3. I => UpgradeInv
    BY OneOfEach DEF MigrationInv, PublicationInv, UpgradeInv
  <1> QED
    BY <1>1, <1>2, <1>3, PTL DEF Spec
=============================================================================
