----------------------- MODULE SyncPublicationProofs ------------------------
(***************************************************************************)
(* Proofs about SyncPublication: for any number of secrets, mutations and  *)
(* starts of the backfill the index is a projection of the heads, a ready  *)
(* environment misses no live secret, and every step is one of SyncIndex.  *)
(***************************************************************************)
EXTENDS SyncPublication, TLAPS

Active == {"begun", "counted", "armed"}
Indexed(s) == \E e \in index : e.secret = s
Missing(s) == head[s].status = "READY" /\ ~head[s].archived /\ ~Indexed(s)

\* A head that was never committed has never been published.
HeadsInv ==
    \A s \in Secrets :
        /\ head[s].syncSequence <= counter.sequence
        /\ head[s].status = "READY" => head[s].version \in Versions
        /\ head[s].status # "READY" =>
              head[s].version = None /\ ~head[s].archived /\ head[s].syncSequence = 0
        /\ head[s].status = "ABSENT" => head[s] = NoHead

\* What a publication read is the past; if the counter is still as it was read, so is
\* the head's sequence, which was read after it.
ReadsInv ==
    \A p \in Publishers :
        /\ pub[p].phase \in {"counted", "armed"} =>
              /\ pub[p].read.sequence <= counter.sequence
              /\ pub[p].read.exists = TRUE => counter.exists = TRUE
        /\ pub[p].phase = "armed" /\ CounterIsAsRead(p) =>
              pub[p].previous = head[pub[p].secret].syncSequence

\* A revision becomes current once.
OwnersInv ==
    \A w \in Writers :
        /\ pub[w].phase # "candidate"
        /\ pub[w].phase \in Active => pub[w].version = w
        /\ pub[w].phase # "ended" =>
              pub[Backfill].version # w /\ \A s \in Secrets : head[s].version # w

\* The backfill holds a committed head, and knows of the revision it read whether it
\* is an archive.
SnapshotInv ==
    LET b == pub[Backfill] IN
    /\ b.phase \in Active \cup {"candidate"} =>
          b.secret \in Secrets /\ head[b.secret].status = "READY"
    /\ b.phase \in Active /\ head[b.secret].version = b.version =>
          head[b.secret].archived = b.archived

\* A scan leaves no live secret behind but the one it is at.
ScanInv ==
    /\ counter.ready \/ backfill.phase \in {"put", "update"} =>
          \A s \in Secrets : ~Missing(s)
    /\ backfill.phase = "scan" =>
          \A s \in backfill.visited : Missing(s) =>
              pub[Backfill].phase # "idle" /\ pub[Backfill].secret = s
    /\ backfill.phase # "scan" => pub[Backfill].phase = "idle"
    /\ backfill.phase = "update" => counter.exists = TRUE

\* Every entry is that of its head, and a committed live head that was published has one.
Projection ==
    /\ \A e \in index :
          /\ e.sequence = head[e.secret].syncSequence
          /\ e.version = head[e.secret].version
          /\ e.archived = head[e.secret].archived
    /\ \A s \in Secrets : head[s].syncSequence = 0 \/ head[s].archived \/ Indexed(s)

IndexInv ==
    TypeOK /\ HeadsInv /\ ReadsInv /\ OwnersInv /\ SnapshotInv /\ ScanInv /\ Projection

-----------------------------------------------------------------------------
LEMMA CounterFields ==
    ASSUME counter \in Counter
    PROVE  /\ counter.exists \in BOOLEAN /\ counter.sequence \in Nat
           /\ counter.ready \in BOOLEAN
           /\ ~counter.exists => counter.sequence = 0 /\ ~counter.ready
           /\ counter.exists = TRUE =>
                 counter \in [exists : {TRUE}, sequence : Nat, ready : BOOLEAN]
  <1>1. CASE counter = NoCounter
    BY <1>1 DEF NoCounter
  <1>2. CASE counter \in [exists : {TRUE}, sequence : Nat, ready : BOOLEAN]
    BY <1>2
  <1> QED
    BY <1>1, <1>2 DEF Counter

LEMMA IndexInit == Init => IndexInv
  <1> SUFFICES ASSUME Init PROVE IndexInv
    OBVIOUS
  <1>1. NoPublication \in Publication /\ NoPublication.phase = "idle"
        /\ NoPublication.version = None
    BY DEF NoPublication, Publication, Unread
  <1>2. counter \in Counter /\ counter.sequence = 0
    <2>1. NoCounter.sequence = 0 /\ NoCounter \in Counter
      BY DEF NoCounter, Counter
    <2>2. CASE counter = NoCounter
      BY <2>1, <2>2
    <2>3. CASE counter = [exists |-> TRUE, sequence |-> 0, ready |-> TRUE]
      BY <2>3 DEF Counter
    <2> QED
      BY <2>2, <2>3 DEF Init
  <1> DEFINE Old == [status : {"READY"}, version : {Legacy}, archived : BOOLEAN,
                     syncSequence : {0}, lease : {None}]
  <1>12. \A s \in Secrets : head[s] = NoHead \/ head[s] \in Old
    BY DEF Init
  <1>3. ASSUME NEW s \in Secrets
        PROVE  /\ head[s] \in HeadRecord /\ head[s].syncSequence = 0
               /\ head[s] = NoHead \/ (head[s].status = "READY" /\ head[s].version = Legacy)
    <2>1. CASE head[s] = NoHead
      BY <2>1 DEF NoHead, HeadRecord
    <2>2. CASE head[s] \in Old
      BY <2>2 DEF HeadRecord, Versions
    <2> QED
      BY <1>12, <2>1, <2>2
  <1>4. head \in [Secrets -> HeadRecord]
    BY <1>3 DEF Init
  <1>5. \A p \in Publishers : pub[p] = NoPublication
    BY DEF Init
  <1>6. TypeOK
    BY <1>1, <1>2, <1>4, <1>5, RunsAreCounted DEF Init, TypeOK, Scan
  <1>7. HeadsInv
    <2> SUFFICES ASSUME NEW s \in Secrets
                 PROVE  /\ head[s].syncSequence <= counter.sequence
                        /\ head[s].status = "READY" => head[s].version \in Versions
                        /\ head[s].status # "READY" =>
                              head[s].version = None /\ ~head[s].archived
                              /\ head[s].syncSequence = 0
                        /\ head[s].status = "ABSENT" => head[s] = NoHead
      BY DEF HeadsInv
    <2>1. CASE head[s] = NoHead
      BY <1>2, <2>1 DEF NoHead
    <2>2. CASE head[s].status = "READY" /\ head[s].version = Legacy
      BY <1>2, <1>3, <2>2 DEF Versions
    <2> QED
      BY <1>3, <2>1, <2>2
  <1>8. ReadsInv /\ SnapshotInv
    BY <1>1, <1>5 DEF ReadsInv, SnapshotInv, Publishers, Active
  <1>9. OwnersInv
    <2>1. \A s \in Secrets : head[s].version \in {None, Legacy}
      BY <1>3 DEF NoHead
    <2> QED
      BY <1>1, <1>5, <2>1, DistinctPublishers DEF OwnersInv, Publishers, Active
  <1>10. ScanInv
    <2>1. counter.ready => \A s \in Secrets : head[s] = NoHead
      BY DEF Init, NoCounter
    <2> QED
      BY <1>1, <1>5, <2>1 DEF Init, ScanInv, Missing, NoHead, Publishers
  <1>11. Projection
    BY <1>3 DEF Init, Projection
  <1> QED
    BY <1>6, <1>7, <1>8, <1>9, <1>10, <1>11 DEF IndexInv

-----------------------------------------------------------------------------
(* Leases: what the index depends on does not change. *)

HeadsKept ==
    /\ \A s \in Secrets :
          /\ head'[s].syncSequence = head[s].syncSequence
          /\ head'[s].version = head[s].version
          /\ head'[s].archived = head[s].archived
          /\ head'[s].status = "READY" <=> head[s].status = "READY"
          /\ head'[s].status = "ABSENT" => head'[s] = NoHead
    /\ counter' = counter /\ index' = index /\ backfill' = backfill
    /\ pub'[Backfill] = pub[Backfill]

LEMMA KeptProjection ==
    ASSUME IndexInv, HeadsKept
    PROVE  HeadsInv' /\ SnapshotInv' /\ ScanInv' /\ Projection'
  <1> USE DEF IndexInv, HeadsKept
  <1>1. HeadsInv'
    BY DEF HeadsInv
  <1>2. SnapshotInv'
    BY DEF SnapshotInv
  <1>3. \A s \in Secrets : Missing(s)' <=> Missing(s)
    BY DEF Missing, Indexed
  <1>4. ScanInv'
    BY <1>3 DEF ScanInv, TypeOK, Scan
  <1>5. Projection'
    BY DEF Projection, Indexed, TypeOK, Entry
  <1> QED
    BY <1>1, <1>2, <1>4, <1>5

LEMMA TakeLeaseStep ==
    ASSUME IndexInv, NEW w \in Writers, NEW s \in Secrets, NEW archived \in BOOLEAN,
           TakeLease(w, s, archived)
    PROVE  HeadsKept /\ IndexInv'
  <1> USE DEF IndexInv
  <1> DEFINE new == [NoPublication EXCEPT !.phase = "begun", !.secret = s, !.version = w,
                                          !.archived = archived]
  <1>1. /\ new \in Publication /\ new.phase = "begun" /\ new.version = w /\ new.secret = s
    BY DEF NoPublication, Publication, Unread, Versions
  <1>2. /\ pub' = [pub EXCEPT ![w] = new] /\ w # Backfill /\ pub[w].phase = "idle"
        /\ w \in Publishers /\ pub'[w] = new
        /\ \A p \in Publishers \ {w} : pub'[p] = pub[p]
    BY DistinctPublishers DEF TakeLease, Publishers, TypeOK
  <1>3. /\ head[s] \in HeadRecord /\ head' \in [Secrets -> HeadRecord]
        /\ \A x \in Secrets :
              /\ head'[x].syncSequence = head[x].syncSequence
              /\ head'[x].version = head[x].version
              /\ head'[x].archived = head[x].archived
              /\ head'[x].status = "READY" <=> head[x].status = "READY"
              /\ head'[x].status = "ABSENT" => head'[x] = head[x]
              /\ head'[x].status = "ABSENT" => head[x].status = "ABSENT"
    BY DEF TakeLease, TypeOK, HeadRecord, NoHead
  <1>4. HeadsKept
    BY <1>2, <1>3 DEF TakeLease, HeadsKept, HeadsInv, Publishers
  <1>5. TypeOK'
    BY <1>1, <1>2, <1>3 DEF TakeLease, TypeOK, Versions
  <1>6. ReadsInv'
    BY <1>1, <1>2, <1>3 DEF TakeLease, ReadsInv, CounterIsAsRead, TypeOK
  <1>7. OwnersInv'
    BY <1>1, <1>2, <1>3 DEF OwnersInv, Active, Publishers
  <1> QED
    BY <1>4, <1>5, <1>6, <1>7, KeptProjection

LEMMA GiveUpLeaseStep ==
    ASSUME IndexInv, NEW s \in Secrets, GiveUpLease(s)
    PROVE  HeadsKept /\ IndexInv'
  <1> USE DEF IndexInv
  <1>1. head[s] \in HeadRecord /\ NoHead \in HeadRecord
    BY DEF TypeOK, HeadRecord, NoHead
  <1>2. head[s].status # "ABSENT"
    BY DEF GiveUpLease, HeadsInv, NoHead
  <1>3. \A x \in Secrets \ {s} : head'[x] = head[x]
    BY DEF GiveUpLease, TypeOK
  <1>4. /\ head'[s] \in HeadRecord
        /\ head'[s].syncSequence = head[s].syncSequence
        /\ head'[s].version = head[s].version
        /\ head'[s].archived = head[s].archived
        /\ head'[s].status = "READY" <=> head[s].status = "READY"
        /\ head'[s].status = "ABSENT" => head'[s] = NoHead
    <2>1. CASE head[s].status = "PREPARED"
      <3>1. head'[s] = NoHead
        BY <2>1 DEF GiveUpLease, TypeOK
      <3>2. head[s].version = None /\ head[s].archived = FALSE /\ head[s].syncSequence = 0
        BY <1>1, <2>1 DEF HeadsInv, HeadRecord
      <3>3. /\ NoHead.version = None /\ NoHead.archived = FALSE /\ NoHead.syncSequence = 0
            /\ NoHead.status = "ABSENT"
        BY DEF NoHead
      <3> QED
        BY <1>1, <2>1, <3>1, <3>2, <3>3
    <2>2. CASE head[s].status # "PREPARED"
      <3>1. head'[s] = [head[s] EXCEPT !.lease = None]
        BY <2>2 DEF GiveUpLease, TypeOK
      <3> QED
        BY <1>1, <1>2, <3>1 DEF HeadRecord
    <2> QED
      BY <2>1, <2>2
  <1>5. HeadsKept
    BY <1>3, <1>4 DEF GiveUpLease, HeadsKept, HeadsInv
  <1>6. TypeOK'
    BY <1>3, <1>4 DEF GiveUpLease, TypeOK
  <1>7. ReadsInv'
    <2>1. pub' = pub
      BY DEF GiveUpLease
    <2>2. \A p \in Publishers : pub[p].phase = "armed" => pub[p].secret \in Secrets
      BY DEF TypeOK
    <2> QED
      BY <1>5, <2>1, <2>2 DEF HeadsKept, ReadsInv, CounterIsAsRead
  <1>8. OwnersInv'
    BY <1>5 DEF GiveUpLease, HeadsKept, OwnersInv
  <1> QED
    BY <1>5, <1>6, <1>7, <1>8, KeptProjection

-----------------------------------------------------------------------------
(* Reads: one publication goes on, and the stores stay as they are. *)

StoresKept == counter' = counter /\ head' = head /\ index' = index

LEMMA ReadCounterStep ==
    ASSUME IndexInv, NEW p \in Publishers, ReadCounter(p)
    PROVE  IndexInv'
  <1> USE DEF IndexInv
  <1>1. /\ pub[p].phase = "begun" /\ pub[p] \in Publication /\ pub'[p].phase = "counted"
        /\ pub'[p].secret = pub[p].secret /\ pub'[p].version = pub[p].version
        /\ pub'[p].archived = pub[p].archived
        /\ pub'[p].read = [exists |-> counter.exists, sequence |-> counter.sequence]
        /\ \A r \in Publishers \ {p} : pub'[r] = pub[r]
    BY DEF ReadCounter, TypeOK, Publication
  <1>2. StoresKept /\ backfill' = backfill
    BY DEF ReadCounter, StoresKept
  <1>3. TypeOK'
    <2>1. counter.exists \in BOOLEAN /\ counter.sequence \in Nat
      BY CounterFields DEF TypeOK
    <2>2. pub' \in [Publishers -> Publication]
      BY <2>1, ZenonT(60) DEF ReadCounter, TypeOK, Publication
    <2> QED
      BY <1>1, <1>2, <2>2 DEF TypeOK, StoresKept
  <1>4. HeadsInv' /\ Projection'
    BY <1>2 DEF StoresKept, HeadsInv, Projection, Indexed
  <1>5. ReadsInv'
    BY <1>1, <1>2, CounterFields DEF StoresKept, ReadsInv, CounterIsAsRead, TypeOK
  <1>6. OwnersInv'
    BY <1>1, <1>2 DEF StoresKept, OwnersInv, Active, Publishers
  <1>7. SnapshotInv' /\ ScanInv'
    BY <1>1, <1>2 DEF StoresKept, SnapshotInv, ScanInv, Missing, Indexed, Active, Publishers
  <1> QED
    BY <1>3, <1>4, <1>5, <1>6, <1>7

LEMMA ReadPreviousStep ==
    ASSUME IndexInv, NEW p \in Publishers, ReadPrevious(p)
    PROVE  IndexInv'
  <1> USE DEF IndexInv
  <1>1. /\ pub[p].phase = "counted" /\ pub[p] \in Publication /\ pub'[p].phase = "armed"
        /\ pub'[p].secret = pub[p].secret /\ pub'[p].version = pub[p].version
        /\ pub'[p].archived = pub[p].archived /\ pub'[p].read = pub[p].read
        /\ pub'[p].previous = head[pub[p].secret].syncSequence
        /\ pub[p].secret \in Secrets
        /\ \A r \in Publishers \ {p} : pub'[r] = pub[r]
    BY DEF ReadPrevious, TypeOK, Publication
  <1>2. StoresKept /\ backfill' = backfill
    BY DEF ReadPrevious, StoresKept
  <1>3. TypeOK'
    <2>1. head[pub[p].secret].syncSequence \in Nat
      BY <1>1 DEF TypeOK, HeadRecord
    <2>2. pub' \in [Publishers -> Publication]
      BY <2>1, ZenonT(60) DEF ReadPrevious, TypeOK, Publication
    <2> QED
      BY <1>1, <1>2, <2>2 DEF TypeOK, StoresKept
  <1>4. HeadsInv' /\ Projection'
    BY <1>2 DEF StoresKept, HeadsInv, Projection, Indexed
  <1>5. ReadsInv'
    BY <1>1, <1>2 DEF StoresKept, ReadsInv, CounterIsAsRead
  <1>6. OwnersInv'
    BY <1>1, <1>2 DEF StoresKept, OwnersInv, Active, Publishers
  <1>7. SnapshotInv' /\ ScanInv'
    BY <1>1, <1>2 DEF StoresKept, SnapshotInv, ScanInv, Missing, Indexed, Active, Publishers
  <1> QED
    BY <1>3, <1>4, <1>5, <1>6, <1>7

LEMMA ContendStep ==
    ASSUME IndexInv, NEW p \in Publishers, Contend(p)
    PROVE  IndexInv'
  <1> USE DEF IndexInv
  <1>1. /\ pub[p].phase = "armed" /\ pub[p] \in Publication /\ pub'[p].phase = "begun"
        /\ pub'[p].secret = pub[p].secret /\ pub'[p].version = pub[p].version
        /\ pub'[p].archived = pub[p].archived
        /\ pub' \in [Publishers -> Publication]
        /\ \A r \in Publishers \ {p} : pub'[r] = pub[r]
    BY ZenonT(60) DEF Contend, TypeOK, Publication, Unread
  <1>2. StoresKept /\ backfill' = backfill
    BY DEF Contend, StoresKept
  <1>3. TypeOK'
    BY <1>1, <1>2 DEF TypeOK, StoresKept
  <1>4. HeadsInv' /\ Projection'
    BY <1>2 DEF StoresKept, HeadsInv, Projection, Indexed
  <1>5. ReadsInv'
    BY <1>1, <1>2 DEF StoresKept, ReadsInv, CounterIsAsRead
  <1>6. OwnersInv'
    BY <1>1, <1>2 DEF StoresKept, OwnersInv, Active, Publishers
  <1>7. SnapshotInv' /\ ScanInv'
    BY <1>1, <1>2 DEF StoresKept, SnapshotInv, ScanInv, Missing, Indexed, Active, Publishers
  <1> QED
    BY <1>3, <1>4, <1>5, <1>6, <1>7

-----------------------------------------------------------------------------
(* The transaction, and the TTL *)

\* What a publication makes of the stores: the only entry of its secret is the new one.
LEMMA PublishEffect ==
    ASSUME IndexInv, NEW p \in Publishers, Publish(p)
    PROVE  LET s == pub[p].secret
               new == [sequence |-> counter.sequence + 1, secret |-> s,
                       version |-> pub[p].version, archived |-> pub[p].archived] IN
           /\ s \in Secrets /\ pub[p].version \in Versions
           /\ counter' = [exists |-> TRUE, sequence |-> counter.sequence + 1,
                          ready |-> counter.ready]
           /\ head' \in [Secrets -> HeadRecord]
           /\ \A x \in Secrets \ {s} : head'[x] = head[x]
           /\ head'[s].status = "READY" /\ head'[s].version = pub[p].version
           /\ head'[s].archived = pub[p].archived
           /\ head'[s].syncSequence = counter.sequence + 1
           /\ new \in Entry
           /\ index' = {e \in index : e.secret # s} \cup {new}
  <1> USE DEF IndexInv
  <1> DEFINE s == pub[p].secret
             h == head[s]
             next == counter.sequence + 1
             new == [sequence |-> next, secret |-> s, version |-> pub[p].version,
                     archived |-> pub[p].archived]
  <1>1. /\ pub[p] \in Publication /\ s \in Secrets /\ pub[p].version \in Versions
        /\ h \in HeadRecord /\ counter.sequence \in Nat
    BY CounterFields DEF Publish, TypeOK
  <1>2. pub[p].read.sequence + 1 = next
    BY DEF Publish, CounterIsAsRead
  <1>3. pub[p].previous = h.syncSequence
    BY DEF Publish, ReadsInv
  <1>4. PublishedHead(p, next) \in HeadRecord
    BY <1>1 DEF PublishedHead, HeadRecord, Publication, Publishers, Versions
  <1>5. /\ PublishedHead(p, next).status = "READY"
        /\ PublishedHead(p, next).version = pub[p].version
        /\ PublishedHead(p, next).archived = pub[p].archived
        /\ PublishedHead(p, next).syncSequence = next
    <2>1. CASE p = Backfill
      BY <1>1, <2>1 DEF Publish, HeadIsAsExpected, PublishedHead, SnapshotInv, Active,
                        HeadRecord
    <2>2. CASE p # Backfill
      BY <1>1, <2>2 DEF Publish, PublishedHead, OwnersInv, Publishers, Active
    <2> QED
      BY <2>1, <2>2
  <1>6. head' = [head EXCEPT ![s] = PublishedHead(p, next)]
    BY <1>2 DEF Publish
  <1>7. head' \in [Secrets -> HeadRecord] /\ \A x \in Secrets \ {s} : head'[x] = head[x]
    BY <1>1, <1>4, <1>6 DEF TypeOK
  <1>8. head'[s] = PublishedHead(p, next)
    BY <1>1, <1>6 DEF TypeOK
  <1>9. new \in Entry
    BY <1>1 DEF Entry, Publication
  <1>10. index' = {e \in index : e.secret # s} \cup {new}
    <2>1. index' = ReplaceEntry(p, next)
      BY <1>2 DEF Publish
    <2>2. \A e \in index : e.secret = s => e.sequence = pub[p].previous
      BY <1>3 DEF Projection
    <2> QED
      BY <2>1, <2>2 DEF ReplaceEntry
  <1>11. counter' = [exists |-> TRUE, sequence |-> next, ready |-> counter.ready]
    BY <1>2 DEF Publish
  <1> QED
    BY <1>1, <1>5, <1>7, <1>8, <1>9, <1>10, <1>11

LEMMA PublishStep ==
    ASSUME IndexInv, NEW p \in Publishers, Publish(p)
    PROVE  IndexInv'
  <1> USE DEF IndexInv
  <1> DEFINE s == pub[p].secret
             next == counter.sequence + 1
             new == [sequence |-> next, secret |-> s, version |-> pub[p].version,
                     archived |-> pub[p].archived]
  <1>1. /\ s \in Secrets /\ pub[p].version \in Versions /\ pub[p] \in Publication
        /\ counter' = [exists |-> TRUE, sequence |-> next, ready |-> counter.ready]
        /\ head' \in [Secrets -> HeadRecord]
        /\ \A x \in Secrets \ {s} : head'[x] = head[x]
        /\ head'[s].status = "READY" /\ head'[s].version = pub[p].version
        /\ head'[s].archived = pub[p].archived /\ head'[s].syncSequence = next
        /\ new \in Entry /\ index' = {e \in index : e.secret # s} \cup {new}
    BY PublishEffect DEF TypeOK
  <1>2. counter.sequence \in Nat /\ counter.exists \in BOOLEAN /\ counter.ready \in BOOLEAN
    BY CounterFields DEF TypeOK
  <1> DEFINE ended == [NoPublication EXCEPT !.phase = IF p = Backfill THEN "idle" ELSE "ended"]
  <1>3. /\ ended \in Publication /\ ended.version = None
        /\ ended.phase = IF p = Backfill THEN "idle" ELSE "ended"
    BY DEF NoPublication, Publication, Unread
  <1>4. /\ pub[p].phase = "armed" /\ pub' = [pub EXCEPT ![p] = ended] /\ backfill' = backfill
        /\ pub'[p] = ended /\ \A r \in Publishers \ {p} : pub'[r] = pub[r]
    BY DEF Publish, TypeOK
  <1>5. TypeOK'
    <2>1. counter' \in Counter
      BY <1>1, <1>2 DEF Counter
    <2>2. pub' \in [Publishers -> Publication]
      BY <1>3, <1>4 DEF TypeOK
    <2> QED
      BY <1>1, <1>3, <1>4, <2>1, <2>2 DEF TypeOK
  <1>6. HeadsInv'
    BY <1>1, <1>2 DEF HeadsInv, TypeOK, HeadRecord
  <1>7. ReadsInv'
    <2> SUFFICES ASSUME NEW r \in Publishers, pub'[r].phase \in {"counted", "armed"}
                 PROVE  /\ pub'[r].read.sequence <= counter'.sequence
                        /\ pub'[r].read.exists = TRUE => counter'.exists = TRUE
                        /\ ~CounterIsAsRead(r)'
      BY DEF ReadsInv
    <2>1. pub'[r] = pub[r]
      BY <1>3, <1>4
    <2>2. pub[r].read.sequence <= counter.sequence /\ pub[r].read.sequence \in Nat
      BY <2>1 DEF ReadsInv, TypeOK, Publication
    <2>3. counter'.sequence = counter.sequence + 1 /\ counter'.exists = TRUE
      BY <1>1
    <2>4. pub'[r].read.sequence # counter'.sequence
      BY <1>2, <2>1, <2>2, <2>3
    <2>5. ~CounterIsAsRead(r)'
      BY <2>4 DEF CounterIsAsRead
    <2>6. pub'[r].read.sequence <= counter'.sequence
      BY <1>2, <2>1, <2>2, <2>3
    <2> QED
      BY <2>3, <2>5, <2>6
  <1>8. OwnersInv'
    <2> SUFFICES ASSUME NEW w \in Writers
                 PROVE  /\ pub'[w].phase # "candidate"
                        /\ pub'[w].phase \in Active => pub'[w].version = w
                        /\ pub'[w].phase # "ended" =>
                              /\ pub'[Backfill].version # w
                              /\ \A x \in Secrets : head'[x].version # w
      BY DEF OwnersInv
    <2>1. CASE w = p
      <3>1. pub'[w] = ended /\ ended.phase = "ended"
        BY <1>3, <1>4, <2>1, DistinctPublishers
      <3> QED
        BY <3>1 DEF Active
    <2>2. CASE w # p
      <3>1. pub'[w] = pub[w]
        BY <1>4, <2>2 DEF Publishers
      <3>2. pub'[Backfill].version \in {None, pub[Backfill].version}
        BY <1>3, <1>4 DEF Publishers
      <3>3. pub[w].phase # "ended" => pub[p].version # w
        BY <1>4, <2>2 DEF OwnersInv, Publishers, Active
      <3> QED
        BY <1>1, <3>1, <3>2, <3>3, DistinctPublishers DEF OwnersInv
    <2> QED
      BY <2>1, <2>2
  <1>9. SnapshotInv'
    <2> SUFFICES ASSUME pub'[Backfill].phase \in Active \cup {"candidate"}
                 PROVE  /\ pub'[Backfill].secret \in Secrets
                        /\ head'[pub'[Backfill].secret].status = "READY"
                        /\ pub'[Backfill].phase \in Active
                           /\ head'[pub'[Backfill].secret].version = pub'[Backfill].version =>
                              head'[pub'[Backfill].secret].archived = pub'[Backfill].archived
      BY DEF SnapshotInv
    <2>1. p \in Writers /\ pub'[Backfill] = pub[Backfill]
      <3>1. p # Backfill
        <4>1. p = Backfill => pub'[Backfill].phase = "idle"
          BY <1>3, <1>4
        <4> QED
          BY <4>1 DEF Active
      <3> QED
        BY <1>4, <3>1 DEF Publishers
    <2>2. pub[p].version = p /\ pub[Backfill].version # p
      BY <1>4, <2>1 DEF OwnersInv, Active
    <2> QED
      BY <1>1, <2>1, <2>2 DEF SnapshotInv
  <1>10. \A x \in Secrets : Missing(x)' => Missing(x) /\ x # s
    BY <1>1 DEF Missing, Indexed
  <1>11. ScanInv'
    <2>1. \A x \in Secrets :
             Missing(x)' /\ pub[Backfill].phase # "idle" /\ pub[Backfill].secret = x =>
                pub'[Backfill].phase # "idle" /\ pub'[Backfill].secret = x
      BY <1>4, <1>10 DEF Publishers
    <2>2. backfill.visited \subseteq Secrets
      BY DEF TypeOK, Scan
    <2>3. backfill.phase # "scan" => pub'[Backfill].phase = "idle"
      BY <1>3, <1>4 DEF ScanInv, Publishers
    <2> QED
      BY <1>1, <1>4, <1>10, <2>1, <2>2, <2>3 DEF ScanInv
  <1>12. Projection'
    <2>1. ASSUME NEW e \in index'
          PROVE  /\ e.sequence = head'[e.secret].syncSequence
                 /\ e.version = head'[e.secret].version
                 /\ e.archived = head'[e.secret].archived
      <3>1. CASE e = new
        BY <1>1, <3>1
      <3>2. CASE e \in index /\ e.secret # s
        <4>1. e.secret \in Secrets
          BY <3>2 DEF TypeOK, Entry
        <4>2. head'[e.secret] = head[e.secret]
          BY <1>1, <3>2, <4>1
        <4> QED
          BY <3>2, <4>2 DEF Projection
      <3> QED
        BY <1>1, <3>1, <3>2
    <2>2. ASSUME NEW x \in Secrets
          PROVE  head'[x].syncSequence = 0 \/ head'[x].archived \/ \E e \in index' : e.secret = x
      <3>1. CASE x = s
        BY <1>1, <3>1
      <3>2. CASE x # s
        BY <1>1, <3>2 DEF Projection, Indexed
      <3> QED
        BY <3>1, <3>2
    <2> QED
      BY <2>1, <2>2 DEF Projection, Indexed
  <1> QED
    BY <1>5, <1>6, <1>7, <1>8, <1>9, <1>11, <1>12

LEMMA ExpireEntryStep ==
    ASSUME IndexInv, NEW e \in index, ExpireEntry(e)
    PROVE  IndexInv'
  <1> USE DEF IndexInv
  <1>1. /\ e.secret \in Secrets /\ head[e.secret].archived /\ index' = index \ {e}
        /\ counter' = counter /\ head' = head /\ pub' = pub /\ backfill' = backfill
    BY DEF ExpireEntry, Projection, TypeOK, Entry
  <1>2. \A s \in Secrets : Missing(s)' <=> Missing(s)
    BY <1>1 DEF Missing, Indexed
  <1>3. TypeOK' /\ HeadsInv' /\ ReadsInv' /\ OwnersInv' /\ SnapshotInv'
    BY <1>1 DEF TypeOK, HeadsInv, ReadsInv, CounterIsAsRead, OwnersInv, SnapshotInv
  <1>4. ScanInv'
    BY <1>1, <1>2 DEF ScanInv, TypeOK, Scan
  <1>5. Projection'
    BY <1>1 DEF Projection, Indexed
  <1> QED
    BY <1>3, <1>4, <1>5

-----------------------------------------------------------------------------
(* The backfill *)

LEMMA BackfillStartStep ==
    ASSUME IndexInv, BackfillStart
    PROVE  IndexInv'
  <1> USE DEF IndexInv
  <1>1. /\ counter' = counter /\ head' = head /\ index' = index /\ pub' = pub
        /\ backfill' = [phase |-> "scan", visited |-> {}, runs |-> backfill.runs + 1]
        /\ backfill.phase = "off"
    BY DEF BackfillStart
  <1>2. backfill' \in Scan
    BY <1>1, RunsAreCounted DEF BackfillStart, TypeOK, Scan
  <1>3. TypeOK' /\ HeadsInv' /\ ReadsInv' /\ OwnersInv' /\ SnapshotInv' /\ Projection'
    BY <1>1, <1>2 DEF TypeOK, HeadsInv, ReadsInv, CounterIsAsRead, OwnersInv, SnapshotInv,
                      Projection, Indexed
  <1>4. ScanInv'
    BY <1>1 DEF ScanInv, Missing, Indexed
  <1> QED
    BY <1>3, <1>4

LEMMA BackfillVisitStep ==
    ASSUME IndexInv, NEW s \in Secrets, BackfillVisit(s)
    PROVE  IndexInv'
  <1> USE DEF IndexInv
  <1>1. StoresKept /\ backfill' = [backfill EXCEPT !.visited = @ \cup {s}]
        /\ backfill.phase = "scan" /\ pub[Backfill].phase = "idle"
    BY DEF BackfillVisit, StoresKept
  <1>2. /\ backfill' \in Scan /\ backfill'.phase = "scan"
        /\ backfill'.visited = backfill.visited \cup {s}
    BY <1>1 DEF TypeOK, Scan
  <1>3. /\ pub' \in [Publishers -> Publication] /\ Backfill \in Publishers
        /\ \A w \in Writers : pub'[w] = pub[w]
        /\ pub'[Backfill].version = pub[Backfill].version
        /\ IF head[s].status = "READY"
           THEN pub'[Backfill].phase = "candidate" /\ pub'[Backfill].secret = s
           ELSE pub'[Backfill] = pub[Backfill]
    BY DistinctPublishers, ZenonT(60) DEF BackfillVisit, TypeOK, Publication, Publishers
  <1>4. TypeOK'
    BY <1>1, <1>2, <1>3 DEF StoresKept, TypeOK, Publishers
  <1>5. HeadsInv' /\ Projection'
    BY <1>1 DEF StoresKept, HeadsInv, Projection, Indexed
  <1>6. ReadsInv'
    BY <1>1, <1>3 DEF StoresKept, ReadsInv, CounterIsAsRead, Publishers
  <1>7. OwnersInv'
    BY <1>1, <1>3 DEF StoresKept, OwnersInv
  <1>8. SnapshotInv'
    BY <1>1, <1>3 DEF StoresKept, SnapshotInv, Active
  <1>9. ScanInv'
    BY <1>1, <1>2, <1>3 DEF StoresKept, ScanInv, Missing, Indexed
  <1> QED
    BY <1>4, <1>5, <1>6, <1>7, <1>8, <1>9

LEMMA BackfillReadHeadStep ==
    ASSUME IndexInv, BackfillReadHead
    PROVE  IndexInv'
  <1> USE DEF IndexInv
  <1> DEFINE s == pub[Backfill].secret
  <1>1. /\ StoresKept /\ backfill' = backfill /\ s \in Secrets
        /\ pub[Backfill].phase = "candidate" /\ head[s].status = "READY"
    BY DEF BackfillReadHead, StoresKept, SnapshotInv
  <1>2. head[s].version \in Versions /\ head[s].archived \in BOOLEAN
    BY <1>1 DEF HeadsInv, TypeOK, HeadRecord
  <1>3. /\ pub' \in [Publishers -> Publication] /\ Backfill \in Publishers
        /\ \A w \in Writers : pub'[w] = pub[w]
        /\ pub'[Backfill].phase = "begun" /\ pub'[Backfill].secret = s
        /\ pub'[Backfill].version = head[s].version
        /\ pub'[Backfill].archived = head[s].archived
    BY <1>2, DistinctPublishers, ZenonT(60) DEF BackfillReadHead, TypeOK, Publication, Publishers
  <1>4. TypeOK'
    BY <1>1, <1>2, <1>3 DEF StoresKept, TypeOK, Publishers
  <1>5. HeadsInv' /\ Projection'
    BY <1>1 DEF StoresKept, HeadsInv, Projection, Indexed
  <1>6. ReadsInv'
    BY <1>1, <1>3 DEF StoresKept, ReadsInv, CounterIsAsRead, Publishers
  <1>7. OwnersInv'
    BY <1>1, <1>3 DEF StoresKept, OwnersInv
  <1>8. SnapshotInv'
    BY <1>1, <1>3 DEF StoresKept, SnapshotInv, Active
  <1>9. ScanInv'
    BY <1>1, <1>3 DEF StoresKept, ScanInv, Missing, Indexed
  <1> QED
    BY <1>4, <1>5, <1>6, <1>7, <1>8, <1>9

LEMMA BackfillRaceStep ==
    ASSUME IndexInv, BackfillRace
    PROVE  IndexInv'
  <1> USE DEF IndexInv
  <1> DEFINE s == pub[Backfill].secret
  <1>1. /\ StoresKept /\ backfill' = backfill /\ pub[Backfill].phase = "armed"
        /\ s \in Secrets /\ head[s].status = "READY"
    BY DEF BackfillRace, StoresKept, SnapshotInv, Active
  <1>2. /\ pub' \in [Publishers -> Publication] /\ Backfill \in Publishers
        /\ \A w \in Writers : pub'[w] = pub[w]
        /\ pub'[Backfill].phase = "candidate" /\ pub'[Backfill].secret = s
        /\ pub'[Backfill].version = None
    BY <1>1, DistinctPublishers
       DEF BackfillRace, NoPublication, Unread, TypeOK, Publication, Publishers
  <1>3. TypeOK'
    BY <1>1, <1>2 DEF StoresKept, TypeOK, Publishers
  <1>4. HeadsInv' /\ Projection'
    BY <1>1 DEF StoresKept, HeadsInv, Projection, Indexed
  <1>5. ReadsInv'
    BY <1>1, <1>2 DEF StoresKept, ReadsInv, CounterIsAsRead, Publishers
  <1>6. OwnersInv'
    BY <1>1, <1>2, DistinctPublishers DEF StoresKept, OwnersInv
  <1>7. SnapshotInv'
    BY <1>1, <1>2 DEF StoresKept, SnapshotInv, Active
  <1>8. ScanInv'
    BY <1>1, <1>2 DEF StoresKept, ScanInv, Missing, Indexed
  <1> QED
    BY <1>3, <1>4, <1>5, <1>6, <1>7, <1>8

\* The end of a scan makes an environment ready only when nothing is missing.
LEMMA BackfillReadyStep ==
    ASSUME IndexInv, BackfillScanned \/ BackfillPut \/ BackfillUpdate
    PROVE  IndexInv'
  <1> USE DEF IndexInv
  <1>1. head' = head /\ index' = index /\ pub' = pub
    BY DEF BackfillScanned, BackfillPut, BackfillUpdate
  <1>2. /\ counter' \in Counter /\ counter'.sequence = counter.sequence
        /\ counter.exists = TRUE => counter'.exists = TRUE
        /\ backfill'.phase = "update" => counter'.exists = TRUE
    <2>1. CASE BackfillScanned
      BY <2>1, CounterFields DEF BackfillScanned, TypeOK, Scan
    <2>2. CASE BackfillPut
      <3>1. CASE counter.exists
        BY <2>2, <3>1, CounterFields DEF BackfillPut, TypeOK, Scan
      <3>2. CASE ~counter.exists
        <4>1. counter.sequence = 0 /\ counter.exists # TRUE
          BY <3>2, CounterFields DEF TypeOK
        <4>2. /\ counter' = [exists |-> TRUE, sequence |-> 0, ready |-> TRUE]
              /\ backfill'.phase = "off"
          BY <2>2, <3>2 DEF BackfillPut, TypeOK, Scan
        <4> QED
          BY <4>1, <4>2 DEF Counter
      <3> QED
        BY <3>1, <3>2
    <2>3. CASE BackfillUpdate
      <3>1. counter \in [exists : {TRUE}, sequence : Nat, ready : BOOLEAN]
        BY <2>3, CounterFields DEF BackfillUpdate, ScanInv, TypeOK
      <3> QED
        BY <2>3, <3>1 DEF BackfillUpdate, TypeOK, Scan, Counter
    <2> QED
      BY <2>1, <2>2, <2>3
  <1>3. backfill' \in Scan
    BY DEF BackfillScanned, BackfillPut, BackfillUpdate, TypeOK, Scan
  <1>4. /\ pub[Backfill].phase = "idle"
        /\ backfill'.phase \in {"off", "put", "update"}
        /\ \A s \in Secrets : ~Missing(s)
    BY DEF BackfillScanned, BackfillPut, BackfillUpdate, ScanInv, TypeOK, Scan
  <1>5. TypeOK' /\ HeadsInv' /\ OwnersInv' /\ SnapshotInv' /\ Projection'
    BY <1>1, <1>2, <1>3 DEF TypeOK, HeadsInv, OwnersInv, SnapshotInv, Projection, Indexed
  <1>6. ReadsInv'
    <2> SUFFICES ASSUME NEW p \in Publishers, pub[p].phase \in {"counted", "armed"}
                 PROVE  /\ pub[p].read.sequence <= counter'.sequence
                        /\ pub[p].read.exists = TRUE => counter'.exists = TRUE
                        /\ CounterIsAsRead(p)' => CounterIsAsRead(p)
      BY <1>1 DEF ReadsInv
    <2>1. pub[p].read.exists \in BOOLEAN
      BY DEF TypeOK, Publication
    <2>2. counter.exists \in BOOLEAN /\ counter'.exists \in BOOLEAN
      BY <1>2, CounterFields DEF TypeOK, Counter, NoCounter
    <2> QED
      BY <1>1, <1>2, <2>1, <2>2 DEF ReadsInv, CounterIsAsRead
  <1>7. ScanInv'
    BY <1>1, <1>2, <1>4 DEF ScanInv, Missing, Indexed
  <1> QED
    BY <1>5, <1>6, <1>7

LEMMA BackfillStopStep ==
    ASSUME IndexInv, BackfillStop
    PROVE  IndexInv'
  <1> USE DEF IndexInv
  <1>1. /\ StoresKept /\ backfill' = [backfill EXCEPT !.phase = "off"]
        /\ backfill' \in Scan /\ backfill'.phase = "off"
    BY DEF BackfillStop, StoresKept, TypeOK, Scan
  <1>2. NoPublication \in Publication /\ NoPublication.phase = "idle"
        /\ NoPublication.version = None
    BY DEF NoPublication, Publication, Unread
  <1>3. /\ pub' \in [Publishers -> Publication] /\ Backfill \in Publishers
        /\ \A w \in Writers : pub'[w] = pub[w]
        /\ pub'[Backfill] = NoPublication
    BY <1>2, DistinctPublishers DEF BackfillStop, TypeOK, Publishers
  <1>4. TypeOK'
    BY <1>1, <1>2, <1>3 DEF StoresKept, TypeOK, Publishers
  <1>5. HeadsInv' /\ Projection'
    BY <1>1 DEF StoresKept, HeadsInv, Projection, Indexed
  <1>6. ReadsInv'
    BY <1>1, <1>2, <1>3 DEF StoresKept, ReadsInv, CounterIsAsRead, Publishers
  <1>7. OwnersInv'
    BY <1>1, <1>2, <1>3, DistinctPublishers DEF StoresKept, OwnersInv
  <1>8. SnapshotInv' /\ ScanInv'
    BY <1>1, <1>2, <1>3 DEF StoresKept, SnapshotInv, Active, ScanInv, Missing, Indexed
  <1> QED
    BY <1>4, <1>5, <1>6, <1>7, <1>8

-----------------------------------------------------------------------------
(* The theorems *)

LEMMA IndexStep == IndexInv /\ [Next]_vars => IndexInv'
  <1> SUFFICES ASSUME IndexInv, [Next]_vars PROVE IndexInv'
    OBVIOUS
  <1>1. ASSUME NEW w \in Writers, Mutate(w) PROVE IndexInv'
    BY <1>1, TakeLeaseStep, ReadCounterStep, ReadPreviousStep, PublishStep, ContendStep
       DEF Mutate, Publishers
  <1>2. ASSUME NEW s \in Secrets, GiveUpLease(s) PROVE IndexInv'
    BY <1>2, GiveUpLeaseStep
  <1>3. ASSUME NEW e \in index, ExpireEntry(e) PROVE IndexInv'
    BY <1>3, ExpireEntryStep
  <1>4. CASE BackfillStep
    <2>1. Backfill \in Publishers
      BY DEF Publishers
    <2> QED
      BY <1>4, <2>1, BackfillStartStep, BackfillVisitStep, BackfillReadHeadStep,
         ReadCounterStep, ReadPreviousStep, PublishStep, ContendStep, BackfillRaceStep,
         BackfillReadyStep
         DEF BackfillStep
  <1>5. CASE BackfillStop
    BY <1>5, BackfillStopStep
  <1>6. CASE UNCHANGED vars
    BY <1>6 DEF vars, IndexInv, TypeOK, HeadsInv, ReadsInv, CounterIsAsRead, OwnersInv,
                SnapshotInv, ScanInv, Missing, Projection, Indexed
  <1> QED
    BY <1>1, <1>2, <1>3, <1>4, <1>5, <1>6 DEF Next

LEMMA IndexIsInductive == Spec => []IndexInv
  <1> QED
    BY IndexInit, IndexStep, PTL DEF Spec

\* Every record of the index, its publications and the backfill has its type, and a
\* publication on its way knows its secret and its revision.
THEOREM SyncTypeCorrectness == Spec => []TypeOK
  <1>1. IndexInv => TypeOK
    BY DEF IndexInv
  <1> QED
    BY <1>1, IndexIsInductive, PTL

\* The index is a projection of the heads, however many mutations and backfills read
\* counter, head and entry before their transactions (publish, agent-sync.ts).
THEOREM IndexIsAProjection == Spec => []IndexMatchesHeads
  <1>1. ASSUME IndexInv PROVE IndexMatchesHeads
    <2> SUFFICES ASSUME NEW s \in Secrets
                 PROVE  LET h == head[s]
                            entries == {e \in index : e.secret = s}
                            expected == [sequence |-> h.syncSequence, secret |-> s,
                                         version |-> h.version, archived |-> h.archived] IN
                        \/ entries = {expected}
                        \/ entries = {} /\ (h.syncSequence = 0 \/ h.archived)
      BY DEF IndexMatchesHeads
    <2> DEFINE expected == [sequence |-> head[s].syncSequence, secret |-> s,
                            version |-> head[s].version, archived |-> head[s].archived]
    <2>1. \A e \in index : e.secret = s => e = expected
      BY <1>1 DEF IndexInv, TypeOK, Entry, Projection
    <2>2. Indexed(s) \/ head[s].syncSequence = 0 \/ head[s].archived
      BY <1>1 DEF IndexInv, Projection
    <2> QED
      BY <2>1, <2>2 DEF Indexed
  <1> QED
    BY <1>1, IndexIsInductive, PTL

\* No live secret is missing once agents may synchronise, whatever the backfill was
\* interrupted by and ran beside (scripts/backfill-agent-sync.ts).
THEOREM ReadyIndexesAreComplete == Spec => []ReadyIndexIsComplete
  <1>1. IndexInv => ReadyIndexIsComplete
    BY DEF IndexInv, ScanInv, Missing, Indexed, ReadyIndexIsComplete
  <1> QED
    BY <1>1, IndexIsInductive, PTL

-----------------------------------------------------------------------------
(* The abstract index: what its variables are here, and how each step moves them. *)

CurrentOf == [s \in Secrets |-> IF head[s].status = "READY" THEN head[s].version ELSE None]
ArchivedOf == {s \in Secrets : head[s].archived}
PositionOf ==
    [s \in Secrets |->
        IF \E e \in index : e.secret = s
        THEN (CHOOSE e \in index : e.secret = s).sequence ELSE 0]

LEMMA PositionIsSequence ==
    ASSUME IndexInv
    PROVE  PositionOf = [s \in Secrets |-> IF Indexed(s) THEN head[s].syncSequence ELSE 0]
  <1> SUFFICES ASSUME NEW s \in Secrets, Indexed(s)
               PROVE  (CHOOSE e \in index : e.secret = s).sequence = head[s].syncSequence
    BY DEF PositionOf, Indexed
  <1> DEFINE chosen == CHOOSE e \in index : e.secret = s
  <1>1. chosen \in index /\ chosen.secret = s
    BY DEF Indexed
  <1> QED
    BY <1>1 DEF IndexInv, Projection

LEMMA PositionIsSequenceNext ==
    ASSUME IndexInv'
    PROVE  PositionOf' = [s \in Secrets |-> IF Indexed(s)' THEN head'[s].syncSequence ELSE 0]
  <1> SUFFICES ASSUME NEW s \in Secrets, Indexed(s)'
               PROVE  (CHOOSE e \in index' : e.secret = s).sequence = head'[s].syncSequence
    BY DEF PositionOf, Indexed
  <1> DEFINE chosen == CHOOSE e \in index' : e.secret = s
  <1>1. chosen \in index' /\ chosen.secret = s
    BY DEF Indexed
  <1> QED
    BY <1>1 DEF IndexInv, Projection

LEMMA PublishRefines ==
    ASSUME IndexInv, IndexInv', NEW p \in Publishers, Publish(p)
    PROVE  Index!Next
  <1>0. PICK s \in Secrets : s = pub[p].secret
    BY PublishEffect
  <1> DEFINE next == counter.sequence + 1
             new == [sequence |-> next, secret |-> s, version |-> pub[p].version,
                     archived |-> pub[p].archived]
  <1>1. /\ pub[p].version \in Versions
        /\ counter' = [exists |-> TRUE, sequence |-> next, ready |-> counter.ready]
        /\ \A x \in Secrets \ {s} : head'[x] = head[x]
        /\ head'[s].status = "READY" /\ head'[s].version = pub[p].version
        /\ head'[s].archived = pub[p].archived /\ head'[s].syncSequence = next
        /\ new \in Entry /\ index' = {e \in index : e.secret # s} \cup {new}
    BY <1>0, PublishEffect
  <1>2. counter'.sequence = next /\ counter'.ready = counter.ready
    BY <1>1
  <1>3. PositionOf' = [PositionOf EXCEPT ![s] = next]
    <2>1. PositionOf' = [x \in Secrets |-> IF Indexed(x)' THEN head'[x].syncSequence ELSE 0]
      BY PositionIsSequenceNext
    <2>2. Indexed(s)'
      BY <1>1 DEF Indexed
    <2>3. ASSUME NEW x \in Secrets \ {s} PROVE Indexed(x)' <=> Indexed(x)
      BY <1>1 DEF Indexed
    <2> QED
      BY <1>1, <2>1, <2>2, <2>3, PositionIsSequence
  <1>4. Index!Count(s)
    BY <1>2, <1>3 DEF Index!Count, PositionOf
  <1>5. CASE p = Backfill
    <2>1. /\ head[s].status = "READY" /\ head[s].version = pub[p].version
          /\ head'[s].archived = head[s].archived
      BY <1>0, <1>1, <1>5 DEF Publish, HeadIsAsExpected, IndexInv, SnapshotInv, Active
    <2>2. CurrentOf' = CurrentOf /\ ArchivedOf' = ArchivedOf
      BY <1>1, <2>1 DEF CurrentOf, ArchivedOf
    <2>3. CurrentOf[s] # None
      BY <1>1, <2>1, DistinctPublishers DEF CurrentOf, Versions
    <2>4. Index!Index(s)
      BY <1>2, <1>4, <2>2, <2>3 DEF Index!Index, CurrentOf, ArchivedOf
    <2> QED
      BY <2>4 DEF Index!Next
  <1>6. CASE p # Backfill
    <2>1. p \in Writers /\ pub[p].version = p /\ head[s].version # p
      BY <1>6 DEF Publish, Publishers, IndexInv, OwnersInv, Active
    <2>2. CurrentOf' = [CurrentOf EXCEPT ![s] = p] /\ p # CurrentOf[s]
      BY <1>1, <2>1, DistinctPublishers DEF CurrentOf
    <2>3. ArchivedOf' \in {ArchivedOf \cup {s}, ArchivedOf \ {s}}
      BY <1>1 DEF ArchivedOf
    <2>4. Index!Publish(s, p)
      BY <1>2, <1>4, <2>2, <2>3 DEF Index!Publish, CurrentOf, ArchivedOf
    <2> QED
      BY <2>1, <2>4 DEF Index!Next, Versions
  <1> QED
    BY <1>5, <1>6

LEMMA ExpireRefines ==
    ASSUME IndexInv, IndexInv', NEW e \in index, ExpireEntry(e)
    PROVE  Index!Next
  <1>0. PICK s \in Secrets : s = e.secret
    BY DEF IndexInv, TypeOK, Entry
  <1>1. /\ head[s].archived /\ head[s].syncSequence # 0
        /\ index' = index \ {e} /\ counter' = counter /\ head' = head
    BY <1>0 DEF ExpireEntry, IndexInv, Projection, TypeOK, Entry
  <1>2. \A f \in index : f.secret = s => f = e
    BY <1>0 DEF IndexInv, Projection, TypeOK, Entry
  <1>3. PositionOf' = [PositionOf EXCEPT ![s] = 0] /\ PositionOf[s] # 0
    <2>1. PositionOf' = [x \in Secrets |-> IF Indexed(x)' THEN head'[x].syncSequence ELSE 0]
      BY PositionIsSequenceNext
    <2>2. ~Indexed(s)' /\ Indexed(s)
      BY <1>0, <1>1, <1>2 DEF Indexed
    <2>3. ASSUME NEW x \in Secrets \ {s} PROVE Indexed(x)' <=> Indexed(x)
      BY <1>0, <1>1 DEF Indexed
    <2> QED
      BY <1>1, <2>1, <2>2, <2>3, PositionIsSequence
  <1>4. Index!Forget(s)
    BY <1>1, <1>3 DEF Index!Forget, PositionOf
  <1> QED
    BY <1>4 DEF Index!Next

\* Nothing but a publication and an expiry moves what the heads and the index promise.
LEMMA KeptRefines ==
    ASSUME IndexInv, HeadsKept
    PROVE  UNCHANGED <<CurrentOf, ArchivedOf, PositionOf>>
  <1>1. CurrentOf' = CurrentOf /\ ArchivedOf' = ArchivedOf
    BY DEF HeadsKept, CurrentOf, ArchivedOf
  <1>2. PositionOf' = PositionOf
    BY DEF HeadsKept, PositionOf
  <1> QED
    BY <1>1, <1>2

MappedKept ==
    /\ CurrentOf' = CurrentOf /\ ArchivedOf' = ArchivedOf /\ PositionOf' = PositionOf
    /\ counter'.sequence = counter.sequence /\ counter'.ready = counter.ready

LEMMA MappedKeptStutters ==
    ASSUME MappedKept
    PROVE  UNCHANGED Index!vars
  BY DEF MappedKept, Index!vars, CurrentOf, ArchivedOf, PositionOf

LEMMA NothingMissingIsComplete ==
    ASSUME IndexInv, \A s \in Secrets : ~Missing(s)
    PROVE  Index!Complete
  <1> SUFFICES ASSUME NEW s \in Secrets, CurrentOf[s] # None, s \notin ArchivedOf
               PROVE  PositionOf[s] # 0
    BY DEF Index!Complete, Index!Live, CurrentOf, ArchivedOf, PositionOf
  <1>1. head[s].status = "READY" /\ ~head[s].archived
    BY DEF CurrentOf, ArchivedOf
  <1>2. PICK e \in index : e.secret = s
    BY <1>1 DEF Missing, Indexed
  <1>3. e.sequence # 0 /\ e.sequence = head[s].syncSequence
    BY <1>2 DEF IndexInv, Projection, TypeOK, Entry
  <1> QED
    BY <1>2, <1>3, PositionIsSequence DEF Indexed

LEMMA ReadyRefines ==
    ASSUME IndexInv, BackfillPut \/ BackfillUpdate
    PROVE  Index!Next \/ UNCHANGED Index!vars
  <1>1. head' = head /\ index' = index
    BY DEF BackfillPut, BackfillUpdate
  <1>2. CurrentOf' = CurrentOf /\ ArchivedOf' = ArchivedOf /\ PositionOf' = PositionOf
    BY <1>1 DEF CurrentOf, ArchivedOf, PositionOf
  <1>3. CASE counter' = counter
    BY <1>2, <1>3, MappedKeptStutters DEF MappedKept
  <1>4. CASE counter' # counter
    <2>1. counter'.sequence = counter.sequence /\ counter'.ready = TRUE
      <3>1. CASE BackfillPut
        BY <1>4, <3>1, CounterFields DEF BackfillPut, IndexInv, TypeOK
      <3>2. CASE BackfillUpdate
        BY <3>2, CounterFields DEF BackfillUpdate, IndexInv, ScanInv, TypeOK
      <3> QED
        BY <3>1, <3>2
    <2>2. Index!Complete
      BY NothingMissingIsComplete DEF BackfillPut, BackfillUpdate, IndexInv, ScanInv
    <2>3. Index!MarkReady
      BY <1>2, <2>1, <2>2 DEF Index!MarkReady, CurrentOf, ArchivedOf, PositionOf
    <2> QED
      BY <2>3 DEF Index!Next
  <1> QED
    BY <1>3, <1>4

LEMMA StepRefines ==
    ASSUME IndexInv, IndexInv', [Next]_vars
    PROVE  Index!Next \/ UNCHANGED Index!vars
  <1>1. ASSUME HeadsKept PROVE UNCHANGED Index!vars
    BY <1>1, KeptRefines, MappedKeptStutters DEF HeadsKept, MappedKept
  <1>2. ASSUME head' = head, index' = index, counter' = counter
        PROVE  UNCHANGED Index!vars
    <2>1. CurrentOf' = CurrentOf /\ ArchivedOf' = ArchivedOf /\ PositionOf' = PositionOf
      BY <1>2 DEF CurrentOf, ArchivedOf, PositionOf
    <2> QED
      BY <1>2, <2>1, MappedKeptStutters DEF MappedKept
  <1>3. ASSUME NEW p \in Publishers, ReadCounter(p) \/ ReadPrevious(p) \/ Contend(p)
        PROVE  UNCHANGED Index!vars
    BY <1>2, <1>3 DEF ReadCounter, ReadPrevious, Contend
  <1>4. ASSUME NEW w \in Writers, NEW s \in Secrets, NEW archived \in BOOLEAN,
               TakeLease(w, s, archived)
        PROVE  UNCHANGED Index!vars
    <2>1. HeadsKept
      BY <1>4, TakeLeaseStep
    <2> QED
      BY <1>1, <2>1
  <1>5. ASSUME NEW s \in Secrets, GiveUpLease(s) PROVE UNCHANGED Index!vars
    <2>1. HeadsKept
      BY <1>5, GiveUpLeaseStep
    <2> QED
      BY <1>1, <2>1
  <1>6. ASSUME NEW w \in Writers, Mutate(w) PROVE Index!Next \/ UNCHANGED Index!vars
    BY <1>3, <1>4, <1>6, PublishRefines DEF Mutate, Publishers
  <1>7. CASE BackfillStep
    <2>1. Backfill \in Publishers
      BY DEF Publishers
    <2>2. ASSUME \/ BackfillStart \/ BackfillReadHead \/ BackfillRace \/ BackfillScanned
                 \/ \E s \in Secrets : BackfillVisit(s)
          PROVE  UNCHANGED Index!vars
      BY <1>2, <2>2 DEF BackfillStart, BackfillReadHead, BackfillRace, BackfillScanned,
                        BackfillVisit
    <2> QED
      BY <1>3, <1>7, <2>1, <2>2, PublishRefines, ReadyRefines DEF BackfillStep
  <1>8. CASE BackfillStop \/ UNCHANGED vars
    BY <1>2, <1>8 DEF BackfillStop, vars
  <1> QED
    BY <1>5, <1>6, <1>7, <1>8, ExpireRefines DEF Next

LEMMA InitRefines == Init => Index!Init
  <1> SUFFICES ASSUME Init PROVE Index!Init
    OBVIOUS
  <1>1. IndexInv
    BY IndexInit
  <1>2. CurrentOf \in [Secrets -> Versions \cup {None}]
    BY <1>1 DEF CurrentOf, IndexInv, HeadsInv
  <1>3. ArchivedOf \subseteq {s \in Secrets : CurrentOf[s] # None}
    BY <1>1, DistinctPublishers DEF ArchivedOf, CurrentOf, IndexInv, HeadsInv, Versions
  <1>4. PositionOf = [s \in Secrets |-> 0]
    BY DEF Init, PositionOf
  <1>5. counter.sequence = 0 /\ counter.ready \in BOOLEAN
    <2>1. NoCounter.sequence = 0 /\ NoCounter.ready = FALSE
      BY DEF NoCounter
    <2>2. CASE counter = NoCounter
      BY <2>1, <2>2
    <2>3. CASE counter = [exists |-> TRUE, sequence |-> 0, ready |-> TRUE]
      BY <2>3
    <2> QED
      BY <2>2, <2>3 DEF Init
  <1>6. counter.ready => Index!Complete
    BY <1>1, NothingMissingIsComplete DEF IndexInv, ScanInv
  <1> QED
    BY <1>2, <1>3, <1>4, <1>5, <1>6 DEF Index!Init, CurrentOf, ArchivedOf, PositionOf

\* A publication, although it reads counter, head and entry one after another, is one step
\* in which a revision becomes current, is counted and is indexed; the backfill only
\* indexes what is current, and nothing else is seen by those who read the index.
THEOREM PublicationsImplementTheIndex == Spec => ImplementsIndex
  <1>1. IndexInv /\ IndexInv' /\ [Next]_vars => [Index!Next]_(Index!vars)
    BY StepRefines
  <1> QED
    BY <1>1, InitRefines, IndexIsInductive, PTL DEF Spec, ImplementsIndex, Index!Spec
=============================================================================
