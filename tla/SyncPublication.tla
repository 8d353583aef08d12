--------------------------- MODULE SyncPublication --------------------------
(***************************************************************************)
(* How the agent sync index of one environment is kept: the publication    *)
(* that every commit of a secret carries (AgentSyncRepository.publish in   *)
(* src/repositories/agent-sync.ts, called by completeMutation), and the    *)
(* operator's backfill of heads from before the index                      *)
(* (src/scripts/backfill-agent-sync.ts).                                   *)
(*                                                                         *)
(* A publication reads the counter, then the head's last sequence, and     *)
(* then writes counter, head, new entry and the deletion of the old entry  *)
(* in one transaction.  Mutations appear from the moment they hold a lease.*)
(***************************************************************************)
EXTENDS Naturals, FiniteSets

CONSTANTS
    Secrets,        \* secret UIDs of one environment
    Writers,        \* mutations, and the control revisions they make
    Backfill,       \* the backfill, a publisher like them
    Legacy,         \* the revision of a head from before the index
    None,           \* no secret, revision or lease
    BackfillRuns    \* bound on how often the operator starts the backfill

ASSUME DistinctPublishers ==
    /\ Backfill \notin Writers /\ Legacy \notin Writers /\ None \notin Writers
    /\ None # Legacy /\ None \notin Secrets
ASSUME RunsAreCounted == BackfillRuns \in Nat

VARIABLES
    counter,    \* AGENT_SYNC#environment / STATE
    head,       \* SECRET#uid / HEAD
    index,      \* AGENT_SYNC#environment / CHANGE#sequence#uid
    pub,        \* publications under way
    backfill    \* the scan of the backfill

vars == <<counter, head, index, pub, backfill>>

-----------------------------------------------------------------------------
(* Types *)

Publishers == Writers \cup {Backfill}
Versions == Writers \cup {Legacy}

NoCounter == [exists |-> FALSE, sequence |-> 0, ready |-> FALSE]
Counter == {NoCounter} \cup [exists : {TRUE}, sequence : Nat, ready : BOOLEAN]

NoHead ==
    [status |-> "ABSENT", version |-> None, archived |-> FALSE,
     syncSequence |-> 0, lease |-> None]
HeadRecord ==
    [status : {"ABSENT", "PREPARED", "READY"}, version : Versions \cup {None},
     archived : BOOLEAN, syncSequence : Nat, lease : Writers \cup {None}]

Entry == [sequence : Nat \ {0}, secret : Secrets, version : Versions, archived : BOOLEAN]

Unread == [exists |-> FALSE, sequence |-> 0]
NoPublication ==
    [phase |-> "idle", secret |-> None, version |-> None, archived |-> FALSE,
     read |-> Unread, previous |-> 0]
Publication ==
    [phase : {"idle", "candidate", "begun", "counted", "armed", "ended"},
     secret : Secrets \cup {None}, version : Versions \cup {None}, archived : BOOLEAN,
     read : [exists : BOOLEAN, sequence : Nat], previous : Nat]

Scan ==
    [phase : {"off", "scan", "put", "update"}, visited : SUBSET Secrets,
     runs : 0 .. BackfillRuns]

\* Types, and a publication on its way knows its secret and its revision.
TypeOK ==
    /\ counter \in Counter
    /\ head \in [Secrets -> HeadRecord]
    /\ index \subseteq Entry
    /\ pub \in [Publishers -> Publication]
    /\ \A p \in Publishers : pub[p].phase \in {"begun", "counted", "armed"} =>
          pub[p].secret \in Secrets /\ pub[p].version \in Versions
    /\ backfill \in Scan

\* An environment of an earlier release, with heads and no counter, or a new one:
\* createEnvironment puts a ready counter with it.
Init ==
    /\ \/ /\ counter = NoCounter
          /\ head \in [Secrets -> {NoHead} \cup
                [status : {"READY"}, version : {Legacy}, archived : BOOLEAN,
                 syncSequence : {0}, lease : {None}]]
       \/ /\ counter = [exists |-> TRUE, sequence |-> 0, ready |-> TRUE]
          /\ head = [s \in Secrets |-> NoHead]
    /\ index = {}
    /\ pub = [p \in Publishers |-> NoPublication]
    /\ backfill = [phase |-> "off", visited |-> {}, runs |-> 0]

-----------------------------------------------------------------------------
(* Mutations come to their final transaction with a lease on the head *)

\* prepareMutation: a new head, or the lease of a committed one, which may have
\* been another mutation's until it expired.  A create that recovery gave up and
\* that is seen again is another secret.
TakeLease(w, s, archived) ==
    /\ pub[w].phase = "idle"
    /\ \/ /\ head[s] = NoHead
          /\ ~archived
          /\ head' = [head EXCEPT ![s].status = "PREPARED", ![s].lease = w]
       \/ /\ head[s].status = "READY"
          /\ head' = [head EXCEPT ![s].lease = w]
    /\ pub' = [pub EXCEPT ![w] =
          [NoPublication EXCEPT !.phase = "begun", !.secret = s, !.version = w,
                                !.archived = archived]]
    /\ UNCHANGED <<counter, index, backfill>>

\* Recovery gives up an expired mutation: releaseLease or abortPreparedCreate.
GiveUpLease(s) ==
    /\ head[s].lease # None
    /\ head' = [head EXCEPT ![s] =
          IF @.status = "PREPARED" THEN NoHead ELSE [@ EXCEPT !.lease = None]]
    /\ UNCHANGED <<counter, index, pub, backfill>>

-----------------------------------------------------------------------------
(* publish *)

\* The counter first: a head published after this read changes it.
ReadCounter(p) ==
    /\ pub[p].phase = "begun"
    /\ pub' = [pub EXCEPT ![p].phase = "counted",
          ![p].read = [exists |-> counter.exists, sequence |-> counter.sequence]]
    /\ UNCHANGED <<counter, head, index, backfill>>

\* Then the sequence under which the secret stands in the index.
ReadPrevious(p) ==
    /\ pub[p].phase = "counted"
    /\ pub' = [pub EXCEPT ![p].phase = "armed",
                          ![p].previous = head[pub[p].secret].syncSequence]
    /\ UNCHANGED <<counter, head, index, backfill>>

\* Mutant: the counter is advanced without comparing it.
CounterExistsAsRead(p) == counter.exists = pub[p].read.exists

\* The condition on the counter: not there, or at the sequence that was read.
CounterIsAsRead(p) ==
    /\ counter.exists = pub[p].read.exists
    /\ counter.sequence = pub[p].read.sequence

\* Mutant: the backfill does not compare the revision.
OwnsTheLeaseOrFindsAHead(p) ==
    LET h == head[pub[p].secret] IN
    IF p = Backfill THEN h.status = "READY" ELSE h.lease = p

\* The condition on the head: a mutation owns the lease, the backfill finds the
\* revision it read.
HeadIsAsExpected(p) ==
    LET h == head[pub[p].secret] IN
    IF p = Backfill THEN h.version = pub[p].version /\ h.status = "READY"
    ELSE h.lease = p

\* What the publication makes of the head.
PublishedHead(p, sequence) ==
    LET h == head[pub[p].secret] IN
    IF p = Backfill THEN [h EXCEPT !.syncSequence = sequence]
    ELSE [status |-> "READY", version |-> p, archived |-> pub[p].archived,
          syncSequence |-> sequence, lease |-> None]

\* The entry is put under the new sequence and the one that was read is deleted.
ReplaceEntry(p, sequence) ==
    {e \in index : ~(e.secret = pub[p].secret /\ e.sequence = pub[p].previous)}
    \cup {[sequence |-> sequence, secret |-> pub[p].secret,
           version |-> pub[p].version, archived |-> pub[p].archived]}

\* The transaction.  A counter that is not there yet is put, and not ready.
Publish(p) ==
    LET sequence == pub[p].read.sequence + 1 IN
    /\ pub[p].phase = "armed"
    /\ CounterIsAsRead(p)
    /\ HeadIsAsExpected(p)
    /\ counter' = [exists |-> TRUE, sequence |-> sequence, ready |-> counter.ready]
    /\ head' = [head EXCEPT ![pub[p].secret] = PublishedHead(p, sequence)]
    /\ index' = ReplaceEntry(p, sequence)
    /\ pub' = [pub EXCEPT ![p] =
          [NoPublication EXCEPT !.phase = IF p = Backfill THEN "idle" ELSE "ended"]]
    /\ UNCHANGED backfill

\* Only a failed condition on the counter leads to another attempt.  A mutation
\* that gives up after eight, loses its lease or dies takes no further step.
Contend(p) ==
    /\ pub[p].phase = "armed"
    /\ ~CounterIsAsRead(p)
    /\ HeadIsAsExpected(p)
    /\ pub' = [pub EXCEPT ![p] =
          [@ EXCEPT !.phase = "begun", !.read = Unread, !.previous = 0]]
    /\ UNCHANGED <<counter, head, index, backfill>>

\* The table's TTL removes the entry of an archived secret, days later.
ExpireEntry(e) ==
    /\ e \in index /\ e.archived
    /\ index' = index \ {e}
    /\ UNCHANGED <<counter, head, pub, backfill>>

-----------------------------------------------------------------------------
(* The backfill *)

BackfillStart ==
    /\ backfill.phase = "off" /\ backfill.runs < BackfillRuns
    /\ backfill' = [phase |-> "scan", visited |-> {}, runs |-> backfill.runs + 1]
    /\ UNCHANGED <<counter, head, index, pub>>

\* Mutant: the scan keeps heads that are not committed too.
BackfillVisitAny(s) ==
    /\ backfill.phase = "scan" /\ s \notin backfill.visited
    /\ pub[Backfill].phase = "idle"
    /\ backfill' = [backfill EXCEPT !.visited = @ \cup {s}]
    /\ pub' = [pub EXCEPT ![Backfill].phase = "candidate", ![Backfill].secret = s]
    /\ UNCHANGED <<counter, head, index>>

\* The scan comes to every item once, and keeps committed heads.
BackfillVisit(s) ==
    /\ backfill.phase = "scan" /\ s \notin backfill.visited
    /\ pub[Backfill].phase = "idle"
    /\ backfill' = [backfill EXCEPT !.visited = @ \cup {s}]
    /\ pub' = IF head[s].status = "READY"
              THEN [pub EXCEPT ![Backfill].phase = "candidate", ![Backfill].secret = s]
              ELSE pub
    /\ UNCHANGED <<counter, head, index>>

\* The head is read again before each attempt, and its control record with it.
BackfillReadHead ==
    LET h == head[pub[Backfill].secret] IN
    /\ pub[Backfill].phase = "candidate"
    /\ pub' = [pub EXCEPT ![Backfill] =
          [@ EXCEPT !.phase = "begun", !.version = h.version, !.archived = h.archived]]
    /\ UNCHANGED <<counter, head, index, backfill>>

\* revisionRace: the head has moved on.
BackfillRace ==
    /\ pub[Backfill].phase = "armed"
    /\ ~HeadIsAsExpected(Backfill)
    /\ pub' = [pub EXCEPT ![Backfill] =
          [NoPublication EXCEPT !.phase = "candidate", !.secret = pub[Backfill].secret]]
    /\ UNCHANGED <<counter, head, index, backfill>>

\* Mutant: the environment is made ready when the scan has begun.
BackfillScannedSome ==
    /\ backfill.phase = "scan" /\ backfill.visited # {}
    /\ pub[Backfill].phase = "idle"
    /\ backfill' = [backfill EXCEPT !.phase = IF counter.exists THEN "update" ELSE "put"]
    /\ UNCHANGED <<counter, head, index, pub>>

\* markReady, after the whole scan: read the counter, ...
BackfillScanned ==
    /\ backfill.phase = "scan" /\ backfill.visited = Secrets
    /\ pub[Backfill].phase = "idle"
    /\ backfill' = [backfill EXCEPT !.phase = IF counter.exists THEN "update" ELSE "put"]
    /\ UNCHANGED <<counter, head, index, pub>>

\* ... put it where there was none, ...
BackfillPut ==
    /\ backfill.phase = "put"
    /\ IF counter.exists
       THEN /\ backfill' = [backfill EXCEPT !.phase = "update"]
            /\ UNCHANGED counter
       ELSE /\ backfill' = [backfill EXCEPT !.phase = "off"]
            /\ counter' = [exists |-> TRUE, sequence |-> 0, ready |-> TRUE]
    /\ UNCHANGED <<head, index, pub>>

\* ... and otherwise set its flag.
BackfillUpdate ==
    /\ backfill.phase = "update"
    /\ backfill' = [backfill EXCEPT !.phase = "off"]
    /\ counter' = [counter EXCEPT !.ready = TRUE]
    /\ UNCHANGED <<head, index, pub>>

\* The script fails or is interrupted.
BackfillStop ==
    /\ backfill.phase # "off" /\ backfill.runs < BackfillRuns
    /\ backfill' = [backfill EXCEPT !.phase = "off"]
    /\ pub' = [pub EXCEPT ![Backfill] = NoPublication]
    /\ UNCHANGED <<counter, head, index>>

BackfillStep ==
    \/ BackfillStart \/ (\E s \in Secrets : BackfillVisit(s)) \/ BackfillReadHead
    \/ ReadCounter(Backfill) \/ ReadPrevious(Backfill) \/ Publish(Backfill)
    \/ Contend(Backfill) \/ BackfillRace
    \/ BackfillScanned \/ BackfillPut \/ BackfillUpdate

Mutate(w) ==
    \/ \E s \in Secrets, archived \in BOOLEAN : TakeLease(w, s, archived)
    \/ ReadCounter(w) \/ ReadPrevious(w) \/ Publish(w) \/ Contend(w)

Next ==
    \/ \E w \in Writers : Mutate(w)
    \/ \E s \in Secrets : GiveUpLease(s)
    \/ \E e \in index : ExpireEntry(e)
    \/ BackfillStep
    \/ BackfillStop

Spec == Init /\ [][Next]_vars

-----------------------------------------------------------------------------
(* Properties *)

\* The index is a projection of the heads: a secret has one entry, for its
\* current revision and under the sequence its head records, however counter,
\* head and entry were read before the transaction; only the entry of an
\* archived secret may have expired.
IndexMatchesHeads ==
    \A s \in Secrets :
        LET h == head[s]
            entries == {e \in index : e.secret = s}
            expected == [sequence |-> h.syncSequence, secret |-> s,
                         version |-> h.version, archived |-> h.archived] IN
        \/ entries = {expected}
        \/ entries = {} /\ (h.syncSequence = 0 \/ h.archived)

\* Agents that synchronise miss no live secret: none was skipped by a backfill
\* that ran beside mutations, or was restarted.
ReadyIndexIsComplete ==
    counter.ready =>
        \A s \in Secrets : head[s].status = "READY" /\ ~head[s].archived
            => \E e \in index : e.secret = s

(* What the publications promise, as an abstract index *)
Index == INSTANCE SyncIndex WITH
    current <- [s \in Secrets |-> IF head[s].status = "READY" THEN head[s].version ELSE None],
    archived <- {s \in Secrets : head[s].archived},
    position <- [s \in Secrets |->
        IF \E e \in index : e.secret = s
        THEN (CHOOSE e \in index : e.secret = s).sequence ELSE 0],
    sequence <- counter.sequence,
    ready <- counter.ready

ImplementsIndex == Index!Spec
=============================================================================
