-------------------------- MODULE PagedReadersProofs --------------------------
(***************************************************************************)
(* Proofs about the two readers that work page by page.  AgentMirror: for  *)
(* any number of secrets, page size and life of tokens and markers, a      *)
(* checkpoint that the service would accept vouches for no stale copy.     *)
(* Listings: for any secrets, names, tags, page sizes and budgets, a quiet *)
(* cycle over the changes leaves no copy of what may not be read, a list   *)
(* called complete is, and the counts of a folder tree add up.             *)
(***************************************************************************)
EXTENDS AgentMirror, Listings, FiniteSetTheorems, SequenceTheorems, TLAPS

-----------------------------------------------------------------------------
(* The invariant *)

\* An entry stands where its secret was last published, until its marker is forgotten.
IndexInv ==
    \A s \in Secrets :
        /\ current[s] \in Versions
        /\ published[s] <= sequence
        /\ \/ position[s] = published[s]
           \/ position[s] = 0 /\ s \in archived /\ markerEnds[s] <= clock

\* What a token says of its cycle: it counted no more than was published, and the
\* markers of what was archived since outlive it by what a marker has more to live.
Counted(t) ==
    /\ t.through <= sequence
    /\ t.checkpointEnds <= clock + CheckpointLife
    /\ \A s \in archived : published[s] > t.through =>
          t.checkpointEnds + MarkerLife <= markerEnds[s] + CheckpointLife

Vouched(s) == LocalVersion(s) # None => LocalVersion(s) = current[s] /\ Readable(s)

\* A checkpoint vouches for the secrets of its own grant, whether or not it would still
\* be accepted.
CheckpointInv ==
    checkpoint.kind = "checkpoint" =>
        /\ Counted(checkpoint)
        /\ \A s \in checkpoint.digest :
              published[s] <= checkpoint.through => Vouched(s)

\* What an answer said stays true of the secrets the cycle counted.
MentionsHold(t) ==
    \A s \in Secrets : pass.entries[s] # NoMention /\ published[s] <= t.through =>
        pass.entries[s] = [version |-> current[s], readable |-> Readable(s)]

\* A delta cycle continues the checkpoint; no marker it has to see expires before its
\* pages do, and what it has passed it has mentioned.
DeltaInv(c) ==
    /\ checkpoint.kind = "checkpoint"
    /\ checkpoint.digest = c.digest /\ checkpoint.through = c.after
    /\ c.pageEnds <= clock + PageLife /\ CheckpointLife > 0
    /\ \A s \in archived : published[s] > c.after => c.pageEnds <= markerEnds[s]
    /\ \A s \in c.digest :
          c.after < published[s] /\ published[s] <= c.last => pass.entries[s] # NoMention

CycleInv(c) ==
    /\ c.kind = "page" /\ c.last <= c.through /\ Counted(c) /\ MentionsHold(c)
    /\ ~c.snapshot => DeltaInv(c)

Silent == \A s \in Secrets : pass.entries[s] = NoMention

\* A pass that talks to the service.
SyncInv ==
    /\ pass.phase \in {"send", "granted", "located"} =>
          (pass.token.kind = "checkpoint" => pass.token = checkpoint)
    /\ pass.phase \in {"send", "granted"} =>
          IF pass.token.kind = "page" THEN CycleInv(pass.token) ELSE Silent
    /\ pass.phase = "located" =>
          /\ CycleInv(pass.cycle)
          /\ pass.cycle.digest = pass.grant /\ clock < pass.cycle.pageEnds
          /\ pass.token.kind = "checkpoint" =>
                pass.token.digest = pass.grant /\ ~pass.cycle.snapshot

Importing == {"imports", "fetch", "apply", "record", "remove", "clear"}
Held == IF pass.phase = "imports" THEN {} ELSE {pass.item}

\* A pass that works on its imports: once an import has been dealt with its copy is
\* vouched for, before that a delta that does not mention it vouches for it.
ImportInv ==
    pass.phase \in Importing =>
        /\ pass.token.kind = "checkpoint" /\ pass.token.digest = pass.grant
        /\ Counted(pass.token) /\ MentionsHold(pass.token)
        /\ \A s \in pass.grant \ Held :
              /\ published[s] <= pass.token.through
              /\ s \in pass.todo => pass.entries[s] = NoMention /\ ~pass.snapshot
              => Vouched(s)

\* What was fetched is current, unless the secret was published since.
FetchInv ==
    pass.phase \in {"apply", "record"} =>
        /\ \/ published[pass.item] <= pass.token.through
           \/ checkpoint.kind = "checkpoint" /\ published[pass.item] <= checkpoint.through
           => pass.version = current[pass.item] /\ Readable(pass.item)

\* The copy that a fetch asks about is the one that was found, or it is gone.
AskInv == pass.phase = "fetch" => LocalVersion(pass.item) \in {None, pass.version}

CopyInv == IndexInv /\ CheckpointInv /\ SyncInv /\ ImportInv /\ FetchInv

-----------------------------------------------------------------------------
(* Numbers and pages *)

LEMMA Least ==
    ASSUME NEW S, S \subseteq Nat, S # {} PROVE \E n \in S : \A m \in S : n <= m
  <1>1. PICK n \in S : \A m \in S : ~(<<m, n>> \in OpToRel(<, Nat))
    BY NatLessThanWellFounded, WFMin
  <1>2. ASSUME NEW m \in S PROVE n <= m
    <2>1. m \in Nat /\ n \in Nat
      OBVIOUS
    <2>2. ~(m < n)
      BY <1>1, <2>1 DEF OpToRel
    <2> QED
      BY <2>1, <2>2
  <1> QED
    BY <1>2

LEMMA Greatest ==
    ASSUME NEW S, S \subseteq Nat, S # {}, NEW b \in Nat, \A n \in S : n <= b
    PROVE  Max(S) \in S /\ \A n \in S : n <= Max(S)
  <1> DEFINE B == {n \in Nat : \A m \in S : m <= n}
  <1>1. PICK k \in B : \A n \in B : k <= n
    <2>1. B \subseteq Nat /\ b \in B
      OBVIOUS
    <2> HIDE DEF B
    <2> QED
      BY <2>1, Least
  <1>2. k \in S
    <2> SUFFICES ASSUME k \notin S PROVE FALSE
      OBVIOUS
    <2>1. PICK x : x \in S
      OBVIOUS
    <2>2. \A m \in S : m < k
      <3> TAKE m \in S
      <3>1. m \in Nat /\ k \in Nat /\ m <= k /\ m # k
        OBVIOUS
      <3> QED
        BY <3>1
    <2>3. k > 0 /\ k \in Nat
      BY <2>1, <2>2
    <2>4. k - 1 \in Nat /\ \A m \in S : m <= k - 1
      BY <2>2, <2>3
    <2>5. k - 1 \in B
      BY <2>4
    <2> QED
      BY <1>1, <2>3, <2>5
  <1>3. \E x \in S : \A y \in S : x >= y
    BY <1>1, <1>2
  <1>4. Max(S) \in S /\ \A y \in S : Max(S) >= y
    BY <1>3 DEF Max
  <1> QED
    BY <1>4

LEMMA Larger == ASSUME NEW m \in Nat, NEW n \in Nat
                PROVE  Max({m, n}) = IF m >= n THEN m ELSE n
  <1>1. \A k \in {m, n} : k <= m + n
    OBVIOUS
  <1>2. Max({m, n}) \in {m, n} /\ \A k \in {m, n} : k <= Max({m, n})
    BY <1>1, Greatest
  <1> QED
    BY <1>2

\* The entries of the range that one before s has, which is what limits a page.
Before(s) == {t \in Unread : position[t] < position[s]}

LEMMA PageFacts ==
    ASSUME TypeOK
    PROVE  /\ Page \subseteq Unread /\ Unread \subseteq Secrets
           /\ \A s \in Unread, t \in Page : position[s] <= position[t] => s \in Page
           /\ IsLastPage => Page = Unread
           /\ ~IsLastPage => Page # {}
  <1>1. Page \subseteq Unread /\ Unread \subseteq Secrets
    BY DEF Page, Unread
  <1>2. IsFiniteSet(Unread) /\ \A S \in SUBSET Unread : IsFiniteSet(S) /\ Cardinality(S) \in Nat
    BY <1>1, SecretsAreFew, FS_Subset, FS_CardinalityType
  <1>3. Page = {s \in Unread : Cardinality(Before(s)) < PageSize}
    BY DEF Page, Before
  <1>4. PageSize \in Nat \ {0} /\ \A s \in Secrets : position[s] \in Nat
    BY SizesAreSmall DEF TypeOK
  <1>5. \A s \in Unread : Before(s) \subseteq Unread
    BY DEF Before
  <1>6. ASSUME NEW s \in Unread, NEW t \in Page, position[s] <= position[t] PROVE s \in Page
    <2>1. Before(s) \subseteq Before(t)
      BY <1>1, <1>4, <1>6 DEF Before
    <2>2. Cardinality(Before(s)) <= Cardinality(Before(t))
      BY <1>1, <1>2, <1>5, <2>1, FS_Subset
    <2>3. Cardinality(Before(s)) \in Nat /\ Cardinality(Before(t)) \in Nat
          /\ Cardinality(Before(t)) < PageSize
      BY <1>1, <1>2, <1>3, <1>5
    <2> QED
      BY <1>3, <1>4, <2>2, <2>3
  <1>7. ASSUME IsLastPage, Page # Unread PROVE FALSE
    <2> DEFINE Missed == {position[s] : s \in Unread \ Page}
    <2>1. Missed \subseteq Nat /\ Missed # {}
      BY <1>1, <1>4, <1>7
    <2>2. PICK n \in Missed : \A m \in Missed : n <= m
      <3> HIDE DEF Missed
      <3> QED
        BY <2>1, Least
    <2>3. PICK s \in Unread \ Page : position[s] = n
      BY <2>2
    <2>4. Before(s) \subseteq Page
      BY <1>1, <1>4, <2>2, <2>3 DEF Before
    <2>5. Cardinality(Before(s)) <= Cardinality(Page)
      BY <1>1, <1>2, <2>4, FS_Subset
    <2>6. Cardinality(Before(s)) \in Nat /\ Cardinality(Page) \in Nat
      BY <1>1, <1>2, <1>5, <2>3
    <2> QED
      BY <1>3, <1>4, <1>7, <2>3, <2>5, <2>6 DEF IsLastPage
  <1>8. ASSUME ~IsLastPage, Page = {} PROVE FALSE
    BY <1>4, <1>8, FS_EmptySet DEF IsLastPage
  <1> QED
    BY <1>1, <1>6, <1>7, <1>8

\* The last entry of a full page.
LEMMA LastOfPage ==
    ASSUME TypeOK, ~IsLastPage
    PROVE  LET last == Max({position[s] : s \in Page}) IN
           /\ last \in Nat /\ last <= pass.cycle.through
           /\ \E t \in Page : position[t] = last
  <1> DEFINE S == {position[s] : s \in Page}
  <1>1. /\ S \subseteq Nat /\ S # {} /\ pass.cycle.through \in Nat
        /\ \A n \in S : n <= pass.cycle.through
    BY PageFacts DEF TypeOK, PassRecord, Token, Unread
  <1>2. Max(S) \in S
    <2> HIDE DEF S
    <2> QED
      BY <1>1, Greatest
  <1> QED
    BY <1>1, <1>2

-----------------------------------------------------------------------------
(* Types *)

LEMMA Constants ==
    /\ MaxSequence \in Nat /\ MaxTime \in Nat /\ CheckpointLife \in Nat /\ MarkerLife \in Nat
    /\ PageSize \in Nat \ {0} /\ PageLife \in Nat \ {0}
    /\ CheckpointLife + PageLife <= MarkerLife + 1
    /\ Versions = 1 .. MaxSequence /\ None \notin Versions
    /\ Grants \subseteq SUBSET Secrets
    /\ Times \subseteq Nat
  BY SizesAreSmall, VersionsAreSequences, MarkersOutliveCheckpoints, GrantsNameSecrets
     DEF Times

LEMMA NoPassType ==
    /\ NoToken \in Token /\ NoToken.kind = "none"
    /\ NoMention \in Mention
    /\ NoPass \in PassRecord /\ NoPass.phase = "idle" /\ NoPass.item = None
    /\ NoPass.token = NoToken /\ NoPass.todo = {}
    /\ \A s \in Secrets : NoPass.entries[s] = NoMention
  <1>1. 0 \in Times
    BY Constants DEF Times
  <1>2. NoToken \in Token /\ NoToken.kind = "none"
    BY <1>1 DEF NoToken, Token
  <1>3. NoMention \in Mention
    BY DEF NoMention, Mention, VersionOrNone
  <1> QED
    BY <1>2, <1>3 DEF NoPass, PassRecord, Phases, VersionOrNone

LEMMA TypeInit == MirrorInit => TypeOK
  <1> SUFFICES ASSUME MirrorInit PROVE TypeOK
    OBVIOUS
  <1>1. Cardinality(Secrets) \in Nat /\ Cardinality(Secrets) <= MaxSequence
    BY SecretsAreFew, FS_CardinalityType
  <1>2. position \in [Secrets -> 1 .. Cardinality(Secrets)]
    BY DEF MirrorInit, Injection
  <1>3. position \in [Secrets -> Nat] /\ position \in [Secrets -> VersionOrNone]
    BY <1>1, <1>2, Constants DEF VersionOrNone
  <1>4. 0 \in Times /\ Secrets \in Grants
    BY Constants, GrantsNameSecrets DEF Times
  <1> QED
    BY <1>1, <1>3, <1>4, Constants, NoPassType DEF MirrorInit, TypeOK, VersionOrNone

LEMMA ServiceType ==
    ASSUME TypeOK,
           \/ \E s \in Secrets : Change(s) \/ ForgetMarker(s)
           \/ ChangeGrant \/ Tick
    PROVE  TypeOK'
  <1> USE Constants DEF TypeOK
  <1>1. ASSUME NEW s \in Secrets, Change(s) PROVE TypeOK'
    <2>1. /\ sequence + 1 \in Versions /\ sequence' = sequence + 1 /\ sequence' \in 0 .. MaxSequence
          /\ current' = [current EXCEPT ![s] = sequence + 1]
          /\ position' = [position EXCEPT ![s] = sequence + 1]
          /\ archived' \subseteq Secrets /\ ready' = ready
      BY <1>1 DEF Change, Publish, Count
    <2>2. MarkerEnd \in Times /\ 0 \in Times
      BY DEF MarkerEnd, Times
    <2> QED
      BY <1>1, <2>1, <2>2 DEF Change, clusterVars, VersionOrNone
  <1>2. ASSUME NEW s \in Secrets, ForgetMarker(s) PROVE TypeOK'
    BY <1>2 DEF ForgetMarker, Forget, clusterVars
  <1>3. CASE ChangeGrant
    BY <1>3 DEF ChangeGrant, clusterVars, indexVars
  <1>4. CASE Tick
    BY <1>4 DEF Tick, clusterVars, indexVars
  <1> QED
    BY <1>1, <1>2, <1>3, <1>4

LEMMA SyncType ==
    ASSUME TypeOK,
           \/ StartPass \/ SyncGrant \/ SyncState \/ SyncReset \/ SyncRefused \/ SyncPage \/ SyncFail
    PROVE  TypeOK'
  <1> USE DEF TypeOK
  <1>1. CASE StartPass
    <2>1. [NoPass EXCEPT !.phase = "send", !.token = checkpoint] \in PassRecord
      BY NoPassType DEF PassRecord, Phases
    <2> QED
      BY <1>1, <2>1 DEF StartPass, serviceVars, indexVars, clusterVars
  <1>2. CASE SyncGrant
    <2>1. [pass EXCEPT !.phase = "granted", !.grant = grant] \in PassRecord
      BY Constants DEF PassRecord, Phases
    <2> QED
      BY <1>2, <2>1 DEF SyncGrant, serviceVars, indexVars, clusterVars
  <1>3. CASE SyncState
    <2>1. clock + CheckpointLife \in Times /\ clock + PageLife \in Times /\ sequence \in Nat
      BY Constants DEF Times
    <2>2. FreshCycle \in Token
      BY <2>1 DEF FreshCycle, Token, PassRecord
    <2>3. DeltaCycle \in Token
      BY <2>2 DEF DeltaCycle, Token, PassRecord
    <2>4. Cycle \in Token
      BY <2>2, <2>3 DEF Cycle, Token, PassRecord
    <2>5. [pass EXCEPT !.phase = "located", !.cycle = Cycle] \in PassRecord
      BY <2>4 DEF PassRecord, Phases
    <2> QED
      BY <1>3, <2>5 DEF SyncState, serviceVars, indexVars, clusterVars
  <1>4. CASE SyncReset
    <2>1. [NoPass EXCEPT !.phase = "send", !.reset = TRUE] \in PassRecord
      BY NoPassType DEF PassRecord, Phases
    <2> QED
      BY <1>4, <2>1 DEF SyncReset, serviceVars, indexVars, clusterVars
  <1>5. CASE SyncRefused \/ SyncFail
    <2>1. [NoPass EXCEPT !.phase = "unready", !.todo = Secrets] \in PassRecord
      BY NoPassType DEF PassRecord, Phases
    <2>2. [NoPass EXCEPT !.phase = "unready", !.todo = Secrets].phase = "unready"
      BY NoPassType DEF PassRecord
    <2> QED
      BY <1>5, <2>1, <2>2, NoPassType
         DEF SyncRefused, SyncFail, FailConsumer, serviceVars, indexVars
  <1>6. CASE SyncPage
    <2>1. Mentioned \in [Secrets -> Mention]
      BY DEF Mentioned, Mention, PassRecord, Readable
    <2>2. Checkpoint \in Token
      BY NoPassType, ZenonT(60) DEF Checkpoint, Token, PassRecord
    <2>3. [pass EXCEPT !.phase = "imports", !.entries = Mentioned, !.cycle = NoToken,
                       !.snapshot = pass.cycle.snapshot,
                       !.token = Checkpoint, !.todo = Secrets] \in PassRecord
      <3>1. pass.cycle.snapshot \in BOOLEAN /\ NoToken \in Token
        BY NoPassType DEF PassRecord, Token
      <3> QED
        BY <2>1, <2>2, <3>1, ZenonT(60) DEF PassRecord, Phases
    <2>4. ASSUME ~IsLastPage
          PROVE  [pass EXCEPT !.phase = "send", !.entries = Mentioned, !.cycle = NoToken,
                       !.token = [pass.cycle EXCEPT !.last = Max({position[s] : s \in Page})]]
                 \in PassRecord
      <3>1. PICK last \in Nat : last = Max({position[s] : s \in Page})
        BY <2>4, LastOfPage
      <3>2. [pass.cycle EXCEPT !.last = last] \in Token
        BY DEF PassRecord, Token
      <3> QED
        BY <2>1, <3>1, <3>2, NoPassType DEF PassRecord, Phases
    <2>5. pass' \in PassRecord /\ pass'.phase \in {"imports", "send"}
      <3>1. CASE IsLastPage
        BY <1>6, <3>1, <2>3 DEF SyncPage, PassRecord
      <3>2. CASE ~IsLastPage
        BY <1>6, <3>2, <2>4 DEF SyncPage, PassRecord
      <3> QED
        BY <3>1, <3>2
    <2> QED
      BY <1>6, <2>5 DEF SyncPage, serviceVars, indexVars, clusterVars
  <1> QED
    BY <1>1, <1>2, <1>3, <1>4, <1>5, <1>6

\* The fields of a pass after an import has been taken or done.
LEMMA TakenFields ==
    ASSUME pass \in PassRecord, NEW s \in Secrets
    PROVE  /\ Taken(s) \in PassRecord
           /\ Taken(s).phase = pass.phase /\ Taken(s).token = pass.token
           /\ Taken(s).grant = pass.grant /\ Taken(s).snapshot = pass.snapshot
           /\ Taken(s).item = pass.item /\ Taken(s).todo = pass.todo \ {s}
           /\ \A t \in Secrets : Taken(s).entries[t] =
                 IF t = s THEN NoMention ELSE pass.entries[t]
  <1>1. NoMention \in Mention
    BY NoPassType
  <1> QED
    BY <1>1 DEF Taken, PassRecord

LEMMA NextFields ==
    ASSUME pass \in PassRecord
    PROVE  /\ NextImport \in PassRecord
           /\ NextImport.phase = "imports" /\ NextImport.item = None
           /\ NextImport.token = pass.token /\ NextImport.grant = pass.grant
           /\ NextImport.snapshot = pass.snapshot /\ NextImport.todo = pass.todo
           /\ NextImport.entries = pass.entries
  BY DEF NextImport, PassRecord, Phases, VersionOrNone

LEMMA ImportType ==
    ASSUME TypeOK,
           \/ \E s \in Secrets : TakeImport(s) \/ ConsumerNotReady(s) \/ FailLookup(s)
           \/ Fetch \/ Apply \/ Record \/ Remove \/ ClearStatus \/ FailImport
    PROVE  TypeOK'
  <1> USE DEF TypeOK
  <1>1. ASSUME NEW s \in Secrets, TakeImport(s) PROVE TypeOK'
    <2>0. PICK q \in PassRecord : q = Taken(s)
      BY TakenFields
    <2>1. /\ Taken(s) \in PassRecord /\ Taken(s).phase = "imports"
          /\ Fetching(s) \in PassRecord /\ Fetching(s).item = s
          /\ [Taken(s) EXCEPT !.phase = "remove", !.item = s] \in PassRecord
          /\ [Taken(s) EXCEPT !.phase = "remove", !.item = s].item = s
      <3>1. q.phase = "imports" /\ LocalVersion(s) \in VersionOrNone
        BY <1>1, <2>0, TakenFields DEF TakeImport, LocalVersion, VersionOrNone
      <3> QED
        BY <2>0, <3>1 DEF Fetching, PassRecord, Phases
    <2>2. pass' \in PassRecord /\ (pass'.phase = "imports" \/ pass'.item = s)
      BY <1>1, <2>1 DEF TakeImport
    <2> QED
      BY <1>1, <2>2 DEF TakeImport, serviceVars, indexVars, clusterVars
  <1>2. ASSUME NEW s \in Secrets, ConsumerNotReady(s) PROVE TypeOK'
    BY <1>2 DEF ConsumerNotReady, PassRecord, VersionOrNone, serviceVars, indexVars
  <1>3. ASSUME NEW s \in Secrets, FailLookup(s) PROVE TypeOK'
    <2>1. pass' \in PassRecord /\ pass'.phase = "imports"
      BY <1>3, TakenFields DEF FailLookup, PassRecord
    <2> QED
      BY <1>3, <2>1 DEF FailLookup, VersionOrNone, serviceVars, indexVars
  <1>4. CASE Fetch
    <2>1. current[pass.item] \in VersionOrNone /\ pass.item \in Secrets
      BY <1>4 DEF Fetch
    <2>2. pass' \in PassRecord /\ (pass'.phase = "imports" \/ pass'.item = pass.item)
      BY <1>4, <2>1, NextFields, ZenonT(60) DEF Fetch, PassRecord, Phases
    <2> QED
      BY <1>4, <2>1, <2>2 DEF Fetch, serviceVars, indexVars, clusterVars
  <1>5. CASE Apply \/ Remove
    BY <1>5 DEF Apply, Remove, PassRecord, Phases, VersionOrNone, serviceVars, indexVars
  <1>6. CASE Record \/ ClearStatus
    BY <1>6, NextFields DEF Record, ClearStatus, PassRecord, VersionOrNone,
                            serviceVars, indexVars
  <1>7. CASE FailImport
    <2>1. pass' \in PassRecord /\ pass'.phase = "imports"
      BY <1>7, NextFields DEF FailImport, PassRecord
    <2> QED
      BY <1>7, <2>1 DEF FailImport, VersionOrNone, serviceVars, indexVars
  <1> QED
    BY <1>1, <1>2, <1>3, <1>4, <1>5, <1>6, <1>7

LEMMA TypeStep == ASSUME TypeOK, CopyInv, [MirrorNext]_allVars PROVE TypeOK'
  <1>1. CASE EndPass
    <2>1. checkpoint' \in Token /\ checkpoint'.kind \in {"none", "checkpoint"}
      BY <1>1 DEF EndPass, TypeOK, PassRecord, CopyInv, ImportInv, Importing
    <2> QED
      BY <1>1, <2>1, NoPassType DEF EndPass, TypeOK, serviceVars, indexVars
  <1>2. CASE Crash
    BY <1>2, NoPassType DEF Crash, TypeOK, serviceVars, indexVars, clusterVars
  <1>3. ASSUME NEW s \in Secrets, Damage(s) PROVE TypeOK'
    BY <1>3 DEF Damage, TypeOK, serviceVars, indexVars, VersionOrNone
  <1>4. CASE UNCHANGED allVars
    BY <1>4 DEF TypeOK, allVars, serviceVars, indexVars, clusterVars
  <1> QED
    BY <1>1, <1>2, <1>3, <1>4, ServiceType, SyncType, ImportType DEF MirrorNext, PassStep

-----------------------------------------------------------------------------
(* The service moves on *)

\* A secret stays as it is or is published behind everything counted so far, and
\* archiving it sets a new marker.
Forward ==
    /\ sequence <= sequence' /\ clock <= clock'
    /\ \A s \in Secrets :
          \/ /\ published'[s] = published[s] /\ current'[s] = current[s]
             /\ Readable(s)' = Readable(s)
             /\ s \in archived' <=> s \in archived
             /\ markerEnds'[s] = markerEnds[s]
          \/ /\ published'[s] > sequence
             /\ s \in archived' => markerEnds'[s] = clock + MarkerLife

LEMMA ServiceForward ==
    ASSUME TypeOK, IndexInv,
           \/ \E s \in Secrets : Change(s) \/ ForgetMarker(s)
           \/ ChangeGrant \/ Tick
    PROVE  /\ Forward /\ IndexInv'
           /\ UNCHANGED <<clusterVars, pass>>
           /\ pass.phase = "located" => clock' = clock
  <1> USE DEF TypeOK
  <1>1. ASSUME NEW s \in Secrets, Change(s)
        PROVE  Forward /\ IndexInv' /\ UNCHANGED <<clusterVars, pass>> /\ clock' = clock
    <2>1. /\ sequence' = sequence + 1 /\ sequence + 1 \in Versions /\ sequence \in Nat
          /\ current' = [current EXCEPT ![s] = sequence + 1]
          /\ position' = [position EXCEPT ![s] = sequence + 1]
          /\ archived' \in {archived \cup {s}, archived \ {s}}
      BY <1>1, Constants DEF Change, Publish, Count
    <2>2. /\ published' = [published EXCEPT ![s] = sequence + 1]
          /\ readers' \in {readers \cup {s}, readers \ {s}}
          /\ markerEnds' = [markerEnds EXCEPT ![s] = IF s \in archived' THEN MarkerEnd ELSE 0]
          /\ UNCHANGED <<clock, clusterVars, pass>>
      BY <1>1 DEF Change
    <2>3. ASSUME NEW t \in Secrets \ {s}
          PROVE  /\ published'[t] = published[t] /\ current'[t] = current[t]
                 /\ Readable(t)' = Readable(t) /\ markerEnds'[t] = markerEnds[t]
                 /\ position'[t] = position[t]
                 /\ t \in archived' <=> t \in archived
      <3>1. (t \in readers' <=> t \in readers) /\ (t \in archived' <=> t \in archived)
        BY <2>1, <2>2
      <3> QED
        BY <2>1, <2>2, <3>1 DEF Readable
    <2>4. /\ published'[s] = sequence + 1 /\ current'[s] = sequence + 1
          /\ position'[s] = sequence + 1
          /\ s \in archived' => markerEnds'[s] = clock + MarkerLife
      BY <2>1, <2>2 DEF MarkerEnd
    <2>5. clock \in Nat
      OBVIOUS
    <2>6. Forward
      BY <2>1, <2>2, <2>3, <2>4, <2>5 DEF Forward
    <2>7. IndexInv'
      <3> SUFFICES ASSUME NEW t \in Secrets
                   PROVE  /\ current'[t] \in Versions /\ published'[t] <= sequence'
                          /\ \/ position'[t] = published'[t]
                             \/ position'[t] = 0 /\ t \in archived' /\ markerEnds'[t] <= clock'
        BY DEF IndexInv
      <3>1. CASE t = s
        BY <2>1, <2>4, <3>1
      <3>2. CASE t # s
        BY <2>1, <2>2, <2>3, <3>2 DEF IndexInv
      <3> QED
        BY <3>1, <3>2
    <2> QED
      BY <2>2, <2>6, <2>7
  <1>2. ASSUME NEW s \in Secrets, ForgetMarker(s)
        PROVE  Forward /\ IndexInv' /\ UNCHANGED <<clusterVars, pass>> /\ clock' = clock
    <2>1. /\ position' = [position EXCEPT ![s] = 0] /\ s \in archived /\ markerEnds[s] <= clock
          /\ UNCHANGED <<current, archived, sequence, readers, published, markerEnds, clock,
                         clusterVars, pass>>
      BY <1>2 DEF ForgetMarker, Forget
    <2> QED
      BY <2>1 DEF Forward, IndexInv, Readable
  <1>3. CASE ChangeGrant
    BY <1>3 DEF ChangeGrant, Forward, IndexInv, Readable, indexVars
  <1>4. CASE Tick
    <2>1. /\ clock' = clock + 1 /\ clock \in Nat /\ pass.phase # "located"
          /\ UNCHANGED <<indexVars, readers, published, markerEnds, clusterVars, pass>>
      BY <1>4 DEF Tick
    <2>2. IndexInv'
      <3>1. \A s \in Secrets : markerEnds[s] \in Nat
        BY Constants
      <3>2. \A s \in Secrets : markerEnds[s] <= clock => markerEnds[s] <= clock + 1
        BY <2>1, <3>1
      <3> HIDE DEF TypeOK
      <3> QED
        BY <2>1, <3>2 DEF IndexInv, indexVars
    <2>3. Forward
      BY <2>1 DEF Forward, Readable, indexVars
    <2> QED
      BY <2>1, <2>2, <2>3
  <1> QED
    BY <1>1, <1>2, <1>3, <1>4

\* What is counted stays as it was, so whatever was said of it stays true.
LEMMA CountedKept ==
    ASSUME TypeOK, TypeOK', Forward, NEW t \in Token, Counted(t)
    PROVE  /\ Counted(t)'
           /\ \A s \in Secrets : published'[s] <= t.through =>
                 /\ published'[s] = published[s] /\ current'[s] = current[s]
                 /\ Readable(s)' = Readable(s)
  <1>t. t.through \in Nat /\ t.checkpointEnds \in Nat
    BY Constants DEF Token
  <1>1. /\ t.through \in Nat /\ t.checkpointEnds \in Nat /\ clock \in Nat /\ sequence \in Nat
        /\ sequence' \in Nat /\ clock' \in Nat
        /\ CheckpointLife \in Nat /\ MarkerLife \in Nat /\ archived' \subseteq Secrets
    BY <1>t, Constants DEF TypeOK
  <1>2. /\ t.through <= sequence /\ t.checkpointEnds <= clock + CheckpointLife
        /\ sequence <= sequence' /\ clock <= clock'
    BY DEF Counted, Forward
  <1>3. t.through <= sequence' /\ t.checkpointEnds <= clock' + CheckpointLife
    BY <1>1, <1>2
  <1>4. ASSUME NEW s \in Secrets
        PROVE  /\ s \in archived' /\ published'[s] > t.through =>
                     t.checkpointEnds + MarkerLife <= markerEnds'[s] + CheckpointLife
               /\ published'[s] <= t.through =>
                     /\ published'[s] = published[s] /\ current'[s] = current[s]
                     /\ Readable(s)' = Readable(s)
    <2>1. published'[s] \in Nat
      BY DEF TypeOK
    <2>2. CASE /\ published'[s] = published[s] /\ current'[s] = current[s]
               /\ Readable(s)' = Readable(s)
               /\ s \in archived' <=> s \in archived
               /\ markerEnds'[s] = markerEnds[s]
      BY <2>2 DEF Counted
    <2>3. CASE /\ published'[s] > sequence
               /\ s \in archived' => markerEnds'[s] = clock + MarkerLife
      BY <1>1, <1>2, <2>1, <2>3
    <2> QED
      BY <2>2, <2>3 DEF Forward
  <1> QED
    BY <1>1, <1>3, <1>4 DEF Counted

\* So what a token, a pass and the cluster's copies are good for survives whatever
\* happens at the service.
LEMMA ForwardKeeps ==
    ASSUME TypeOK, TypeOK', CopyInv, Forward, UNCHANGED <<clusterVars, pass>>,
           pass.phase = "located" => clock' = clock
    PROVE  CheckpointInv' /\ SyncInv' /\ ImportInv' /\ FetchInv'
  <1> DEFINE Fixed(s) == /\ published'[s] = published[s] /\ current'[s] = current[s]
                         /\ Readable(s)' = Readable(s)
  <1>1. /\ checkpoint' = checkpoint /\ pass' = pass /\ target' = target /\ status' = status
        /\ \A s \in Secrets : LocalVersion(s)' = LocalVersion(s)
    BY DEF clusterVars, LocalVersion
  <1>2. PICK d \in Token : d = checkpoint
    BY DEF TypeOK
  <1>3. PICK p \in PassRecord : p = pass
    BY DEF TypeOK
  <1>4. p.token \in Token /\ p.cycle \in Token /\ p.grant \subseteq Secrets
    BY DEF PassRecord
  <1>5. PICK t \in Token : t = p.token
    BY <1>4
  <1>6. PICK c \in Token : c = p.cycle
    BY <1>4
  <1>7. \A s \in Secrets : Vouched(s) /\ Fixed(s) => Vouched(s)'
    BY <1>1 DEF Vouched
  <1>8. CheckpointInv'
    <2> SUFFICES ASSUME d.kind = "checkpoint"
                 PROVE  /\ Counted(d)'
                        /\ \A s \in d.digest : published'[s] <= d.through => Vouched(s)'
      BY <1>1, <1>2 DEF CheckpointInv
    <2>1. Counted(d) /\ \A s \in d.digest : published[s] <= d.through => Vouched(s)
      BY <1>2 DEF CopyInv, CheckpointInv
    <2>2. d.digest \subseteq Secrets
      BY DEF Token
    <2> QED
      BY <1>7, <2>1, <2>2, CountedKept
  <1>9. ASSUME NEW u \in Token, Counted(u), MentionsHold(u) PROVE Counted(u)' /\ MentionsHold(u)'
    BY <1>1, <1>9, CountedKept DEF MentionsHold
  <1>10. ASSUME NEW u \in Token, u.last <= u.through, u.through <= sequence, DeltaInv(u)
         PROVE  DeltaInv(u)'
    <2>1. /\ u.after \in Nat /\ u.last \in Nat /\ u.through \in Nat /\ u.digest \subseteq Secrets
          /\ clock \in Nat /\ clock' \in Nat /\ clock <= clock' /\ sequence \in Nat
      BY DEF Token, TypeOK, Forward
    <2>2. u.pageEnds \in Nat
      BY Constants DEF Token
    <2>3. u.pageEnds <= clock + PageLife /\ PageLife <= MarkerLife
      BY <1>10, Constants DEF DeltaInv
    <2>4. u.pageEnds <= clock' + PageLife /\ u.pageEnds <= clock + MarkerLife
      BY <2>1, <2>2, <2>3, Constants
    <2>5. ASSUME NEW s \in Secrets, s \in archived', published'[s] > u.after
          PROVE  u.pageEnds <= markerEnds'[s]
      BY <1>10, <2>4, <2>5 DEF Forward, DeltaInv
    <2>6. ASSUME NEW s \in u.digest, u.after < published'[s], published'[s] <= u.last
          PROVE  pass.entries[s] # NoMention
      <3>1. published'[s] \in Nat /\ s \in Secrets
        BY <2>1 DEF TypeOK
      <3>2. published'[s] = published[s]
        BY <1>10, <2>1, <2>6, <3>1 DEF Forward
      <3> QED
        BY <1>10, <2>6, <3>2 DEF DeltaInv
    <2>7. archived' \subseteq Secrets
      BY DEF TypeOK
    <2> QED
      BY <1>1, <1>10, <2>4, <2>5, <2>6, <2>7 DEF DeltaInv
  <1>11. ASSUME NEW u \in Token, CycleInv(u) PROVE CycleInv(u)'
    <2>1. u.through <= sequence
      BY <1>11 DEF CycleInv, Counted
    <2> QED
      BY <1>9, <1>10, <1>11, <2>1 DEF CycleInv
  <1>12. SyncInv'
    <2>1. CycleInv(t) => CycleInv(t)'
      BY <1>11
    <2>2. CycleInv(c) => CycleInv(c)'
      BY <1>11
    <2>3. Silent' <=> Silent
      BY <1>1 DEF Silent
    <2> QED
      BY <1>1, <1>3, <1>5, <1>6, <2>1, <2>2, <2>3 DEF CopyInv, SyncInv
  <1>13. ImportInv'
    <2> SUFFICES ASSUME p.phase \in Importing
                 PROVE  /\ t.kind = "checkpoint" /\ t.digest = p.grant
                        /\ Counted(t)' /\ MentionsHold(t)'
                        /\ \A s \in p.grant \ Held :
                              /\ published'[s] <= t.through
                              /\ s \in p.todo => p.entries[s] = NoMention /\ ~p.snapshot
                              => Vouched(s)'
      BY <1>1, <1>3, <1>5 DEF ImportInv, Held
    <2>1. /\ t.kind = "checkpoint" /\ t.digest = p.grant
          /\ Counted(t) /\ MentionsHold(t)
          /\ \A s \in p.grant \ Held :
                /\ published[s] <= t.through
                /\ s \in p.todo => p.entries[s] = NoMention /\ ~p.snapshot
                => Vouched(s)
      BY <1>3, <1>5 DEF CopyInv, ImportInv
    <2>2. \A s \in Secrets : published'[s] <= t.through => Fixed(s)
      BY <2>1, CountedKept
    <2> QED
      BY <1>4, <1>7, <1>9, <2>1, <2>2
  <1>14. FetchInv'
    <2> SUFFICES ASSUME p.phase \in {"apply", "record"},
                        \/ published'[p.item] <= t.through
                        \/ d.kind = "checkpoint" /\ published'[p.item] <= d.through
                 PROVE  p.version = current'[p.item] /\ Readable(p.item)'
      BY <1>1, <1>2, <1>3, <1>5 DEF FetchInv
    <2>1. p.item \in Secrets
      BY <1>3 DEF TypeOK
    <2>2. Counted(t) /\ (d.kind = "checkpoint" => Counted(d))
      BY <1>2, <1>3, <1>5 DEF CopyInv, ImportInv, Importing, CheckpointInv
    <2>3. Fixed(p.item)
      BY <2>1, <2>2, CountedKept
    <2> QED
      BY <1>2, <1>3, <1>5, <2>1, <2>3 DEF CopyInv, FetchInv
  <1> QED
    BY <1>8, <1>12, <1>13, <1>14

-----------------------------------------------------------------------------
(* The controller asks *)

LEMMA CopyInit == MirrorInit => CopyInv
  <1> SUFFICES ASSUME MirrorInit PROVE CopyInv
    OBVIOUS
  <1>1. Cardinality(Secrets) \in Nat /\ Cardinality(Secrets) <= MaxSequence
    BY SecretsAreFew, FS_CardinalityType
  <1>2. position \in [Secrets -> 1 .. Cardinality(Secrets)]
    BY DEF MirrorInit, Injection
  <1>3. IndexInv
    <2>1. /\ \A s \in Secrets : position[s] \in 1 .. Cardinality(Secrets)
          /\ current = position /\ published = position /\ sequence = Cardinality(Secrets)
      BY <1>2 DEF MirrorInit
    <2>2. PICK n \in Nat : n = Cardinality(Secrets)
      BY <1>1
    <2>3. \A k \in 1 .. n : k \in Versions /\ k <= n
      BY <1>1, <2>2, Constants
    <2> QED
      BY <2>1, <2>2, <2>3 DEF IndexInv
  <1>4. checkpoint.kind = "none" /\ pass.phase = "idle"
    BY NoPassType DEF MirrorInit
  <1> QED
    BY <1>3, <1>4 DEF CopyInv, CheckpointInv, SyncInv, ImportInv, FetchInv, Importing

\* While nothing moves at the service, what was true of it is.
LEMMA ServiceStill ==
    ASSUME CopyInv, UNCHANGED serviceVars
    PROVE  /\ IndexInv'
           /\ \A s \in Secrets : Readable(s)' = Readable(s)
           /\ \A t \in Token : Counted(t)' <=> Counted(t)
  <1>1. UNCHANGED <<current, archived, position, sequence, readers, published, markerEnds, clock>>
    BY DEF serviceVars, indexVars
  <1>2. ASSUME NEW t \in Token PROVE Counted(t)' <=> Counted(t)
    BY <1>1 DEF Counted
  <1> QED
    BY <1>1, <1>2 DEF CopyInv, IndexInv, Readable

\* One copy changes, and is vouched for if the checkpoint speaks of it.
LEMMA CopyChanges ==
    ASSUME TypeOK, CopyInv, UNCHANGED serviceVars, checkpoint' = checkpoint,
           NEW s \in Secrets,
           \A u \in Secrets \ {s} : LocalVersion(u)' = LocalVersion(u),
           checkpoint.kind = "checkpoint" /\ published[s] <= checkpoint.through => Vouched(s)'
    PROVE  /\ CheckpointInv'
           /\ \A u \in Secrets \ {s} : Vouched(u) => Vouched(u)'
  <1>1. /\ current' = current /\ published' = published
        /\ \A u \in Secrets : Readable(u)' = Readable(u)
    BY ServiceStill DEF serviceVars, indexVars
  <1>2. \A u \in Secrets \ {s} : Vouched(u) => Vouched(u)'
    BY <1>1 DEF Vouched
  <1>3. PICK d \in Token : d = checkpoint
    BY DEF TypeOK
  <1>4. d.digest \subseteq Secrets /\ (Counted(d)' <=> Counted(d))
    BY ServiceStill DEF Token
  <1>5. CheckpointInv'
    BY <1>1, <1>2, <1>3, <1>4 DEF CopyInv, CheckpointInv
  <1> QED
    BY <1>2, <1>5

LEMMA CopiesStill ==
    ASSUME TypeOK, CopyInv, UNCHANGED serviceVars, UNCHANGED clusterVars
    PROVE  CheckpointInv' /\ \A s \in Secrets : Vouched(s)' <=> Vouched(s)
  <1>1. /\ current' = current /\ published' = published
        /\ target' = target /\ status' = status /\ checkpoint' = checkpoint
        /\ \A s \in Secrets : Readable(s)' = Readable(s)
    BY ServiceStill DEF serviceVars, indexVars, clusterVars
  <1>2. \A s \in Secrets : Vouched(s)' <=> Vouched(s)
    BY <1>1 DEF Vouched, LocalVersion
  <1>3. PICK d \in Token : d = checkpoint
    BY DEF TypeOK
  <1>4. d.digest \subseteq Secrets /\ (Counted(d)' <=> Counted(d))
    BY ServiceStill DEF Token
  <1>5. CheckpointInv'
    BY <1>1, <1>2, <1>3, <1>4 DEF CopyInv, CheckpointInv
  <1> QED
    BY <1>2, <1>5

LEMMA CycleStill ==
    ASSUME CopyInv, UNCHANGED serviceVars, checkpoint' = checkpoint,
           pass'.entries = pass.entries, NEW c \in Token, CycleInv(c)
    PROVE  CycleInv(c)'
  <1>1. /\ UNCHANGED <<current, archived, published, markerEnds, clock>>
        /\ \A s \in Secrets : Readable(s)' = Readable(s)
        /\ Counted(c)'
    BY ServiceStill DEF CycleInv, serviceVars, indexVars
  <1>2. MentionsHold(c)'
    BY <1>1 DEF CycleInv, MentionsHold
  <1>3. DeltaInv(c) => DeltaInv(c)'
    BY <1>1 DEF DeltaInv
  <1> QED
    BY <1>1, <1>2, <1>3 DEF CycleInv

\* The cycle that SyncState fixes.
LEMMA CycleBegins ==
    ASSUME TypeOK, CopyInv, pass.phase = "granted", TokenAccepted, Cycle \in Token
    PROVE  /\ CycleInv(Cycle) /\ Cycle.digest = pass.grant /\ clock < Cycle.pageEnds
           /\ pass.token.kind = "checkpoint" =>
                 pass.token.digest = pass.grant /\ ~Cycle.snapshot
  <1>1. PICK t \in Token : t = pass.token
    BY DEF TypeOK, PassRecord
  <1>2. CASE t.kind = "page"
    <2>1. Cycle = t
      BY <1>1, <1>2 DEF Cycle
    <2> QED
      BY <1>1, <1>2, <2>1 DEF CopyInv, SyncInv, TokenAccepted
  <1>3. ASSUME t.kind # "page", NEW c \in Token, c.kind = "page", c.digest = pass.grant,
               c.through = sequence, c.last = 0, c.checkpointEnds = clock + CheckpointLife,
               c.pageEnds = clock + PageLife,
               ~c.snapshot => t.kind = "checkpoint" /\ c.after = t.through
        PROVE  CycleInv(c) /\ clock < c.pageEnds
    <2>1. sequence \in Nat /\ clock \in Nat
      BY DEF TypeOK
    <2>2. Counted(c)
      <3>1. ASSUME NEW s \in Secrets, published[s] > c.through PROVE FALSE
        <4>1. published[s] <= sequence /\ published[s] \in Nat
          BY DEF CopyInv, IndexInv, TypeOK
        <4> QED
          BY <1>3, <2>1, <3>1, <4>1
      <3>2. archived \subseteq Secrets
        BY DEF TypeOK
      <3> QED
        BY <1>3, <2>1, <3>1, <3>2, Constants DEF Counted
    <2>3. MentionsHold(c)
      BY <1>1, <1>3 DEF CopyInv, SyncInv, Silent, MentionsHold
    <2>4. ASSUME ~c.snapshot PROVE DeltaInv(c)
      <3>1. /\ t = checkpoint /\ Counted(t) /\ t.digest = pass.grant
            /\ clock < t.checkpointEnds /\ c.after = t.through
        BY <1>1, <1>3, <2>4 DEF TokenAccepted, CopyInv, SyncInv, CheckpointInv
      <3>2. t.checkpointEnds \in Nat /\ t.through \in Nat /\ c.digest \subseteq Secrets
        BY Constants DEF Token
      <3>3. t.checkpointEnds <= clock + CheckpointLife
        BY <3>1 DEF Counted
      <3>4. CheckpointLife > 0
        BY <2>1, <3>1, <3>2, <3>3, Constants
      <3>5. ASSUME NEW s \in archived, published[s] > c.after PROVE c.pageEnds <= markerEnds[s]
        <4>1. t.checkpointEnds + MarkerLife <= markerEnds[s] + CheckpointLife
          BY <3>1, <3>5 DEF Counted
        <4>2. markerEnds[s] \in Nat
          BY Constants DEF TypeOK
        <4> QED
          BY <1>3, <2>1, <3>1, <3>2, <4>1, <4>2, Constants
      <3>6. ASSUME NEW s \in c.digest, c.after < published[s], published[s] <= c.last PROVE FALSE
        <4>1. published[s] \in Nat
          BY <3>2 DEF TypeOK
        <4> QED
          BY <1>3, <3>1, <3>2, <3>6, <4>1
      <3>7. c.pageEnds <= clock + PageLife
        BY <1>3, <2>1, Constants
      <3> QED
        BY <1>3, <2>4, <3>1, <3>4, <3>5, <3>6, <3>7 DEF DeltaInv
    <2>5. clock < c.pageEnds /\ c.last <= c.through
      BY <1>3, <2>1, Constants
    <2> QED
      BY <1>3, <2>2, <2>3, <2>4, <2>5 DEF CycleInv
  <1>4. CASE t.kind = "none"
    <2>1. Cycle = FreshCycle
      BY <1>1, <1>4 DEF Cycle
    <2> QED
      BY <1>1, <1>3, <1>4, <2>1 DEF FreshCycle
  <1>5. CASE t.kind = "checkpoint"
    <2>1. Cycle = DeltaCycle
      BY <1>1, <1>5 DEF Cycle
    <2>2. Cycle = [kind |-> "page", digest |-> pass.grant, after |-> t.through,
                   through |-> sequence, last |-> 0, snapshot |-> FALSE,
                   checkpointEnds |-> clock + CheckpointLife, pageEnds |-> clock + PageLife]
      BY <1>1, <2>1 DEF DeltaCycle, FreshCycle
    <2>3. t.digest = pass.grant
      BY <1>1, <1>5 DEF TokenAccepted
    <2> QED
      BY <1>1, <1>3, <1>5, <2>2, <2>3
  <1> QED
    BY <1>2, <1>4, <1>5 DEF Token

\* What a delta cycle has passed has been mentioned, or is in the page just read: no
\* marker has expired while the cycle may go on.
LEMMA NothingIsMissed ==
    ASSUME TypeOK, CopyInv, pass.phase = "located", ~pass.cycle.snapshot,
           NEW b \in Nat, b <= pass.cycle.through,
           \A s \in Unread : position[s] <= b => s \in Page,
           NEW s \in pass.grant, pass.cycle.after < published[s], published[s] <= b
    PROVE  Mentioned[s] # NoMention
  <1>1. PICK c \in Token : c = pass.cycle
    BY DEF TypeOK, PassRecord
  <1>2. /\ s \in Secrets /\ published[s] \in Nat /\ clock \in Nat
        /\ c.after \in Nat /\ c.last \in Nat /\ c.through \in Nat
    BY DEF TypeOK, PassRecord, Token
  <1>3. c.digest = pass.grant /\ clock < c.pageEnds /\ DeltaInv(c)
    BY <1>1 DEF CopyInv, SyncInv, CycleInv
  <1>4. CASE s \in Page
    <2>1. Mentioned[s] = [version |-> current[s], readable |-> Readable(s)]
      BY <1>2, <1>4 DEF Mentioned
    <2>2. current[s] # None
      BY <1>2, Constants DEF CopyInv, IndexInv
    <2> QED
      BY <2>1, <2>2 DEF NoMention
  <1>5. CASE s \notin Page
    <2>1. Mentioned[s] = pass.entries[s]
      BY <1>2, <1>5 DEF Mentioned
    <2>2. ~(published[s] <= c.last) => position[s] = published[s]
      <3>1. s \in archived => c.pageEnds <= markerEnds[s]
        BY <1>1, <1>3 DEF DeltaInv
      <3>2. markerEnds[s] \in Nat /\ c.pageEnds \in Nat
        BY <1>2, Constants DEF TypeOK, Token
      <3> QED
        BY <1>2, <1>3, <3>1, <3>2 DEF CopyInv, IndexInv
    <2>3. published[s] <= c.last
      <3> SUFFICES ASSUME ~(published[s] <= c.last) PROVE FALSE
        OBVIOUS
      <3>1. position[s] > Max({c.after, c.last}) /\ position[s] <= c.through
        BY <1>1, <1>2, <2>2, Larger
      <3>2. s \in Unread
        BY <1>1, <1>2, <3>1 DEF Unread
      <3> QED
        BY <1>5, <2>2, <3>2
    <2> QED
      BY <1>1, <1>3, <2>1, <2>3 DEF DeltaInv
  <1> QED
    BY <1>4, <1>5

\* An answer adds to what is held, and says of a secret what is so.
LEMMA MentionedHolds ==
    ASSUME TypeOK, NEW c \in Token, MentionsHold(c), NEW s \in Secrets,
           Mentioned[s] # NoMention, published[s] <= c.through
    PROVE  Mentioned[s] = [version |-> current[s], readable |-> Readable(s)]
  BY DEF Mentioned, MentionsHold

LEMMA PageStep == ASSUME TypeOK, TypeOK', CopyInv, SyncPage PROVE CopyInv'
  <1>1. PICK c \in Token : c = pass.cycle
    BY DEF TypeOK, PassRecord
  <1>2. PICK t \in Token : t = pass.token
    BY DEF TypeOK, PassRecord
  <1>3. /\ CycleInv(c) /\ c.digest = pass.grant /\ clock < c.pageEnds
        /\ t.kind = "checkpoint" => t = checkpoint /\ t.digest = pass.grant /\ ~c.snapshot
        /\ pass.phase = "located" /\ UNCHANGED <<serviceVars, clusterVars>>
    BY <1>1, <1>2 DEF SyncPage, CopyInv, SyncInv
  <1>4. /\ IndexInv' /\ CheckpointInv' /\ checkpoint' = checkpoint
        /\ UNCHANGED <<current, archived, published, markerEnds, clock>>
        /\ \A s \in Secrets : Readable(s)' = Readable(s) /\ (Vouched(s)' <=> Vouched(s))
        /\ \A u \in Token : Counted(u)' <=> Counted(u)
    BY <1>3, ServiceStill, CopiesStill DEF serviceVars, indexVars, clusterVars
  <1>5. pass'.entries = Mentioned
    BY DEF SyncPage, TypeOK, PassRecord
  <1>6. ASSUME NEW u \in Token, u.through = c.through PROVE MentionsHold(u)'
    BY <1>3, <1>4, <1>5, <1>6, MentionedHolds DEF CycleInv, MentionsHold
  <1>n. /\ c.through \in Nat /\ c.after \in Nat /\ c.last \in Nat
        /\ \A s \in Secrets : published[s] \in Nat
    BY DEF Token, TypeOK
  <1>7. CASE IsLastPage
    <2> DEFINE New == [NoToken EXCEPT !.kind = "checkpoint", !.digest = c.digest,
                                      !.through = c.through, !.checkpointEnds = c.checkpointEnds]
    <2>1. PICK T \in Token : T = pass'.token
      BY DEF TypeOK, PassRecord
    <2>2. /\ pass'.phase = "imports" /\ pass'.token = Checkpoint /\ pass'.todo = Secrets
          /\ pass'.snapshot = c.snapshot /\ pass'.grant = pass.grant
      BY <1>1, <1>7 DEF SyncPage, TypeOK, PassRecord
    <2>3. T = IF t.kind = "checkpoint" /\ c.after = c.through THEN t ELSE New
      BY <1>1, <1>2, <2>1, <2>2 DEF Checkpoint
    <2>4. /\ New.kind = "checkpoint" /\ New.digest = pass.grant /\ New.through = c.through
          /\ New.checkpointEnds = c.checkpointEnds
      BY <1>3 DEF NoToken
    <2>5. ~c.snapshot => DeltaInv(c)
      BY <1>3 DEF CycleInv
    <2>6. T.kind = "checkpoint" /\ T.digest = pass.grant /\ T.through = c.through
      BY <1>3, <2>3, <2>4, <2>5 DEF DeltaInv
    <2>7. Counted(T)
      <3>1. CASE T = t
        BY <1>3, <2>6, <3>1, <2>3, <2>4 DEF CopyInv, CheckpointInv, CycleInv, Counted
      <3>2. CASE T = New
        BY <1>3, <2>4, <3>2 DEF CycleInv, Counted
      <3> QED
        BY <2>3, <3>1, <3>2
    <2>8. MentionsHold(T)'
      BY <1>6, <2>6
    <2>9. ASSUME NEW s \in pass.grant, published[s] <= c.through,
                 Mentioned[s] = NoMention, ~c.snapshot
          PROVE  Vouched(s)
      <3>1. s \in Secrets /\ Page = Unread
        BY <1>7, PageFacts DEF TypeOK, PassRecord
      <3>2. published[s] <= c.after
        BY <1>1, <1>3, <1>n, <2>9, <3>1, NothingIsMissed
      <3> QED
        BY <1>3, <2>5, <2>9, <3>2 DEF DeltaInv, CopyInv, CheckpointInv
    <2>10. ImportInv'
      <3>1. pass.grant \subseteq Secrets
        BY DEF TypeOK, PassRecord
      <3> QED
        BY <1>4, <1>5, <2>1, <2>2, <2>6, <2>7, <2>8, <2>9, <3>1 DEF ImportInv
    <2>11. SyncInv' /\ FetchInv'
      BY <2>2 DEF SyncInv, FetchInv
    <2> QED
      BY <1>4, <2>10, <2>11 DEF CopyInv
  <1>8. CASE ~IsLastPage
    <2>1. PICK L : L = Max({position[s] : s \in Page})
      OBVIOUS
    <2>2. /\ L \in Nat /\ L <= c.through
          /\ \E x \in Page : position[x] = L
      BY <1>1, <1>8, <2>1, LastOfPage
    <2>3. PICK u \in Token : u = [c EXCEPT !.last = L]
      BY <2>2 DEF Token
    <2>4. /\ pass'.phase = "send" /\ pass'.token = u
      BY <1>1, <1>8, <2>1, <2>3 DEF SyncPage, TypeOK, PassRecord
    <2>5. /\ u.kind = c.kind /\ u.digest = c.digest /\ u.after = c.after /\ u.through = c.through
          /\ u.last = L /\ u.snapshot = c.snapshot /\ u.checkpointEnds = c.checkpointEnds
          /\ u.pageEnds = c.pageEnds
      BY <2>3 DEF Token
    <2>6. Counted(u)'
      BY <1>3, <1>4, <2>5 DEF CycleInv, Counted
    <2>7. \A s \in Unread : position[s] <= L => s \in Page
      BY <2>2, PageFacts
    <2>8. ASSUME ~c.snapshot PROVE DeltaInv(u)'
      <3>1. DeltaInv(c)
        BY <1>3, <2>8 DEF CycleInv
      <3>2. ASSUME NEW s \in pass.grant, c.after < published[s], published[s] <= L
            PROVE  Mentioned[s] # NoMention
        BY <1>1, <1>3, <2>2, <2>7, <2>8, <3>2, NothingIsMissed
      <3> QED
        BY <1>3, <1>4, <1>5, <2>5, <3>1, <3>2 DEF DeltaInv
    <2>9. CycleInv(u)'
      BY <1>3, <1>6, <2>2, <2>5, <2>6, <2>8 DEF CycleInv
    <2>10. SyncInv' /\ ImportInv' /\ FetchInv'
      BY <1>3, <2>4, <2>5, <2>9 DEF SyncInv, ImportInv, FetchInv, Importing, CycleInv
    <2> QED
      BY <1>4, <2>10 DEF CopyInv
  <1> QED
    BY <1>7, <1>8

LEMMA SyncStep ==
    ASSUME TypeOK, TypeOK', CopyInv,
           \/ StartPass \/ SyncGrant \/ SyncState \/ SyncReset \/ SyncRefused \/ SyncPage \/ SyncFail
    PROVE  CopyInv'
  <1>1. PICK t \in Token : t = pass.token
    BY DEF TypeOK, PassRecord
  <1>2. ASSUME UNCHANGED <<serviceVars, clusterVars>>,
               pass'.phase \notin Importing \cup {"apply", "record"}, SyncInv'
        PROVE  CopyInv'
    BY <1>2, ServiceStill, CopiesStill DEF CopyInv, ImportInv, FetchInv
  <1>3. CASE StartPass
    <2>1. /\ pass'.phase = "send" /\ pass'.token = checkpoint
          /\ \A s \in Secrets : pass'.entries[s] = NoMention
          /\ UNCHANGED <<serviceVars, clusterVars>>
      BY <1>3, NoPassType DEF StartPass, PassRecord
    <2>2. SyncInv'
      BY <2>1 DEF SyncInv, Silent, TypeOK, clusterVars
    <2> QED
      BY <1>2, <2>1, <2>2 DEF Importing
  <1>4. CASE SyncGrant
    <2>1. /\ pass'.phase = "granted" /\ pass'.token = t /\ pass'.entries = pass.entries
          /\ UNCHANGED <<serviceVars, clusterVars>> /\ pass.phase = "send"
      BY <1>1, <1>4 DEF SyncGrant, TypeOK, PassRecord
    <2>2. CycleInv(t) => CycleInv(t)'
      BY <2>1, CycleStill DEF clusterVars
    <2>3. SyncInv'
      BY <1>1, <2>1, <2>2 DEF CopyInv, SyncInv, Silent, clusterVars
    <2> QED
      BY <1>2, <2>1, <2>3 DEF Importing
  <1>5. CASE SyncState
    <2>1. /\ pass'.phase = "located" /\ pass'.token = t /\ pass'.entries = pass.entries
          /\ pass'.cycle = Cycle /\ pass'.grant = pass.grant
          /\ UNCHANGED <<serviceVars, clusterVars>> /\ pass.phase = "granted" /\ TokenAccepted
      BY <1>1, <1>5 DEF SyncState, TypeOK, PassRecord
    <2>2. PICK c \in Token : c = Cycle
      BY <2>1 DEF TypeOK, PassRecord
    <2>3. /\ CycleInv(c) /\ c.digest = pass.grant /\ clock < c.pageEnds
          /\ t.kind = "checkpoint" => t.digest = pass.grant /\ ~c.snapshot
      BY <1>1, <2>1, <2>2, CycleBegins
    <2>4. CycleInv(c)' /\ clock' = clock
      BY <2>1, <2>3, CycleStill DEF clusterVars, serviceVars
    <2>5. SyncInv'
      BY <1>1, <2>1, <2>2, <2>3, <2>4 DEF CopyInv, SyncInv, clusterVars
    <2> QED
      BY <1>2, <2>1, <2>5 DEF Importing
  <1>6. CASE SyncReset
    <2>1. /\ pass'.phase = "send" /\ pass'.token.kind = "none"
          /\ \A s \in Secrets : pass'.entries[s] = NoMention
          /\ UNCHANGED <<serviceVars, clusterVars>>
      BY <1>6, NoPassType DEF SyncReset, PassRecord
    <2>2. SyncInv'
      BY <2>1 DEF SyncInv, Silent
    <2> QED
      BY <1>2, <2>1, <2>2 DEF Importing
  <1>7. CASE SyncRefused \/ SyncFail
    <2>1. /\ pass'.phase = "unready" /\ checkpoint'.kind = "none" /\ UNCHANGED serviceVars
      BY <1>7, NoPassType DEF SyncRefused, SyncFail, FailConsumer, PassRecord
    <2>2. CheckpointInv' /\ SyncInv' /\ ImportInv' /\ FetchInv'
      BY <2>1 DEF CheckpointInv, SyncInv, ImportInv, FetchInv, Importing
    <2> QED
      BY <2>1, <2>2, ServiceStill DEF CopyInv
  <1> QED
    BY <1>3, <1>4, <1>5, <1>6, <1>7, PageStep

-----------------------------------------------------------------------------
(* The controller copies *)

\* A step of one import, or of none, that ends in a phase of its own.
LEMMA ImportStill ==
    ASSUME TypeOK, TypeOK', CopyInv, UNCHANGED serviceVars, pass.phase \in Importing,
           pass'.phase \in Importing, pass'.token = pass.token, pass'.grant = pass.grant,
           pass'.snapshot = pass.snapshot,
           \A u \in Secrets : pass'.entries[u] \in {pass.entries[u], NoMention},
           \A u \in pass.grant \ Held' :
              /\ published[u] <= pass.token.through
              /\ u \in pass'.todo => pass'.entries[u] = NoMention /\ ~pass.snapshot
              => Vouched(u)'
    PROVE  ImportInv'
  <1>1. PICK t \in Token : t = pass.token
    BY DEF TypeOK, PassRecord
  <1>2. /\ t.kind = "checkpoint" /\ t.digest = pass.grant /\ Counted(t) /\ MentionsHold(t)
    BY <1>1 DEF CopyInv, ImportInv
  <1>3. /\ current' = current /\ published' = published
        /\ \A s \in Secrets : Readable(s)' = Readable(s)
        /\ Counted(t)'
    BY <1>2, ServiceStill DEF serviceVars, indexVars
  <1>4. MentionsHold(t)'
    BY <1>2, <1>3 DEF MentionsHold
  <1> QED
    BY <1>1, <1>2, <1>3, <1>4 DEF ImportInv

LEMMA TakeStep ==
    ASSUME TypeOK, TypeOK', CopyInv, NEW s \in Secrets, TakeImport(s)
    PROVE  CopyInv'
  <1>1. PICK q \in PassRecord : q = Taken(s)
    BY TakenFields DEF TypeOK
  <1>2. /\ q.phase = "imports" /\ q.token = pass.token /\ q.grant = pass.grant
        /\ q.snapshot = pass.snapshot /\ q.todo = pass.todo \ {s}
        /\ \A u \in Secrets : q.entries[u] = IF u = s THEN NoMention ELSE pass.entries[u]
        /\ pass.phase = "imports" /\ s \in pass.todo
        /\ UNCHANGED <<serviceVars, clusterVars>>
    BY <1>1, TakenFields DEF TakeImport, TypeOK
  <1>3. PICK t \in Token : t = pass.token
    BY DEF TypeOK, PassRecord
  <1>4. /\ MentionsHold(t)
        /\ \A u \in pass.grant :
              /\ published[u] <= t.through
              /\ u \in pass.todo => pass.entries[u] = NoMention /\ ~pass.snapshot
              => Vouched(u)
    BY <1>2, <1>3 DEF CopyInv, ImportInv, Importing, Held
  <1>5. /\ IndexInv' /\ CheckpointInv' /\ \A u \in Secrets : Vouched(u)' <=> Vouched(u)
    BY <1>2, ServiceStill, CopiesStill
  <1>6. pass.grant \subseteq Secrets
    BY DEF TypeOK, PassRecord
  <1>7. ASSUME pass'.phase \in {"remove", "fetch"}, pass'.item = s
        PROVE  Held' = {s}
    BY <1>7 DEF Held
  <1>8. CASE ~MayStillRead(s)
    <2>1. pass' = [q EXCEPT !.phase = "remove", !.item = s]
      BY <1>1, <1>8 DEF TakeImport
    <2>2. /\ pass'.phase = "remove" /\ pass'.item = s /\ pass'.token = t
          /\ pass'.grant = pass.grant /\ pass'.snapshot = pass.snapshot
          /\ pass'.todo = q.todo /\ pass'.entries = q.entries
      BY <1>2, <1>3, <2>1 DEF PassRecord
    <2>3. ImportInv'
      BY <1>2, <1>3, <1>4, <1>5, <1>6, <1>7, <2>2, ImportStill DEF Importing
    <2> QED
      BY <1>5, <2>2, <2>3 DEF CopyInv, SyncInv, FetchInv
  <1>9. CASE MayStillRead(s) /\ TrustsCopy(s)
    <2>1. pass' = q
      BY <1>1, <1>9 DEF TakeImport
    <2>2. published[s] <= t.through => Vouched(s)
      <3>1. /\ s \in pass.grant
            /\ pass.entries[s] # NoMention => pass.entries[s].readable
            /\ LocalVersion(s) # None
        BY <1>9 DEF MayStillRead, TrustsCopy
      <3>2. CASE pass.entries[s].version = LocalVersion(s)
        <4>1. pass.entries[s] # NoMention
          BY <3>1, <3>2 DEF NoMention
        <4>2. PICK b \in BOOLEAN : b <=> Readable(s)
          OBVIOUS
        <4>3. PICK e \in Mention : e = pass.entries[s]
          BY DEF TypeOK, PassRecord
        <4>4. published[s] <= t.through => e = [version |-> current[s], readable |-> b]
          BY <1>4, <4>1, <4>2, <4>3, ZenonT(30) DEF MentionsHold, Readable
        <4>5. published[s] <= t.through => e.version = current[s] /\ e.readable = b
          BY <4>4
        <4> QED
          BY <3>1, <3>2, <4>1, <4>2, <4>3, <4>5 DEF Vouched
      <3>3. CASE pass.entries[s] = NoMention /\ ~pass.snapshot
        BY <1>4, <3>1, <3>3
      <3> QED
        BY <1>9, <3>2, <3>3 DEF TrustsCopy
    <2>3. ImportInv'
      BY <1>2, <1>3, <1>4, <1>5, <1>6, <2>1, <2>2, ImportStill DEF Importing
    <2> QED
      BY <1>2, <1>5, <2>1, <2>3 DEF CopyInv, SyncInv, FetchInv
  <1>10. CASE MayStillRead(s) /\ ~TrustsCopy(s)
    <2>1. pass' = [q EXCEPT !.phase = "fetch", !.item = s, !.version = LocalVersion(s)]
      BY <1>1, <1>10 DEF TakeImport, Fetching
    <2>2. /\ pass'.phase = "fetch" /\ pass'.item = s /\ pass'.token = t
          /\ pass'.grant = pass.grant /\ pass'.snapshot = pass.snapshot
          /\ pass'.todo = q.todo /\ pass'.entries = q.entries
      BY <1>2, <1>3, <2>1 DEF PassRecord
    <2>3. ImportInv'
      BY <1>2, <1>3, <1>4, <1>5, <1>6, <1>7, <2>2, ImportStill DEF Importing
    <2> QED
      BY <1>5, <2>2, <2>3 DEF CopyInv, SyncInv, FetchInv
  <1> QED
    BY <1>8, <1>9, <1>10

LEMMA FetchStep == ASSUME TypeOK, TypeOK', CopyInv, AskInv, Fetch PROVE CopyInv'
  <1>1. PICK s \in Secrets : s = pass.item
    BY DEF TypeOK, Fetch
  <1>2. PICK p \in PassRecord : p = pass
    BY DEF TypeOK
  <1>3. PICK t \in Token : t = pass.token
    BY DEF TypeOK, PassRecord
  <1>4. /\ p.phase = "fetch" /\ p.item = s /\ p.token = t /\ Held = {s}
        /\ p.grant \subseteq Secrets
        /\ \A u \in p.grant \ {s} :
              /\ published[u] <= t.through
              /\ u \in p.todo => p.entries[u] = NoMention /\ ~p.snapshot
              => Vouched(u)
        /\ UNCHANGED <<serviceVars, clusterVars>>
    BY <1>1, <1>2, <1>3 DEF Fetch, CopyInv, ImportInv, Importing, Held, PassRecord
  <1>5. /\ IndexInv' /\ CheckpointInv' /\ current' = current
        /\ \A u \in Secrets : (Vouched(u)' <=> Vouched(u)) /\ Readable(u)' = Readable(u)
    BY <1>4, ServiceStill, CopiesStill DEF serviceVars, indexVars
  <1>6. ASSUME pass'.phase \in {"remove", "apply"}, pass'.item = s, pass'.token = t,
               pass'.grant = p.grant, pass'.snapshot = p.snapshot, pass'.todo = p.todo,
               pass'.entries = p.entries,
               pass'.phase = "apply" => pass'.version = current[s] /\ Readable(s)
        PROVE  CopyInv'
    <2>1. Held' = {s}
      BY <1>6 DEF Held
    <2>2. ImportInv'
      BY <1>2, <1>3, <1>4, <1>5, <1>6, <2>1, ImportStill DEF Importing
    <2>3. FetchInv' /\ SyncInv'
      BY <1>5, <1>6 DEF FetchInv, SyncInv
    <2> QED
      BY <1>5, <2>2, <2>3 DEF CopyInv
  <1>7. CASE ~(s \in grant /\ Readable(s))
    <2>1. pass' = [p EXCEPT !.phase = "remove"]
      BY <1>1, <1>2, <1>7 DEF Fetch
    <2> QED
      BY <1>4, <1>6, <2>1 DEF PassRecord
  <1>8. CASE (s \in grant /\ Readable(s)) /\ current[s] # pass.version
    <2>1. pass' = [p EXCEPT !.phase = "apply", !.version = current[s]]
      BY <1>1, <1>2, <1>8 DEF Fetch
    <2> QED
      BY <1>4, <1>6, <1>8, <2>1 DEF PassRecord
  <1>9. CASE (s \in grant /\ Readable(s)) /\ current[s] = pass.version
    <2>1. pass' = NextImport
      BY <1>1, <1>9 DEF Fetch
    <2>2. /\ pass'.phase = "imports" /\ pass'.token = t /\ pass'.grant = p.grant
          /\ pass'.snapshot = p.snapshot /\ pass'.todo = p.todo /\ pass'.entries = p.entries
      BY <1>2, <1>4, <2>1, NextFields
    <2>3. Vouched(s)
      BY <1>1, <1>2, <1>4, <1>9 DEF AskInv, Vouched
    <2>4. ImportInv'
      BY <1>2, <1>3, <1>4, <1>5, <2>2, <2>3, ImportStill DEF Importing
    <2>5. FetchInv' /\ SyncInv'
      BY <2>2 DEF FetchInv, SyncInv
    <2> QED
      BY <1>5, <2>4, <2>5 DEF CopyInv
  <1> QED
    BY <1>7, <1>8, <1>9

\* The copy of the import at hand changes: it is dropped, or it becomes what was fetched.
LEMMA CopyStep ==
    ASSUME TypeOK, TypeOK', CopyInv, Apply \/ Record \/ Remove \/ ClearStatus \/ FailImport
    PROVE  CopyInv'
  <1>1. PICK s \in Secrets : s = pass.item
    BY DEF TypeOK, Apply, Record, Remove, ClearStatus, FailImport
  <1>2. PICK p \in PassRecord : p = pass
    BY DEF TypeOK
  <1>3. PICK t \in Token : t = pass.token
    BY DEF TypeOK, PassRecord
  <1>4. PICK d \in Token : d = checkpoint
    BY DEF TypeOK
  <1>5. /\ p.phase \in {"fetch", "apply", "record", "remove", "clear"}
        /\ p.item = s /\ p.token = t /\ Held = {s} /\ p.grant \subseteq Secrets
        /\ \A u \in p.grant \ {s} :
              /\ published[u] <= t.through
              /\ u \in p.todo => p.entries[u] = NoMention /\ ~p.snapshot
              => Vouched(u)
        /\ UNCHANGED serviceVars /\ checkpoint' = checkpoint
    BY <1>1, <1>2, <1>3 DEF Apply, Record, Remove, ClearStatus, FailImport,
                            CopyInv, ImportInv, Importing, Held, PassRecord
  <1>6. /\ IndexInv' /\ current' = current /\ published' = published
        /\ \A u \in Secrets : Readable(u)' = Readable(u)
    BY <1>5, ServiceStill DEF serviceVars, indexVars
  <1>7. /\ p.phase \in {"apply", "record"} /\ (\/ published[s] <= t.through
                                               \/ d.kind = "checkpoint" /\ published[s] <= d.through)
        => p.version = current[s] /\ Readable(s)
    BY <1>1, <1>2, <1>3, <1>4 DEF CopyInv, FetchInv
  <1>8. \A u \in Secrets \ {s} : LocalVersion(u)' = LocalVersion(u)
    BY <1>1 DEF Apply, Record, Remove, ClearStatus, FailImport, LocalVersion, TypeOK
  <1>9. \/ LocalVersion(s)' = None
        \/ p.phase \in {"apply", "record"} /\ LocalVersion(s)' = p.version
    BY <1>1, <1>2 DEF Apply, Record, Remove, ClearStatus, FailImport, LocalVersion, TypeOK
  <1>10. \/ published[s] <= t.through
         \/ d.kind = "checkpoint" /\ published[s] <= d.through
         => Vouched(s)'
    BY <1>6, <1>7, <1>9 DEF Vouched
  <1>11. CheckpointInv' /\ \A u \in Secrets \ {s} : Vouched(u) => Vouched(u)'
    BY <1>4, <1>5, <1>8, <1>10, CopyChanges
  <1>12. /\ pass'.token = t /\ pass'.grant = p.grant /\ pass'.snapshot = p.snapshot
         /\ pass'.todo = p.todo /\ pass'.entries = p.entries
         /\ \/ pass'.phase = "imports"
            \/ pass'.phase = "clear" /\ pass'.item = s
            \/ pass'.phase = "record" /\ p.phase = "apply" /\ pass'.item = s
               /\ pass'.version = p.version
    <2>1. CASE Apply
      BY <1>1, <1>2, <1>3, <2>1 DEF Apply, PassRecord
    <2>2. CASE Remove
      BY <1>1, <1>2, <1>3, <2>2 DEF Remove, PassRecord
    <2>3. CASE Record \/ ClearStatus
      BY <1>2, <1>3, <2>3, NextFields DEF Record, ClearStatus
    <2>4. CASE FailImport
      BY <1>2, <1>3, <2>4, NextFields DEF FailImport, PassRecord
    <2> QED
      BY <2>1, <2>2, <2>3, <2>4
  <1>13. pass'.phase # "imports" => Held' = {s}
    BY <1>12 DEF Held
  <1>14. ImportInv'
    <2>1. ASSUME NEW u \in pass.grant \ Held',
                 published[u] <= t.through,
                 u \in pass'.todo => pass'.entries[u] = NoMention /\ ~p.snapshot
          PROVE  Vouched(u)'
      BY <1>2, <1>5, <1>10, <1>11, <1>12, <1>13, <2>1
    <2> QED
      BY <1>2, <1>3, <1>5, <1>12, <2>1, ImportStill DEF Importing
  <1>15. FetchInv' /\ SyncInv'
    BY <1>4, <1>5, <1>6, <1>7, <1>12 DEF FetchInv, SyncInv
  <1> QED
    BY <1>6, <1>11, <1>14, <1>15 DEF CopyInv

\* A copy is given up outside an import of its own.
LEMMA GiveUpStep ==
    ASSUME TypeOK, TypeOK', CopyInv, NEW s \in Secrets,
           FailLookup(s) \/ ConsumerNotReady(s) \/ Damage(s)
    PROVE  CopyInv'
  <1>1. /\ UNCHANGED serviceVars /\ checkpoint' = checkpoint /\ LocalVersion(s)' = None
        /\ \A u \in Secrets \ {s} : LocalVersion(u)' = LocalVersion(u)
    BY DEF FailLookup, ConsumerNotReady, Damage, LocalVersion, TypeOK
  <1>2. Vouched(s)'
    BY <1>1 DEF Vouched
  <1>3. /\ IndexInv' /\ CheckpointInv' /\ current' = current /\ published' = published
        /\ \A u \in Secrets : Vouched(u) => Vouched(u)'
        /\ \A u \in Secrets : Readable(u)' = Readable(u)
    BY <1>1, <1>2, ServiceStill, CopyChanges DEF serviceVars, indexVars
  <1>4. PICK p \in PassRecord : p = pass
    BY DEF TypeOK
  <1>5. PICK t \in Token : t = pass.token
    BY DEF TypeOK, PassRecord
  <1>6. p.grant \subseteq Secrets
    BY DEF PassRecord
  <1>7. CASE FailLookup(s)
    <2>1. /\ pass'.phase = "imports" /\ p.phase = "imports" /\ pass'.token = t
          /\ pass'.grant = p.grant /\ pass'.snapshot = p.snapshot /\ pass'.todo = p.todo \ {s}
          /\ \A u \in Secrets : pass'.entries[u] = IF u = s THEN NoMention ELSE p.entries[u]
      BY <1>4, <1>5, <1>7, TakenFields DEF FailLookup, PassRecord
    <2>2. \A u \in p.grant :
              /\ published[u] <= t.through
              /\ u \in p.todo => p.entries[u] = NoMention /\ ~p.snapshot
              => Vouched(u)
      BY <1>4, <1>5, <2>1 DEF CopyInv, ImportInv, Importing, Held
    <2>3. ImportInv'
      BY <1>1, <1>2, <1>3, <1>4, <1>5, <1>6, <2>1, <2>2, ImportStill DEF Importing
    <2>4. SyncInv' /\ FetchInv'
      BY <2>1 DEF SyncInv, FetchInv
    <2> QED
      BY <1>3, <2>3, <2>4 DEF CopyInv
  <1>8. CASE ConsumerNotReady(s)
    <2>1. pass'.phase = "unready"
      BY <1>8 DEF ConsumerNotReady, TypeOK, PassRecord
    <2> QED
      BY <1>3, <2>1 DEF CopyInv, SyncInv, ImportInv, FetchInv, Importing
  <1>9. CASE Damage(s)
    <2>1. pass' = pass
      BY <1>9 DEF Damage
    <2>2. ImportInv'
      <3> SUFFICES ASSUME p.phase \in Importing PROVE ImportInv'
        BY <1>4, <2>1 DEF ImportInv
      <3>1. /\ Held' = Held
            /\ \A u \in p.grant \ Held :
                  /\ published[u] <= t.through
                  /\ u \in p.todo => p.entries[u] = NoMention /\ ~p.snapshot
                  => Vouched(u)
        BY <1>4, <1>5, <2>1 DEF CopyInv, ImportInv, Held
      <3> QED
        BY <1>1, <1>3, <1>4, <1>5, <1>6, <2>1, <3>1, ImportStill
    <2>3. SyncInv'
      <3>1. \A c \in Token : CycleInv(c) => CycleInv(c)'
        BY <1>1, <2>1, CycleStill
      <3>2. pass.token \in Token /\ pass.cycle \in Token
        BY DEF TypeOK, PassRecord
      <3>3. PICK c \in Token : c = pass.cycle
        BY <3>2
      <3>4. (CycleInv(t) => CycleInv(t)') /\ (CycleInv(c) => CycleInv(c)')
        BY <3>1
      <3>5. clock' = clock
        BY <1>1 DEF serviceVars
      <3> QED
        BY <1>1, <1>5, <2>1, <3>3, <3>4, <3>5 DEF CopyInv, SyncInv, Silent
    <2>4. FetchInv'
      BY <1>1, <1>3, <1>5, <2>1 DEF CopyInv, FetchInv, TypeOK
    <2> QED
      BY <1>3, <2>2, <2>3, <2>4 DEF CopyInv
  <1> QED
    BY <1>7, <1>8, <1>9

LEMMA EndStep == ASSUME TypeOK, TypeOK', CopyInv, EndPass \/ Crash PROVE CopyInv'
  <1>1. pass'.phase = "idle" /\ UNCHANGED <<serviceVars, target, status>>
    BY NoPassType DEF EndPass, Crash, clusterVars
  <1>2. SyncInv' /\ ImportInv' /\ FetchInv'
    BY <1>1 DEF SyncInv, ImportInv, FetchInv, Importing
  <1>3. CASE checkpoint' = checkpoint
    BY <1>1, <1>2, <1>3, ServiceStill, CopiesStill DEF CopyInv, clusterVars
  <1>4. CASE checkpoint' # checkpoint
    <2>1. PICK t \in Token : t = pass.token
      BY DEF TypeOK, PassRecord
    <2>2. checkpoint' = t /\ pass.phase = "imports" /\ pass.todo = {}
      BY <1>4, <2>1 DEF EndPass, Crash, clusterVars
    <2>3. /\ t.kind = "checkpoint" /\ t.digest = pass.grant /\ Counted(t)
          /\ \A s \in t.digest : published[s] <= t.through => Vouched(s)
      BY <2>1, <2>2 DEF CopyInv, ImportInv, Importing, Held
    <2>4. Counted(t)' /\ t.digest \subseteq Secrets
      BY <1>1, <2>3, ServiceStill DEF Token
    <2>5. /\ current' = current /\ published' = published
          /\ \A s \in Secrets : Readable(s)' = Readable(s)
      BY <1>1, ServiceStill DEF serviceVars, indexVars
    <2>6. \A s \in Secrets : Vouched(s) => Vouched(s)'
      BY <1>1, <2>5 DEF Vouched, LocalVersion
    <2>7. CheckpointInv'
      BY <2>2, <2>3, <2>4, <2>5, <2>6 DEF CheckpointInv
    <2> QED
      BY <1>1, <1>2, <2>7, ServiceStill DEF CopyInv
  <1> QED
    BY <1>3, <1>4

LEMMA AskStep == ASSUME TypeOK, AskInv, [MirrorNext]_allVars PROVE AskInv'
  <1> SUFFICES ASSUME pass'.phase = "fetch"
               PROVE  (LocalVersion(pass.item) \in {None, pass.version})'
    BY DEF AskInv
  <1>1. ASSUME NEW s \in Secrets, TakeImport(s)
        PROVE  (LocalVersion(pass.item) \in {None, pass.version})'
    <2>1. PICK q \in PassRecord : q = Taken(s) /\ q.phase = "imports"
      BY <1>1, TakenFields DEF TakeImport, TypeOK
    <2>2. pass' = [q EXCEPT !.phase = "fetch", !.item = s, !.version = LocalVersion(s)]
      BY <1>1, <2>1 DEF TakeImport, Fetching, PassRecord
    <2>3. /\ pass'.item = s /\ pass'.version = LocalVersion(s)
          /\ target' = target /\ status' = status
      BY <1>1, <2>1, <2>2 DEF TakeImport, PassRecord, clusterVars
    <2> QED
      BY <2>3 DEF LocalVersion
  <1>2. CASE /\ pass' = pass /\ status' = status
             /\ \/ target' = target
                \/ \E s \in Secrets : target' = [target EXCEPT ![s] = None]
    <2>1. pass.item \in Secrets /\ LocalVersion(pass.item) \in {None, pass.version}
      BY <1>2 DEF AskInv, TypeOK
    <2>2. CASE target' = target
      BY <1>2, <2>1, <2>2 DEF LocalVersion
    <2>3. ASSUME NEW s \in Secrets, target' = [target EXCEPT ![s] = None]
          PROVE  target'[pass.item] \in {target[pass.item], None}
      BY <2>1, <2>3 DEF TypeOK
    <2> QED
      BY <1>2, <2>1, <2>2, <2>3 DEF LocalVersion
  <1>3. CASE UNCHANGED allVars \/ ChangeGrant \/ Tick
             \/ \E s \in Secrets : Change(s) \/ ForgetMarker(s) \/ Damage(s)
    BY <1>2, <1>3 DEF Change, ForgetMarker, Damage, ChangeGrant, Tick, allVars, clusterVars
  <1>4. ASSUME PassStep \/ SyncFail \/ FailImport \/ Crash
               \/ \E s \in Secrets : FailLookup(s),
               \A s \in Secrets : ~TakeImport(s)
        PROVE  FALSE
    <2>1. CASE \E s \in Secrets : ConsumerNotReady(s) \/ FailLookup(s)
      BY <2>1, TakenFields DEF ConsumerNotReady, FailLookup, TypeOK, PassRecord
    <2>2. CASE StartPass \/ SyncGrant \/ SyncState \/ SyncReset \/ SyncPage
      BY <2>2, NoPassType DEF StartPass, SyncGrant, SyncState, SyncReset, SyncPage, TypeOK,
                              PassRecord
    <2>3. CASE SyncRefused \/ SyncFail \/ EndPass \/ Crash
      BY <2>3, NoPassType DEF SyncRefused, SyncFail, FailConsumer, EndPass, Crash, PassRecord
    <2>4. CASE Fetch \/ Apply \/ Record \/ Remove \/ ClearStatus \/ FailImport
      BY <2>4, NextFields DEF Fetch, Apply, Record, Remove, ClearStatus, FailImport, TypeOK,
                              PassRecord
    <2> QED
      BY <1>4, <2>1, <2>2, <2>3, <2>4 DEF PassStep
  <1> QED
    BY <1>1, <1>3, <1>4 DEF MirrorNext

LEMMA MirrorStep ==
    ASSUME TypeOK, CopyInv, AskInv, [MirrorNext]_allVars
    PROVE  TypeOK' /\ CopyInv' /\ AskInv'
  <1>1. TypeOK'
    BY TypeStep
  <1>2. AskInv'
    BY AskStep
  <1>3. CASE \/ \E s \in Secrets : Change(s) \/ ForgetMarker(s)
             \/ ChangeGrant \/ Tick
    <2>1. /\ Forward /\ IndexInv' /\ UNCHANGED <<clusterVars, pass>>
          /\ pass.phase = "located" => clock' = clock
      BY <1>3, ServiceForward DEF CopyInv
    <2> QED
      BY <1>1, <1>2, <2>1, ForwardKeeps DEF CopyInv
  <1>4. CASE UNCHANGED allVars
    <2>1. /\ Forward /\ IndexInv' /\ UNCHANGED <<clusterVars, pass>> /\ clock' = clock
      BY <1>4 DEF allVars, serviceVars, indexVars, Forward, CopyInv, IndexInv, TypeOK, Readable
    <2> QED
      BY <1>1, <1>2, <2>1, ForwardKeeps DEF CopyInv
  <1> QED
    BY <1>1, <1>2, <1>3, <1>4, SyncStep, TakeStep, FetchStep, CopyStep, GiveUpStep, EndStep
       DEF MirrorNext, PassStep

-----------------------------------------------------------------------------
(* What follows *)

\* A checkpoint that the service would accept vouches for no stale copy, and tokens,
\* copies and statuses are well formed: whatever moves in the index between the pages
\* of a cycle, however imports and passes fail and whatever markers are forgotten, in
\* every reachable state of every cluster.
THEOREM CheckpointsVouch == MirrorSpec => []MirrorInv
  <1>1. MirrorInit => TypeOK /\ CopyInv /\ AskInv
    BY TypeInit, CopyInit, NoPassType DEF MirrorInit, AskInv
  <1>2. TypeOK /\ CopyInv /\ AskInv /\ [MirrorNext]_allVars => (TypeOK /\ CopyInv /\ AskInv)'
    BY MirrorStep
  <1>3. TypeOK /\ CopyInv => MirrorInv
    <2> SUFFICES ASSUME TypeOK, CopyInv, checkpoint.kind = "checkpoint",
                        checkpoint.digest = grant, NEW s \in grant,
                        published[s] <= checkpoint.through, LocalVersion(s) # None
                 PROVE  LocalVersion(s) = current[s] /\ Readable(s)
      BY DEF MirrorInv, CheckpointVouchesForCopies
    <2> QED
      BY DEF CopyInv, CheckpointInv, Vouched
  <1> QED
    BY <1>1, <1>2, <1>3, PTL DEF MirrorSpec
-----------------------------------------------------------------------------
(* Pages of rows in the order of an index *)

\* The rows that come before each row make a strict total order.
Ordered(before) ==
    \A u \in Uids :
        /\ before[u] \subseteq Uids /\ u \notin before[u]
        /\ \A v \in before[u] : before[v] \subseteq before[u]
        /\ \A v \in Uids : u = v \/ u \in before[v] \/ v \in before[u]

LEMMA UidsAreOrdered == Ordered(ByUid)
  <1>1. \A u, v \in Uids : u \in Nat /\ v \in Nat
    BY UidsAssumption
  <1> QED
    BY <1>1 DEF Ordered, ByUid

LEMMA NamesAreOrdered == Ordered(ByName)
  <1>1. \A u \in Uids : u \in Nat /\ NameOrder[NameOf[u]] \in Nat
    BY UidsAssumption, NamesAssumption
  <1>2. \A u, v \in Uids : NameOrder[NameOf[u]] = NameOrder[NameOf[v]] <=> NameOf[u] = NameOf[v]
    BY NamesAssumption
  <1>3. ASSUME NEW u \in Uids, NEW v \in Uids, NEW w \in Uids,
               Precedes(w, v), Precedes(v, u)
        PROVE  Precedes(w, u)
    BY <1>1, <1>2, <1>3 DEF Precedes
  <1>4. ASSUME NEW u \in Uids, NEW v \in Uids PROVE u = v \/ Precedes(u, v) \/ Precedes(v, u)
    BY <1>1, <1>2 DEF Precedes
  <1>5. \A u \in Uids : ~Precedes(u, u)
    BY <1>1 DEF Precedes
  <1> QED
    BY <1>3, <1>4, <1>5 DEF Ordered, ByName

LEMMA FewUids == ASSUME NEW S, S \subseteq Uids PROVE IsFiniteSet(S) /\ Cardinality(S) \in Nat
  BY UidsAssumption, FS_Subset, FS_CardinalityType

\* What comes later has more rows before it.
LEMMA RanksGrow ==
    ASSUME NEW before, Ordered(before), NEW rows, rows \subseteq Uids,
           NEW u \in rows, NEW v \in Uids, u \in before[v]
    PROVE  Cardinality(rows \cap before[u]) < Cardinality(rows \cap before[v])
  <1>1. rows \cap before[u] \subseteq rows \cap before[v] /\ rows \cap before[u] # rows \cap before[v]
    BY DEF Ordered
  <1>2. Cardinality(rows \cap before[u]) <= Cardinality(rows \cap before[v])
        /\ Cardinality(rows \cap before[u]) # Cardinality(rows \cap before[v])
    <2>1. IsFiniteSet(rows \cap before[v])
      BY FewUids
    <2> QED
      BY <1>1, <2>1, FS_Subset
  <1>3. Cardinality(rows \cap before[u]) \in Nat /\ Cardinality(rows \cap before[v]) \in Nat
    BY FewUids
  <1> QED
    BY <1>2, <1>3

\* A page is a first part of its rows, all of them when it is short of its limit.
LEMMA FirstRows ==
    ASSUME NEW before, Ordered(before), NEW rows, rows \subseteq Uids, NEW n \in Nat \ {0}
    PROVE  LET page == FirstOf(rows, n, before) IN
           /\ page \subseteq rows
           /\ \A v \in page, u \in rows : u \in before[v] => u \in page
           /\ page # rows => Cardinality(page) = n
           /\ Cardinality(page) <= n
  <1> DEFINE page == FirstOf(rows, n, before)
             rank(u) == Cardinality(rows \cap before[u])
  <1>1. page \subseteq rows /\ \A u \in rows : u \in page <=> rank(u) < n
    BY DEF FirstOf
  <1>2. \A u \in Uids : rank(u) \in Nat
    BY FewUids
  <1>3. \A u \in rows, v \in Uids : u \in before[v] => rank(u) < rank(v)
    BY RanksGrow
  <1> HIDE DEF page, rank
  <1>4. ASSUME NEW v \in page, NEW u \in rows, u \in before[v] PROVE u \in page
    <2>1. rank(u) < rank(v) /\ rank(v) < n /\ rank(u) \in Nat /\ rank(v) \in Nat
      BY <1>1, <1>2, <1>3, <1>4
    <2> QED
      BY <1>1, <2>1
  \* No two rows of a page have as many before them.
  <1>5. Cardinality(page) <= n
    <2> DEFINE ranks == [u \in page |-> rank(u)]
    <2>1. ranks \in [page -> 0 .. n - 1]
      BY <1>1, <1>2
    <2>2. \A u, v \in page : ranks[u] = ranks[v] => u = v
      <3> SUFFICES ASSUME NEW u \in page, NEW v \in page, u # v PROVE rank(u) # rank(v)
        OBVIOUS
      <3>1. u \in Uids /\ v \in Uids /\ u \in rows /\ v \in rows
        BY <1>1
      <3>2. rank(u) < rank(v) \/ rank(v) < rank(u)
        BY <1>3, <3>1 DEF Ordered
      <3> QED
        BY <1>2, <3>1, <3>2
    <2>3. ranks \in Injection(page, 0 .. n - 1)
      BY <2>1, <2>2 DEF Injection, IsInjective
    <2>4. IsFiniteSet(0 .. n - 1) /\ Cardinality(0 .. n - 1) = n
      BY FS_Interval
    <2> QED
      BY <2>3, <2>4, FS_Injection
  \* The first row that is missing has the page before it.
  <1>6. ASSUME page # rows PROVE Cardinality(page) = n
    <2> DEFINE Missed == {rank(u) : u \in rows \ page}
    <2>1. PICK k \in Missed : \A m \in Missed : k <= m
      <3>1. Missed \subseteq Nat /\ Missed # {}
        BY <1>1, <1>2, <1>6
      <3> HIDE DEF Missed
      <3> QED
        BY <3>1, Least
    <2>2. PICK w \in rows \ page : rank(w) = k
      BY <2>1
    <2>3. rows \cap before[w] \subseteq page
      <3> SUFFICES ASSUME NEW u \in rows, u \in before[w], u \notin page PROVE FALSE
        OBVIOUS
      <3>1. rank(u) < rank(w) /\ rank(u) \in Nat /\ rank(w) \in Nat
        BY <1>2, <1>3
      <3>2. rank(w) <= rank(u)
        BY <2>1, <2>2
      <3> QED
        BY <3>1, <3>2
    <2>4. rank(w) <= Cardinality(page)
      <3>1. IsFiniteSet(page)
        BY <1>1, FewUids
      <3> QED
        BY <2>3, <3>1, FS_Subset DEF rank
    <2>5. ~(rank(w) < n) /\ rank(w) \in Nat /\ Cardinality(page) \in Nat
      BY <1>1, <1>2, FewUids
    <2> QED
      BY <1>5, <2>4, <2>5
  <1> QED
    BY <1>1, <1>4, <1>5, <1>6 DEF page

\* The last row of a page.
LEMMA LastRow ==
    ASSUME NEW before, Ordered(before), NEW page, page \subseteq Uids, page # {}
    PROVE  \E u \in page : \A v \in page : v = u \/ v \in before[u]
  <1> DEFINE rank(u) == Cardinality(page \cap before[u])
             Ranks == {rank(u) : u \in page}
  <1>1. \A u \in page : rank(u) \in Nat /\ rank(u) <= Cardinality(page) /\ Cardinality(page) \in Nat
    <2> TAKE u \in page
    <2>1. IsFiniteSet(page) /\ page \cap before[u] \in SUBSET page
      BY FewUids
    <2> QED
      BY <2>1, FewUids, FS_Subset
  <1>2. Ranks \subseteq Nat /\ Ranks # {} /\ \A k \in Ranks : k <= Cardinality(page)
    BY <1>1
  <1>3. PICK u \in page : \A k \in Ranks : k <= rank(u)
    <2>1. Max(Ranks) \in Ranks /\ \A k \in Ranks : k <= Max(Ranks)
      <3> HIDE DEF Ranks
      <3> QED
        BY <1>1, <1>2, Greatest
    <2> QED
      BY <2>1
  <1>4. ASSUME NEW v \in page, v # u, v \notin before[u] PROVE FALSE
    <2>1. u \in before[v]
      BY <1>4 DEF Ordered
    <2>2. rank(u) < rank(v)
      BY <2>1, RanksGrow
    <2>3. rank(v) <= rank(u)
      BY <1>3
    <2> QED
      BY <1>1, <2>2, <2>3
  <1> QED
    BY <1>4
-----------------------------------------------------------------------------
(* Sums *)

\* Counting the members of B by what seg says of them counts B: the sum that a fold
\* computes is the only function that satisfies its defining equation.
LEMMA CountsAddUp ==
    ASSUME NEW B, IsFiniteSet(B), NEW D, IsFiniteSet(D), NEW seg \in [B -> D],
           NEW f, f = [s \in D |-> Cardinality({u \in B : seg[u] = s})]
    PROVE  SumFunction(f) = Cardinality(B)
  <1> DEFINE Picked(S) == CHOOSE x \in S : TRUE
             Sums(g) == g = [S \in SUBSET D |->
                                IF S = {} THEN 0 ELSE f[Picked(S)] + g[S \ {Picked(S)}]]
             Sized == [S \in SUBSET D |-> Cardinality({u \in B : seg[u] \in S})]
             fold == CHOOSE g : Sums(g)
  <1>1. SumFunction(f) = fold[D]
    BY DEF SumFunction, SumFunctionOnSet, FoldFunctionOnSet, MapThenFoldSet
  <1>2. \A S \in SUBSET D : S # {} => Picked(S) \in S
    OBVIOUS
  <1>3. Sums(Sized)
    <2>1. ASSUME NEW S \in SUBSET D, S = {} PROVE Sized[S] = 0
      <3>1. {u \in B : seg[u] \in S} = {}
        BY <2>1
      <3> QED
        BY <3>1, FS_EmptySet
    <2>2. ASSUME NEW S \in SUBSET D, S # {}
          PROVE  Sized[S] = f[Picked(S)] + Sized[S \ {Picked(S)}]
      <3> DEFINE x == Picked(S)
                 Here == {u \in B : seg[u] = x}
                 Rest == {u \in B : seg[u] \in S \ {x}}
                 All == {u \in B : seg[u] \in S}
      <3>1. x \in S /\ x \in D
        BY <1>2, <2>2
      <3>2. All = Here \cup Rest /\ Here \cap Rest = {}
        BY <3>1
      <3>3. IsFiniteSet(Here) /\ IsFiniteSet(Rest)
        BY FS_Subset
      <3>4. Cardinality(Here) \in Nat /\ Cardinality(Rest) \in Nat
        BY <3>3, FS_CardinalityType
      <3>5. Cardinality(All) = Cardinality(Here) + Cardinality(Rest) - Cardinality({})
        BY <3>2, <3>3, FS_Union
      <3>6. Cardinality(All) = Cardinality(Here) + Cardinality(Rest)
        BY <3>4, <3>5, FS_EmptySet
      <3>7. f[x] = Cardinality(Here) /\ Sized[S] = Cardinality(All)
            /\ Sized[S \ {x}] = Cardinality(Rest)
        BY <3>1
      <3> QED
        BY <3>6, <3>7
    <2> QED
      BY <2>1, <2>2
  <1>4. Sums(fold)
    BY <1>3
  \* A smallest set on which they differ leaves one to differ on.
  <1>5. ASSUME NEW S \in SUBSET D, fold[S] # Sized[S] PROVE FALSE
    <2> DEFINE Differ == {T \in SUBSET D : fold[T] # Sized[T]}
               Sizes == {Cardinality(T) : T \in Differ}
    <2>1. \A T \in SUBSET D : IsFiniteSet(T) /\ Cardinality(T) \in Nat
      BY FS_Subset, FS_CardinalityType
    <2>2. PICK k \in Sizes : \A m \in Sizes : k <= m
      <3>1. Sizes \subseteq Nat /\ Sizes # {}
        BY <1>5, <2>1
      <3> HIDE DEF Sizes
      <3> QED
        BY <3>1, Least
    <2>3. PICK T \in Differ : Cardinality(T) = k
      BY <2>2
    <2> DEFINE x == Picked(T)
    <2>4. T # {}
      BY <1>3, <1>4, <2>3
    <2>5. x \in T /\ T \ {x} \in SUBSET D
      BY <1>2, <2>3, <2>4
    <2>6. Cardinality(T \ {x}) = Cardinality(T) - 1 /\ Cardinality(T) \in Nat
      BY <2>1, <2>3, <2>5, FS_RemoveElement
    <2>7. T \ {x} \notin Differ
      <3> SUFFICES ASSUME T \ {x} \in Differ PROVE FALSE
        OBVIOUS
      <3>1. Cardinality(T) <= Cardinality(T \ {x})
        BY <2>2, <2>3
      <3> QED
        BY <2>6, <3>1
    <2>8. fold[T] = f[x] + fold[T \ {x}] /\ Sized[T] = f[x] + Sized[T \ {x}]
      <3> HIDE DEF fold, Sized, Picked
      <3> QED
        BY <1>3, <1>4, <2>3, <2>4
    <2> QED
      BY <2>3, <2>5, <2>7, <2>8
  <1>6. fold[D] = Sized[D]
    BY <1>5
  <1>7. {u \in B : seg[u] \in D} = B
    OBVIOUS
  <1> QED
    BY <1>1, <1>6, <1>7
-----------------------------------------------------------------------------
(* The folder tree *)

RowsUnder(place, prefix) == {u \in Partition(place) : Under(NameOf[u], prefix)}
ReadyUnder(place, prefix) == {u \in RowsUnder(place, prefix) : head[u] # "PREPARED"}
Below(place, prefix) == {u \in ReadyUnder(place, prefix) : Folder(NameOf[u]) # prefix}

LEMMA RowsAreUids ==
    ASSUME NEW place, NEW prefix
    PROVE  RowsUnder(place, prefix) \subseteq Uids
  BY DEF RowsUnder, Partition

\* What is not marked truncated has read all its rows.
LEMMA UntruncatedIsShort ==
    ASSUME NEW place, NEW prefix, NEW bound \in Nat \ {0},
           ~TreePage(place, prefix, bound).truncated
    PROVE  Cardinality(RowsUnder(place, prefix)) <= bound
  <1> DEFINE rows == RowsUnder(place, prefix)
             scanned == FirstOf(rows, bound + 1, ByName)
  <1>1. bound + 1 \in Nat \ {0} /\ rows \subseteq Uids
    BY RowsAreUids
  <1>2. Cardinality(scanned) # bound + 1
    BY DEF TreePage, RowsUnder
  <1>3. (scanned # rows => Cardinality(scanned) = bound + 1) /\ Cardinality(scanned) <= bound + 1
    BY <1>1, FirstRows, NamesAreOrdered
  <1>4. Cardinality(rows) \in Nat
    BY <1>1, FewUids
  <1> QED
    BY <1>2, <1>3, <1>4

LEMMA TreeOfFewRows ==
    ASSUME NEW place, NEW prefix, NEW bound \in Nat \ {0},
           Cardinality(RowsUnder(place, prefix)) <= bound
    PROVE  LET below == Below(place, prefix)
               tree == TreePage(place, prefix, bound) IN
           /\ tree.secrets = ReadyUnder(place, prefix) \ below
           /\ tree.folders = [s \in {Segment(NameOf[u], prefix) : u \in below} |->
                                Cardinality({u \in below : Segment(NameOf[u], prefix) = s})]
  <1> DEFINE rows == RowsUnder(place, prefix)
             answered == ReadyUnder(place, prefix)
             scanned == FirstOf(rows, bound + 1, ByName)
             items == {u \in scanned : head[u] # "PREPARED"}
             bounded == FirstOf(items, bound, ByName)
  <1>1. /\ bound + 1 \in Nat \ {0} /\ rows \subseteq Uids /\ answered \subseteq rows
        /\ IsFiniteSet(rows) /\ Cardinality(rows) \in Nat
    BY RowsAreUids, FewUids DEF ReadyUnder
  <1>2. scanned = rows
    <2>1. scanned \subseteq rows /\ (scanned # rows => Cardinality(scanned) = bound + 1)
      BY <1>1, FirstRows, NamesAreOrdered
    <2>2. Cardinality(scanned) <= Cardinality(rows) /\ Cardinality(scanned) \in Nat
      BY <1>1, <2>1, FS_Subset, FewUids
    <2> QED
      BY <1>1, <2>1, <2>2
  <1>3. items = answered
    BY <1>2 DEF ReadyUnder
  <1>4. bounded = answered
    <2>1. bounded \subseteq answered /\ (bounded # answered => Cardinality(bounded) = bound)
      BY <1>1, <1>3, FirstRows, NamesAreOrdered
    <2>2. IsFiniteSet(answered) /\ Cardinality(answered) <= Cardinality(rows)
      BY <1>1, FS_Subset
    <2>3. /\ Cardinality(bounded) <= Cardinality(answered)
          /\ Cardinality(bounded) = Cardinality(answered) => bounded = answered
          /\ Cardinality(bounded) \in Nat /\ Cardinality(answered) \in Nat
      BY <2>1, <2>2, FS_Subset, FS_CardinalityType
    <2> QED
      BY <1>1, <2>1, <2>2, <2>3
  <1>5. {u \in bounded : Folder(NameOf[u]) # prefix} = Below(place, prefix)
    BY <1>4 DEF Below
  <1>6. TreePage(place, prefix, bound) =
          LET below == {u \in bounded : Folder(NameOf[u]) # prefix} IN
          [secrets |-> bounded \ below,
           folders |-> [s \in {Segment(NameOf[u], prefix) : u \in below} |->
                          Cardinality({u \in below : Segment(NameOf[u], prefix) = s})],
           truncated |-> Cardinality(items) > bound \/ Cardinality(scanned) = bound + 1]
    BY DEF TreePage, RowsUnder
  <1> HIDE DEF bounded
  <1> QED
    BY <1>4, <1>5, <1>6

\* Such a tree accounts for every ready secret.
LEMMA FewRowsAddUp ==
    ASSUME NEW place, NEW prefix, NEW bound \in Nat \ {0},
           Cardinality(RowsUnder(place, prefix)) <= bound
    PROVE  Total(TreePage(place, prefix, bound)) = Cardinality(ReadyUnder(place, prefix))
  <1> DEFINE answered == ReadyUnder(place, prefix)
             below == Below(place, prefix)
             tree == TreePage(place, prefix, bound)
             seg == [u \in below |-> Segment(NameOf[u], prefix)]
             D == {Segment(NameOf[u], prefix) : u \in below}
  <1>1. /\ tree.secrets = answered \ below
        /\ tree.folders = [s \in D |-> Cardinality({u \in below : seg[u] = s})]
    <2>1. \A s : {u \in below : seg[u] = s} = {u \in below : Segment(NameOf[u], prefix) = s}
      OBVIOUS
    <2> HIDE DEF seg, below, tree
    <2>2. tree.folders = [s \in D |-> Cardinality({u \in below : Segment(NameOf[u], prefix) = s})]
      BY TreeOfFewRows DEF below, tree
    <2> QED
      BY TreeOfFewRows, <2>1, <2>2 DEF below, tree
  <1>2. answered \subseteq Uids /\ below \subseteq answered
    BY RowsAreUids DEF ReadyUnder, Below
  <1>3. IsFiniteSet(below) /\ IsFiniteSet(answered \ below) /\ IsFiniteSet(answered)
        /\ Cardinality(below) \in Nat /\ Cardinality(answered \ below) \in Nat
    BY <1>2, FewUids
  <1>4. IsFiniteSet(D) /\ seg \in [below -> D]
    <2>1. seg \in Surjection(below, D)
      BY DEF Surjection
    <2> QED
      BY <1>3, <2>1, FS_Surjection
  <1>5. SumFunction(tree.folders) = Cardinality(below)
    <2> HIDE DEF seg, below, D, tree
    <2> QED
      BY <1>1, <1>3, <1>4, CountsAddUp
  <1>6. Cardinality(answered) = Cardinality(answered \ below) + Cardinality(below)
    <2>1. answered = (answered \ below) \cup below /\ (answered \ below) \cap below = {}
      BY <1>2
    <2> HIDE DEF answered, below
    <2>2. Cardinality((answered \ below) \cup below) =
            Cardinality(answered \ below) + Cardinality(below) - Cardinality((answered \ below) \cap below)
      BY <1>3, FS_Union
    <2>3. Cardinality((answered \ below) \cap below) = 0
      BY <2>1, FS_EmptySet
    <2>4. Cardinality(answered) = Cardinality((answered \ below) \cup below)
      BY <2>1
    <2> QED
      BY <1>3, <2>2, <2>3, <2>4
  <1> HIDE DEF seg, below, D, tree, answered
  <1>8. Total(tree) = Cardinality(answered \ below) + Cardinality(below)
    BY <1>1, <1>5 DEF Total
  <1> QED
    BY <1>6, <1>8 DEF tree, answered

\* A name lies under a prefix that it continues, and in its folder if by one segment.
LEMMA UnderMeans ==
    ASSUME NEW u \in Uids, NEW prefix \in Seq(STRING)
    PROVE  LET n == NameOf[u]
               k == Len(prefix) IN
           /\ n \in Seq(STRING) /\ Len(n) \in Nat /\ k \in Nat
           /\ Under(n, prefix) <=> Len(n) > k /\ \A i \in 1 .. k : n[i] = prefix[i]
           /\ Under(n, prefix) => (Folder(n) # prefix <=> Len(n) > k + 1)
  <1> DEFINE n == NameOf[u]
             k == Len(prefix)
  <1>1. n \in Seq(STRING) /\ Len(n) \in Nat /\ Len(n) > 0 /\ k \in Nat
    <2>1. n \in Seq(STRING) /\ n # <<>>
      BY NamesAssumption
    <2> QED
      BY <2>1, EmptySeq
  <1> HIDE DEF n
  <1>2. ASSUME NEW m \in 0 .. Len(n)
        PROVE  /\ SubSeq(n, 1, m) \in Seq(STRING) /\ Len(SubSeq(n, 1, m)) = m
               /\ \A i \in 1 .. m : SubSeq(n, 1, m)[i] = n[i]
    <2>1. \A i \in 1 .. m : n[i] \in STRING
      BY <1>1
    <2> QED
      BY <1>1, <2>1, SubSeqProperties
  <1>3. Len(Folder(n)) = Len(n) - 1 /\ Folder(n) \in Seq(STRING)
        /\ \A i \in 1 .. Len(n) - 1 : Folder(n)[i] = n[i]
    <2>1. Len(n) - 1 \in 0 .. Len(n)
      BY <1>1
    <2> DEFINE q == SubSeq(n, 1, Len(n) - 1)
    <2>2. q \in Seq(STRING) /\ Len(q) = Len(n) - 1 /\ \A i \in 1 .. Len(n) - 1 : q[i] = n[i]
      BY <1>2, <2>1
    <2>3. Folder(n) = q
      BY DEF Folder
    <2> QED
      BY <2>2, <2>3
  <1>4. Len(n) > k => (SubSeq(n, 1, k) = prefix <=> \A i \in 1 .. k : n[i] = prefix[i])
    <2> SUFFICES ASSUME Len(n) > k
                 PROVE  SubSeq(n, 1, k) = prefix <=> \A i \in 1 .. k : n[i] = prefix[i]
      OBVIOUS
    <2> DEFINE q == SubSeq(n, 1, k)
    <2>1. q \in Seq(STRING) /\ Len(q) = k /\ \A i \in 1 .. k : q[i] = n[i]
      BY <1>1, <1>2
    <2> HIDE DEF q
    <2> QED
      BY <2>1, SeqEqual
  <1>5. Under(n, prefix) <=> Len(n) > k /\ \A i \in 1 .. k : n[i] = prefix[i]
    BY <1>1, <1>3, <1>4 DEF Under
  <1>6. ASSUME Under(n, prefix) PROVE Folder(n) # prefix <=> Len(n) > k + 1
    <2>1. k = Len(n) - 1 => Folder(n) = prefix
      BY <1>1, <1>3, <1>5, <1>6, SeqEqual
    <2> QED
      BY <1>1, <1>3, <1>5, <1>6, <2>1
  <1> QED
    BY <1>1, <1>5, <1>6 DEF n

LEMMA OneLonger ==
    ASSUME NEW S, NEW p \in Seq(S), NEW s \in S
    PROVE  LET longer == p \o <<s>> IN
           /\ longer \in Seq(S) /\ Len(longer) = Len(p) + 1 /\ Len(p) \in Nat
           /\ \A i \in 1 .. Len(p) : longer[i] = p[i]
           /\ longer[Len(p) + 1] = s
  <1>1. p \o <<s>> = Append(p, s)
    BY AppendIsConcat
  <1>2. Len(p) \in Nat
    OBVIOUS
  <1> QED
    BY <1>1, <1>2, AppendProperties

\* What lies in the folder of a segment is what has that segment below the prefix.
LEMMA Deeper ==
    ASSUME NEW u \in Uids, NEW prefix \in Seq(STRING), NEW s \in STRING
    PROVE  Under(NameOf[u], prefix \o <<s>>) <=>
               /\ Under(NameOf[u], prefix) /\ Folder(NameOf[u]) # prefix
               /\ Segment(NameOf[u], prefix) = s
  <1> DEFINE n == NameOf[u]
             k == Len(prefix)
             longer == prefix \o <<s>>
  <1>1. /\ longer \in Seq(STRING) /\ Len(longer) = k + 1 /\ k \in Nat
        /\ \A i \in 1 .. k : longer[i] = prefix[i]
        /\ longer[k + 1] = s
    BY OneLonger
  <1>2. Segment(n, prefix) = n[k + 1]
    BY DEF Segment
  <1> HIDE DEF n, k, longer
  <1>3. Len(n) \in Nat
        /\ (Under(n, prefix) <=> Len(n) > k /\ \A i \in 1 .. k : n[i] = prefix[i])
        /\ (Under(n, prefix) => (Folder(n) # prefix <=> Len(n) > k + 1))
    BY UnderMeans DEF n, k
  <1>4. Under(n, longer) <=> Len(n) > k + 1 /\ \A i \in 1 .. k + 1 : n[i] = longer[i]
    BY <1>1, UnderMeans DEF n
  <1>5. Under(n, longer) <=> Under(n, prefix) /\ Len(n) > k + 1 /\ n[k + 1] = s
    <2>1. 1 .. k + 1 = 1 .. k \cup {k + 1}
      BY <1>1
    <2>2. (\A i \in 1 .. k + 1 : n[i] = longer[i]) <=>
              (\A i \in 1 .. k : n[i] = prefix[i]) /\ n[k + 1] = s
      BY <1>1, <2>1
    <2>3. Len(n) > k + 1 => Len(n) > k
      BY <1>1, <1>3
    <2> QED
      BY <1>3, <1>4, <2>2, <2>3
  <1> QED
    BY <1>2, <1>3, <1>5 DEF n, longer

LEMMA SegmentsAreStrings ==
    ASSUME NEW u \in Uids, NEW prefix \in Seq(STRING), Under(NameOf[u], prefix)
    PROVE  Segment(NameOf[u], prefix) \in STRING
  <1>1. NameOf[u] \in Seq(STRING) /\ Len(prefix) + 1 \in 1 .. Len(NameOf[u])
    BY UnderMeans
  <1> QED
    BY <1>1, ElementOfSeq DEF Segment

\* A folder's count is what opening it adds up to.
LEMMA TreesAreExact ==
    ASSUME NEW place \in BOOLEAN, NEW prefix \in Seq(STRING), NEW bound \in Nat \ {0},
           ~TreePage(place, prefix, bound).truncated
    PROVE  LET tree == TreePage(place, prefix, bound) IN
           /\ Total(tree) = Cardinality(ReadyUnder(place, prefix))
           /\ \A s \in DOMAIN tree.folders :
                 tree.folders[s] = Total(TreePage(place, prefix \o <<s>>, bound))
  <1> DEFINE tree == TreePage(place, prefix, bound)
             below == Below(place, prefix)
  <1>1. Cardinality(RowsUnder(place, prefix)) <= bound
    BY UntruncatedIsShort
  <1>2. Total(tree) = Cardinality(ReadyUnder(place, prefix))
    BY <1>1, FewRowsAddUp
  <1>3. ASSUME NEW s \in DOMAIN tree.folders
        PROVE  tree.folders[s] = Total(TreePage(place, prefix \o <<s>>, bound))
    <2> DEFINE longer == prefix \o <<s>>
    <2>1. tree.folders = [r \in {Segment(NameOf[u], prefix) : u \in below} |->
                             Cardinality({u \in below : Segment(NameOf[u], prefix) = r})]
      BY <1>1, TreeOfFewRows
    <2>2. PICK w \in below : s = Segment(NameOf[w], prefix)
      BY <2>1
    <2>3. below \subseteq Uids /\ w \in Uids
      BY <2>2, RowsAreUids DEF Below, ReadyUnder
    <2>4. s \in STRING
      BY <2>2, <2>3, SegmentsAreStrings DEF Below, ReadyUnder, RowsUnder
    <2>5. \A u \in Uids : Under(NameOf[u], longer) <=>
              /\ Under(NameOf[u], prefix) /\ Folder(NameOf[u]) # prefix
              /\ Segment(NameOf[u], prefix) = s
      BY <2>4, Deeper
    <2>6. {u \in below : Segment(NameOf[u], prefix) = s} = ReadyUnder(place, longer)
      <3> HIDE DEF longer
      <3> QED
        BY <2>3, <2>5, RowsAreUids DEF Below, ReadyUnder, RowsUnder, Partition
    <2>7. Cardinality(RowsUnder(place, longer)) <= bound
      <3>1. RowsUnder(place, longer) \subseteq RowsUnder(place, prefix)
        <4> HIDE DEF longer
        <4> QED
          BY <2>5, RowsAreUids DEF RowsUnder, Partition
      <3>2. IsFiniteSet(RowsUnder(place, prefix))
            /\ Cardinality(RowsUnder(place, prefix)) \in Nat
            /\ Cardinality(RowsUnder(place, longer)) \in Nat
        BY RowsAreUids, FewUids
      <3>3. Cardinality(RowsUnder(place, longer)) <= Cardinality(RowsUnder(place, prefix))
        BY <3>1, <3>2, FS_Subset
      <3> QED
        BY <1>1, <3>2, <3>3
    <2>8. Total(TreePage(place, longer, bound)) = Cardinality(ReadyUnder(place, longer))
      BY <2>7, FewRowsAddUp
    <2> HIDE DEF tree, below
    <2> QED
      BY <2>1, <2>2, <2>6, <2>8
  <1> QED
    BY <1>2, <1>3

LEMMA TreesAreRight == TreesAddUp
  <1> SUFFICES ASSUME NEW place \in BOOLEAN, NEW prefix \in Prefixes,
                      NEW bound \in 1 .. MaxScan,
                      ~TreePage(place, prefix, bound).truncated
               PROVE  LET tree == TreePage(place, prefix, bound) IN
                      /\ Total(tree) = Cardinality({u \in Partition(place) :
                                            Under(NameOf[u], prefix) /\ head[u] # "PREPARED"})
                      /\ \A s \in DOMAIN tree.folders :
                            tree.folders[s] = Total(TreePage(place, prefix \o <<s>>, bound))
    BY DEF TreesAddUp
  <1>1. bound \in Nat \ {0}
    OBVIOUS
  <1>2. prefix \in Seq(STRING)
    <2>1. PICK u \in Uids : \E k \in 0 .. Len(NameOf[u]) : prefix = SubSeq(NameOf[u], 1, k)
      BY DEF Prefixes, Names
    <2>2. PICK k \in 0 .. Len(NameOf[u]) : prefix = SubSeq(NameOf[u], 1, k)
      BY <2>1
    <2>3. NameOf[u] \in Seq(STRING)
      BY NamesAssumption
    <2>4. \A i \in 1 .. k : NameOf[u][i] \in STRING
      BY <2>3
    <2> QED
      BY <2>2, <2>3, <2>4, SubSeqProperties
  <1>3. {u \in Partition(place) : Under(NameOf[u], prefix) /\ head[u] # "PREPARED"}
          = ReadyUnder(place, prefix)
    BY DEF ReadyUnder, RowsUnder
  <1> QED
    BY <1>1, <1>2, <1>3, TreesAreExact
-----------------------------------------------------------------------------
(* The invariant of the listings *)

\* At most one live secret has a name, and a copy is of a secret of its name that the
\* consumer has a row for, which it keeps.
NamesInv ==
    \A u, v \in Uids : u \in Named(NameOf[v]) /\ v \in Named(NameOf[u]) => u = v
CopiesInv ==
    \A n \in Names : copies[n] # Nothing => NameOf[copies[n]] = n /\ row[copies[n]] # "none"

\* A cursor comes from a page that had rows.
CursorInv ==
    /\ feed.turned <= pages
    /\ feed.phase = "query" => (feed.after = Nothing <=> feed.turned = 0)
    /\ feed.more => feed.after # Nothing
    /\ feed.after # Nothing => feed.turned > 0
    /\ feed.fetch \cap feed.gone = {}

\* What the cycle has still to ask for.
Ahead(u) ==
    \/ feed.phase = "query" /\ (feed.after = Nothing \/ u > feed.after)
    \/ feed.phase \in {"hydrate", "apply"} /\ feed.more /\ u > feed.after

Reported == feed.stored \cup feed.live \cup feed.revoked

\* While nothing changes a page says what is.
PageInv ==
    feed.phase = "hydrate" =>
        /\ \A u \in feed.stored : row[u] = "read"
        /\ \A u \in feed.live : row[u] = "read" /\ head[u] = "ACTIVE"
        /\ \A u \in feed.revoked : row[u] = "revoked" \/ head[u] # "ACTIVE"

\* A copy of what may not be read is dealt with by a page still to come or by this one.
DeadInv ==
    \A n \in Names : copies[n] # Nothing /\ ~MayRead(copies[n]) =>
        \/ Ahead(copies[n])
        \/ feed.phase = "hydrate" /\ copies[n] \in Reported
        \/ feed.phase = "apply" /\
              \/ n \in feed.gone
              \/ n \in feed.fetch /\ \E v \in Named(n) : MayRead(v)

\* Until a second page has rows, what may be read is copied, on this page or still to come.
FirstPageInv ==
    feed.turned <= 1 =>
        \A u \in Uids : MayRead(u) =>
            \/ Ahead(u)
            \/ feed.phase = "hydrate" /\ u \in feed.stored \cup feed.live
            \/ feed.phase = "apply" /\ NameOf[u] \in feed.fetch
            \/ /\ copies[NameOf[u]] = u
               /\ feed.phase = "hydrate" => Reported = {}
               /\ feed.phase = "apply" => NameOf[u] \notin feed.gone

FeedInv ==
    /\ NamesInv /\ CopiesInv /\ CursorInv
    /\ feed.quiet => feed.phase # "idle" /\ PageInv /\ DeadInv /\ FirstPageInv

\* A list that was not emptied under a request asks for what it shows, and shows what
\* matched all along or has it ahead.
Well(l) ==
    l.clean /\ l.filter.tag # Nothing =>
        /\ l.loading =>
              l.request = [filter |-> l.filter, cursor |-> l.cursor, scope |-> l.scope]
        /\ \A u \in l.steady :
              /\ Matches(u, l.filter)
              /\ \/ <<u, l.filter>> \in l.shown
                 \/ ~l.exhausted /\ (l.cursor # Nothing => Precedes(l.cursor, u))
ListInv == Well(list)

PagesInv == ListingTypeOK /\ FeedInv /\ ListInv

-----------------------------------------------------------------------------
(* The two kinds of pages *)

LEMMA Sizes ==
    /\ FeedPage \in Nat \ {0} /\ CatalogPage \in Nat \ {0} /\ HopBudget \in Nat \ {0}
    /\ MaxChanges \in Nat /\ MaxPages \in Nat
    /\ Nothing \notin Uids /\ Uids \subseteq Nat /\ Nothing \notin Tags
  BY SizesAssumption, UidsAssumption

FeedRows == {u \in Uids : row[u] # "none" /\ (feed.after # Nothing => u > feed.after)}
FeedRead == FirstOf(FeedRows, FeedPage, ByUid)

\* What a page of the feed leaves out comes after its last row, and it is full then.
LEMMA FeedPages ==
    /\ FeedRead \subseteq FeedRows /\ FeedRows \subseteq Uids
    /\ FeedRead # {} => Max(FeedRead) \in FeedRead
    /\ Cardinality(FeedRead) = FeedPage => FeedRead # {}
    /\ \A u \in FeedRows \ FeedRead :
          Cardinality(FeedRead) = FeedPage /\ FeedRead # {} /\ u > Max(FeedRead)
  <1>1. FeedRows \subseteq Uids
    BY DEF FeedRows
  <1>2. /\ FeedRead \subseteq FeedRows
        /\ \A v \in FeedRead, u \in FeedRows : u \in ByUid[v] => u \in FeedRead
        /\ FeedRead # FeedRows => Cardinality(FeedRead) = FeedPage
    BY <1>1, FirstRows, UidsAreOrdered, Sizes DEF FeedRead
  <1>3. Cardinality(FeedRead) = FeedPage => FeedRead # {}
    BY Sizes, FS_EmptySet
  <1>4. ASSUME FeedRead # {}
        PROVE  Max(FeedRead) \in FeedRead /\ \A v \in FeedRead : v <= Max(FeedRead)
    <2>1. PICK u \in FeedRead : \A v \in FeedRead : v = u \/ v \in ByUid[u]
      BY <1>1, <1>2, <1>4, LastRow, UidsAreOrdered
    <2>2. \A v \in FeedRead : u >= v
      <3> TAKE v \in FeedRead
      <3>1. v \in Uids /\ u \in Uids /\ v \in Nat /\ u \in Nat
        BY <1>1, <1>2, Sizes
      <3>2. v = u \/ v < u
        BY <2>1, <3>1 DEF ByUid
      <3> QED
        BY <3>1, <3>2
    <2>3. \A v \in FeedRead : Max(FeedRead) >= v /\ Max(FeedRead) \in FeedRead
      BY <2>2 DEF Max
    <2> QED
      BY <1>1, <1>2, <1>4, <2>3, Sizes
  <1>5. ASSUME NEW u \in FeedRows \ FeedRead
        PROVE  Cardinality(FeedRead) = FeedPage /\ FeedRead # {} /\ u > Max(FeedRead)
    <2>1. FeedRead # {} /\ Cardinality(FeedRead) = FeedPage
      BY <1>2, <1>3
    <2>2. Max(FeedRead) \in FeedRead /\ Max(FeedRead) \in Nat /\ u \in Nat /\ u # Max(FeedRead)
      BY <1>1, <1>2, <1>4, <2>1, Sizes
    <2>3. ~(u < Max(FeedRead))
      BY <1>1, <1>2, <2>2 DEF ByUid
    <2> QED
      BY <2>1, <2>2, <2>3
  <1> QED
    BY <1>1, <1>2, <1>3, <1>4, <1>5

CatalogRows(request) ==
    {u \in Partition(request.filter.archived) :
        request.cursor # Nothing => Precedes(request.cursor, u)}

LEMMA CatalogPages ==
    ASSUME NEW request
    PROVE  LET page == PageAfter(request) IN
           /\ page \subseteq CatalogRows(request) /\ CatalogRows(request) \subseteq Uids
           /\ Cardinality(page) = CatalogPage => LastOf(page) \in page
           /\ \A u \in CatalogRows(request) \ page :
                 Cardinality(page) = CatalogPage /\ Precedes(LastOf(page), u)
  <1> DEFINE rows == CatalogRows(request)
             page == PageAfter(request)
  <1>1. rows \subseteq Uids
    BY DEF CatalogRows, Partition
  <1>2. page = FirstOf(rows, CatalogPage, ByName)
    BY DEF PageAfter, CatalogRows
  <1> HIDE DEF rows, page
  <1>3. /\ page \subseteq rows
        /\ \A v \in page, u \in rows : u \in ByName[v] => u \in page
        /\ page # rows => Cardinality(page) = CatalogPage
    BY <1>1, <1>2, FirstRows, NamesAreOrdered, Sizes
  <1>4. Cardinality(page) = CatalogPage => page # {}
    BY Sizes, FS_EmptySet
  <1>5. ASSUME page # {} PROVE LastOf(page) \in page
    <2>1. PICK u \in page : \A v \in page : v = u \/ v \in ByName[u]
      BY <1>1, <1>3, <1>5, LastRow, NamesAreOrdered
    <2>2. \A v \in page : v = u \/ Precedes(v, u)
      BY <1>1, <1>3, <2>1 DEF ByName
    <2> QED
      BY <2>2 DEF LastOf
  <1>6. ASSUME NEW u \in rows \ page
        PROVE  Cardinality(page) = CatalogPage /\ Precedes(LastOf(page), u)
    <2>1. Cardinality(page) = CatalogPage /\ LastOf(page) \in page
      BY <1>3, <1>4, <1>5
    <2>2. u \in Uids /\ LastOf(page) \in Uids /\ u # LastOf(page)
      BY <1>1, <1>3, <2>1
    <2>3. u \notin ByName[LastOf(page)]
      BY <1>3, <2>1
    <2>4. LastOf(page) \in ByName[u]
      BY <2>2, <2>3, NamesAreOrdered DEF Ordered
    <2> QED
      BY <2>1, <2>2, <2>4 DEF ByName
  <1> QED
    BY <1>1, <1>3, <1>4, <1>5, <1>6 DEF rows, page
-----------------------------------------------------------------------------
(* The change feed *)

LEMMA IdleIsACycle == FeedIdle \in Cycles
  BY Sizes DEF FeedIdle, Cycles

LEMMA PagesInit == ListingInit => PagesInv
  <1> SUFFICES ASSUME ListingInit PROVE PagesInv
    OBVIOUS
  <1>1. feed \in Cycles
    BY IdleIsACycle DEF ListingInit
  <1>2. list \in Views
    BY Sizes DEF ListingInit, Views, Requests, Filters, NoRequest, Tree
  <1>3. ListingTypeOK
    BY <1>1, <1>2, Sizes DEF ListingInit, ListingTypeOK
  <1>4. FeedInv
    BY Sizes DEF ListingInit, FeedInv, NamesInv, CopiesInv, CursorInv, FeedIdle, Named
  <1>5. ListInv
    BY DEF ListingInit, ListInv, Well, Tree
  <1> QED
    BY <1>3, <1>4, <1>5 DEF PagesInv

\* While the console is not concerned its list is what it was.
LEMMA ListStays ==
    ASSUME ListInv, UNCHANGED <<sharedVars, list>> PROVE ListInv'
  BY DEF ListInv, Well, Matches, Partition, Precedes, sharedVars

\* What a step of the feed has to show.
LEMMA FeedStep ==
    ASSUME PagesInv, UNCHANGED <<sharedVars, list, changes>>,
           feed' \in Cycles, copies' \in [Names -> Uids \cup {Nothing}],
           pages' \in 0 .. MaxPages,
           CopiesInv', CursorInv',
           feed'.quiet => feed'.phase # "idle" /\ PageInv' /\ DeadInv' /\ FirstPageInv'
    PROVE  PagesInv'
  <1>1. ListingTypeOK'
    BY DEF PagesInv, ListingTypeOK, sharedVars
  <1>2. NamesInv'
    BY DEF PagesInv, FeedInv, NamesInv, Named, sharedVars
  <1> QED
    BY <1>1, <1>2, ListStays DEF PagesInv, FeedInv

LEMMA StartStep == ASSUME PagesInv, StartCycle PROVE PagesInv'
  <1>1. /\ feed' = [FeedIdle EXCEPT !.phase = "query", !.quiet = TRUE]
        /\ UNCHANGED <<sharedVars, copies, list, changes, pages>>
    BY DEF StartCycle
  <1>2. feed' \in Cycles
    BY <1>1, IdleIsACycle DEF Cycles
  <1>3. CopiesInv' /\ CursorInv'
    BY <1>1 DEF PagesInv, ListingTypeOK, FeedInv, CopiesInv, CursorInv, FeedIdle, sharedVars
  <1>4. \A u \in Uids : Ahead(u)'
    BY <1>1 DEF Ahead, FeedIdle
  <1>5. PageInv' /\ DeadInv' /\ FirstPageInv'
    <2>1. copies' \in [Names -> Uids \cup {Nothing}]
      BY <1>1 DEF PagesInv, ListingTypeOK
    <2> QED
      BY <1>1, <1>4, <2>1 DEF PageInv, DeadInv, FirstPageInv, FeedIdle
  <1>6. feed'.phase # "idle"
    BY <1>1 DEF FeedIdle
  <1> QED
    BY <1>1, <1>2, <1>3, <1>5, <1>6, FeedStep DEF PagesInv, ListingTypeOK

LEMMA AbandonStep == ASSUME PagesInv, AbandonCycle PROVE PagesInv'
  <1>1. feed' = FeedIdle /\ UNCHANGED <<sharedVars, copies, list, changes, pages>>
    BY DEF AbandonCycle
  <1>2. feed' \in Cycles
    BY <1>1, IdleIsACycle
  <1>3. CopiesInv' /\ CursorInv' /\ ~feed'.quiet
    BY <1>1 DEF PagesInv, ListingTypeOK, FeedInv, CopiesInv, CursorInv, FeedIdle, sharedVars
  <1> QED
    BY <1>1, <1>2, <1>3, FeedStep DEF PagesInv, ListingTypeOK

\* A page is read: what it leaves out is ahead.
LEMMA QueryStep == ASSUME PagesInv, QueryPage PROVE PagesInv'
  <1> DEFINE full == Cardinality(FeedRead) = FeedPage
  <1>1. /\ feed.phase = "query" /\ pages < MaxPages /\ pages' = pages + 1
        /\ feed' = [feed EXCEPT !.phase = "hydrate",
                                !.stored = {u \in FeedRead : row[u] = "read"},
                                !.live = {}, !.revoked = {u \in FeedRead : row[u] = "revoked"},
                                !.more = full,
                                !.after = IF FeedRead = {} THEN Nothing ELSE Max(FeedRead),
                                !.turned = IF FeedRead = {} THEN @ ELSE @ + 1]
        /\ UNCHANGED <<sharedVars, copies, list, changes>>
    BY DEF QueryPage, FeedRead, FeedRows
  <1>2. /\ feed \in Cycles /\ pages \in Nat /\ MaxPages \in Nat /\ copies \in [Names -> Uids \cup {Nothing}]
        /\ feed.turned \in Nat /\ feed.turned <= pages
        /\ feed.after \in Uids \cup {Nothing}
        /\ row \in [Uids -> {"none", "read", "revoked"}]
    BY Sizes DEF PagesInv, ListingTypeOK, FeedInv, CursorInv, Cycles
  <1>3. /\ feed'.phase = "hydrate"
        /\ feed'.stored = {u \in FeedRead : row[u] = "read"}
        /\ feed'.live = {} /\ feed'.revoked = {u \in FeedRead : row[u] = "revoked"}
        /\ feed'.more = full
        /\ feed'.after = IF FeedRead = {} THEN Nothing ELSE Max(FeedRead)
        /\ feed'.turned = IF FeedRead = {} THEN feed.turned ELSE feed.turned + 1
        /\ feed'.gone = feed.gone /\ feed'.fetch = feed.fetch /\ feed'.quiet = feed.quiet
    BY <1>1, <1>2 DEF Cycles
  <1>4. /\ FeedRead \subseteq Uids /\ FeedRead \subseteq FeedRows
        /\ feed'.after \in Uids \cup {Nothing} /\ feed'.turned \in 0 .. MaxPages
        /\ feed'.turned <= pages'
    BY <1>1, <1>2, <1>3, FeedPages
  <1>5. feed' \in Cycles /\ pages' \in 0 .. MaxPages
    <2> DEFINE s == {u \in FeedRead : row[u] = "read"}
               r == {u \in FeedRead : row[u] = "revoked"}
               a == IF FeedRead = {} THEN Nothing ELSE Max(FeedRead)
               t == IF FeedRead = {} THEN feed.turned ELSE feed.turned + 1
    <2>1. /\ s \in SUBSET Uids /\ r \in SUBSET Uids /\ full \in BOOLEAN
          /\ a \in Uids \cup {Nothing} /\ t \in 0 .. MaxPages
      BY <1>3, <1>4
    <2>2. feed' = [feed EXCEPT !.phase = "hydrate", !.stored = s, !.live = {}, !.revoked = r,
                               !.more = full, !.after = a, !.turned = t]
      BY <1>1
    <2> HIDE DEF s, r, a, t, full
    <2>3. feed' \in Cycles
      BY <1>2, <2>1, <2>2 DEF Cycles
    <2>4. pages' \in 0 .. MaxPages
      BY <1>1, <1>2
    <2> QED
      BY <2>3, <2>4
  <1>6. CopiesInv' /\ CursorInv'
    <2>1. CopiesInv'
      BY <1>1 DEF PagesInv, FeedInv, CopiesInv, sharedVars
    <2>2. full => FeedRead # {} /\ Max(FeedRead) \in Uids /\ Max(FeedRead) # Nothing
      BY <1>4, FeedPages, Sizes
    <2>3. feed'.after # Nothing => feed'.turned > 0
      BY <1>2, <1>3
    <2>4. feed.fetch \cap feed.gone = {}
      BY DEF PagesInv, FeedInv, CursorInv
    <2> QED
      BY <1>3, <1>4, <2>1, <2>2, <2>3, <2>4 DEF CursorInv
  <1>7. PageInv'
    BY <1>1, <1>3 DEF PageInv, sharedVars
  <1>8. \A u \in Uids : row[u] # "none" =>
            \/ Ahead(u)'
            \/ u \in Reported'
            \/ feed.after # Nothing /\ ~(u > feed.after)
    <2> TAKE u \in Uids
    <2> HAVE row[u] # "none"
    <2>1. CASE u \in FeedRead
      BY <1>2, <1>3, <2>1 DEF Reported
    <2>2. CASE u \in FeedRows \ FeedRead
      BY <1>3, <2>2, FeedPages DEF Ahead
    <2>3. CASE u \notin FeedRows
      BY <2>3 DEF FeedRows
    <2> QED
      BY <2>1, <2>2, <2>3
  <1>9. \A u \in Uids : MayRead(u)' = MayRead(u)
    BY <1>1 DEF MayRead, sharedVars
  <1>10. ASSUME feed.quiet PROVE DeadInv'
    <2> SUFFICES ASSUME NEW n \in Names, NEW u \in Uids, copies[n] = u, ~MayRead(u)
                 PROVE  Ahead(u)' \/ u \in Reported'
      BY <1>1, <1>2, <1>3, <1>9 DEF DeadInv
    <2>1. row[u] # "none" /\ u # Nothing
      BY Sizes DEF PagesInv, FeedInv, CopiesInv
    <2>2. Ahead(u)
      BY <1>1, <1>10, <2>1 DEF PagesInv, FeedInv, DeadInv
    <2>3. feed.after = Nothing \/ u > feed.after
      BY <1>1, <2>2 DEF Ahead
    <2> QED
      BY <1>8, <2>1, <2>3
  <1>11. ASSUME feed.quiet PROVE FirstPageInv'
    <2> SUFFICES ASSUME feed'.turned <= 1, NEW u \in Uids, MayRead(u)
                 PROVE  \/ Ahead(u)' \/ u \in feed'.stored
                        \/ copies[NameOf[u]] = u /\ Reported' = {}
      BY <1>1, <1>3, <1>9 DEF FirstPageInv
    <2>1. row[u] = "read"
      BY DEF MayRead
    <2>2. CASE FeedRead # {}
      <3>1. feed.after = Nothing
        BY <1>1, <1>2, <1>3, <2>2 DEF PagesInv, FeedInv, CursorInv
      <3> QED
        BY <1>3, <1>8, <2>1, <3>1 DEF Reported
    <2>3. CASE FeedRead = {}
      <3>1. Reported' = {} /\ ~full /\ ~Ahead(u)'
        BY <1>3, <2>3, FeedPages DEF Reported, Ahead
      <3>2. ~Ahead(u)
        BY <1>1, <1>8, <2>1, <3>1 DEF Ahead
      <3> QED
        BY <1>1, <1>3, <1>11, <2>3, <3>1, <3>2 DEF PagesInv, FeedInv, FirstPageInv
    <2> QED
      BY <2>2, <2>3
  <1> QED
    BY <1>1, <1>2, <1>3, <1>5, <1>6, <1>7, <1>10, <1>11, FeedStep

\* A row is looked up: it is reported one way or the other.
LEMMA HydrateStep == ASSUME PagesInv, NEW u \in Uids, Hydrate(u) PROVE PagesInv'
  <1> DEFINE l == IF head[u] = "ACTIVE" THEN feed.live \cup {u} ELSE feed.live
             r == IF head[u] = "ACTIVE" THEN feed.revoked ELSE feed.revoked \cup {u}
  <1>1. /\ feed.phase = "hydrate" /\ u \in feed.stored
        /\ feed' = [feed EXCEPT !.stored = feed.stored \ {u}, !.live = l, !.revoked = r]
        /\ UNCHANGED <<sharedVars, copies, list, changes, pages>>
    BY DEF Hydrate
  <1>2. /\ feed \in Cycles /\ copies \in [Names -> Uids \cup {Nothing}]
        /\ feed.stored \subseteq Uids /\ feed.live \subseteq Uids /\ feed.revoked \subseteq Uids
    BY DEF PagesInv, ListingTypeOK, Cycles
  <1>3. /\ feed'.phase = "hydrate" /\ feed'.stored = feed.stored \ {u}
        /\ feed'.live = l /\ feed'.revoked = r
        /\ feed'.more = feed.more /\ feed'.after = feed.after /\ feed'.turned = feed.turned
        /\ feed'.gone = feed.gone /\ feed'.fetch = feed.fetch /\ feed'.quiet = feed.quiet
    BY <1>1, <1>2 DEF Cycles
  <1>4. l \subseteq Uids /\ r \subseteq Uids
    BY <1>2
  <1>5. feed' \in Cycles
    <2>1. l \in SUBSET Uids /\ r \in SUBSET Uids /\ feed.stored \ {u} \in SUBSET Uids
      BY <1>2, <1>4
    <2> HIDE DEF l, r
    <2> QED
      BY <1>1, <1>2, <2>1 DEF Cycles
  <1>6. CopiesInv' /\ CursorInv'
    BY <1>1, <1>3 DEF PagesInv, FeedInv, CopiesInv, CursorInv, sharedVars
  <1>7. /\ Reported' = Reported
        /\ feed'.stored \cup feed'.live \subseteq feed.stored \cup feed.live
        /\ \A v \in feed.stored \cup feed.live :
              v \in feed'.stored \cup feed'.live \/ (v = u /\ head[u] # "ACTIVE")
    BY <1>1, <1>3 DEF Reported
  <1>8. \A v : (MayRead(v)' <=> MayRead(v)) /\ (Ahead(v)' <=> Ahead(v))
    BY <1>1, <1>3 DEF MayRead, Ahead, sharedVars
  <1>9. ASSUME feed.quiet PROVE PageInv' /\ DeadInv' /\ FirstPageInv'
    <2>1. PageInv /\ DeadInv /\ FirstPageInv
      BY <1>9 DEF PagesInv, FeedInv
    <2>2. PageInv'
      <3> USE <1>1, <1>3, <2>1 DEF PageInv, sharedVars
      <3>1. \A v \in feed'.stored : row'[v] = "read"
        OBVIOUS
      <3>2. \A v \in feed'.live : row'[v] = "read" /\ head'[v] = "ACTIVE"
        OBVIOUS
      <3>3. \A v \in feed'.revoked : row'[v] = "revoked" \/ head'[v] # "ACTIVE"
        OBVIOUS
      <3> QED
        BY <3>1, <3>2, <3>3
    <2>3. DeadInv'
      <3> SUFFICES ASSUME NEW n \in Names, NEW v \in Uids, copies[n] = v, ~MayRead(v)
                   PROVE  Ahead(v) \/ v \in Reported
        BY <1>1, <1>2, <1>3, <1>7, <1>8 DEF DeadInv
      <3>1. v # Nothing
        BY Sizes
      <3> QED
        BY <1>1, <2>1, <3>1 DEF DeadInv
    <2>4. FirstPageInv'
      <3> SUFFICES ASSUME feed.turned <= 1, NEW v \in Uids, MayRead(v)
                   PROVE  \/ Ahead(v) \/ v \in feed'.stored \cup feed'.live
                          \/ copies[NameOf[v]] = v /\ Reported = {}
        BY <1>1, <1>3, <1>7, <1>8 DEF FirstPageInv
      <3>1. head[v] = "ACTIVE"
        BY DEF MayRead
      <3>2. Ahead(v) \/ v \in feed.stored \cup feed.live \/ (copies[NameOf[v]] = v /\ Reported = {})
        BY <1>1, <2>1 DEF FirstPageInv
      <3> QED
        BY <1>7, <3>1, <3>2
    <2> QED
      BY <2>2, <2>3, <2>4
  <1>10. pages' \in 0 .. MaxPages /\ copies' \in [Names -> Uids \cup {Nothing}]
    BY <1>1 DEF PagesInv, ListingTypeOK
  <1> QED
    BY <1>1, <1>3, <1>5, <1>6, <1>9, <1>10, FeedStep

\* The page is answered: what counts is fetched, and every other name is deleted.
LEMMA AnswerStep == ASSUME PagesInv, Answer PROVE PagesInv'
  <1> DEFINE reported == feed.live \cup feed.revoked
             changed == {NameOf[u] : u \in {v \in reported : Counts(v) /\ InScope(v)}}
             rest == {NameOf[u] : u \in reported} \ changed
  <1>1. /\ feed.phase = "hydrate" /\ feed.stored = {}
        /\ feed' = [feed EXCEPT !.phase = "apply", !.live = {}, !.revoked = {},
                                !.fetch = changed, !.gone = rest]
        /\ UNCHANGED <<sharedVars, copies, list, changes, pages>>
    BY DEF Answer
  <1>2. /\ feed \in Cycles /\ copies \in [Names -> Uids \cup {Nothing}]
        /\ feed.live \subseteq Uids /\ feed.revoked \subseteq Uids /\ reported \subseteq Uids
    BY DEF PagesInv, ListingTypeOK, Cycles
  <1>3. changed \subseteq Names /\ rest \subseteq Names
    BY <1>2 DEF Names
  <1>4. Reported = reported
    BY <1>1 DEF Reported
  <1>5. /\ \A u \in reported : NameOf[u] \in changed \cup rest
        /\ changed \cap rest = {}
        /\ reported = {} => changed = {} /\ rest = {}
        /\ \A n \in changed : \E v \in reported : NameOf[v] = n /\ Counts(v) /\ InScope(v)
    OBVIOUS
  <1>6. \A u \in reported : Counts(u) /\ InScope(u) => NameOf[u] \in changed
    OBVIOUS
  <1> HIDE DEF reported, changed, rest
  <1>7. /\ feed'.phase = "apply" /\ feed'.stored = {} /\ feed'.live = {} /\ feed'.revoked = {}
        /\ feed'.fetch = changed /\ feed'.gone = rest
        /\ feed'.more = feed.more /\ feed'.after = feed.after /\ feed'.turned = feed.turned
        /\ feed'.quiet = feed.quiet
    BY <1>1, <1>2 DEF Cycles
  <1>8. feed' \in Cycles
    BY <1>1, <1>2, <1>3 DEF Cycles
  <1>9. CopiesInv' /\ CursorInv'
    BY <1>1, <1>5, <1>7 DEF PagesInv, FeedInv, CopiesInv, CursorInv, sharedVars
  <1>10. /\ \A v : (MayRead(v)' <=> MayRead(v)) /\ (Ahead(v)' <=> Ahead(v))
         /\ \A n : Named(n)' = Named(n)
    BY <1>1, <1>7 DEF MayRead, Ahead, Named, sharedVars
  <1>11. ASSUME feed.quiet PROVE PageInv' /\ DeadInv' /\ FirstPageInv'
    <2>1. PageInv /\ DeadInv /\ FirstPageInv
      BY <1>11 DEF PagesInv, FeedInv
    <2>2. PageInv'
      BY <1>7 DEF PageInv
    <2>3. \A v \in feed.live : row[v] = "read" /\ head[v] = "ACTIVE"
      BY <1>1, <2>1 DEF PageInv
    <2>4. ASSUME NEW v \in reported, Counts(v), InScope(v)
          PROVE  v \in Named(NameOf[v]) /\ MayRead(v)
      <3>1. v \in feed.live /\ v \in Uids
        BY <1>2, <2>4 DEF Counts
      <3> QED
        BY <2>3, <2>4, <3>1 DEF MayRead, InScope, Named
    <2>5. ASSUME NEW v \in feed.live, MayRead(v) PROVE Counts(v) /\ InScope(v)
      <3>1. v \in Uids /\ v \in Named(NameOf[v])
        BY <1>2, <2>5 DEF MayRead, Named
      <3> QED
        BY <2>5, <3>1 DEF MayRead, Counts, InScope
    <2>6. DeadInv'
      <3> SUFFICES ASSUME NEW n \in Names, NEW u \in Uids, copies[n] = u, ~MayRead(u)
                   PROVE  \/ Ahead(u) \/ n \in rest
                          \/ n \in changed /\ \E v \in Named(n) : MayRead(v)
        BY <1>1, <1>2, <1>7, <1>10 DEF DeadInv
      <3>1. u # Nothing /\ NameOf[u] = n
        BY Sizes DEF PagesInv, FeedInv, CopiesInv
      <3>2. Ahead(u) \/ u \in reported
        BY <1>1, <1>4, <2>1, <3>1 DEF DeadInv
      <3>3. ASSUME n \in changed PROVE \E v \in Named(n) : MayRead(v)
        <4>1. PICK v \in reported : NameOf[v] = n /\ Counts(v) /\ InScope(v)
          BY <1>5, <3>3
        <4> QED
          BY <2>4, <4>1
      <3> QED
        BY <1>5, <3>1, <3>2, <3>3
    <2>7. FirstPageInv'
      <3> SUFFICES ASSUME feed.turned <= 1, NEW u \in Uids, MayRead(u)
                   PROVE  \/ Ahead(u) \/ NameOf[u] \in changed
                          \/ copies[NameOf[u]] = u /\ NameOf[u] \notin rest
        BY <1>1, <1>7, <1>10 DEF FirstPageInv
      <3>1. Ahead(u) \/ u \in feed.live \/ (copies[NameOf[u]] = u /\ reported = {})
        BY <1>1, <1>4, <2>1 DEF FirstPageInv
      <3>2. CASE u \in feed.live
        <4>1. u \in reported
          BY <3>2 DEF reported
        <4> QED
          BY <1>6, <2>5, <3>2, <4>1
      <3> QED
        BY <1>5, <3>1, <3>2
    <2> QED
      BY <2>2, <2>6, <2>7
  <1>12. pages' \in 0 .. MaxPages /\ copies' \in [Names -> Uids \cup {Nothing}]
    BY <1>1 DEF PagesInv, ListingTypeOK
  <1> QED
    BY <1>1, <1>7, <1>8, <1>9, <1>11, <1>12, FeedStep

\* A name is fetched, which finds its one secret that may be read if there is one, or
\* deleted.
LEMMA MaterializeStep == ASSUME PagesInv, NEW n \in Names, Materialize(n) PROVE PagesInv'
  <1> DEFINE readable == {u \in Named(n) : MayRead(u)}
             found == CHOOSE u \in readable : TRUE
             copy == IF n \in feed.gone THEN Nothing
                     ELSE IF readable = {} THEN copies[n] ELSE found
  <1>1. /\ feed.phase = "apply" /\ n \in feed.fetch \cup feed.gone
        /\ copies' = [copies EXCEPT ![n] = copy]
        /\ feed' = [feed EXCEPT !.fetch = feed.fetch \ {n}, !.gone = feed.gone \ {n}]
        /\ UNCHANGED <<sharedVars, list, changes, pages>>
    BY DEF Materialize
  <1>2. /\ feed \in Cycles /\ copies \in [Names -> Uids \cup {Nothing}]
        /\ feed.fetch \cap feed.gone = {}
        /\ feed.fetch \subseteq Names /\ feed.gone \subseteq Names
    BY DEF PagesInv, ListingTypeOK, FeedInv, CursorInv, Cycles
  <1>3. readable \subseteq Uids /\ readable \subseteq Named(n)
    BY DEF Named
  <1>4. readable # {} => found \in readable
    OBVIOUS
  <1>5. \A u, v \in readable : u = v
    BY DEF PagesInv, FeedInv, NamesInv, Named
  <1>6. \A u \in readable :
           MayRead(u) /\ NameOf[u] = n /\ u # Nothing /\ row[u] # "none"
    BY Sizes DEF MayRead, Named
  <1>7. \A u \in Uids : MayRead(u) /\ NameOf[u] = n => u \in readable
    BY DEF MayRead, Named
  <1> HIDE DEF readable, found
  <1>8. copy \in Uids \cup {Nothing}
    BY <1>2, <1>3, <1>4
  <1> HIDE DEF copy
  <1>9. /\ copies' \in [Names -> Uids \cup {Nothing}] /\ copies'[n] = copy
        /\ \A m \in Names : m # n => copies'[m] = copies[m]
    BY <1>1, <1>2, <1>8
  <1>10. /\ feed'.phase = "apply"
         /\ feed'.fetch = feed.fetch \ {n} /\ feed'.gone = feed.gone \ {n}
         /\ feed'.stored = feed.stored /\ feed'.live = feed.live
         /\ feed'.revoked = feed.revoked
         /\ feed'.more = feed.more /\ feed'.after = feed.after
         /\ feed'.turned = feed.turned /\ feed'.quiet = feed.quiet
    BY <1>1, <1>2 DEF Cycles
  <1>11. feed' \in Cycles
    BY <1>1, <1>2 DEF Cycles
  <1>12. /\ \A v : (MayRead(v)' <=> MayRead(v)) /\ (Ahead(v)' <=> Ahead(v))
         /\ \A m : Named(m)' = Named(m)
    BY <1>1, <1>10 DEF MayRead, Ahead, Named, sharedVars
  <1>13. CopiesInv'
    <2>1. \A m \in Names : copies[m] # Nothing => NameOf[copies[m]] = m /\ row[copies[m]] # "none"
      BY DEF PagesInv, FeedInv, CopiesInv
    <2>2. copy # Nothing => NameOf[copy] = n /\ row[copy] # "none"
      BY <1>4, <1>6, <2>1 DEF copy
    <2>3. row' = row
      BY <1>1 DEF sharedVars
    <2> QED
      BY <1>9, <2>1, <2>2, <2>3 DEF CopiesInv
  <1>14. CursorInv'
    BY <1>1, <1>2, <1>10 DEF PagesInv, FeedInv, CursorInv
  <1>15. ASSUME feed.quiet PROVE PageInv' /\ DeadInv' /\ FirstPageInv'
    <2>1. DeadInv /\ FirstPageInv
      BY <1>15 DEF PagesInv, FeedInv
    <2>2. PageInv'
      BY <1>10 DEF PageInv
    <2>3. DeadInv'
      <3> SUFFICES ASSUME NEW m \in Names, NEW u \in Uids, copies'[m] = u, ~MayRead(u)
                   PROVE  \/ Ahead(u) \/ m \in feed'.gone
                          \/ m \in feed'.fetch /\ \E v \in Named(m) : MayRead(v)
        BY <1>9, <1>10, <1>12 DEF DeadInv
      <3>1. u # Nothing
        BY Sizes
      <3>2. CASE m # n
        <4>1. copies[m] = u
          BY <1>9, <3>2
        <4>2. \/ Ahead(u) \/ m \in feed.gone
              \/ m \in feed.fetch /\ \E v \in Named(m) : MayRead(v)
          BY <1>1, <2>1, <3>1, <4>1 DEF DeadInv
        <4> QED
          BY <1>10, <3>2, <4>2
      <3>3. CASE m = n
        <4>1. n \notin feed.gone /\ n \in feed.fetch /\ readable = {} /\ copies[n] = u
          BY <1>1, <1>4, <1>6, <1>9, <3>1, <3>3 DEF copy
        <4>2. ~\E v \in Named(n) : MayRead(v)
          BY <4>1 DEF readable
        <4> QED
          BY <1>1, <2>1, <3>1, <3>3, <4>1, <4>2 DEF DeadInv
      <3> QED
        BY <3>2, <3>3
    <2>4. FirstPageInv'
      <3> SUFFICES ASSUME feed.turned <= 1, NEW u \in Uids, MayRead(u)
                   PROVE  \/ Ahead(u) \/ NameOf[u] \in feed'.fetch
                          \/ copies'[NameOf[u]] = u /\ NameOf[u] \notin feed'.gone
        BY <1>10, <1>12 DEF FirstPageInv
      <3>1. \/ Ahead(u) \/ NameOf[u] \in feed.fetch
            \/ copies[NameOf[u]] = u /\ NameOf[u] \notin feed.gone
        BY <1>1, <2>1 DEF FirstPageInv
      <3>2. NameOf[u] \in Names
        BY DEF Names
      <3>3. CASE NameOf[u] # n
        BY <1>9, <1>10, <3>1, <3>2, <3>3
      <3>4. CASE NameOf[u] = n
        <4>1. u \in readable
          BY <1>7, <3>4
        <4>2. found = u
          BY <1>4, <1>5, <4>1
        <4>3. n \notin feed.gone => copy = u
          BY <4>1, <4>2 DEF copy
        <4>4. n \in feed.gone => Ahead(u)
          BY <1>2, <3>1, <3>4
        <4> QED
          BY <1>9, <1>10, <3>4, <4>3, <4>4
      <3> QED
        BY <3>3, <3>4
    <2> QED
      BY <2>2, <2>3, <2>4
  <1>16. pages' \in 0 .. MaxPages
    BY <1>1 DEF PagesInv, ListingTypeOK
  <1> QED
    BY <1>1, <1>9, <1>10, <1>11, <1>13, <1>14, <1>15, <1>16, FeedStep

\* All of the page is dealt with: what is left is on the next one.
LEMMA TurnStep == ASSUME PagesInv, TurnPage PROVE PagesInv'
  <1> DEFINE p == IF feed.more THEN "query" ELSE "done"
  <1>1. /\ feed.phase = "apply" /\ feed.fetch \cup feed.gone = {}
        /\ feed' = [feed EXCEPT !.phase = p, !.more = FALSE]
        /\ UNCHANGED <<sharedVars, copies, list, changes, pages>>
    BY DEF TurnPage
  <1>2. /\ feed \in Cycles /\ copies \in [Names -> Uids \cup {Nothing}]
        /\ feed.turned \in Nat /\ feed.fetch = {} /\ feed.gone = {}
    BY <1>1 DEF PagesInv, ListingTypeOK, Cycles
  <1>3. /\ feed'.phase = p /\ ~feed'.more
        /\ feed'.fetch = feed.fetch /\ feed'.gone = feed.gone
        /\ feed'.stored = feed.stored /\ feed'.live = feed.live
        /\ feed'.revoked = feed.revoked /\ feed'.after = feed.after
        /\ feed'.turned = feed.turned /\ feed'.quiet = feed.quiet
    BY <1>1, <1>2 DEF Cycles
  <1>4. feed' \in Cycles
    <2>1. p \in {"idle", "query", "hydrate", "apply", "done"}
      OBVIOUS
    <2> HIDE DEF p
    <2> QED
      BY <1>1, <1>2, <2>1 DEF Cycles
  <1>5. feed.more => feed.after # Nothing /\ feed.turned > 0
    BY DEF PagesInv, FeedInv, CursorInv
  <1>6. CopiesInv' /\ CursorInv'
    BY <1>1, <1>2, <1>3, <1>5 DEF PagesInv, FeedInv, CopiesInv, CursorInv, sharedVars
  <1>7. \A v : (MayRead(v)' <=> MayRead(v)) /\ (Ahead(v)' <=> Ahead(v))
    BY <1>1, <1>3, <1>5 DEF MayRead, Ahead, sharedVars
  <1>8. ASSUME feed.quiet PROVE PageInv' /\ DeadInv' /\ FirstPageInv'
    <2>1. DeadInv /\ FirstPageInv
      BY <1>8 DEF PagesInv, FeedInv
    <2>2. PageInv'
      BY <1>3 DEF PageInv
    <2>3. DeadInv'
      <3> SUFFICES ASSUME NEW n \in Names, NEW u \in Uids, copies[n] = u, ~MayRead(u)
                   PROVE  Ahead(u)
        BY <1>1, <1>2, <1>7 DEF DeadInv
      <3>1. u # Nothing
        BY Sizes
      <3> QED
        BY <1>1, <1>2, <2>1, <3>1 DEF DeadInv
    <2>4. FirstPageInv'
      <3> SUFFICES ASSUME feed.turned <= 1, NEW u \in Uids, MayRead(u)
                   PROVE  Ahead(u) \/ copies[NameOf[u]] = u
        BY <1>1, <1>3, <1>7 DEF FirstPageInv
      <3> QED
        BY <1>1, <1>2, <2>1 DEF FirstPageInv
    <2> QED
      BY <2>2, <2>3, <2>4
  <1>9. pages' \in 0 .. MaxPages /\ copies' \in [Names -> Uids \cup {Nothing}] /\ feed'.phase # "idle"
    BY <1>1, <1>3 DEF PagesInv, ListingTypeOK
  <1> QED
    BY <1>1, <1>3, <1>4, <1>6, <1>8, <1>9, FeedStep

-----------------------------------------------------------------------------
(* The console's list *)

\* What a step of the console has to show.
LEMMA ListStep ==
    ASSUME PagesInv, UNCHANGED <<sharedVars, feed, copies, changes>>,
           list' \in Views, Well(list'), pages' \in 0 .. MaxPages, pages' >= pages
    PROVE  PagesInv'
  <1>1. ListingTypeOK'
    BY DEF PagesInv, ListingTypeOK, sharedVars
  <1>2. CopiesInv' /\ NamesInv'
    BY DEF PagesInv, FeedInv, CopiesInv, NamesInv, Named, sharedVars
  <1>3. CursorInv'
    <2>1. feed.turned \in Nat /\ pages \in Nat
      BY Sizes DEF PagesInv, ListingTypeOK, Cycles
    <2> QED
      BY <2>1 DEF PagesInv, FeedInv, CursorInv
  <1>4. feed'.quiet => feed'.phase # "idle" /\ PageInv' /\ DeadInv' /\ FirstPageInv'
    <2> SUFFICES ASSUME feed.quiet
                 PROVE  feed.phase # "idle" /\ PageInv' /\ DeadInv' /\ FirstPageInv'
      OBVIOUS
    <2>1. feed.phase # "idle" /\ PageInv /\ DeadInv /\ FirstPageInv
      BY DEF PagesInv, FeedInv
    <2>2. PageInv'
      BY <2>1 DEF PageInv, sharedVars
    <2>3. DeadInv'
      BY <2>1 DEF DeadInv, MayRead, Ahead, Reported, Named, sharedVars
    <2>4. FirstPageInv'
      BY <2>1 DEF FirstPageInv, MayRead, Ahead, Reported, sharedVars
    <2> QED
      BY <2>1, <2>2, <2>3, <2>4
  <1>5. ListInv'
    BY DEF ListInv, Well, Matches, Partition, Precedes, sharedVars
  <1> QED
    BY <1>1, <1>2, <1>3, <1>4, <1>5 DEF PagesInv, FeedInv

LEMMA FiltersAreFilters ==
    Tree \in Filters /\ NoRequest \in Requests /\ 0 \in 0 .. HopBudget
  BY Sizes DEF Tree, Filters, NoRequest, Requests

LEMMA SendIsWell ==
    ASSUME NEW l \in Views, NEW h \in 0 .. HopBudget
    PROVE  Send(l, h) \in Views /\ (Well(l) => Well(Send(l, h)))
  <1>1. [filter |-> l.filter, cursor |-> l.cursor, scope |-> l.scope] \in Requests
    BY DEF Views, Requests
  <1>2. Send(l, h) \in Views
    BY <1>1 DEF Send, Views
  <1>3. Well(l) => Well(Send(l, h))
    BY DEF Send, Views, Well
  <1> QED
    BY <1>2, <1>3

LEMMA EmptiedIsWell ==
    ASSUME NEW l \in Views
    PROVE  /\ Emptied(l) \in Views /\ Well(Emptied(l))
           /\ Emptied(l).filter = l.filter
  <1> DEFINE m == {u \in Uids : Matches(u, l.filter)}
  <1>1. m \in SUBSET Uids /\ \A u \in m : Matches(u, l.filter)
    OBVIOUS
  <1>2. Emptied(l) = [l EXCEPT !.shown = {}, !.cursor = Nothing, !.scope = Tree,
                               !.exhausted = FALSE, !.error = FALSE, !.clean = ~l.loading,
                               !.steady = m]
    BY DEF Emptied
  <1> HIDE DEF m
  <1>3. Emptied(l) \in Views
    BY <1>1, <1>2, FiltersAreFilters DEF Views
  <1>4. /\ Emptied(l).filter = l.filter /\ Emptied(l).steady = m
        /\ Emptied(l).cursor = Nothing /\ Emptied(l).exhausted = FALSE
        /\ Emptied(l).loading = l.loading /\ Emptied(l).clean = ~l.loading
    BY <1>2 DEF Views
  <1>5. Well(Emptied(l))
    BY <1>1, <1>4 DEF Well
  <1> QED
    BY <1>3, <1>4, <1>5

LEMMA LoadedIsWell ==
    ASSUME NEW l \in Views
    PROVE  /\ Loaded(l) \in Views /\ (Well(l) => Well(Loaded(l)))
           /\ Loaded(l).filter = l.filter
  <1>1. 1 \in 0 .. HopBudget
    BY Sizes
  <1>2. Send(l, 1).filter = l.filter
    BY DEF Send, Views
  <1> QED
    BY <1>1, <1>2, SendIsWell DEF Loaded

LEMMA UnfilteredIsWell == ASSUME NEW l, l.filter.tag = Nothing PROVE Well(l)
  BY DEF Well

\* The steps that send a request or none, and leave the count of pages alone.
LEMMA ConsoleStep ==
    ASSUME PagesInv, UNCHANGED <<sharedVars, feed, copies, changes, pages>>,
           list' \in Views, Well(list')
    PROVE  PagesInv'
  <1>1. pages' \in 0 .. MaxPages /\ pages' >= pages
    BY Sizes DEF PagesInv, ListingTypeOK
  <1> QED
    BY <1>1, ListStep

LEMMA ApplyFilterStep ==
    ASSUME PagesInv, NEW t \in Tags \cup {Nothing}, ApplyFilter(t) PROVE PagesInv'
  <1> DEFINE filtered == [list EXCEPT !.filter.tag = t]
  <1>1. list' = IF t = Nothing THEN filtered ELSE Loaded(Emptied(filtered))
    BY DEF ApplyFilter
  <1>2. list \in Views
    BY DEF PagesInv, ListingTypeOK
  <1>3. filtered \in Views /\ filtered.filter.tag = t
    BY <1>2 DEF Views, Filters
  <1>4. Emptied(filtered) \in Views /\ Well(Emptied(filtered))
    BY <1>3, EmptiedIsWell
  <1>5. Loaded(Emptied(filtered)) \in Views /\ Well(Loaded(Emptied(filtered)))
    BY <1>4, LoadedIsWell
  <1>6. t = Nothing => Well(filtered)
    BY <1>3, UnfilteredIsWell
  <1> HIDE DEF filtered
  <1>7. list' \in Views /\ Well(list')
    BY <1>1, <1>3, <1>5, <1>6
  <1>8. UNCHANGED <<sharedVars, feed, copies, changes, pages>>
    BY DEF ApplyFilter
  <1> QED
    BY <1>7, <1>8, ConsoleStep

LEMMA RelocateStep == ASSUME PagesInv, Relocate PROVE PagesInv'
  <1> DEFINE moved == [list EXCEPT !.filter.archived = ~list.filter.archived]
             asked == Loaded(Emptied(moved))
             dropped == [asked EXCEPT !.filter.tag = Nothing]
  <1>1. list' = IF Browsed THEN Emptied(dropped) ELSE moved
    BY DEF Relocate
  <1>2. list \in Views
    BY DEF PagesInv, ListingTypeOK
  <1>3. moved \in Views /\ moved.filter.tag = list.filter.tag
    BY <1>2 DEF Views, Filters
  <1>4. asked \in Views
    BY <1>3, EmptiedIsWell, LoadedIsWell
  <1>5. ~Browsed => Well(moved)
    BY <1>3, UnfilteredIsWell DEF Browsed
  <1> HIDE DEF moved, asked
  <1>6. dropped \in Views
    BY <1>4 DEF Views, Filters
  <1>7. list' \in Views /\ Well(list')
    BY <1>1, <1>3, <1>5, <1>6, EmptiedIsWell
  <1>8. UNCHANGED <<sharedVars, feed, copies, changes, pages>>
    BY DEF Relocate
  <1> QED
    BY <1>7, <1>8, ConsoleStep

LEMMA RefreshStep == ASSUME PagesInv, Refresh PROVE PagesInv'
  <1>1. list' = Loaded(Emptied(list)) /\ list \in Views
    BY DEF Refresh, PagesInv, ListingTypeOK
  <1>2. list' \in Views /\ Well(list')
    BY <1>1, EmptiedIsWell, LoadedIsWell
  <1>3. UNCHANGED <<sharedVars, feed, copies, changes, pages>>
    BY DEF Refresh
  <1> QED
    BY <1>2, <1>3, ConsoleStep

LEMMA LoadMoreStep == ASSUME PagesInv, LoadMore PROVE PagesInv'
  <1>1. list' = Loaded(list) /\ list \in Views /\ Well(list)
    BY DEF LoadMore, PagesInv, ListingTypeOK, ListInv
  <1>2. list' \in Views /\ Well(list')
    BY <1>1, LoadedIsWell
  <1>3. UNCHANGED <<sharedVars, feed, copies, changes, pages>>
    BY DEF LoadMore
  <1> QED
    BY <1>2, <1>3, ConsoleStep

LEMMA ReceiveErrorStep == ASSUME PagesInv, ReceiveError PROVE PagesInv'
  <1>1. /\ list' = [list EXCEPT !.error = TRUE, !.loading = FALSE, !.hop = 0,
                                !.request = NoRequest]
        /\ list \in Views /\ Well(list)
    BY DEF ReceiveError, PagesInv, ListingTypeOK, ListInv
  <1>2. list' \in Views
    BY <1>1, FiltersAreFilters DEF Views
  <1>3. Well(list')
    BY <1>1 DEF Well, Views
  <1>4. UNCHANGED <<sharedVars, feed, copies, changes, pages>>
    BY DEF ReceiveError
  <1> QED
    BY <1>2, <1>3, <1>4, ConsoleStep

\* A page arrives for the list it was asked for: what it leaves out comes after its cursor.
LEMMA ReceiveStep == ASSUME PagesInv, Receive PROVE PagesInv'
  <1> DEFINE request == list.request
             page == PageAfter(request)
             items == {u \in page : Matches(u, request.filter)}
             full == Cardinality(page) = CatalogPage
             shown == list.shown \cup {<<u, request.filter>> : u \in items}
             cursor == IF full THEN LastOf(page) ELSE Nothing
             scope == IF full THEN request.filter ELSE Tree
             got == [list EXCEPT !.shown = shown, !.cursor = cursor, !.scope = scope,
                                 !.loading = FALSE, !.hop = 0, !.request = NoRequest]
  <1>1. /\ list.loading /\ pages < MaxPages /\ pages' = pages + 1
        /\ list' = Chase(got, full, items # {})
        /\ UNCHANGED <<sharedVars, feed, copies, changes>>
    BY DEF Receive
  <1>2. /\ list \in Views /\ Well(list) /\ request \in Requests
        /\ list.hop \in Nat /\ request.filter \in Filters
    BY DEF PagesInv, ListingTypeOK, ListInv, Views, Requests
  <1>3. /\ page \subseteq CatalogRows(request) /\ CatalogRows(request) \subseteq Uids
        /\ full => LastOf(page) \in page
        /\ \A u \in CatalogRows(request) \ page : full /\ Precedes(LastOf(page), u)
    BY CatalogPages
  <1>4. /\ \A u \in page : Matches(u, request.filter) => <<u, request.filter>> \in shown
        /\ list.shown \subseteq shown
    OBVIOUS
  <1>5. shown \in SUBSET (Uids \X Filters) /\ cursor \in Uids \cup {Nothing} /\ scope \in Filters
    <2>1. items \subseteq Uids
      BY <1>3
    <2>2. shown \subseteq Uids \X Filters
      BY <1>2, <2>1 DEF Views
    <2> QED
      BY <1>2, <1>3, <2>2, FiltersAreFilters
  <1>6. full => cursor = LastOf(page)
    OBVIOUS
  <1>7. full \in BOOLEAN /\ (items # {}) \in BOOLEAN
    OBVIOUS
  <1> HIDE DEF request, page, items, full, shown, cursor, scope
  <1>8. got \in Views
    BY <1>2, <1>5, FiltersAreFilters DEF Views
  <1>9. /\ got.shown = shown /\ got.cursor = cursor /\ got.loading = FALSE
        /\ got.filter = list.filter /\ got.clean = list.clean /\ got.steady = list.steady
        /\ got.exhausted = list.exhausted
    BY <1>2 DEF Views
  <1>10. ASSUME list.clean, list.filter.tag # Nothing, NEW u \in list.steady
         PROVE  /\ Matches(u, list.filter)
                /\ \/ <<u, list.filter>> \in shown
                   \/ ~list.exhausted /\ full /\ Precedes(cursor, u)
    <2>1. /\ request.filter = list.filter /\ request.cursor = list.cursor
          /\ Matches(u, list.filter)
          /\ \/ <<u, list.filter>> \in list.shown
             \/ ~list.exhausted /\ (list.cursor # Nothing => Precedes(list.cursor, u))
      BY <1>1, <1>2, <1>10 DEF Well, request
    <2>2. CASE <<u, list.filter>> \in list.shown
      BY <1>4, <2>1, <2>2
    <2>3. CASE <<u, list.filter>> \notin list.shown
      <3>1. u \in CatalogRows(request)
        BY <2>1, <2>3 DEF CatalogRows, Matches
      <3> QED
        BY <1>3, <1>4, <1>6, <2>1, <2>3, <3>1
    <2> QED
      BY <2>2, <2>3
  <1> HIDE DEF got
  <1>11. Well(got)
    BY <1>9, <1>10 DEF Well
  <1>12. ASSUME ~full PROVE list' \in Views /\ Well(list')
    <2>1. list' = [got EXCEPT !.exhausted = TRUE]
      BY <1>1, <1>12 DEF Chase
    <2>2. list' \in Views
      BY <1>8, <2>1 DEF Views
    <2>3. /\ list'.shown = shown /\ list'.cursor = cursor /\ list'.loading = FALSE
          /\ list'.filter = list.filter /\ list'.clean = list.clean
          /\ list'.steady = list.steady
      BY <1>8, <1>9, <2>1 DEF Views
    <2>4. Well(list')
      BY <1>10, <1>12, <2>3 DEF Well
    <2> QED
      BY <2>2, <2>4
  <1>13. ASSUME full PROVE list' \in Views /\ Well(list')
    <2>1. CASE items = {} /\ list.hop < HopBudget
      <3>1. list.hop + 1 \in 0 .. HopBudget
        BY <1>2, <2>1, Sizes
      <3>2. list' = Send(got, list.hop + 1)
        BY <1>1, <1>13, <2>1 DEF Chase
      <3> QED
        BY <1>8, <1>11, <3>1, <3>2, SendIsWell
    <2>2. CASE ~(items = {} /\ list.hop < HopBudget)
      <3>1. list' = got
        BY <1>1, <1>13, <2>2 DEF Chase
      <3> QED
        BY <1>8, <1>11, <3>1
    <2> QED
      BY <2>1, <2>2
  <1>14. list' \in Views /\ Well(list')
    BY <1>12, <1>13
  <1>15. pages' \in 0 .. MaxPages /\ pages' >= pages
    BY <1>1, Sizes DEF PagesInv, ListingTypeOK
  <1> QED
    BY <1>1, <1>14, <1>15, ListStep

-----------------------------------------------------------------------------
(* The changes *)

LiveStates == {"PREPARED", "ACTIVE"}

\* A change ends the quiet of a cycle, and leaves in the list's debt what it did not touch.
LEMMA NoticedStep ==
    ASSUME PagesInv, Noticed,
           head' \in [Uids -> {"none", "PREPARED", "ACTIVE", "ARCHIVED"}],
           tag' \in [Uids -> Tags \cup {Nothing}],
           row' \in [Uids -> {"none", "read", "revoked"}], reads' \subseteq Uids,
           \A u \in Uids : row[u] # "none" => row'[u] # "none",
           NamesInv'
    PROVE  PagesInv'
  <1> DEFINE kept == {u \in list.steady : head'[u] = head[u] /\ tag'[u] = tag[u]}
  <1>1. /\ changes < MaxChanges /\ changes' = changes + 1
        /\ list' = [list EXCEPT !.steady = kept]
        /\ feed' = [feed EXCEPT !.quiet = FALSE]
        /\ UNCHANGED <<copies, reader, pages>>
    BY DEF Noticed
  <1>2. /\ ListingTypeOK /\ FeedInv /\ ListInv
        /\ feed \in Cycles /\ list \in Views /\ list.steady \subseteq Uids
    BY DEF PagesInv, ListingTypeOK, Views
  <1>3. kept \in SUBSET Uids
    BY <1>2
  <1>4. list' \in Views /\ list'.steady = kept
    <2> HIDE DEF kept
    <2> QED
      BY <1>1, <1>2, <1>3 DEF Views
  <1>5. feed' \in Cycles
    BY <1>1, <1>2 DEF Cycles
  <1>6. changes' \in 0 .. MaxChanges
    BY <1>1, <1>2, Sizes DEF ListingTypeOK
  <1>7. ListingTypeOK'
    BY <1>1, <1>2, <1>4, <1>5, <1>6 DEF ListingTypeOK
  <1>8. /\ feed'.phase = feed.phase /\ feed'.more = feed.more /\ feed'.after = feed.after
        /\ feed'.turned = feed.turned /\ feed'.fetch = feed.fetch /\ feed'.gone = feed.gone
        /\ ~feed'.quiet
    BY <1>1, <1>2 DEF Cycles
  <1>9. CursorInv'
    BY <1>1, <1>2, <1>8 DEF FeedInv, CursorInv
  <1>10. CopiesInv'
    <2> SUFFICES ASSUME NEW n \in Names, copies[n] # Nothing
                 PROVE  NameOf[copies[n]] = n /\ row'[copies[n]] # "none"
      BY <1>1 DEF CopiesInv
    <2>1. copies[n] \in Uids /\ NameOf[copies[n]] = n /\ row[copies[n]] # "none"
      BY <1>2 DEF ListingTypeOK, FeedInv, CopiesInv
    <2> QED
      BY <2>1
  <1>11. FeedInv'
    BY <1>8, <1>9, <1>10 DEF FeedInv
  <1>12. ListInv'
    <2>1. /\ list'.clean = list.clean /\ list'.filter = list.filter
          /\ list'.loading = list.loading /\ list'.request = list.request
          /\ list'.cursor = list.cursor /\ list'.scope = list.scope
          /\ list'.shown = list.shown /\ list'.exhausted = list.exhausted
      BY <1>1, <1>2 DEF Views
    <2>2. \A u \in kept : Matches(u, list.filter) => Matches(u, list.filter)'
      <3> TAKE u \in kept
      <3>1. u \in Uids /\ head'[u] = head[u] /\ tag'[u] = tag[u]
        BY <1>2
      <3> QED
        BY <2>1, <3>1 DEF Matches, Partition
    <2>3. kept \subseteq list.steady
      OBVIOUS
    <2> HIDE DEF kept
    <2>4. ASSUME list.clean, list.filter.tag # Nothing
          PROVE  /\ list.loading => list.request = [filter |-> list.filter,
                              cursor |-> list.cursor, scope |-> list.scope]
                 /\ \A u \in kept :
                      /\ Matches(u, list.filter)'
                      /\ \/ <<u, list.filter>> \in list.shown
                         \/ ~list.exhausted /\ (list.cursor # Nothing => Precedes(list.cursor, u))
      <3>1. list.loading => list.request = [filter |-> list.filter,
                              cursor |-> list.cursor, scope |-> list.scope]
        BY <1>2, <2>4 DEF ListInv, Well
      <3>2. ASSUME NEW u \in kept
            PROVE  /\ Matches(u, list.filter)'
                   /\ \/ <<u, list.filter>> \in list.shown
                      \/ ~list.exhausted /\ (list.cursor # Nothing => Precedes(list.cursor, u))
        <4>1. /\ Matches(u, list.filter)
              /\ \/ <<u, list.filter>> \in list.shown
                 \/ ~list.exhausted /\ (list.cursor # Nothing => Precedes(list.cursor, u))
          BY <1>2, <2>3, <2>4 DEF ListInv, Well
        <4> QED
          BY <2>2, <4>1
      <3> QED
        BY <3>1, <3>2
    <2> QED
      BY <1>4, <2>1, <2>4 DEF ListInv, Well, Matches, Partition, Precedes
  <1> QED
    BY <1>7, <1>11, <1>12 DEF PagesInv

\* Names stay with one secret as long as none becomes live.
LEMMA NamesStay ==
    ASSUME NamesInv, \A u \in Uids : head'[u] \in LiveStates => head[u] \in LiveStates
    PROVE  NamesInv'
  BY DEF NamesInv, Named, LiveStates

LEMMA PrepareStep ==
    ASSUME PagesInv, NEW u \in Uids, NEW t \in Tags, Prepare(u, t) PROVE PagesInv'
  <1>1. /\ Named(NameOf[u]) = {} /\ Noticed
        /\ head' = [head EXCEPT ![u] = "PREPARED"] /\ tag' = [tag EXCEPT ![u] = t]
        /\ UNCHANGED <<row, reads>>
    BY DEF Prepare
  <1>2. ListingTypeOK /\ NamesInv
    BY DEF PagesInv, FeedInv
  <1>3. NamesInv'
    <2>1. \A v \in Uids : v # u => head'[v] = head[v]
      BY <1>1, <1>2 DEF ListingTypeOK
    <2>2. \A v \in Uids : NameOf[v] = NameOf[u] => head[v] \notin LiveStates
      BY <1>1 DEF Named, LiveStates
    <2> SUFFICES ASSUME NEW v \in Uids, NEW w \in Uids,
                        v \in Named(NameOf[w])', w \in Named(NameOf[v])'
                 PROVE  v = w
      BY DEF NamesInv
    <2>3. NameOf[v] = NameOf[w] /\ head'[v] \in LiveStates /\ head'[w] \in LiveStates
      BY DEF Named, LiveStates
    <2>4. CASE v # u /\ w # u
      BY <1>2, <2>1, <2>3, <2>4 DEF NamesInv, Named, LiveStates
    <2>5. CASE v = u \/ w = u
      BY <2>1, <2>2, <2>3, <2>5
    <2> QED
      BY <2>4, <2>5
  <1> QED
    BY <1>1, <1>2, <1>3, NoticedStep DEF ListingTypeOK

LEMMA SettleStep ==
    ASSUME PagesInv, NEW u \in Uids, NEW granted \in BOOLEAN, Settle(u, granted)
    PROVE  PagesInv'
  <1>1. /\ head[u] = "PREPARED" /\ Noticed
        /\ head' = [head EXCEPT ![u] = "ACTIVE"]
        /\ row' = IF granted THEN [row EXCEPT ![u] = "read"] ELSE row
        /\ UNCHANGED <<tag, reads>>
    BY DEF Settle
  <1>2. ListingTypeOK /\ NamesInv
    BY DEF PagesInv, FeedInv
  <1>3. NamesInv'
    BY <1>1, <1>2, NamesStay DEF ListingTypeOK, LiveStates
  <1> QED
    BY <1>1, <1>2, <1>3, NoticedStep DEF ListingTypeOK

LEMMA WithdrawStep == ASSUME PagesInv, NEW u \in Uids, Withdraw(u) PROVE PagesInv'
  <1>1. /\ head[u] = "PREPARED" /\ Noticed
        /\ head' = [head EXCEPT ![u] = "none"] /\ tag' = [tag EXCEPT ![u] = Nothing]
        /\ UNCHANGED <<row, reads>>
    BY DEF Withdraw
  <1>2. ListingTypeOK /\ NamesInv
    BY DEF PagesInv, FeedInv
  <1>3. NamesInv'
    BY <1>1, <1>2, NamesStay DEF ListingTypeOK, LiveStates
  <1> QED
    BY <1>1, <1>2, <1>3, NoticedStep DEF ListingTypeOK

LEMMA RetagStep ==
    ASSUME PagesInv, NEW u \in Uids, NEW t \in Tags, Retag(u, t) PROVE PagesInv'
  <1>1. /\ tag' = [tag EXCEPT ![u] = t] /\ UNCHANGED <<head, row, reads>> /\ Noticed
    BY DEF Retag
  <1>2. ListingTypeOK /\ NamesInv
    BY DEF PagesInv, FeedInv
  <1>3. NamesInv'
    BY <1>1, <1>2, NamesStay
  <1> QED
    BY <1>1, <1>2, <1>3, NoticedStep DEF ListingTypeOK

LEMMA ChangeAccessStep == ASSUME PagesInv, NEW u \in Uids, ChangeAccess(u) PROVE PagesInv'
  <1>1. /\ row' = [row EXCEPT ![u] = IF row[u] = "read" THEN "revoked" ELSE "read"]
        /\ UNCHANGED <<head, tag, reads>> /\ Noticed
    BY DEF ChangeAccess
  <1>2. ListingTypeOK /\ NamesInv
    BY DEF PagesInv, FeedInv
  <1>3. NamesInv'
    BY <1>1, <1>2, NamesStay
  <1> QED
    BY <1>1, <1>2, <1>3, NoticedStep DEF ListingTypeOK

LEMMA ArchiveStep == ASSUME PagesInv, NEW u \in Uids, Archive(u) PROVE PagesInv'
  <1>1. /\ head' = [head EXCEPT ![u] = "ARCHIVED"]
        /\ row' = IF row[u] = "read" THEN [row EXCEPT ![u] = "revoked"] ELSE row
        /\ UNCHANGED <<tag, reads>> /\ Noticed
    BY DEF Archive
  <1>2. ListingTypeOK /\ NamesInv
    BY DEF PagesInv, FeedInv
  <1>3. NamesInv'
    BY <1>1, <1>2, NamesStay DEF ListingTypeOK, LiveStates
  <1> QED
    BY <1>1, <1>2, <1>3, NoticedStep DEF ListingTypeOK

LEMMA ChangePolicyStep == ASSUME PagesInv, NEW u \in Uids, ChangePolicy(u) PROVE PagesInv'
  <1>1. /\ reads' = IF u \in reads THEN reads \ {u} ELSE reads \cup {u}
        /\ UNCHANGED <<head, tag, row>> /\ Noticed
    BY DEF ChangePolicy
  <1>2. ListingTypeOK /\ NamesInv
    BY DEF PagesInv, FeedInv
  <1>3. NamesInv'
    BY <1>1, <1>2, NamesStay
  <1>4. reads' \subseteq Uids
    BY <1>1, <1>2 DEF ListingTypeOK
  <1> QED
    BY <1>1, <1>2, <1>3, <1>4, NoticedStep DEF ListingTypeOK

LEMMA PagesStep == PagesInv /\ [ListingNext]_listingVars => PagesInv'
  <1> SUFFICES ASSUME PagesInv, [ListingNext]_listingVars PROVE PagesInv'
    OBVIOUS
  <1>1. CASE StartCycle \/ QueryPage \/ Answer \/ TurnPage \/ AbandonCycle
    BY <1>1, StartStep, QueryStep, AnswerStep, TurnStep, AbandonStep
  <1>2. CASE \E u \in Uids : Hydrate(u)
    BY <1>2, HydrateStep
  <1>3. CASE \E n \in Names : Materialize(n)
    BY <1>3, MaterializeStep
  <1>4. CASE \E t \in Tags \cup {Nothing} : ApplyFilter(t)
    BY <1>4, ApplyFilterStep
  <1>5. CASE Relocate \/ Refresh \/ LoadMore \/ Receive \/ ReceiveError
    BY <1>5, RelocateStep, RefreshStep, LoadMoreStep, ReceiveStep, ReceiveErrorStep
  <1>6. CASE \E u \in Uids : \E t \in Tags : Prepare(u, t) \/ Retag(u, t)
    BY <1>6, PrepareStep, RetagStep
  <1>7. CASE \E u \in Uids : \E granted \in BOOLEAN : Settle(u, granted)
    BY <1>7, SettleStep
  <1>8. CASE \E u \in Uids : Withdraw(u) \/ Archive(u) \/ ChangeAccess(u) \/ ChangePolicy(u)
    BY <1>8, WithdrawStep, ArchiveStep, ChangeAccessStep, ChangePolicyStep
  <1>9. CASE UNCHANGED listingVars
    <2>1. UNCHANGED <<sharedVars, feed, copies, list, changes, pages>>
      BY <1>9 DEF listingVars
    <2>2. list' \in Views /\ Well(list')
      BY <2>1 DEF PagesInv, ListingTypeOK, ListInv
    <2> QED
      BY <2>1, <2>2, ConsoleStep
  <1> QED
    BY <1>1, <1>2, <1>3, <1>4, <1>5, <1>6, <1>7, <1>8, <1>9 DEF ListingNext

-----------------------------------------------------------------------------
(* The theorems of the listings *)

\* What the proofs about the listings rest on, in every state of ListingSpec.
THEOREM PagesSafety == ListingSpec => []PagesInv
  <1>1. ListingInit => PagesInv
    BY PagesInit
  <1>2. PagesInv /\ [ListingNext]_listingVars => PagesInv'
    BY PagesStep
  <1> QED
    BY <1>1, <1>2, PTL DEF ListingSpec

\* The state-level argument: a cycle that is done has nothing ahead.
LEMMA DoneIsExact ==
    ASSUME PagesInv PROVE QuietCyclesDropTheDead /\ OnePageSnapshotsAreExact
  <1>1. copies \in [Names -> Uids \cup {Nothing}] /\ FeedInv
    BY DEF PagesInv, ListingTypeOK
  <1>2. ASSUME feed.phase = "done", feed.quiet
        PROVE  \A n \in Names : copies[n] # Nothing => MayRead(copies[n])
    BY <1>1, <1>2 DEF FeedInv, DeadInv, Ahead
  <1>3. ASSUME feed.phase = "done", feed.quiet, feed.turned <= 1, NEW n \in Names,
               NEW readable, readable = {u \in Named(n) : MayRead(u)}
        PROVE  IF readable = {} THEN copies[n] = Nothing ELSE copies[n] \in readable
    <2>1. CASE readable = {}
      <3> SUFFICES ASSUME NEW u \in Uids, copies[n] = u PROVE FALSE
        BY <1>1, <2>1
      <3>1. u # Nothing /\ NameOf[u] = n /\ MayRead(u)
        BY <1>1, <1>2, <1>3, Sizes DEF FeedInv, CopiesInv
      <3>2. u \in Named(n)
        BY <3>1 DEF MayRead, Named
      <3> QED
        BY <1>3, <2>1, <3>1, <3>2
    <2>2. ASSUME NEW u \in readable PROVE copies[n] = u
      <3>1. u \in Uids /\ NameOf[u] = n /\ MayRead(u)
        BY <1>3, <2>2 DEF Named
      <3> QED
        BY <1>1, <1>3, <3>1 DEF FeedInv, FirstPageInv, Ahead
    <2> QED
      BY <2>1, <2>2
  <1>4. QuietCyclesDropTheDead
    BY <1>2 DEF QuietCyclesDropTheDead
  <1>5. OnePageSnapshotsAreExact
    BY <1>3 DEF OnePageSnapshotsAreExact
  <1> QED
    BY <1>4, <1>5

\* When a cycle over the change feed is done and no secret, access row or policy changed
\* meanwhile, the consumer keeps no copy of a secret that it may not read, whatever the
\* limit of a page and however many pages the cycle took (listAccess, listChanges).
THEOREM DeadCopiesDropped == ListingSpec => []QuietCyclesDropTheDead
  <1>1. PagesInv => QuietCyclesDropTheDead
    BY DoneIsExact
  <1> QED
    BY <1>1, PagesSafety, PTL

\* When such a cycle found rows on one page at most, the consumer holds exactly what it may
\* read, whichever of the rows of a reused name comes first (collapseReusedSecretIds).
THEOREM SnapshotsExact == ListingSpec => []OnePageSnapshotsAreExact
  <1>1. PagesInv => OnePageSnapshotsAreExact
    BY DoneIsExact
  <1> QED
    BY <1>1, PagesSafety, PTL

\* A list the console calls complete, not emptied under a request, shows every secret that
\* matched its filter all along, for any page limit and hop budget (useCursorPages).
THEOREM ListsComplete == ListingSpec => []ExhaustedListsAreComplete
  <1>1. PagesInv => ExhaustedListsAreComplete
    BY DEF PagesInv, ListInv, Well, ExhaustedListsAreComplete, Browsed
  <1> QED
    BY <1>1, PagesSafety, PTL

\* The feed, the copies and the list are well formed, and a folder tree that is not marked
\* truncated accounts for every ready secret below it, for any names and any bound of the
\* scan (listSecretTree).
THEOREM ListingsSafe == ListingSpec => []ListingsInv
  <1>1. PagesInv => ListingsInv
    BY TreesAreRight DEF PagesInv, ListingsInv
  <1> QED
    BY <1>1, PagesSafety, PTL
==============================================================================
