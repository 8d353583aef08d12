---------------------------- MODULE AgentMirror -----------------------------
(***************************************************************************)
(* How a Kubernetes cluster keeps copies of the secrets an AgentGrant lets  *)
(* it read: GET /v1/agent/sync (src/services/agent-sync.ts) over the sync   *)
(* index of SyncIndex, and the passes of the controller over one consumer   *)
(* and one import for each secret                                           *)
(* (src/packages/kubernetes-controller/src/v1beta.ts).                      *)
(*                                                                          *)
(* A pass reads the index page by page while secrets move in it, reads some *)
(* secrets authoritatively, and saves a checkpoint from which the next pass *)
(* trusts every copy that the index does not mention.                       *)
(***************************************************************************)
EXTENDS SyncIndex, FiniteSets, FiniteSetsExt, Functions

CONSTANTS
    MaxSequence,    \* bound on the publications of the environment
    MaxTime,        \* bound on the clock
    Grants,         \* what an administrator may grant: sets of secrets
    PageSize,       \* entries of a page (100 in the code)
    PageLife,       \* time a cycle may take (15 minutes)
    CheckpointLife, \* time a checkpoint is accepted (7 days)
    MarkerLife      \* time the entry of an archived secret is kept (8 days)

ASSUME SizesAreSmall == {MaxSequence, MaxTime, CheckpointLife} \subseteq Nat
                        /\ {PageSize, PageLife} \subseteq Nat \ {0}
ASSUME SecretsAreFew == IsFiniteSet(Secrets) /\ Cardinality(Secrets) <= MaxSequence
ASSUME GrantsNameSecrets == Grants \subseteq SUBSET Secrets /\ Secrets \in Grants
ASSUME VersionsAreSequences == Versions = 1 .. MaxSequence /\ None \notin Versions
\* The day between seven and eight covers the last cycle of an old checkpoint.
ASSUME MarkersOutliveCheckpoints ==
    MarkerLife \in Nat /\ CheckpointLife + PageLife <= MarkerLife + 1

VARIABLES
    \* The service; current, archived, position, sequence and ready are SyncIndex's
    readers,    \* secrets whose current ACL lets the consumer read
    published,  \* syncSequence of the heads
    markerEnds, \* ttl of the entries of archived secrets
    grant,      \* secrets the AgentGrant names; its digest stands for it
    clock,
    \* The cluster's own store
    target,     \* version of the copy in an import's target Secret
    status,     \* version in the import's status
    checkpoint, \* syncCursor in the consumer's status
    \* The controller
    pass

indexVars == <<current, archived, position, sequence, ready>>
serviceVars == <<indexVars, readers, published, markerEnds, grant, clock>>
clusterVars == <<target, status, checkpoint>>
allVars == <<serviceVars, clusterVars, pass>>

-----------------------------------------------------------------------------
(* Types *)

Times == 0 .. MaxTime + MarkerLife + CheckpointLife + PageLife
VersionOrNone == Versions \cup {None}

\* A position in the index that the service keeps behind an opaque token.
NoToken ==
    [kind |-> "none", digest |-> {}, after |-> 0, through |-> 0, last |-> 0,
     snapshot |-> TRUE, checkpointEnds |-> 0, pageEnds |-> 0]
Token ==
    [kind : {"none", "page", "checkpoint"}, digest : SUBSET Secrets, after : Nat,
     through : Nat, last : Nat, snapshot : BOOLEAN, checkpointEnds : Times, pageEnds : Times]

Mention == [version : VersionOrNone, readable : BOOLEAN]
NoMention == [version |-> None, readable |-> FALSE]

NoPass ==
    [phase |-> "idle", reset |-> FALSE, token |-> NoToken, cycle |-> NoToken, grant |-> {},
     entries |-> [s \in Secrets |-> NoMention], snapshot |-> FALSE, todo |-> {},
     item |-> None, version |-> None, failed |-> FALSE]
Phases == {"idle", "send", "granted", "located", "imports", "fetch", "apply", "record",
           "remove", "clear", "unready"}
PassRecord ==
    [phase : Phases, reset : BOOLEAN, token : Token, cycle : Token, grant : SUBSET Secrets,
     entries : [Secrets -> Mention], snapshot : BOOLEAN, todo : SUBSET Secrets,
     item : Secrets \cup {None}, version : VersionOrNone, failed : BOOLEAN]

TypeOK ==
    /\ current \in [Secrets -> VersionOrNone]
    /\ archived \subseteq Secrets /\ readers \subseteq Secrets
    /\ position \in [Secrets -> Nat] /\ published \in [Secrets -> Nat]
    /\ sequence \in 0 .. MaxSequence /\ ready \in BOOLEAN
    /\ markerEnds \in [Secrets -> Times]
    /\ grant \in Grants
    /\ clock \in 0 .. MaxTime
    /\ target \in [Secrets -> VersionOrNone] /\ status \in [Secrets -> VersionOrNone]
    /\ checkpoint \in Token /\ checkpoint.kind \in {"none", "checkpoint"}
    /\ pass \in PassRecord
    /\ pass.phase \in {"fetch", "apply", "record", "remove", "clear"} => pass.item \in Secrets

\* Every secret has been created, indexed and granted; the cluster is new.
MirrorInit ==
    /\ position \in Injection(Secrets, 1 .. Cardinality(Secrets))
    /\ current = position /\ published = position
    /\ sequence = Cardinality(Secrets)
    /\ archived = {} /\ ready = TRUE
    /\ readers = Secrets /\ grant = Secrets
    /\ markerEnds = [s \in Secrets |-> 0]
    /\ clock = 0
    /\ target = [s \in Secrets |-> None]
    /\ status = [s \in Secrets |-> None]
    /\ checkpoint = NoToken
    /\ pass = NoPass

-----------------------------------------------------------------------------
(* The service changes under the cluster *)

\* Mutant: the entry of an archived secret expires at once.
MarkerOfNow == clock

MarkerEnd == clock + MarkerLife

\* A mutation commits: the index moves with it, an archive names no reader.
Change(s) ==
    /\ sequence < MaxSequence
    /\ Publish(s, sequence + 1)
    /\ published' = [published EXCEPT ![s] = sequence + 1]
    /\ readers' \in {readers \cup {s}, readers \ {s}}
    /\ s \in archived' => s \notin readers'
    /\ markerEnds' = [markerEnds EXCEPT ![s] = IF s \in archived' THEN MarkerEnd ELSE 0]
    /\ UNCHANGED <<grant, clock, clusterVars, pass>>

\* TTL deletes a marker some time after its end.
ForgetMarker(s) ==
    /\ markerEnds[s] <= clock
    /\ Forget(s)
    /\ UNCHANGED <<readers, published, markerEnds, grant, clock, clusterVars, pass>>

\* An administrator replaces the secrets of the grant.
ChangeGrant ==
    /\ grant' \in Grants
    /\ UNCHANGED <<indexVars, readers, published, markerEnds, clock, clusterVars, pass>>

\* A request takes seconds, which is no time here.
Tick ==
    /\ clock < MaxTime
    /\ pass.phase \notin {"granted", "located"}
    /\ clock' = clock + 1
    /\ UNCHANGED <<indexVars, readers, published, markerEnds, grant, clusterVars, pass>>

-----------------------------------------------------------------------------
(* GET /v1/agent/sync *)

\* The handler reads the grant of the consumer.
SyncGrant ==
    /\ pass.phase = "send"
    /\ pass' = [pass EXCEPT !.phase = "granted", !.grant = grant]
    /\ UNCHANGED <<serviceVars, clusterVars>>

\* A cycle that starts with no token takes everything counted so far.
FreshCycle ==
    [kind |-> "page", digest |-> pass.grant, after |-> 0, through |-> sequence, last |-> 0,
     snapshot |-> TRUE, checkpointEnds |-> clock + CheckpointLife,
     pageEnds |-> clock + PageLife]

\* From a checkpoint it takes what was counted since.
DeltaCycle ==
    [FreshCycle EXCEPT !.after = pass.token.through, !.snapshot = FALSE]

Cycle ==
    CASE pass.token.kind = "none"       -> FreshCycle
      [] pass.token.kind = "checkpoint" -> DeltaCycle
      [] pass.token.kind = "page"       -> pass.token

\* Mutant: the digest of the grant is not compared.
TokenInTime ==
    pass.token.kind # "none" =>
        /\ pass.token.through <= sequence
        /\ clock < (IF pass.token.kind = "page" THEN pass.token.pageEnds
                    ELSE pass.token.checkpointEnds)

\* A token is refused with 410 when it has expired or the grant has changed.
TokenAccepted ==
    pass.token.kind # "none" =>
        /\ pass.token.digest = pass.grant
        /\ pass.token.through <= sequence
        /\ clock < (IF pass.token.kind = "page" THEN pass.token.pageEnds
                    ELSE pass.token.checkpointEnds)

\* The counter is read and the token resolved: the range of the cycle is fixed.
SyncState ==
    /\ pass.phase = "granted"
    /\ ready
    /\ TokenAccepted
    /\ pass' = [pass EXCEPT !.phase = "located", !.cycle = Cycle]
    /\ UNCHANGED <<serviceVars, clusterVars>>

\* synchronize starts again without a token, once.
SyncReset ==
    /\ pass.phase = "granted"
    /\ ~TokenAccepted
    /\ ~pass.reset
    /\ pass' = [NoPass EXCEPT !.phase = "send", !.reset = TRUE]
    /\ UNCHANGED <<serviceVars, clusterVars>>

\* The entries of the range that the page has not passed, in their order.
Unread == {s \in Secrets : position[s] > Max({pass.cycle.after, pass.cycle.last})
                           /\ position[s] <= pass.cycle.through}
Page == {s \in Unread : Cardinality({t \in Unread : position[t] < position[s]}) < PageSize}
IsLastPage == Cardinality(Page) < PageSize

\* The ACL and the state let the consumer read the current revision.
Readable(s) == s \in readers /\ s \notin archived

\* visibleEntry, for the secrets of the grant.
Mentioned ==
    [s \in Secrets |->
        IF s \in Page \cap pass.grant
        THEN [version |-> current[s], readable |-> Readable(s)]
        ELSE pass.entries[s]]

\* Mutant: the checkpoint takes the counter as it is when the cycle ends.
CheckpointOfNow ==
    [NoToken EXCEPT !.kind = "checkpoint", !.digest = pass.cycle.digest,
        !.through = sequence, !.checkpointEnds = pass.cycle.checkpointEnds]

\* The checkpoint of a whole cycle; an unchanged one is the token itself.  The next
\* cycle takes only these fields from it.
Checkpoint ==
    IF pass.token.kind = "checkpoint" /\ pass.cycle.after = pass.cycle.through
    THEN pass.token
    ELSE [NoToken EXCEPT !.kind = "checkpoint", !.digest = pass.cycle.digest,
              !.through = pass.cycle.through, !.checkpointEnds = pass.cycle.checkpointEnds]

\* The query and its answer: another page follows while this one is full.
SyncPage ==
    /\ pass.phase = "located"
    /\ pass' =
        IF IsLastPage
        THEN [pass EXCEPT !.phase = "imports", !.entries = Mentioned, !.cycle = NoToken,
                          !.snapshot = pass.cycle.snapshot,
                          !.token = Checkpoint, !.todo = Secrets]
        ELSE [pass EXCEPT !.phase = "send", !.entries = Mentioned, !.cycle = NoToken,
                          !.token = [pass.cycle EXCEPT !.last = Max({position[s] : s \in Page})]]
    /\ UNCHANGED <<serviceVars, clusterVars>>

\* setFailure replaces the status of the consumer; its imports come next.
FailConsumer ==
    /\ pass' = [NoPass EXCEPT !.phase = "unready", !.todo = Secrets]
    /\ checkpoint' = NoToken
    /\ UNCHANGED <<serviceVars, target, status>>

\* A second 410 in one pass.
SyncRefused ==
    /\ pass.phase = "granted"
    /\ ~TokenAccepted
    /\ pass.reset
    /\ FailConsumer

\* The request fails.
SyncFail ==
    /\ pass.phase \in {"send", "granted", "located"}
    /\ FailConsumer

-----------------------------------------------------------------------------
(* reconcileAll, for one consumer and its imports *)

StartPass ==
    /\ pass.phase = "idle"
    /\ pass' = [NoPass EXCEPT !.phase = "send", !.token = checkpoint]
    /\ UNCHANGED <<serviceVars, clusterVars>>

\* currentImportVersion: a copy counts when target and status agree.
LocalVersion(s) == IF target[s] = status[s] THEN target[s] ELSE None

\* A copy is left alone when the index names its version, or when a delta does
\* not mention the secret.
TrustsCopy(s) ==
    /\ LocalVersion(s) # None
    /\ \/ pass.entries[s].version = LocalVersion(s)
       \/ pass.entries[s] = NoMention /\ ~pass.snapshot

MayStillRead(s) ==
    s \in pass.grant /\ (pass.entries[s] # NoMention => pass.entries[s].readable)

\* The pass without what only this import needed.
Taken(s) == [pass EXCEPT !.todo = @ \ {s}, !.entries[s] = NoMention]
Fetching(s) == [Taken(s) EXCEPT !.phase = "fetch", !.item = s, !.version = LocalVersion(s)]
NextImport == [pass EXCEPT !.phase = "imports", !.item = None, !.version = None]

\* reconcileImport looks at its copy before it asks the service for a newer one.
TakeImport(s) ==
    /\ pass.phase = "imports"
    /\ s \in pass.todo
    /\ pass' =
        IF ~MayStillRead(s) THEN [Taken(s) EXCEPT !.phase = "remove", !.item = s]
        ELSE IF TrustsCopy(s) THEN Taken(s)
        ELSE Fetching(s)
    /\ UNCHANGED <<serviceVars, clusterVars>>

\* getAgentSecret with the version that was found as If-None-Match.
Fetch ==
    LET s == pass.item IN
    /\ pass.phase = "fetch"
    /\ pass' =
        IF ~(s \in grant /\ Readable(s)) THEN [pass EXCEPT !.phase = "remove"]
        ELSE IF current[s] = pass.version THEN NextImport
        ELSE [pass EXCEPT !.phase = "apply", !.version = current[s]]
    /\ UNCHANGED <<serviceVars, clusterVars>>

Apply ==
    /\ pass.phase = "apply"
    /\ target' = [target EXCEPT ![pass.item] = pass.version]
    /\ pass' = [pass EXCEPT !.phase = "record"]
    /\ UNCHANGED <<serviceVars, status, checkpoint>>

Record ==
    /\ pass.phase = "record"
    /\ status' = [status EXCEPT ![pass.item] = pass.version]
    /\ pass' = NextImport
    /\ UNCHANGED <<serviceVars, target, checkpoint>>

\* removeOwnedImport, and the status that says so.
Remove ==
    /\ pass.phase = "remove"
    /\ target' = [target EXCEPT ![pass.item] = None]
    /\ pass' = [pass EXCEPT !.phase = "clear"]
    /\ UNCHANGED <<serviceVars, status, checkpoint>>

ClearStatus ==
    /\ pass.phase = "clear"
    /\ status' = [status EXCEPT ![pass.item] = None]
    /\ pass' = NextImport
    /\ UNCHANGED <<serviceVars, target, checkpoint>>

\* A call for an import fails: its status loses the version, and the consumer
\* keeps its old checkpoint.
FailImport ==
    /\ pass.phase \in {"fetch", "apply", "record"}
    /\ status' = [status EXCEPT ![pass.item] = None]
    /\ pass' = [NextImport EXCEPT !.failed = TRUE]
    /\ UNCHANGED <<serviceVars, target, checkpoint>>

\* Or the first call, which reads the copy.
FailLookup(s) ==
    /\ pass.phase = "imports"
    /\ s \in pass.todo
    /\ MayStillRead(s)
    /\ status' = [status EXCEPT ![s] = None]
    /\ pass' = [Taken(s) EXCEPT !.failed = TRUE]
    /\ UNCHANGED <<serviceVars, target, checkpoint>>

\* An import whose consumer is not ready: its copy stays, its status does not.
ConsumerNotReady(s) ==
    /\ pass.phase = "unready"
    /\ s \in pass.todo
    /\ status' = [status EXCEPT ![s] = None]
    /\ pass' = [pass EXCEPT !.todo = @ \ {s}]
    /\ UNCHANGED <<serviceVars, target, checkpoint>>

\* The checkpoint of a ready consumer is saved after every import, if none failed.
EndPass ==
    /\ pass.phase \in {"imports", "unready"} /\ pass.todo = {}
    /\ checkpoint' = IF pass.failed \/ pass.phase = "unready" THEN checkpoint ELSE pass.token
    /\ pass' = NoPass
    /\ UNCHANGED <<serviceVars, target, status>>

\* The controller restarts.
Crash ==
    /\ pass.phase # "idle"
    /\ pass' = NoPass
    /\ UNCHANGED <<serviceVars, clusterVars>>

\* Someone deletes or overwrites a copy.
Damage(s) ==
    /\ target[s] # None
    /\ target' = [target EXCEPT ![s] = None]
    /\ UNCHANGED <<serviceVars, status, checkpoint, pass>>

PassStep ==
    \/ StartPass \/ SyncGrant \/ SyncState \/ SyncReset \/ SyncRefused \/ SyncPage
    \/ (\E s \in Secrets : TakeImport(s) \/ ConsumerNotReady(s))
    \/ Fetch \/ Apply \/ Record \/ Remove \/ ClearStatus \/ EndPass

MirrorNext ==
    \/ \E s \in Secrets : Change(s) \/ ForgetMarker(s) \/ Damage(s)
    \/ ChangeGrant \/ Tick
    \/ PassStep
    \/ SyncFail \/ FailImport \/ (\E s \in Secrets : FailLookup(s)) \/ Crash

MirrorSpec == MirrorInit /\ [][MirrorNext]_allVars

\* The timer starts a pass every ten minutes, and a pass goes on.
FairMirrorSpec == MirrorSpec /\ WF_allVars(PassStep)

-----------------------------------------------------------------------------
(* Properties *)

\* A checkpoint that would be accepted vouches for no stale copy: what was
\* published at or below it has reached the cluster, or the copy will be read
\* again.  Passes trust unmentioned copies, though entries moved while pages were
\* read, imports failed, grants changed to and fro and markers were forgotten.
CheckpointVouchesForCopies ==
    checkpoint.kind = "checkpoint" /\ checkpoint.digest = grant
    /\ clock < checkpoint.checkpointEnds
    => \A s \in grant :
          published[s] <= checkpoint.through /\ LocalVersion(s) # None
          => LocalVersion(s) = current[s] /\ Readable(s)

\* What a pass leaves for the next one can be relied on: tokens, copies and statuses
\* are well formed, and the checkpoint vouches for the copies.
MirrorInv == TypeOK /\ CheckpointVouchesForCopies

\* Once only the controller acts, the cluster comes to hold the current version
\* of each secret the consumer may read, and no copy of any other.
CopiesConverge ==
    <>[][PassStep]_allVars =>
        <>[](\A s \in Secrets :
              target[s] = IF s \in grant /\ Readable(s) THEN current[s] ELSE None)
=============================================================================
