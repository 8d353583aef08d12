--------------------------- MODULE SecretClients ---------------------------
(***************************************************************************)
(* The programs that write one secret through the HTTP API, side by side:  *)
(* the Kubernetes controller, which exports a Secret of its cluster        *)
(* (packages/kubernetes-controller), an administrator at the console       *)
(* (packages/console, useGuardedMutation) and a Pulumi program             *)
(* (packages/pulumi-provider).                                             *)
(*                                                                         *)
(* What a mutation does inside the service is SecretMutation; here it is   *)
(* what its clients see of it: a key that is spent, a lease, a head that   *)
(* moves or does not, an answer that may be lost.  The cluster is an       *)
(* object store with a watch stream: one source Secret, one                *)
(* HemligSecretExport with its status, and the checkpoint the controller   *)
(* keeps in the status of its HemligConsumer.                              *)
(***************************************************************************)
EXTENDS Naturals

CONSTANTS
    Payloads,       \* contents of the source Secret; None: it is missing, or managed by an import
    Metas,          \* metadata an export asks for
    Foreign,        \* any other payload or metadata
    None,
    MaxWrites,      \* bound: drafts opened at the console, and Pulumi updates
    TakeTurns,      \* bound: those begin one after the other, beside the controller and
                    \* whatever calls they left behind
    MaxIncidents    \* bound: those, edits of source and export, changes of the write scope,
                    \* the archive, lost answers, failures, hints and restarts, together

ASSUME ValuesAssumption ==
    /\ Payloads # {} /\ Metas # {}
    /\ {None, Foreign} \cap (Payloads \cup Metas) = {} /\ None # Foreign
ASSUME BoundsAssumption == MaxWrites \in Nat /\ MaxIncidents \in Nat /\ TakeTurns \in BOOLEAN

VARIABLES
    head,           \* the secret's current control revision
    spent,          \* deterministic keys prepared on this head; If-Match refuses older ones
    calls,          \* mutations under way, and answers their clients have not seen
    landed,         \* the version the console's draft was committed as, 0 before
    scope,          \* [write, changes]: may the controller's grant write the secret
    source,         \* [payload, edit]: the Secret exported
    export,         \* [generation, metadata]: generation 0 is not created yet
    status,         \* what the controller recorded of the export
    checkpoint,     \* [through, write]: the sync cursor, and the grant it was issued under
    watching, events,           \* the watches are open; their undelivered events
    timer, rerun,   \* a pass is scheduled; one was asked for while another ran
    pass,           \* the controller's pass
    draft,          \* the console's editor
    stack,          \* the Pulumi stack: its record, and an update in progress
    faults

serviceVars == <<head, spent, calls, landed>>
clusterVars == <<source, export, scope>>
savedVars == <<status, checkpoint>>
wakeVars == <<watching, events, timer, rerun>>
vars == <<serviceVars, clusterVars, savedVars, wakeVars, pass, draft, stack, faults>>

May ==
    source.edit + export.generation + scope.changes + draft.count + stack.count + faults
        < MaxIncidents
Resting == {"idle", "succeeded", "stale", "failed", "applied", "absent", "unknown"}
MayWrite ==
    /\ May /\ draft.count + stack.count < MaxWrites
    /\ TakeTurns => draft.at \in Resting /\ stack.at = "idle"
Fault == May /\ faults' = faults + 1

NoControl == [version |-> 0, payloadAt |-> 0, metadata |-> None, archived |-> FALSE]
Control == [version |-> head.version, payloadAt |-> head.payloadAt, metadata |-> head.metadata,
            archived |-> head.archived]
Unsynced == [through |-> 0, write |-> TRUE]
NotReady(generation) ==
    [ready |-> FALSE, refused |-> FALSE, generation |-> generation, payload |-> None, payloadAt |-> 0]

\* Between passes only the dependencies of the last list are kept.
Idle(e, s) ==
    [at |-> "idle", by |-> "timer", export |-> e, source |-> s, mark |-> Unsynced,
     control |-> NoControl, failed |-> FALSE, retry |-> FALSE]

Init ==
    /\ head = [version |-> 1, payload |-> Foreign, payloadAt |-> 1, metadata |-> Foreign,
               archived |-> FALSE]
    /\ spent = {} /\ calls = {} /\ landed = 0 /\ faults = 0
    /\ scope = [write |-> TRUE, changes |-> 0]
    /\ source = [payload |-> CHOOSE p \in Payloads : TRUE, edit |-> 0]
    /\ export = [generation |-> 0, metadata |-> CHOOSE m \in Metas : TRUE]
    /\ status = NotReady(0) /\ checkpoint = Unsynced
    /\ watching = FALSE /\ events = {} /\ timer = FALSE /\ rerun = FALSE
    /\ pass = Idle(export, source)
    /\ draft = [at |-> "idle", base |-> 0, seen |-> 0, count |-> 0]
    /\ stack = [at |-> "idle", payload |-> FALSE, control |-> NoControl, count |-> 0]

(* Calls *)

NewPayload(p) == [payload |-> p, metadata |-> None]
NewMetadata(m) == [payload |-> None, metadata |-> m]

\* The service is done with a call, and somebody may be waiting for it.
Answered(q, code) ==
    IF q.heard THEN {[q EXCEPT !.at = "answered", !.code = code]} ELSE {}

\* A client takes its answer, the version after its base with a success, or stops waiting
\* (code 0) and the call goes on without it.
Codes == {0, 200, 403, 404, 409, 412, 500}
Hears(c, code, version) ==
    \E q \in calls :
        /\ q.client = c /\ q.heard
        /\ \/ /\ q.at = "answered" /\ code = q.code /\ version = q.base + 1
              /\ calls' = calls \ {q}
              /\ UNCHANGED faults
           \/ /\ code = 0 /\ version = 0
              /\ Fault
              /\ calls' = (calls \ {q})
                    \cup (IF q.at = "answered" THEN {} ELSE {[q EXCEPT !.heard = FALSE]})
    /\ UNCHANGED <<head, spent, landed>>

(* The service *)

LeaseIsHeld == \E q \in calls : q.at \in {"prepared", "dead"}

\* A precondition is checked on the head that was read; a key that was used, a lease, or a
\* head that has moved since make the preparing transaction fail.  By its name an archived
\* secret is not found; a controller's call resolves its UID from the grant.
Refusals(c, key, base) ==
    (IF c = "controller" /\ ~scope.write THEN {403} ELSE {})
        \cup (IF base # head.version THEN {412, 409} ELSE {})
        \cup (IF c # "controller" /\ head.archived THEN {404} ELSE {})
        \cup (IF key \in spent \/ LeaseIsHeld THEN {409} ELSE {})

\* A client sends one request and waits; the service refuses or prepares it.  How long it
\* travels makes no difference: the base it names may be just as old.
Send(c, key, base, change) ==
    LET call == [client |-> c, key |-> key, base |-> base, change |-> change,
                 at |-> "prepared", code |-> 0, heard |-> TRUE]
        refusals == Refusals(c, key, base) IN
    /\ \/ refusals = {} /\ calls' = calls \cup {call}
       \/ \E code \in refusals : calls' = calls \cup Answered(call, code)
    /\ spent' = IF refusals = {} /\ c = "controller" THEN spent \cup {key} ELSE spent

\* Success is answered after its audit evidence; an error there is answered as a failure.
Commit(q) ==
    /\ q.at = "prepared"
    /\ head' = [head EXCEPT
            !.version = @ + 1,
            !.payload = IF q.change.payload = None THEN @ ELSE q.change.payload,
            !.payloadAt = IF q.change.payload = None THEN @ ELSE head.version + 1,
            !.metadata = IF q.change.metadata = None THEN @ ELSE q.change.metadata]
    /\ spent' = {}
    /\ landed' = IF q.key = <<"console", draft.count>> THEN head.version + 1 ELSE landed
    /\ \/ calls' = (calls \ {q}) \cup Answered(q, 200) /\ UNCHANGED faults
       \/ calls' = (calls \ {q}) \cup Answered(q, 500) /\ Fault
    /\ UNCHANGED <<clusterVars, savedVars, wakeVars, pass, draft, stack>>

\* A mutation fails once prepared: its key is spent, and its lease held until recovery.
Die(q) ==
    /\ q.at = "prepared"
    /\ Fault
    /\ calls' = (calls \ {q}) \cup Answered(q, 500)
            \cup {[q EXCEPT !.at = "dead", !.heard = FALSE]}
    /\ UNCHANGED <<head, spent, landed, clusterVars, savedVars, wakeVars, pass, draft, stack>>

Recover(q) ==
    /\ q.at = "dead"
    /\ calls' = calls \ {q}
    /\ UNCHANGED <<head, spent, landed, clusterVars, savedVars, wakeVars, pass, draft, stack, faults>>

\* An administrator archives the secret, which nobody can read or find by its name then.
Archive ==
    /\ ~head.archived /\ ~LeaseIsHeld
    /\ Fault
    /\ head' = [head EXCEPT !.version = @ + 1, !.archived = TRUE]
    /\ spent' = {}
    /\ UNCHANGED <<calls, landed, clusterVars, savedVars, wakeVars, pass, draft, stack>>

(* The cluster, and its watches *)

Emit(e) == events' = events \cup (IF watching THEN {e} ELSE {})

EditSource ==
    /\ May
    /\ \E p \in (Payloads \cup {None}) \ {source.payload} :
        source' = [payload |-> p, edit |-> source.edit + 1]
    /\ Emit("source")
    /\ UNCHANGED <<serviceVars, export, scope, savedVars, watching, timer, rerun, pass, draft,
                   stack, faults>>

\* The export is created, and edited: its generation counts the edits.
EditExport ==
    /\ May
    /\ \E m \in Metas \ {export.metadata} :
        export' = [generation |-> export.generation + 1, metadata |-> m]
    /\ Emit("export")
    /\ UNCHANGED <<serviceVars, source, scope, savedVars, watching, timer, rerun, pass, draft,
                   stack, faults>>

ChangeScope ==
    /\ May
    /\ scope' = [write |-> ~scope.write, changes |-> scope.changes + 1]
    /\ UNCHANGED <<serviceVars, source, export, savedVars, wakeVars, pass, draft, stack, faults>>

\* An event of a Secret counts when the last list named it.
IsRelevantWatchEvent(e) == e = "source" => pass.export.generation # 0

WatchEvent(e) ==
    /\ e \in events
    /\ events' = events \ {e}
    /\ timer' = (timer \/ IsRelevantWatchEvent(e))
    /\ UNCHANGED <<serviceVars, clusterVars, savedVars, watching, rerun, pass, draft, stack, faults>>

\* A watch too old to resume starts over, and a pass makes up for what it missed.
WatchExpires ==
    /\ events # {}
    /\ events' = {} /\ timer' = TRUE
    /\ UNCHANGED <<serviceVars, clusterVars, savedVars, watching, rerun, pass, draft, stack, faults>>

(* A pass of the controller: reconcileAll *)

\* The lists are read first: a change made from here on may need another pass.  Whose pass
\* it is matters only until the watches are open.
Begin(by) ==
    /\ pass' = [Idle(export, pass.source) EXCEPT !.at = "listed",
                                         !.by = IF watching THEN "timer" ELSE by]
    /\ rerun' = FALSE

\* Mutant: a pass in progress is taken to be enough.
ReconcileOnce(by) ==
    IF pass.at = "idle" THEN Begin(by) ELSE UNCHANGED <<pass, rerun>>

ReconcileAll(by) ==
    IF pass.at = "idle" THEN Begin(by) ELSE rerun' = TRUE /\ UNCHANGED pass

TimerFires ==
    /\ timer
    /\ timer' = FALSE
    /\ ReconcileAll("timer")
    /\ UNCHANGED <<serviceVars, clusterVars, savedVars, watching, events, draft, stack, faults>>

\* The watches open when the run loop's first call returns; they replay what is there, and
\* that schedules a pass.
StartWatches(soon) ==
    /\ watching' = TRUE
    /\ timer' = (timer \/ soon \/ ~watching)

\* The broker says something changed, or that it is connected, once a consumer has been ready.
Hint ==
    /\ watching \/ pass.mark # Unsynced
    /\ Fault
    /\ timer' = TRUE
    /\ UNCHANGED <<serviceVars, clusterVars, savedVars, watching, events, rerun, pass, draft, stack>>

\* The run loop: at the start, after every interval, and after a pass that threw.
Sweep ==
    /\ ReconcileAll("run")
    /\ IF pass.at = "idle" THEN UNCHANGED <<watching, timer>> ELSE StartWatches(FALSE)
    /\ UNCHANGED <<serviceVars, clusterVars, savedVars, events, draft, stack, faults>>

\* The consumer synchronizes: the entry of the secret, if it changed since the checkpoint
\* or if a checkpoint of another grant was refused.
Synchronize ==
    /\ pass.at = "listed"
    /\ LET snapshot == checkpoint.through = 0 \/ checkpoint.write # scope.write IN
       pass' = [pass EXCEPT
            !.at = IF pass.export.generation = 0 THEN "saving" ELSE "synced",
            !.mark = [through |-> head.version, write |-> scope.write],
            !.control = IF snapshot \/ checkpoint.through # head.version THEN Control
                        ELSE NoControl]
    /\ UNCHANGED <<serviceVars, clusterVars, savedVars, wakeVars, draft, stack, faults>>

IsTransientStatus(code) == code \in {0, 409, 412, 500}
FailPass(code) ==
    pass' = [pass EXCEPT !.at = "saving", !.failed = (code # 403),
                         !.retry = IsTransientStatus(code)]

\* A failure replaces the whole status: what was recorded of the source is forgotten.  Code 404
\* stands for a source or a secret that is not there: the checkpoint waits, and nothing is retried.
FailExport(code) ==
    /\ status' = [NotReady(pass.export.generation) EXCEPT !.refused = (code = 403)]
    /\ FailPass(code)

\* So is the consumer's, and its checkpoint with it; its exports are not ready then.
SynchronizeFails ==
    /\ pass.at = "listed"
    /\ Fault
    /\ checkpoint' = Unsynced
    /\ IF pass.export.generation = 0
       THEN FailPass(0) /\ UNCHANGED status
       ELSE FailExport(0)
    /\ UNCHANGED <<serviceVars, clusterVars, wakeVars, draft, stack>>

\* Mutant: the generation is not compared.
IsUnchangedSource ==
    /\ pass.control = NoControl
    /\ status.ready
    /\ status.payload = source.payload

\* Nothing to do: the entry was not mentioned and the status is of this source and spec.
IsUnchanged ==
    /\ pass.control = NoControl
    /\ status.ready
    /\ status.generation = pass.export.generation
    /\ status.payload = source.payload

\* The scope, then the source.  An entry of an archived secret grants nothing.
ReadSource ==
    /\ pass.at = "synced"
    /\ \/ (~pass.mark.write \/ pass.control.archived) /\ FailExport(403) /\ UNCHANGED faults
       \/ pass.mark.write /\ FailExport(0) /\ Fault
       \/ /\ pass.mark.write /\ ~pass.control.archived
          /\ LET read == [pass EXCEPT !.source = source] IN
             \/ /\ source.payload = None
                /\ status' = NotReady(pass.export.generation)
                /\ pass' = [read EXCEPT !.at = "saving", !.failed = TRUE]
             \/ /\ source.payload # None
                /\ pass' = [read EXCEPT !.at = IF IsUnchanged THEN "saving"
                                               ELSE IF pass.control = NoControl THEN "sourced"
                                               ELSE "deciding"]
                /\ UNCHANGED status
          /\ UNCHANGED faults
    /\ UNCHANGED <<serviceVars, clusterVars, checkpoint, wakeVars, draft, stack>>

\* The control revision, if the index did not bring it: what is read may be newer than the
\* source, or refused, or gone.
ReadControl ==
    /\ pass.at = "sourced"
    /\ \/ /\ ~head.archived
          /\ pass' = [pass EXCEPT !.at = "deciding", !.control = Control]
          /\ UNCHANGED <<status, faults>>
       \/ ~scope.write /\ FailExport(403) /\ UNCHANGED faults
       \/ head.archived /\ FailExport(404) /\ UNCHANGED faults
       \/ FailExport(0) /\ Fault
    /\ UNCHANGED <<serviceVars, clusterVars, checkpoint, wakeVars, draft, stack>>

\* Keys are deterministic: an attempt that is made again has the key it had.
MetadataKey(e, version) == <<e.generation, "metadata", e.metadata, version>>
PayloadKey(e, payload, version) == <<e.generation, "payload", payload, version>>

\* Mutant: the version that was written is not compared.
ChecksumMatches == status.payload = pass.source.payload

PayloadMatches ==
    /\ status.payload = pass.source.payload
    /\ status.payloadAt = pass.control.payloadAt

Exported(payloadAt) ==
    /\ status' = [ready |-> TRUE, refused |-> FALSE, generation |-> pass.export.generation,
                  payload |-> pass.source.payload, payloadAt |-> payloadAt]
    /\ pass' = [pass EXCEPT !.at = "saving"]

\* Metadata first, then the payload, then the status.
ExportMetadata ==
    /\ pass.at = "deciding" /\ pass.control.metadata # pass.export.metadata
    /\ Send("controller", MetadataKey(pass.export, pass.control.version),
            pass.control.version, NewMetadata(pass.export.metadata))
    /\ pass' = [pass EXCEPT !.at = "metadata"]
    /\ UNCHANGED <<head, landed, clusterVars, savedVars, wakeVars, draft, stack, faults>>

ExportPayload ==
    /\ pass.at = "deciding" /\ pass.control.metadata = pass.export.metadata
    /\ \/ /\ ~PayloadMatches
          /\ Send("controller", PayloadKey(pass.export, pass.source.payload, pass.control.version),
                  pass.control.version, NewPayload(pass.source.payload))
          /\ pass' = [pass EXCEPT !.at = "payload"]
          /\ UNCHANGED status
       \/ /\ PayloadMatches
          /\ Exported(pass.control.payloadAt)
          /\ UNCHANGED <<calls, spent>>
    /\ UNCHANGED <<head, landed, clusterVars, checkpoint, wakeVars, draft, stack, faults>>

HearExport ==
    /\ pass.at \in {"metadata", "payload"}
    /\ \E code \in Codes, version \in 0 .. head.version + 1 :
        /\ Hears("controller", code, version)
        /\ \/ code # 200 /\ FailExport(code)
           \/ /\ code = 200 /\ pass.at = "metadata"
              /\ pass' = [pass EXCEPT !.at = "deciding", !.control.version = version,
                                      !.control.metadata = pass.export.metadata]
              /\ UNCHANGED status
           \/ code = 200 /\ pass.at = "payload" /\ Exported(version)
    /\ UNCHANGED <<clusterVars, checkpoint, wakeVars, draft, stack>>

\* The checkpoint moves when all went well; a retry and a rerun are scheduled after the pass.
EndPass ==
    /\ pass.at = "saving"
    /\ checkpoint' = IF pass.failed THEN checkpoint ELSE pass.mark
    /\ pass' = Idle(pass.export, pass.source)
    /\ LET soon == pass.retry \/ rerun IN
       IF pass.by = "run" THEN StartWatches(soon)
       ELSE timer' = (timer \/ soon) /\ UNCHANGED watching
    /\ rerun' = FALSE
    /\ UNCHANGED <<serviceVars, clusterVars, status, events, draft, stack, faults>>

\* The API of the cluster fails: the pass throws, and is retried as a whole.
PassThrows ==
    /\ pass.at \in {"listed", "synced", "sourced", "deciding", "saving"}
    /\ Fault
    /\ pass' = Idle(pass.export, pass.source)
    /\ timer' = TRUE
    /\ UNCHANGED <<serviceVars, clusterVars, savedVars, watching, events, rerun, draft, stack>>

\* A restart forgets all but the cluster.
Restart ==
    /\ Fault
    /\ pass' = Idle([export EXCEPT !.generation = 0], source)
    /\ watching' = FALSE /\ timer' = FALSE /\ rerun' = FALSE /\ events' = {}
    /\ calls' = {IF q.client = "controller" THEN [q EXCEPT !.heard = FALSE] ELSE q :
                    q \in {q \in calls : q.client # "controller" \/ q.at # "answered"}}
    /\ UNCHANGED <<head, spent, landed, clusterVars, savedVars, draft, stack>>

(* The console: useGuardedMutation, in the payload and the metadata view *)

OpenEditor(seen) ==
    /\ draft.at \in Resting /\ MayWrite /\ ~head.archived
    /\ draft' = [draft EXCEPT !.at = "editing", !.base = head.version, !.seen = seen, !.count = @ + 1]
    /\ landed' = 0
    /\ UNCHANGED <<head, spent, calls, clusterVars, savedVars, wakeVars, pass, stack, faults>>

\* An editor opens on the control revision that was fetched.
Open == OpenEditor(0)

\* The payload is loaded too, and edited as it was in this revision.
LoadPayload == OpenEditor(head.version)

\* Mutant: a refresh of the secret always brings its version.
Refresh ==
    /\ draft.at = "editing" /\ ~head.archived
    /\ draft' = [draft EXCEPT !.base = head.version]
    /\ UNCHANGED <<serviceVars, clusterVars, savedVars, wakeVars, pass, stack, faults>>

\* A payload that was loaded keeps the version it was read with.
Refetch ==
    /\ draft.at = "editing" /\ ~head.archived
    /\ draft.seen = 0 /\ draft' = [draft EXCEPT !.base = head.version]
    /\ UNCHANGED <<serviceVars, clusterVars, savedVars, wakeVars, pass, stack, faults>>

\* Each submission has a key of its own.
Submit(change) ==
    /\ draft.at = "editing"
    /\ Send("console", <<"console", draft.count>>, draft.base, change)
    /\ draft' = [draft EXCEPT !.at = "submitting"]
    /\ UNCHANGED <<head, landed, clusterVars, savedVars, wakeVars, pass, stack, faults>>

PutPayload == Submit(NewPayload(Foreign))
UpdateSecret == draft.seen = 0 /\ Submit(NewMetadata(Foreign))

\* Whether the request had an effect is not known after these.
Outcome(code) ==
    CASE code = 200 -> "succeeded" [] code = 412 -> "stale"
      [] code \in {0, 409, 500} -> "reconciling" [] OTHER -> "failed"

HearDraft ==
    /\ draft.at = "submitting"
    /\ \E code \in Codes, version \in 0 .. head.version + 1 :
        /\ Hears("console", code, version)
        /\ draft' = [draft EXCEPT !.at = Outcome(code)]
    /\ UNCHANGED <<clusterVars, savedVars, wakeVars, pass, stack>>

\* The secret is read again, and its version compared with the draft's.
Reconcile ==
    /\ draft.at = "reconciling"
    /\ \/ /\ ~head.archived
          /\ draft' = [draft EXCEPT !.at = IF head.version # draft.base THEN "applied"
                                           ELSE "absent"]
          /\ UNCHANGED faults
       \/ /\ draft' = [draft EXCEPT !.at = "unknown"]
          /\ IF head.archived THEN UNCHANGED faults ELSE Fault
    /\ UNCHANGED <<serviceVars, clusterVars, savedVars, wakeVars, pass, stack>>

(* The Pulumi provider *)

\* An update compares the program with its own record of the last one, not with the
\* secret, whose control revision it reads.  A create that finds the secret takes it over.
Up ==
    /\ stack.at = "idle" /\ MayWrite /\ ~head.archived
    /\ \E payload \in BOOLEAN :
        stack' = [at |-> "deciding", payload |-> payload, control |-> Control,
                  count |-> stack.count + 1]
    /\ UNCHANGED <<serviceVars, clusterVars, savedVars, wakeVars, pass, draft, faults>>

Rest == [stack EXCEPT !.at = "idle", !.payload = FALSE, !.control = NoControl]

\* Metadata is compared with the secret's, a payload with the record's.
UpdateStack ==
    /\ stack.at = "deciding"
    /\ IF stack.control.metadata # Foreign
       THEN /\ Send("pulumi", <<"pulumi", stack.count>>, stack.control.version, NewMetadata(Foreign))
            /\ stack' = [stack EXCEPT !.at = "metadata"]
       ELSE IF stack.payload
       THEN /\ Send("pulumi", <<"pulumi", stack.count>>, stack.control.version, NewPayload(Foreign))
            /\ stack' = [stack EXCEPT !.at = "payload"]
       ELSE stack' = Rest /\ UNCHANGED <<calls, spent>>
    /\ UNCHANGED <<head, landed, clusterVars, savedVars, wakeVars, pass, draft, faults>>

\* Whatever else a failed update did is left to the next one.
HearStack ==
    /\ stack.at \in {"metadata", "payload"}
    /\ \E code \in Codes, version \in 0 .. head.version + 1 :
        /\ Hears("pulumi", code, version)
        /\ stack' = IF code # 200 \/ stack.at = "payload" THEN Rest
                    ELSE [stack EXCEPT !.at = "deciding", !.control.version = version,
                                       !.control.metadata = Foreign]
    /\ UNCHANGED <<clusterVars, savedVars, wakeVars, pass, draft>>

-----------------------------------------------------------------------------
ServiceStep == (\E q \in calls : Commit(q) \/ Die(q) \/ Recover(q)) \/ Archive
ClusterStep ==
    \/ EditSource \/ EditExport \/ ChangeScope
    \/ \E e \in {"source", "export"} : WatchEvent(e)
    \/ WatchExpires
PassStep ==
    \/ Synchronize \/ SynchronizeFails \/ ReadSource \/ ReadControl
    \/ ExportMetadata \/ ExportPayload \/ HearExport \/ EndPass \/ PassThrows \/ Restart
ConsoleStep ==
    Open \/ LoadPayload \/ Refetch \/ PutPayload \/ UpdateSecret \/ HearDraft \/ Reconcile
PulumiStep == Up \/ UpdateStack \/ HearStack

Next ==
    \/ ServiceStep \/ ClusterStep \/ TimerFires \/ Hint \/ Sweep
    \/ PassStep \/ ConsoleStep \/ PulumiStep

Spec == Init /\ [][Next]_vars

\* The service ends its calls, recovery runs, the interval elapses, and a pass goes on.
FairSpec ==
    /\ Spec
    /\ WF_vars(\E q \in calls : Commit(q) \/ Recover(q))
    /\ WF_vars(Sweep)
    /\ WF_vars(\/ Synchronize \/ ReadSource \/ ReadControl
               \/ ExportMetadata \/ ExportPayload \/ HearExport \/ EndPass)

(* Properties *)

TypeOK ==
    /\ head \in [version : Nat \ {0}, payload : Payloads \cup {Foreign}, payloadAt : Nat,
               metadata : Metas \cup {Foreign}, archived : BOOLEAN]
    /\ head.payloadAt \in 1 .. head.version /\ landed \in 0 .. head.version
    /\ scope \in [write : BOOLEAN, changes : 0 .. MaxIncidents]
    /\ source \in [payload : Payloads \cup {None}, edit : 0 .. MaxIncidents]
    /\ export \in [generation : 0 .. MaxIncidents, metadata : Metas]
    /\ status \in [ready : BOOLEAN, refused : BOOLEAN, generation : 0 .. MaxIncidents,
                   payload : Payloads \cup {None}, payloadAt : 0 .. head.version]
    /\ checkpoint \in [through : 0 .. head.version, write : BOOLEAN]
    /\ watching \in BOOLEAN /\ events \subseteq {"source", "export"}
    /\ timer \in BOOLEAN /\ rerun \in BOOLEAN
    /\ pass.control.version \in 0 .. head.version /\ pass.mark.through \in 0 .. head.version
    /\ draft \in [at : Resting \cup {"editing", "submitting", "reconciling"}, base : 0 .. head.version,
                  seen : 0 .. head.version, count : 0 .. MaxIncidents]

\* A change of the export or of its source that the last pass did not read is on its way
\* to a pass: as an event, a timer, a rerun, in the pass that runs or in the retry it asked for.
\* (Before the watches open the run loop is; and of a source whose export was refused with
\* 403 no pass need know, until the grant or the export changes.)  A source that was missing
\* is not retried: its next event is what brings it back.
ChangesAreScheduled ==
    LET refused == status.generation = pass.export.generation /\ status.refused
        unread ==
            \/ export.generation # pass.export.generation
            \/ pass.export.generation # 0 /\ source.edit # pass.source.edit /\ ~refused
                /\ pass.at \notin {"listed", "synced"} IN
    watching /\ unread => events # {} \/ timer \/ rerun \/ pass.retry

\* An export that the next pass would skip needs no work: the secret has the source's
\* payload and the spec's metadata, whoever else wrote it, answered late or was lost.
SkippedExportsAreCurrent ==
    /\ status.ready /\ status.generation = export.generation
    /\ status.payload = source.payload
    /\ checkpoint = [through |-> head.version, write |-> scope.write]
    => head.payload = source.payload /\ head.metadata = export.metadata

\* "succeeded" was committed; "stale" and "failed" never will be.  After a lost answer, a
\* failure or a conflict the console compares versions: "applied" says no more than that
\* the draft's base was replaced, by the draft or by another writer, and from then on the
\* draft's fate is settled; "absent" says that it was not replaced, which a call still
\* under way may do later.  Whatever was told, a draft is committed as the successor
\* of its base, or never; made from a payload that was shown, of exactly that revision.
DraftsAreGuarded ==
    LET underway == \E q \in calls : q.key = <<"console", draft.count>> /\ q.at = "prepared" IN
    /\ draft.at = "succeeded" => landed # 0
    /\ draft.at \in {"stale", "failed"} => landed = 0 /\ ~underway
    /\ draft.at = "applied" => head.version # draft.base
    /\ draft.at \in {"applied", "absent"} /\ head.version # draft.base => ~underway
    /\ landed # 0 => landed = draft.base + 1 /\ (draft.seen # 0 => draft.base = draft.seen)

\* The two together.
ClientsInv == TypeOK /\ DraftsAreGuarded

\* Once people and faults leave it alone the secret takes on what the cluster exports, as
\* long as there is a source and a secret, unless the next attempt's key was spent by one
\* that failed: that one is refused for ever.
ExportsConvergeOrStall ==
    LET key == IF head.metadata # export.metadata THEN MetadataKey(export, head.version)
               ELSE PayloadKey(export, source.payload, head.version) IN
    <>[](\/ export.generation = 0 \/ ~scope.write \/ source.payload = None \/ head.archived
         \/ head.payload = source.payload /\ head.metadata = export.metadata
         \/ key \in spent)
=============================================================================
