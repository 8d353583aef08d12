-------------------------- MODULE SecretMigrations --------------------------
(***************************************************************************)
(* The scripts an operator runs on the control table between two releases: *)
(*                                                                         *)
(*   identity   migrate-secret-identity.ts, which moves the rows and the   *)
(*              objects of a secret below its environment;                 *)
(*   uids       migrate-secret-uids.ts, which moves the rows below the UID *)
(*              and makes scopes of grants exact;                          *)
(*   indexes    backfill-console-indexes.ts;                               *)
(*   folders    backfill-secret-id-folders.ts.                             *)
(*                                                                         *)
(* One runs at a time and may be interrupted anywhere; the first two on a  *)
(* service that is quiesced, in any order.  They share the table with the  *)
(* outbox, whose oldest record has no environment until the first script   *)
(* gives it one.                                                           *)
(* Of every secret there is a head and one control revision, and both name *)
(* the same object.                                                        *)
(***************************************************************************)
EXTENDS NotificationOutbox

CONSTANTS
    Secrets,
    Readers,        \* consumers with delivery rows for all of them
    Old,            \* events that were recorded, and expired in the stream, before the first run
    MaxIncidents    \* bound: interruptions, stale scans, failed publications and revisions, together

ASSUME OldAssumption == Old \subseteq Events
ASSUME MaxIncidentsAssumption == MaxIncidents \in Nat

VARIABLES
    table,          \* rows [secret, kind, place, ref, index]: at which key, naming the object
                    \* at which key, and listed under which
    access,         \* delivery rows [consumer, secret, place]
    objects,        \* [secret, place]
    names,          \* secrets whose name leads to their UID
    grant,          \* a grant's scope: by prefix, or the exact secrets
    heads,          \* per secret [version, archived, listed]
    job,            \* the script that runs, and what it has left to do
    reports,        \* scripts that reported success
    overlooked,     \* secrets whose head a scan of the UID migration found at neither key
    incidents

migrationVars ==
    <<table, access, objects, names, grant, heads, job, reports, overlooked, incidents>>
vars == <<migrationVars, outboxVars>>

Kinds == {"HEAD", "CONTROL"}
Places == {"legacy", "scoped", "uid"}
Prefix == [exact |-> FALSE, secrets |-> {}]
Done == [script |-> "none", copies |-> {}, rows |-> {}, access |-> {}, names |-> {},
         scope |-> {}, grant |-> FALSE, events |-> {}, heads |-> {}, read |-> <<>>]

\* The table an older release left; its control revisions may or may not be listed.
Inherited(place, listing) ==
    /\ table = {[secret |-> s, kind |-> k, place |-> place, ref |-> place,
                 index |-> IF k = "CONTROL" THEN listing ELSE "none"] : s \in Secrets, k \in Kinds}
    /\ access = [consumer : Readers, secret : Secrets, place : {place}]
    /\ objects = [secret : Secrets, place : {place}]

Init ==
    /\ \E place \in {"legacy", "scoped"} : \E listing \in {place, "none"} : Inherited(place, listing)
    /\ names = {} /\ grant = Prefix /\ job = Done /\ reports = {} /\ overlooked = {}
    /\ incidents = 0
    /\ heads = [s \in Secrets |-> [version |-> 1, archived |-> FALSE, listed |-> "path"]]
    /\ OutboxInit(Old)

Incident == incidents < MaxIncidents /\ incidents' = incidents + 1

At(place) == {r \in table : r.place = place}
Readable(place) == {a \in access : a.place = place}
HasHead(s, place) == \E r \in At(place) : r.secret = s /\ r.kind = "HEAD"

\* This release serves, and publishes, once the second migration reported its success.
Serving == "uids" \in reports

(* The identity migration *)

Unfilled == {e \in Events : outbox[e].status = "PENDING" /\ ~outbox[e].environment}

\* It refuses a table in which some secret has been moved whole, and cannot tell a UID from
\* an identifier whose head is missing.  Without a secret to move it ends at once.
IdentityRefused ==
    \/ At("uid") # {}
    \/ \E r \in At("legacy") : ~HasHead(r.secret, "legacy")
    \/ \E r \in At("scoped") : ~HasHead(r.secret, "legacy")

BeginIdentity ==
    /\ job = Done /\ ~Serving /\ At("legacy") # {} /\ ~IdentityRefused
    /\ job' = [Done EXCEPT !.script = "identity", !.copies = {r.secret : r \in At("legacy")},
                    !.rows = At("legacy"), !.access = Readable("legacy"), !.events = Unfilled]
    /\ UNCHANGED <<table, access, objects, names, grant, heads, reports, overlooked, incidents,
                   outboxVars>>

\* A copy that is there already, with the same checksum, is used.
EnsureCopied(s) ==
    /\ s \in job.copies
    /\ objects' = objects \cup {[secret |-> s, place |-> "scoped"]}
    /\ job' = [job EXCEPT !.copies = @ \ {s}]
    /\ UNCHANGED <<table, access, names, grant, heads, reports, overlooked, incidents, outboxVars>>

ScopedRow(r) ==
    [r EXCEPT !.place = "scoped", !.ref = "scoped",
              !.index = IF @ = "none" THEN "none" ELSE "scoped"]

\* Mutant: rows move in the order of the scan.
MayMoveAny(r) == job.copies = {}

\* Heads move last.
MayMove(r) == job.copies = {} /\ (r.kind = "HEAD" => \A q \in job.rows : q.kind = "HEAD")

\* A row moves in one transaction, from where it still is to where nothing is.
MoveScoped(r) ==
    /\ job.script = "identity" /\ r \in job.rows /\ MayMove(r)
    /\ r \in table /\ ScopedRow(r) \notin table
    /\ table' = (table \ {r}) \cup {ScopedRow(r)}
    /\ job' = [job EXCEPT !.rows = @ \ {r}]
    /\ UNCHANGED <<access, objects, names, grant, heads, reports, overlooked, incidents,
                   outboxVars>>

\* Both migrations move access rows after those of the secrets.
MoveAccess(a) ==
    /\ a \in job.access /\ job.rows = {}
    /\ access' = (access \ {a})
            \cup {[a EXCEPT !.place = IF job.script = "identity" THEN "scoped" ELSE "uid"]}
    /\ job' = [job EXCEPT !.access = @ \ {a}]
    /\ UNCHANGED <<table, objects, names, grant, heads, reports, overlooked, incidents, outboxVars>>

FillEnvironment(e) ==
    /\ e \in job.events /\ job.rows = {} /\ job.access = {}
    /\ outbox' = [outbox EXCEPT ![e].environment = TRUE]
    /\ job' = [job EXCEPT !.events = @ \ {e}]
    /\ UNCHANGED <<table, access, objects, names, grant, heads, reports, overlooked,
                   incidents, stream, queue, done, told, published, dead>>

Ended == job.copies = {} /\ job.rows = {} /\ job.access = {} /\ job.events = {} /\ job.names = {}
            /\ ~job.grant /\ job.heads = {}
Report(verified) ==
    /\ reports' = IF verified THEN reports \cup {job.script} ELSE reports
    /\ job' = Done

VerifyIdentity ==
    /\ job.script = "identity" /\ Ended
    /\ Report(At("legacy") = {} /\ Readable("legacy") = {} /\ Unfilled = {})
    /\ UNCHANGED <<table, access, objects, names, grant, heads, overlooked, incidents, outboxVars>>

(* The UID migration *)

MovedHeads == {r \in At("uid") : r.kind = "HEAD"}

\* Every live head the scan finds gives an identity, moved or not, even at a key of the
\* oldest form: a secret's UID follows from the name the head carries.
Identities(scan) == {s \in Secrets : ~heads[s].archived
                                      /\ \E r \in scan : r.secret = s /\ r.kind = "HEAD"}

\* Mutant: only a head that was not moved identifies its rows.
IdentifiedInPlace(r, scan) == \E h \in scan \cap At("scoped") : h.secret = r.secret /\ h.kind = "HEAD"

\* A row is moved by the identity of its secret; the migration refuses one without, rows of
\* readers included.
Identified(r, scan) == r.secret \in Identities(scan)

ScopedOf(r) == [r EXCEPT !.place = "scoped", !.index = IF r.kind = "CONTROL" THEN "scoped" ELSE "none"]

\* The operator runs it until it succeeds.  It passes over rows of the oldest form.  Its scan
\* is not consistent: of the rows an earlier run moved it may see some where they were
\* and miss some at both keys, which matters for a head.
BeginUids ==
    /\ job = Done /\ ~Serving
    /\ \E stale \in SUBSET At("uid") : \E missed \in SUBSET (MovedHeads \ stale) :
        LET scan == table \ missed
            rows == At("scoped") \cup {ScopedOf(r) : r \in stale} IN
        /\ \A r \in rows \cup Readable("scoped") : Identified(r, scan)
        /\ IF stale \cup missed = {} THEN UNCHANGED incidents ELSE Incident
        /\ job' = [Done EXCEPT !.script = "uids", !.rows = rows, !.access = Readable("scoped"),
                        !.names = Identities(scan), !.scope = Identities(scan),
                        !.grant = ~grant.exact]
        /\ overlooked' = overlooked \cup {r.secret : r \in missed}
    /\ UNCHANGED <<table, access, objects, names, grant, heads, reports, outboxVars>>

\* The object stays where it is, and a head comes to name it.
UidRow(r) == [r EXCEPT !.place = "uid", !.index = IF r.kind = "CONTROL" THEN "uid" ELSE "none"]

\* Whatever is at the new key is overwritten.
MoveUid(r) ==
    /\ job.script = "uids" /\ r \in job.rows
    /\ table' = {q \in table : q # r /\ ~(q.place = "uid" /\ q.secret = r.secret /\ q.kind = r.kind)}
                    \cup {UidRow(r)}
    /\ job' = [job EXCEPT !.rows = @ \ {r}]
    /\ UNCHANGED <<access, objects, names, grant, heads, reports, overlooked, incidents,
                   outboxVars>>

PutLookup(s) ==
    /\ s \in job.names /\ job.rows = {} /\ job.access = {}
    /\ names' = names \cup {s}
    /\ job' = [job EXCEPT !.names = @ \ {s}]
    /\ UNCHANGED <<table, access, objects, grant, heads, reports, overlooked, incidents,
                   outboxVars>>

\* A prefix becomes the secrets it matched in the scan.
MigrateGrant ==
    /\ job.grant /\ job.rows = {} /\ job.access = {} /\ job.names = {}
    /\ grant' = [exact |-> TRUE, secrets |-> job.scope]
    /\ job' = [job EXCEPT !.grant = FALSE]
    /\ UNCHANGED <<table, access, objects, names, heads, reports, overlooked, incidents,
                   outboxVars>>

\* The last scan may be inconsistent as well: then the run fails although nothing is left, or
\* misses heads whose names this run did not put.
VerifyUids ==
    LET verified(scan) == /\ At("scoped") = {} /\ Readable("scoped") = {} /\ grant.exact
                          /\ Identities(scan) \subseteq names
        unnamed == {r \in MovedHeads : r.secret \notin names} IN
    /\ job.script = "uids" /\ Ended
    /\ \/ Report(verified(table)) /\ UNCHANGED incidents
       \/ Report(FALSE) /\ Incident
       \/ unnamed # {} /\ Report(verified(table \ unnamed)) /\ Incident
    /\ UNCHANGED <<table, access, objects, names, grant, heads, overlooked, outboxVars>>

(* The backfills *)

Unlisted == {r \in table : r.kind = "CONTROL" /\ r.index # r.place}

BeginIndexes ==
    /\ job = Done /\ Unlisted # {}
    /\ job' = [Done EXCEPT !.script = "indexes", !.rows = Unlisted]
    /\ UNCHANGED <<table, access, objects, names, grant, heads, reports, overlooked, incidents,
                   outboxVars>>

UpdateIndex(r) ==
    /\ job.script = "indexes" /\ r \in job.rows
    /\ table' = (table \ {r}) \cup {[r EXCEPT !.index = r.place]}
    /\ job' = [job EXCEPT !.rows = @ \ {r}]
    /\ UNCHANGED <<access, objects, names, grant, heads, reports, overlooked, incidents,
                   outboxVars>>

EndIndexes ==
    /\ job.script = "indexes" /\ Ended
    /\ Report(TRUE)
    /\ UNCHANGED <<table, access, objects, names, grant, heads, overlooked, incidents, outboxVars>>

\* The only script meant for a table in use.  An archived head counts as listed wrongly.
BeginFolders ==
    /\ job = Done /\ "uids" \in reports /\ "folders" \notin reports
    /\ job' = [Done EXCEPT !.script = "folders", !.heads = Secrets]
    /\ UNCHANGED <<table, access, objects, names, grant, heads, reports, overlooked, incidents,
                   outboxVars>>

ReadHead(s) ==
    /\ s \in job.heads /\ job.read = <<>>
    /\ job' = IF heads[s].listed = "id" THEN [job EXCEPT !.heads = @ \ {s}]
              ELSE [job EXCEPT !.read = <<s, heads[s].version>>]
    /\ UNCHANGED <<table, access, objects, names, grant, heads, reports, overlooked, incidents,
                   outboxVars>>

\* A head of a newer revision is left as it is.
UpdateHead ==
    /\ job.read # <<>>
    /\ LET s == job.read[1] IN
        /\ heads' = IF heads[s].version = job.read[2] THEN [heads EXCEPT ![s].listed = "id"] ELSE heads
        /\ job' = [job EXCEPT !.heads = @ \ {s}, !.read = <<>>]
    /\ UNCHANGED <<table, access, objects, names, grant, reports, overlooked, incidents,
                   outboxVars>>

EndFolders ==
    /\ job.script = "folders" /\ Ended
    /\ Report(TRUE)
    /\ UNCHANGED <<table, access, objects, names, grant, heads, overlooked, incidents, outboxVars>>

(* Around the scripts *)

Outbox(step) == Serving /\ step /\ UNCHANGED migrationVars
PublisherFails ==
    /\ Serving /\ PublishFails
    /\ Incident
    /\ UNCHANGED <<table, access, objects, names, grant, heads, job, reports, overlooked>>

Interrupt ==
    /\ job # Done
    /\ Incident
    /\ job' = Done
    /\ UNCHANGED <<table, access, objects, names, grant, heads, reports, overlooked, outboxVars>>

\* The service writes and lists a secret's revisions, the last of which archives it.
Revise(s, archive) ==
    /\ Serving /\ ~heads[s].archived
    /\ Incident
    /\ heads' = [heads EXCEPT ![s] = [version |-> @.version + 1, archived |-> archive,
                                      listed |-> IF archive THEN "archived" ELSE "id"]]
    /\ UNCHANGED <<table, access, objects, names, grant, job, reports, overlooked, outboxVars>>

-----------------------------------------------------------------------------
Begin == BeginIdentity \/ BeginUids \/ BeginFolders
Work ==
    \/ \E s \in Secrets : EnsureCopied(s) \/ PutLookup(s) \/ ReadHead(s)
    \/ \E r \in job.rows : MoveScoped(r) \/ MoveUid(r) \/ UpdateIndex(r)
    \/ \E a \in job.access : MoveAccess(a)
    \/ \E e \in job.events : FillEnvironment(e)
    \/ MigrateGrant \/ UpdateHead
    \/ VerifyIdentity \/ VerifyUids \/ EndIndexes \/ EndFolders

Next ==
    \/ Begin \/ BeginIndexes \/ Work \/ Interrupt
    \/ \E s \in Secrets, archive \in BOOLEAN : Revise(s, archive)
    \/ Outbox(OutboxStep) \/ PublisherFails

Spec == Init /\ [][Next]_vars

\* The operator runs a migration again until it succeeds or refuses; the publisher works.
FairSpec ==
    /\ Spec
    /\ WF_vars(Begin \/ Work)
    /\ WF_vars(Outbox(PublisherStep))

(* Properties *)

Row == [secret : Secrets, kind : Kinds, place : Places, ref : {"legacy", "scoped"},
        index : {"none"} \cup Places]
DeliveryRow == [consumer : Readers, secret : Secrets, place : Places]

TypeOK ==
    /\ table \subseteq Row /\ access \subseteq DeliveryRow
    /\ names \subseteq Secrets /\ grant.secrets \subseteq Secrets /\ overlooked \subseteq Secrets
    /\ incidents \in 0 .. MaxIncidents
    /\ heads \in [Secrets -> [version : Nat, archived : BOOLEAN, listed : {"path", "id", "archived"}]]

\* At every moment, interrupted or not, each row is at one key; it names an object that is
\* there, below the key its release derives; it is listed where it is or not at all; and the
\* head of a scoped secret has its revision beside it.
RowsAreWhole ==
    /\ \A s \in Secrets, k \in Kinds :
        Cardinality({r \in table : r.secret = s /\ r.kind = k}) = 1
    /\ \A c \in Readers, s \in Secrets :
        Cardinality({a \in access : a.consumer = c /\ a.secret = s}) = 1
    /\ \A r \in table :
        /\ [secret |-> r.secret, place |-> r.ref] \in objects
        /\ r.place # "uid" => r.ref = r.place
        /\ r.index \in {"none", r.place}
    /\ \A r, q \in table :
        r.secret = q.secret /\ r.kind = "HEAD" /\ r.place = "scoped" => q.place # "legacy"

\* A script that reported success left nothing to do, whatever was interrupted before and in
\* whatever order they ran.  The success of the UID migration speaks of rows of the scoped
\* form only, and of the names and scopes of the secrets its scans did not overlook.
ReportsAreTrue ==
    /\ "identity" \in reports => At("legacy") = {} /\ Readable("legacy") = {} /\ Unfilled = {}
    /\ "uids" \in reports => /\ At("scoped") = {} /\ Readable("scoped") = {}
                             /\ grant.exact /\ Secrets \ overlooked \subseteq names \cap grant.secrets
    /\ "folders" \in reports => \A s \in Secrets : heads[s].listed # "path"

\* However often scripts were interrupted and started again, and whatever the publisher did
\* since: records are whole, success was reported truly, and delivered is published.
UpgradeInv == TypeOK /\ OutboxTypeOK /\ RowsAreWhole /\ ReportsAreTrue /\ DeliveredIsPublished

\* A notification recorded by this release is published or ends in the dead-letter queue.
\* One an older release left is neither, for good, although the identity migration fills
\* its environment and a comment of the publisher says that it delivers what this modifies
\* (handlers/notifications.ts:25-27): the event source passes on insertions only.
NotificationsEnd ==
    /\ \A e \in Events \ Old :
          outbox[e].status = "PENDING" ~> outbox[e].status = "DELIVERED" \/ e \in dead
    /\ \A e \in Old :
          [](outbox[e].status = "PENDING" /\ e \notin dead
             /\ \A c \in Consumers : <<e, c>> \notin published)

\* An upgrade that is repeated after interruptions, the UID migration after the identity
\* migration, ends with every secret below its UID, but for an identity migration that was
\* interrupted between two heads: it refuses to go on.  And its notifications end.
UpgradesEnd ==
    /\ [](job.script = "uids" => At("legacy") = {})
       => <>[](\/ Serving /\ At("uid") = table
               \/ At("legacy") # {} /\ IdentityRefused)
    /\ NotificationsEnd
=============================================================================
