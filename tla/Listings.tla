----------------------------- MODULE Listings -----------------------------
(***************************************************************************)
(* The paged listings of the control table, and the readers that chain     *)
(* their pages: GET /v1/changes (src/handlers/consumer.ts, listAccess in   *)
(* src/repositories/dynamo.ts, listChanges in src/services/agents.ts) and  *)
(* a consumer that keeps a copy per public name; the administrators'       *)
(* catalog (src/handlers/admin.ts, listSecrets) and the console's filtered *)
(* list (useCursorPages.ts, SecretsCatalog.vue); the folder tree.          *)
(*                                                                         *)
(* A page reads a bounded number of rows in key order and is filtered      *)
(* after that.  Its cursor is a record of the table (src/services/cursor.ts),    *)
(* bound to a scope and good for fifteen minutes.  Secrets change while    *)
(* pages are read, each change being one transaction (SecretMutation).     *)
(***************************************************************************)
EXTENDS Naturals, Sequences, FiniteSets, FiniteSetsExt

CONSTANTS
    Uids,           \* secret UIDs, in the order of their access rows
    NameOf,         \* the public name of each, a sequence of folders and a last segment
    NameOrder,      \* the position of each name in the catalog index
    Tags,           \* values of the one tag
    Nothing,
    FeedPage,       \* rows a page of changes reads, its Limit
    CatalogPage,    \* and a page of the catalog
    HopBudget,      \* pages the console chases per click
    MaxScan,        \* rows the folder tree reads: maximumBoundedScan
    MaxChanges,     \* bound: changes of secrets and of the agent's policy
    MaxPages        \* bound: pages asked for

ASSUME UidsAssumption == Uids \subseteq Nat /\ IsFiniteSet(Uids) /\ Nothing \notin Uids \cup Tags
ASSUME NamesAssumption ==
    /\ \A u \in Uids : NameOf[u] \in Seq(STRING) /\ NameOf[u] # <<>>
    /\ \A u \in Uids : NameOrder[NameOf[u]] \in Nat
    /\ \A u, v \in Uids : NameOrder[NameOf[u]] = NameOrder[NameOf[v]] => NameOf[u] = NameOf[v]
ASSUME SizesAssumption ==
    {FeedPage, CatalogPage, HopBudget, MaxScan, MaxChanges, MaxPages} \subseteq Nat \ {0}

Names == {NameOf[u] : u \in Uids}

VARIABLES
    head,       \* SECRET#uid / HEAD: its state, PREPARED until it is first READY
    tag,        \* and the tag it is catalogued with
    row,        \* CONSUMER#c / SECRET#uid: the consumer's access row
    reads,      \* the secrets its AgentGrant lets it read
    feed,       \* the consumer's cycle over its changes
    copies,     \* what it materialized under each name
    list,       \* the console's list
    reader,     \* which of the two reads: they share nothing that either writes
    changes, pages

sharedVars == <<head, tag, row, reads, reader>>
listingVars == <<sharedVars, feed, copies, list, changes, pages>>

Tree == [archived |-> FALSE, tag |-> Nothing]
Filters == [archived : BOOLEAN, tag : Tags \cup {Nothing}]
NoRequest == [filter |-> Tree, cursor |-> Nothing, scope |-> Tree]

Cycles ==
    [phase : {"idle", "query", "hydrate", "apply", "done"}, after : Uids \cup {Nothing},
     more : BOOLEAN, stored : SUBSET Uids, live : SUBSET Uids, revoked : SUBSET Uids,
     gone : SUBSET Names, fetch : SUBSET Names, turned : 0 .. MaxPages, quiet : BOOLEAN]
Requests == [filter : Filters, cursor : Uids \cup {Nothing}, scope : Filters]
Views ==
    [filter : Filters, shown : SUBSET (Uids \X Filters), cursor : Uids \cup {Nothing},
     scope : Filters, loading : BOOLEAN, exhausted : BOOLEAN, error : BOOLEAN,
     hop : 0 .. HopBudget, request : Requests, clean : BOOLEAN, steady : SUBSET Uids]

ListingTypeOK ==
    /\ head \in [Uids -> {"none", "PREPARED", "ACTIVE", "ARCHIVED"}]
    /\ tag \in [Uids -> Tags \cup {Nothing}]
    /\ row \in [Uids -> {"none", "read", "revoked"}]
    /\ reads \subseteq Uids
    /\ feed \in Cycles
    /\ copies \in [Names -> Uids \cup {Nothing}]
    /\ list \in Views
    /\ reader \in {"consumer", "console"}
    /\ changes \in 0 .. MaxChanges /\ pages \in 0 .. MaxPages

-----------------------------------------------------------------------------
(* Secrets *)

Named(n) == {u \in Uids : NameOf[u] = n /\ head[u] \in {"PREPARED", "ACTIVE"}}
MayRead(u) == head[u] = "ACTIVE" /\ row[u] = "read" /\ u \in reads

\* The catalog index has a partition of live and one of archived secrets.
Partition(archived) ==
    {u \in Uids : IF archived THEN head[u] = "ARCHIVED" ELSE head[u] \in {"PREPARED", "ACTIVE"}}
Precedes(u, v) ==
    \/ NameOrder[NameOf[u]] < NameOrder[NameOf[v]]
    \/ NameOf[u] = NameOf[v] /\ u < v
Matches(u, filter) ==
    /\ u \in Partition(filter.archived) /\ head[u] # "PREPARED"
    /\ filter.tag \in {Nothing, tag[u]}

\* The rows of an index that come before a secret's: the sort keys of both indexes.
ByUid == [u \in Uids |-> {v \in Uids : v < u}]
ByName == [u \in Uids |-> {v \in Uids : Precedes(v, u)}]
FirstOf(rows, n, before) ==
    {u \in rows : Cardinality(rows \cap before[u]) < n}

-----------------------------------------------------------------------------
(* The change feed *)

FeedIdle ==
    [phase |-> "idle", after |-> Nothing, more |-> FALSE, stored |-> {}, live |-> {},
     revoked |-> {}, gone |-> {}, fetch |-> {}, turned |-> 0, quiet |-> FALSE]

StartCycle ==
    /\ reader = "consumer" /\ feed.phase \in {"idle", "done"}
    /\ feed' = [FeedIdle EXCEPT !.phase = "query", !.quiet = TRUE]
    /\ UNCHANGED <<sharedVars, copies, list, changes, pages>>

\* listAccess: one page of rows after the cursor, in the order of their UIDs.
QueryPage ==
    LET rows == {u \in Uids : row[u] # "none" /\ (feed.after # Nothing => u > feed.after)}
        page == FirstOf(rows, FeedPage, ByUid) IN
    /\ feed.phase = "query" /\ pages < MaxPages
    /\ pages' = pages + 1
    /\ feed' = [feed EXCEPT !.phase = "hydrate",
                            !.stored = {u \in page : row[u] = "read"},
                            !.live = {}, !.revoked = {u \in page : row[u] = "revoked"},
                            !.more = Cardinality(page) = FeedPage,
                            !.after = IF page = {} THEN Nothing ELSE Max(page),
                            !.turned = IF page = {} THEN @ ELSE @ + 1]
    /\ UNCHANGED <<sharedVars, copies, list, changes>>

\* currentAccessSnapshot: each readable row is looked up in its own HEAD.
Hydrate(u) ==
    /\ feed.phase = "hydrate" /\ u \in feed.stored
    /\ feed' = [feed EXCEPT !.stored = @ \ {u},
                            !.live = IF head[u] = "ACTIVE" THEN @ \cup {u} ELSE @,
                            !.revoked = IF head[u] = "ACTIVE" THEN @ ELSE @ \cup {u}]
    /\ UNCHANGED <<sharedVars, copies, list, changes, pages>>

\* collapseReusedSecretIds: of a name with several rows on this page the row of its live
\* secret counts, and without one it is revoked.
RevocationsCount(u) ==      \* Mutant: a revocation of the name beats its live secret.
    u \in feed.live /\ \A v \in feed.revoked : NameOf[v] # NameOf[u]

Counts(u) ==
    LET group == {v \in feed.live \cup feed.revoked : NameOf[v] = NameOf[u]} IN
    IF group = {u} THEN u \in feed.live ELSE u \in feed.live \cap Named(NameOf[u])

\* AgentService.listChanges: what is out of the agent's policy is reported revoked.
InScope(u) == u \in reads

\* Mutant: what is out of the policy is left out.
AnswerInScope ==
    LET changed == {NameOf[u] : u \in {v \in feed.live : Counts(v) /\ InScope(v)}}
        revoked == {NameOf[u] : u \in {v \in feed.revoked : InScope(v)}} IN
    /\ feed.phase = "hydrate" /\ feed.stored = {}
    /\ feed' = [feed EXCEPT !.phase = "apply", !.live = {}, !.revoked = {},
                            !.fetch = changed, !.gone = revoked \ changed]
    /\ UNCHANGED <<sharedVars, copies, list, changes, pages>>

Answer ==
    LET reported == feed.live \cup feed.revoked
        changed == {NameOf[u] : u \in {v \in reported : Counts(v) /\ InScope(v)}} IN
    /\ feed.phase = "hydrate" /\ feed.stored = {}
    /\ feed' = [feed EXCEPT !.phase = "apply", !.live = {}, !.revoked = {},
                            !.fetch = changed,
                            !.gone = {NameOf[u] : u \in reported} \ changed]
    /\ UNCHANGED <<sharedVars, copies, list, changes, pages>>

\* The consumer fetches what changed, by name, and deletes what was revoked.
Materialize(n) ==
    LET readable == {u \in Named(n) : MayRead(u)} IN
    /\ feed.phase = "apply" /\ n \in feed.fetch \cup feed.gone
    /\ copies' = [copies EXCEPT ![n] =
          IF n \in feed.gone THEN Nothing
          ELSE IF readable = {} THEN @ ELSE CHOOSE u \in readable : TRUE]
    /\ feed' = [feed EXCEPT !.fetch = @ \ {n}, !.gone = @ \ {n}]
    /\ UNCHANGED <<sharedVars, list, changes, pages>>

TurnPage ==
    /\ feed.phase = "apply" /\ feed.fetch \cup feed.gone = {}
    /\ feed' = [feed EXCEPT !.phase = IF feed.more THEN "query" ELSE "done", !.more = FALSE]
    /\ UNCHANGED <<sharedVars, copies, list, changes, pages>>

\* The cursor ran out, or a call failed: the next cycle starts from the first page.
AbandonCycle ==
    /\ feed.phase \notin {"idle", "done"}
    /\ feed' = FeedIdle
    /\ UNCHANGED <<sharedVars, copies, list, changes, pages>>

-----------------------------------------------------------------------------
(* The console's filtered list *)

\* Requests name the filter of the moment they are sent at; the cursor was made for
\* the filter the page before it was asked with.
Send(l, hop) ==
    [l EXCEPT !.loading = TRUE, !.hop = hop, !.error = FALSE,
              !.request = [filter |-> l.filter, cursor |-> l.cursor, scope |-> l.scope]]

\* reset(), which leaves a request that is under way alone.
Emptied(l) ==
    [l EXCEPT !.shown = {}, !.cursor = Nothing, !.scope = Tree, !.exhausted = FALSE,
              !.error = FALSE, !.clean = ~l.loading,
              !.steady = {u \in Uids : Matches(u, l.filter)}]

\* loadMore(), which does nothing while a request is under way.
Loaded(l) == IF l.loading \/ l.exhausted \/ pages = MaxPages THEN l ELSE Send(l, 1)

Browsed == list.filter.tag # Nothing

\* The applied filter changes: a tag lists from the first page, none shows the tree.
ApplyFilter(t) ==
    LET filtered == [list EXCEPT !.filter.tag = t] IN
    /\ reader = "console" /\ t # list.filter.tag
    /\ list' = IF t = Nothing THEN filtered ELSE Loaded(Emptied(filtered))
    /\ UNCHANGED <<sharedVars, feed, copies, changes, pages>>

\* The archive is toggled: the list is asked for at the new place, and then the filter
\* is dropped.
Relocate ==
    LET moved == [list EXCEPT !.filter.archived = ~@]
        asked == IF Browsed THEN Loaded(Emptied(moved)) ELSE moved IN
    /\ reader = "console"
    /\ list' = IF Browsed THEN Emptied([asked EXCEPT !.filter.tag = Nothing]) ELSE asked
    /\ UNCHANGED <<sharedVars, feed, copies, changes, pages>>

\* "Refresh" and "Load more", which are disabled while a request is under way.
Refresh ==
    /\ Browsed /\ ~list.loading
    /\ list' = Loaded(Emptied(list))
    /\ UNCHANGED <<sharedVars, feed, copies, changes, pages>>

LoadMore ==
    /\ Browsed /\ ~list.loading /\ ~list.exhausted /\ ~list.error /\ pages < MaxPages
    /\ list' = Loaded(list)
    /\ UNCHANGED <<sharedVars, feed, copies, changes, pages>>

\* listSecrets: rows of the partition after the cursor; the filter comes later.
PageAfter(request) ==
    FirstOf({u \in Partition(request.filter.archived) :
                request.cursor # Nothing => Precedes(request.cursor, u)},
            CatalogPage, ByName)

LastOf(page) == CHOOSE u \in page : \A v \in page : v = u \/ Precedes(v, u)

\* CursorService.decode: a cursor of another scope is refused.
CursorFits(request) == request.cursor = Nothing \/ request.scope = request.filter

\* Mutant: an empty page is the end.
ChaseWhileFound(got, full, found) ==
    IF ~full \/ ~found THEN [got EXCEPT !.exhausted = TRUE] ELSE got

\* How a page that arrives changes the list, once its rows were added.
Chase(got, full, found) ==
    IF ~full THEN [got EXCEPT !.exhausted = TRUE]
    ELSE IF ~found /\ list.hop < HopBudget THEN Send(got, list.hop + 1)
    ELSE got

\* A page arrives: chase the next one while nothing matched, within the budget.
Receive ==
    LET request == list.request
        page == PageAfter(request)
        items == {u \in page : Matches(u, request.filter)}
        full == Cardinality(page) = CatalogPage
        got == [list EXCEPT !.shown = @ \cup {<<u, request.filter>> : u \in items},
                            !.cursor = IF full THEN LastOf(page) ELSE Nothing,
                            !.scope = IF full THEN request.filter ELSE Tree,
                            !.loading = FALSE, !.hop = 0, !.request = NoRequest] IN
    /\ list.loading /\ CursorFits(request)
    /\ pages < MaxPages /\ pages' = pages + 1
    /\ list' = Chase(got, full, items # {})
    /\ UNCHANGED <<sharedVars, feed, copies, changes>>

\* The request is refused for its cursor, or fails.
ReceiveError ==
    /\ list.loading
    /\ list' = [list EXCEPT !.error = TRUE, !.loading = FALSE, !.hop = 0,
                            !.request = NoRequest]
    /\ UNCHANGED <<sharedVars, feed, copies, changes, pages>>

-----------------------------------------------------------------------------
(* Changes of secrets, where the one who reads can see them *)

\* What the list could have shown since it was emptied, and whether the feed's cycle is
\* undisturbed.
Noticed ==
    /\ changes < MaxChanges /\ changes' = changes + 1
    /\ list' = [list EXCEPT !.steady =
          {u \in @ : head'[u] = head[u] /\ tag'[u] = tag[u]}]
    /\ feed' = [feed EXCEPT !.quiet = FALSE]
    /\ UNCHANGED <<copies, reader, pages>>

\* A create takes its name before it is ready, and may be taken back.
Prepare(u, t) ==
    /\ head[u] = "none" /\ Named(NameOf[u]) = {}
    /\ head' = [head EXCEPT ![u] = "PREPARED"] /\ tag' = [tag EXCEPT ![u] = t]
    /\ UNCHANGED <<row, reads>> /\ Noticed

Settle(u, granted) ==
    /\ head[u] = "PREPARED" /\ (granted => reader = "consumer")
    /\ head' = [head EXCEPT ![u] = "ACTIVE"]
    /\ row' = IF granted THEN [row EXCEPT ![u] = "read"] ELSE row
    /\ UNCHANGED <<tag, reads>> /\ Noticed

Withdraw(u) ==
    /\ head[u] = "PREPARED"
    /\ head' = [head EXCEPT ![u] = "none"] /\ tag' = [tag EXCEPT ![u] = Nothing]
    /\ UNCHANGED <<row, reads>> /\ Noticed

\* An update of the tag, and one of the consumer's access, which leaves a tombstone.
Retag(u, t) ==
    /\ reader = "console" /\ head[u] = "ACTIVE" /\ t # tag[u]
    /\ tag' = [tag EXCEPT ![u] = t]
    /\ UNCHANGED <<head, row, reads>> /\ Noticed

ChangeAccess(u) ==
    /\ reader = "consumer" /\ head[u] = "ACTIVE"
    /\ row' = [row EXCEPT ![u] = IF @ = "read" THEN "revoked" ELSE "read"]
    /\ UNCHANGED <<head, tag, reads>> /\ Noticed

Archive(u) ==
    /\ head[u] = "ACTIVE"
    /\ head' = [head EXCEPT ![u] = "ARCHIVED"]
    /\ row' = IF row[u] = "read" THEN [row EXCEPT ![u] = "revoked"] ELSE row
    /\ UNCHANGED <<tag, reads>> /\ Noticed

ChangePolicy(u) ==
    /\ reader = "consumer"
    /\ reads' = IF u \in reads THEN reads \ {u} ELSE reads \cup {u}
    /\ UNCHANGED <<head, tag, row>> /\ Noticed

-----------------------------------------------------------------------------

ListingInit ==
    /\ head = [u \in Uids |-> "none"]
    /\ tag = [u \in Uids |-> Nothing]
    /\ reader \in {"consumer", "console"}
    /\ row = [u \in Uids |-> "none"]
    /\ reads = Uids
    /\ feed = FeedIdle
    /\ copies = [n \in Names |-> Nothing]
    /\ list = [filter |-> Tree, shown |-> {}, cursor |-> Nothing, scope |-> Tree,
               loading |-> FALSE, exhausted |-> FALSE, error |-> FALSE, hop |-> 0,
               request |-> NoRequest, clean |-> TRUE, steady |-> {}]
    /\ changes = 0 /\ pages = 0

ListingNext ==
    \/ StartCycle \/ QueryPage \/ Answer \/ TurnPage \/ AbandonCycle
    \/ \E u \in Uids : Hydrate(u)
    \/ \E n \in Names : Materialize(n)
    \/ \E t \in Tags \cup {Nothing} : ApplyFilter(t)
    \/ Relocate \/ Refresh \/ LoadMore \/ Receive \/ ReceiveError
    \/ \E u \in Uids :
          \/ \E t \in Tags : Prepare(u, t) \/ Retag(u, t)
          \/ \E granted \in BOOLEAN : Settle(u, granted)
          \/ Withdraw(u) \/ Archive(u) \/ ChangeAccess(u) \/ ChangePolicy(u)

ListingSpec == ListingInit /\ [][ListingNext]_listingVars

-----------------------------------------------------------------------------
(* The folder tree *)

Prefixes == UNION {{SubSeq(n, 1, k) : k \in 0 .. Len(n)} : n \in Names}
Folder(n) == SubSeq(n, 1, Len(n) - 1)
Under(n, prefix) ==
    Len(Folder(n)) >= Len(prefix) /\ SubSeq(n, 1, Len(prefix)) = prefix

RootSegment(n, prefix) == n[1]              \* Mutant: the first folder, at every level.
Segment(n, prefix) == n[Len(prefix) + 1]

\* listSecretTree: one bounded query, then the secrets of this level and a count of all
\* that lies below each child.  A query that reads to its limit is truncated.
TreePage(archived, prefix, bound) ==
    LET rows == {u \in Partition(archived) : Under(NameOf[u], prefix)}
        scanned == FirstOf(rows, bound + 1, ByName)
        items == {u \in scanned : head[u] # "PREPARED"}
        bounded == FirstOf(items, bound, ByName)
        below == {u \in bounded : Folder(NameOf[u]) # prefix}
        segments == {Segment(NameOf[u], prefix) : u \in below} IN
    [secrets |-> bounded \ below,
     folders |-> [s \in segments |->
                    Cardinality({u \in below : Segment(NameOf[u], prefix) = s})],
     truncated |-> Cardinality(items) > bound \/ Cardinality(scanned) = bound + 1]

-----------------------------------------------------------------------------
(* Properties *)

\* However many pages a cycle takes, after a quiet one no copy is left of a secret that
\* was archived, revoked or taken out of the agent's policy.
QuietCyclesDropTheDead ==
    feed.phase = "done" /\ feed.quiet =>
        \A n \in Names : copies[n] # Nothing => MayRead(copies[n])

\* A cycle that finds rows on one page only, with nothing changing meanwhile, leaves the
\* consumer with exactly the secrets it may read, whichever of a reused name's rows comes
\* first.
OnePageSnapshotsAreExact ==
    feed.phase = "done" /\ feed.quiet /\ feed.turned <= 1 =>
        \A n \in Names : LET readable == {u \in Named(n) : MayRead(u)} IN
            IF readable = {} THEN copies[n] = Nothing ELSE copies[n] \in readable

\* A list the console calls complete, if it was never emptied under a request, shows
\* every secret that matched its filter all along: "no secrets match" is then true.
ExhaustedListsAreComplete ==
    list.exhausted /\ list.clean /\ Browsed =>
        \A u \in list.steady : <<u, list.filter>> \in list.shown

\* The secrets and counts of a tree, added up.
Total(tree) == Cardinality(tree.secrets) + SumFunction(tree.folders)

\* A tree that is not marked truncated accounts for every ready secret, and the count of
\* a folder is what opening the folder adds up to.  (A tree depends on the secrets
\* alone, which take the same values before a page is asked for.)
TreesAddUp ==
    \A archived \in BOOLEAN, prefix \in Prefixes, bound \in 1 .. MaxScan :
        LET tree == TreePage(archived, prefix, bound) IN
        pages = 0 /\ ~tree.truncated =>
            /\ Total(tree) = Cardinality({u \in Partition(archived) :
                                 Under(NameOf[u], prefix) /\ head[u] # "PREPARED"})
            /\ \A s \in DOMAIN tree.folders :
                  tree.folders[s] = Total(TreePage(archived, prefix \o <<s>>, bound))

\* Rows, lists and copies are well formed, and the trees made of them add up.
ListingsInv == ListingTypeOK /\ TreesAddUp
=============================================================================
