----------------------------- MODULE SyncIndex ------------------------------
(***************************************************************************)
(* What the agent sync index promises those who read it: publishing a      *)
(* revision, counting the publication and indexing it are one step, so the *)
(* index is a projection of the current heads in which each secret stands  *)
(* at the sequence of its last publication.                                *)
(***************************************************************************)
EXTENDS Naturals

CONSTANTS Secrets, Versions, None

VARIABLES
    current,    \* the committed control revision of a secret
    archived,   \* the secrets whose current revision is an archive
    position,   \* sequence of a secret's index entry, 0 when it has none
    sequence,   \* how many publications the environment has counted
    ready       \* whether agents may synchronise

vars == <<current, archived, position, sequence, ready>>

Live == {s \in Secrets : current[s] # None} \ archived
Complete == \A s \in Live : position[s] # 0

\* An environment begins empty and ready, or with the heads of an earlier
\* release that were never indexed.
Init ==
    /\ current \in [Secrets -> Versions \cup {None}]
    /\ archived \subseteq {s \in Secrets : current[s] # None}
    /\ position = [s \in Secrets |-> 0]
    /\ sequence = 0
    /\ ready \in BOOLEAN
    /\ ready => Complete

Count(s) ==
    /\ sequence' = sequence + 1
    /\ position' = [position EXCEPT ![s] = sequence + 1]

\* A revision becomes current and is indexed behind everything counted before.
Publish(s, v) ==
    /\ v # current[s]
    /\ current' = [current EXCEPT ![s] = v]
    /\ archived' \in {archived \cup {s}, archived \ {s}}
    /\ Count(s)
    /\ UNCHANGED ready

\* A head that is already current is indexed, for the first time or again.
Index(s) ==
    /\ current[s] # None
    /\ Count(s)
    /\ UNCHANGED <<current, archived, ready>>

\* The marker of an archived secret is forgotten in the end.
Forget(s) ==
    /\ s \in archived
    /\ position[s] # 0
    /\ position' = [position EXCEPT ![s] = 0]
    /\ UNCHANGED <<current, archived, sequence, ready>>

\* Agents may synchronise once no live secret is missing.
MarkReady ==
    /\ Complete
    /\ ready' = TRUE
    /\ UNCHANGED <<current, archived, position, sequence>>

Next ==
    \/ MarkReady
    \/ \E s \in Secrets : Index(s) \/ Forget(s) \/ \E v \in Versions : Publish(s, v)

Spec == Init /\ [][Next]_vars
=============================================================================
