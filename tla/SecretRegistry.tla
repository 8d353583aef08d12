--------------------------- MODULE SecretRegistry ---------------------------
(***************************************************************************)
(* What the mutation protocol promises its callers, with no leases, objects*)
(* or recovery: every secret has one current revision that changes by      *)
(* compare-and-swap in a single step, together with the set of consumers   *)
(* that may read it and the name it is reached by.                         *)
(***************************************************************************)
EXTENDS Naturals

CONSTANTS Secrets, Versions, Names, Consumers, None

VARIABLES
    current,    \* the revision a secret's ETag names, None before its create
    content,    \* what that revision says
    readers,    \* the consumers that can read the secret
    bound,      \* the secret a name reaches
    used        \* revisions that have been current

vars == <<current, content, readers, bound, used>>

Init ==
    /\ current = [s \in Secrets |-> None]
    /\ content = [s \in Secrets |-> [state |-> "PENDING_VALUE", acl |-> {}, payload |-> None]]
    /\ readers = [s \in Secrets |-> {}]
    /\ bound = [n \in Names |-> None]
    /\ used = {}

\* The readers are the revision's ACL from the step that makes it current, and
\* a revision that was current once never is again.
Install(s, v, c) ==
    /\ current' = [current EXCEPT ![s] = v]
    /\ content' = [content EXCEPT ![s] = c]
    /\ readers' = [readers EXCEPT ![s] = c.acl]

\* A create takes a name nobody holds and starts without a payload.
Create(s, v, n, acl) ==
    /\ current[s] = None
    /\ bound[n] = None
    /\ Install(s, v, [state |-> "PENDING_VALUE", acl |-> acl, payload |-> None])
    /\ bound' = [bound EXCEPT ![n] = s]

\* An administrator changes the readers of a secret, and nothing else.
ReplaceAcl(s, v, acl) ==
    /\ current[s] # None
    /\ Install(s, v, [content[s] EXCEPT !.acl = acl])
    /\ UNCHANGED bound

\* An administrator or an agent replaces the value, and not the readers.
ReplacePayload(s, v) ==
    /\ current[s] # None
    /\ Install(s, v, [content[s] EXCEPT !.payload = v, !.state = "ACTIVE"])
    /\ UNCHANGED bound

\* Archiving revokes every reader and frees the name at once.
Archive(s, v, n) ==
    /\ bound[n] = s
    /\ Install(s, v, [content[s] EXCEPT !.state = "ARCHIVED", !.acl = {}])
    /\ bound' = [bound EXCEPT ![n] = None]

\* Every step uses up the revision it makes current.
Next ==
    \E v \in Versions \ used :
        /\ used' = used \cup {v}
        /\ \E s \in Secrets :
              \/ \E n \in Names, acl \in SUBSET Consumers : Create(s, v, n, acl)
              \/ \E acl \in SUBSET Consumers : ReplaceAcl(s, v, acl)
              \/ ReplacePayload(s, v)
              \/ \E n \in Names : Archive(s, v, n)

Spec == Init /\ [][Next]_vars
=============================================================================
