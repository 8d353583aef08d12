-------------------------- MODULE MCSecretDelivery --------------------------
(* Instances of SecretDelivery for TLC. *)
EXTENDS SecretDelivery, TLC

\* Versions, secrets and requests are interchangeable.
Symmetry == Permutations(Versions) \cup Permutations(Secrets) \cup Permutations(Reads)

Used == {v \in Versions : ~Fresh(v) \/ writer.version = v}

OneSecretOfTheAdministrator ==
    /\ writer.request # "archive" /\ \A s \in Secrets : head[s].state # "ARCHIVED"
    /\ Cardinality({s \in Secrets : head[s] # NoHead}) <= 1
    /\ \A v \in Versions : revision[v].acl = {}
    /\ \A s \in Secrets, c \in Consumers : access[s][c] = "none"
    /\ \A q \in Reads : reads[q].consumer = None
    /\ stops = 0

OnlyConsumersRead == \A q \in Reads : reads[q].phase # "idle" => reads[q].consumer # None

\* The bounds of the instance: consumers read among three versions, and an administrator
\* among four of a single secret that stays.
VersionsAreBounded ==
    \/ Cardinality(Used) <= 3 /\ OnlyConsumersRead
    \/ OneSecretOfTheAdministrator
=============================================================================
