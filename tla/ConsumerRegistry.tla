-------------------------- MODULE ConsumerRegistry --------------------------
(***************************************************************************)
(* What enrolment promises: a consumer and the certificate it enrols with  *)
(* become active together or not at all, a certificate stays with the      *)
(* consumer and the key it was issued for, and one that was rejected or    *)
(* revoked never becomes usable again.                                     *)
(***************************************************************************)
CONSTANTS Consumers, Csrs, Identities, None

VARIABLES
    status,     \* "none", "PENDING" or "ACTIVE", per consumer
    standing,   \* "none", "PENDING", "ACTIVE", "FAILED" or "REVOKED", per certificate
    owner,      \* the consumer a certificate names
    keyOf       \* the certificate request whose public key it certifies

vars == <<status, standing, owner, keyOf>>

Init ==
    /\ status = [c \in Consumers |-> "none"]
    /\ standing = [i \in Identities |-> "none"]
    /\ owner = [i \in Identities |-> None]
    /\ keyOf = [i \in Identities |-> None]

Issue(i, c, q, s) ==
    /\ standing[i] = "none"
    /\ standing' = [standing EXCEPT ![i] = s]
    /\ owner' = [owner EXCEPT ![i] = c]
    /\ keyOf' = [keyOf EXCEPT ![i] = q]

\* A new consumer waits for its first certificate.
Register(i, c, q) ==
    /\ status[c] = "none"
    /\ status' = [status EXCEPT ![c] = "PENDING"]
    /\ Issue(i, c, q, "PENDING")

Activate(i, c) ==
    /\ standing[i] = "PENDING" /\ owner[i] = c /\ status[c] = "PENDING"
    /\ status' = [status EXCEPT ![c] = "ACTIVE"]
    /\ standing' = [standing EXCEPT ![i] = "ACTIVE"]
    /\ UNCHANGED <<owner, keyOf>>

\* A rejected enrolment frees the consumer's name for another attempt.
Reject(i, c) ==
    /\ standing[i] = "PENDING" /\ owner[i] = c /\ status[c] = "PENDING"
    /\ status' = [status EXCEPT ![c] = "none"]
    /\ standing' = [standing EXCEPT ![i] = "FAILED"]
    /\ UNCHANGED <<owner, keyOf>>

Rotate(i, c, q) ==
    /\ status[c] = "ACTIVE"
    /\ Issue(i, c, q, "ACTIVE")
    /\ UNCHANGED status

Revoke(i) ==
    /\ standing[i] = "ACTIVE"
    /\ standing' = [standing EXCEPT ![i] = "REVOKED"]
    /\ UNCHANGED <<status, owner, keyOf>>

Next ==
    \E i \in Identities :
        \/ \E c \in Consumers :
              \/ \E q \in Csrs : Register(i, c, q) \/ Rotate(i, c, q)
              \/ Activate(i, c)
              \/ Reject(i, c)
        \/ Revoke(i)

Spec == Init /\ [][Next]_vars
=============================================================================
