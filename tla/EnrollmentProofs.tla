-------------------------- MODULE EnrollmentProofs --------------------------
(***************************************************************************)
(* Proofs about Enrollment: for any number of consumers, requests, Lambda  *)
(* invocations and recovery passes, the records of consumers, operations   *)
(* and certificates agree, every bundle API Gateway is given covers every  *)
(* active certificate, and every step is one of ConsumerRegistry.          *)
(***************************************************************************)
EXTENDS Enrollment, TLAPS

\* Phases in which an invocation works on an operation.
Carrying == {"associate", "resume", "lease", "answered", "settle"} \cup Publishing

\* Phases in which a handler looks for the operation of its request.
Asking == {"lookup", "consumer", "pending", "associate", "prepare"}

\* What an invocation knows is still so.
ThreadOK(t) ==
    LET r == thread[t] IN
    /\ r.phase \in {"issuer", "create"} \cup Asking =>
          t # Recovery /\ r.key \in Keys /\ r.consumer \in Consumers /\ r.csr \in Csrs
    /\ r.phase \in Asking =>
          issuer \in Handlers /\ r.root = issuer
    /\ r.phase \in {"next", "settle"} => t = Recovery
    /\ r.purpose = "reattach" => t = Recovery /\ r.phase \in {"get", "update", "poll"}
    /\ r.phase = "pending" => r.op \in Ops
    /\ r.phase \in Carrying /\ r.purpose # "reattach" => r.op \in Ops
    /\ r.phase \in Carrying /\ t # Recovery =>
          /\ identity[r.op].status # "none"
          /\ identity[r.op].consumer = r.consumer /\ identity[r.op].csr = r.csr
    /\ r.phase = "store" => issuer \in r.listed
    /\ r.phase \in {"record", "get", "update", "poll", "complete"} =>
          r.bundle \in Ops /\ content[r.bundle] # {}
    /\ r.phase = "complete" => r.bundle \in served
    /\ r.phase = "answered" => t # Recovery /\ workflow[r.op].state = "READY"
ThreadsInv == \A t \in Threads : ThreadOK(t)

\* There is one root, and every certificate was signed with it.
RootsInv ==
    \A o \in Ops : identity[o].status # "none" =>
        issuer \in Handlers /\ identity[o].root = issuer

\* Operation, certificate and consumer of an enrolment agree.
EnrollmentsInv ==
    /\ \A o \in Ops :
          /\ workflow[o].state = "PREPARED" =>
                /\ identity[o].status = "PENDING"
                /\ consumers[identity[o].consumer] = [status |-> "PENDING", pending |-> o]
          /\ workflow[o].state = "READY" => identity[o].status \in {"ACTIVE", "REVOKED"}
          /\ workflow[o].state = "FAILED" => identity[o].status = "FAILED"
    /\ \A c \in Consumers :
          /\ consumers[c].status = "PENDING" =>
                /\ consumers[c].pending \in Ops
                /\ workflow[consumers[c].pending].state = "PREPARED"
                /\ identity[consumers[c].pending].consumer = c
          /\ consumers[c].status = "ACTIVE" <=>
                \E o \in Ops : identity[o].consumer = c /\ workflow[o].state = "READY"

\* A bundle that is stored holds the root, and only such a bundle is promoted or attached.
BundlesInv ==
    /\ \A b \in Ops : content[b] # {} => issuer \in content[b]
    /\ current # None => current \in served /\ content[current] # {}
    /\ domain.attached # None => content[domain.attached] # {}
    /\ \A o \in Ops : identity[o].status = "ACTIVE" \/ workflow[o].state = "READY" =>
          current # None

TrustInv == TypeOK /\ ThreadsInv /\ RootsInv /\ EnrollmentsInv /\ BundlesInv

-----------------------------------------------------------------------------
(* Records *)

LEMMA IdentityFields ==
    ASSUME NEW i \in {NoIdentity} \cup
                  [status : {"PENDING", "ACTIVE", "FAILED", "REVOKED"},
                   consumer : Consumers, csr : Csrs, root : Handlers]
    PROVE  /\ i.status \in {"none", "PENDING", "ACTIVE", "FAILED", "REVOKED"}
           /\ i.status = "none" =>
                 i = NoIdentity /\ i.consumer = None /\ i.csr = None /\ i.root = None
           /\ i.status # "none" =>
                 i.consumer \in Consumers /\ i.csr \in Csrs /\ i.root \in Handlers
  <1>1. CASE i = NoIdentity
    BY <1>1 DEF NoIdentity
  <1>2. CASE i \in [status : {"PENDING", "ACTIVE", "FAILED", "REVOKED"},
                    consumer : Consumers, csr : Csrs, root : Handlers]
    BY <1>2
  <1> QED
    BY <1>1, <1>2

LEMMA ConsumerFields ==
    ASSUME NEW c \in {NoConsumer} \cup [status : {"PENDING", "ACTIVE"}, pending : OpOrNone]
    PROVE  /\ c.status \in {"none", "PENDING", "ACTIVE"} /\ c.pending \in OpOrNone
           /\ c.status = "none" <=> c = NoConsumer
  <1>1. CASE c = NoConsumer
    BY <1>1 DEF NoConsumer, OpOrNone
  <1>2. CASE c \in [status : {"PENDING", "ACTIVE"}, pending : OpOrNone]
    BY <1>2 DEF NoConsumer
  <1> QED
    BY <1>1, <1>2

LEMMA IdleFields ==
    /\ Idle \in ThreadRecord /\ Idle.phase = "idle" /\ Idle.purpose = "enrol"
  BY DEF Idle, ThreadRecord, Phases, Publishing, OpOrNone

LEMMA TrustInit == Init => TrustInv
  <1> SUFFICES ASSUME Init PROVE TrustInv
    OBVIOUS
  <1>1. /\ NoIdentity.status = "none" /\ NoConsumer.status = "none"
    BY DEF NoIdentity, NoConsumer
  <1>2. TypeOK
    BY IdleFields, BoundAssumption DEF Init, TypeOK, OpOrNone
  <1>3. ThreadsInv
    BY IdleFields DEF Init, ThreadsInv, ThreadOK, Carrying, Asking, Publishing
  <1>4. RootsInv /\ EnrollmentsInv /\ BundlesInv
    BY <1>1 DEF Init, RootsInv, EnrollmentsInv, BundlesInv
  <1> QED
    BY <1>2, <1>3, <1>4 DEF TrustInv

-----------------------------------------------------------------------------
(* Steps that only move an invocation *)

\* What the records never take back.
Forward ==
    /\ issuer \in Handlers => issuer' = issuer
    /\ roots \subseteq roots' /\ served \subseteq served'
    /\ \A o \in Ops :
          /\ identity[o].status # "none" =>
                /\ identity'[o].status # "none"
                /\ identity'[o].consumer = identity[o].consumer
                /\ identity'[o].csr = identity[o].csr
          /\ workflow[o].state = "READY" => workflow'[o].state = "READY"
          /\ content[o] # {} => content'[o] # {}

LEMMA OthersStayOK ==
    ASSUME TypeOK, Forward, NEW t \in Threads, ThreadOK(t), thread'[t] = thread[t]
    PROVE  ThreadOK(t)'
  <1>1. thread[t].phase = "answered" => thread[t].op \in Ops
    BY DEF ThreadOK, Carrying, Asking
  <1>2. thread[t].phase \in Carrying /\ t # Recovery => thread[t].op \in Ops
    BY DEF ThreadOK
  <1>3. thread[t].phase \in Asking => issuer' \in Handlers /\ thread[t].root = issuer'
    BY DEF ThreadOK, Forward
  <1>4. thread[t].phase \in Carrying /\ t # Recovery =>
            /\ identity'[thread[t].op].status # "none"
            /\ identity'[thread[t].op].consumer = thread[t].consumer
            /\ identity'[thread[t].op].csr = thread[t].csr
    BY <1>2 DEF ThreadOK, Forward
  <1>5. /\ thread[t].phase \in {"record", "get", "update", "poll", "complete"} =>
              thread[t].bundle \in Ops /\ content'[thread[t].bundle] # {}
        /\ thread[t].phase = "complete" => thread[t].bundle \in served'
        /\ thread[t].phase = "answered" => workflow'[thread[t].op].state = "READY"
    BY <1>1 DEF ThreadOK, Forward
  <1>6. Asking' = Asking /\ Carrying' = Carrying
    BY DEF Asking, Carrying, Publishing
  <1>7. thread[t].phase = "store" => issuer' \in thread[t].listed
    <2>1. thread[t].listed \subseteq Handlers
      BY DEF TypeOK, ThreadRecord
    <2> QED
      BY <2>1 DEF ThreadOK, Forward
  <1> QED
    BY <1>2, <1>3, <1>4, <1>5, <1>6, <1>7 DEF ThreadOK

LEMMA OneThreadMoves ==
    ASSUME TrustInv, Forward, NEW t \in Threads, ThreadOK(t)',
           \A u \in Threads \ {t} : thread'[u] = thread[u]
    PROVE  ThreadsInv'
  BY OthersStayOK DEF TrustInv, ThreadsInv

RecordsKept ==
    /\ consumers' = consumers /\ identity' = identity /\ workflow' = workflow
    /\ issuer' = issuer /\ current' = current /\ content' = content /\ domain' = domain
    /\ served' = served

\* Where the records stay, only the invocation that moved has to be looked at.
LEMMA OnlyThreadsMove ==
    ASSUME TrustInv, RecordsKept, TypeOK', roots \subseteq roots', NEW t \in Threads,
           ThreadOK(t)', \A u \in Threads \ {t} : thread'[u] = thread[u]
    PROVE  TrustInv'
  <1>1. Forward
    BY DEF RecordsKept, Forward
  <1>2. ThreadsInv'
    BY <1>1, OneThreadMoves
  <1>3. RootsInv' /\ EnrollmentsInv' /\ BundlesInv'
    BY DEF TrustInv, RecordsKept, RootsInv, EnrollmentsInv, BundlesInv
  <1> QED
    BY <1>2, <1>3 DEF TrustInv

\* An invocation that ends has nothing left to be wrong about.
LEMMA EndedIsOK ==
    ASSUME TypeOK, NEW t \in Threads, thread' = [thread EXCEPT ![t] = Idle]
    PROVE  /\ thread' \in [Threads -> ThreadRecord] /\ ThreadOK(t)'
           /\ \A u \in Threads \ {t} : thread'[u] = thread[u]
  <1>1. thread'[t] = Idle
    BY DEF TypeOK
  <1>2. ThreadOK(t)'
    BY <1>1, IdleFields DEF ThreadOK, Carrying, Asking, Publishing
  <1> QED
    BY <1>2, IdleFields DEF TypeOK

LEMMA FailedIsOK ==
    ASSUME TypeOK, NEW t \in Threads, ThreadOK(t), Failed(t),
           t = Recovery => thread[t].phase \in Carrying
    PROVE  /\ thread' \in [Threads -> ThreadRecord] /\ ThreadOK(t)'
           /\ \A u \in Threads \ {t} : thread'[u] = thread[u]
  <1>1. CASE t = Recovery /\ thread[t].purpose # "reattach"
    <2>1. thread' = [thread EXCEPT ![t] = [@ EXCEPT !.phase = "settle"]]
      BY <1>1 DEF Failed, TypeOK
    <2>2. thread[t] \in ThreadRecord /\ thread[t].op \in Ops
      BY <1>1 DEF TypeOK, ThreadOK
    <2>3. /\ thread'[t] \in ThreadRecord /\ thread'[t].phase = "settle"
          /\ thread'[t].op = thread[t].op /\ thread'[t].purpose = thread[t].purpose
      BY <2>1, <2>2 DEF TypeOK, ThreadRecord, Phases
    <2>4. ThreadOK(t)'
      BY <1>1, <2>2, <2>3 DEF ThreadOK, Carrying, Asking, Publishing
    <2> QED
      BY <2>1, <2>3, <2>4 DEF TypeOK
  <1>2. CASE ~(t = Recovery /\ thread[t].purpose # "reattach")
    <2>1. thread' = [thread EXCEPT ![t] = Idle]
      BY <1>2 DEF Failed, TypeOK
    <2> QED
      BY <2>1, EndedIsOK
  <1> QED
    BY <1>1, <1>2

\* An answer names the operation that is ready.
LEMMA SucceededIsOK ==
    ASSUME TypeOK, NEW t \in Threads, NEW o \in Ops, Succeeded(t, o),
           workflow'[o].state = "READY",
           t # Recovery =>
               /\ identity'[o].status # "none"
               /\ identity'[o].consumer = thread[t].consumer
               /\ identity'[o].csr = thread[t].csr
    PROVE  /\ thread' \in [Threads -> ThreadRecord] /\ ThreadOK(t)'
           /\ \A u \in Threads \ {t} : thread'[u] = thread[u]
  <1>1. CASE t = Recovery
    <2>1. thread' = [thread EXCEPT ![t] = [Idle EXCEPT !.phase = "next"]]
      BY <1>1 DEF Succeeded
    <2>2. /\ thread'[t] \in ThreadRecord /\ thread'[t].phase = "next"
          /\ thread'[t].purpose = "enrol"
      BY <2>1 DEF TypeOK, Idle, ThreadRecord, Phases, OpOrNone
    <2>3. ThreadOK(t)'
      BY <1>1, <2>2 DEF ThreadOK, Carrying, Asking, Publishing
    <2> QED
      BY <2>1, <2>2, <2>3 DEF TypeOK
  <1>2. CASE t # Recovery
    <2>1. thread' = [thread EXCEPT ![t] =
             [Idle EXCEPT !.phase = "answered", !.consumer = thread[t].consumer,
                          !.csr = thread[t].csr, !.op = o]]
      BY <1>2 DEF Succeeded
    <2>2. /\ thread'[t] \in ThreadRecord /\ thread'[t].phase = "answered"
          /\ thread'[t].purpose = "enrol" /\ thread'[t].op = o
          /\ thread'[t].consumer = thread[t].consumer /\ thread'[t].csr = thread[t].csr
      BY <2>1 DEF TypeOK, Idle, ThreadRecord, Phases, OpOrNone
    <2>3. ThreadOK(t)'
      BY <1>2, <2>2 DEF ThreadOK, Carrying, Asking, Publishing
    <2> QED
      BY <2>1, <2>2, <2>3 DEF TypeOK
  <1> QED
    BY <1>1, <1>2

\* A record found under a key is the same enrolment, or the request ends.
LEMMA FollowKeyIsOK ==
    ASSUME TrustInv, NEW h \in Handlers, thread[h].phase \in {"lookup", "associate", "prepare"},
           FollowKey(h), identity' = identity
    PROVE  /\ thread' \in [Threads -> ThreadRecord] /\ ThreadOK(h)'
           /\ \A u \in Threads \ {h} : thread'[u] = thread[u]
  <1>0. /\ h \in Threads /\ h # Recovery /\ TypeOK /\ ThreadOK(h)
    BY RecoveryAssumption DEF Threads, TrustInv, ThreadsInv
  <1> DEFINE k == thread[h].key
             o == keys[k].id
  <1>1. CASE keys[k].type = "enroll" /\ SameRequest(h, o)
    <2>1. k \in Keys /\ thread[h].consumer \in Consumers /\ thread[h] \in ThreadRecord
      BY <1>0 DEF ThreadOK, Asking, TypeOK
    <2>2. o \in Ops
      BY <1>0, <1>1, <2>1 DEF TypeOK, NoKey
    <2>3. /\ identity[o].consumer = thread[h].consumer /\ identity[o].csr = thread[h].csr
          /\ identity[o].status # "none"
      BY <1>0, <1>1, <2>1, <2>2, IdentityFields, NoneAssumption DEF SameRequest, TypeOK
    <2>4. thread' = [thread EXCEPT ![h] = [@ EXCEPT !.op = o, !.phase = "resume"]]
      BY <1>1 DEF FollowKey
    <2>5. /\ thread'[h] \in ThreadRecord /\ thread'[h].op = o /\ thread'[h].phase = "resume"
          /\ thread'[h].purpose = thread[h].purpose
          /\ thread'[h].consumer = thread[h].consumer /\ thread'[h].csr = thread[h].csr
      BY <1>0, <2>1, <2>2, <2>4 DEF TypeOK, ThreadRecord, Phases, OpOrNone
    <2>6. thread[h].purpose # "reattach"
      BY <1>0 DEF ThreadOK
    <2>7. ThreadOK(h)'
      BY <1>0, <2>2, <2>3, <2>5, <2>6 DEF ThreadOK, Carrying, Asking, Publishing
    <2> QED
      BY <1>0, <2>4, <2>5, <2>7 DEF TypeOK
  <1>2. CASE ~(keys[k].type = "enroll" /\ SameRequest(h, o))
    <2>1. Failed(h)
      BY <1>2 DEF FollowKey
    <2> QED
      BY <1>0, <2>1, FailedIsOK
  <1> QED
    BY <1>1, <1>2

\* An invocation that only changes its phase keeps what it carries.
LEMMA MovedIsOK ==
    ASSUME TypeOK, NEW t \in Threads, ThreadOK(t), NEW phase \in Phases, Move(t, phase)
    PROVE  /\ thread' \in [Threads -> ThreadRecord]
           /\ \A u \in Threads \ {t} : thread'[u] = thread[u]
           /\ thread'[t].phase = phase /\ thread'[t].key = thread[t].key
           /\ thread'[t].consumer = thread[t].consumer /\ thread'[t].csr = thread[t].csr
           /\ thread'[t].op = thread[t].op /\ thread'[t].root = thread[t].root
           /\ thread'[t].bundle = thread[t].bundle /\ thread'[t].purpose = thread[t].purpose
  <1>1. thread' = [thread EXCEPT ![t] = [@ EXCEPT !.phase = phase]]
    BY DEF Move
  <1>2. thread[t] \in ThreadRecord
    BY DEF TypeOK
  <1>3. thread'[t] = [thread[t] EXCEPT !.phase = phase]
    BY <1>1 DEF TypeOK
  <1>4. thread'[t] \in ThreadRecord
    BY <1>2, <1>3 DEF ThreadRecord
  <1>5. \A u \in Threads \ {t} : thread'[u] = thread[u]
    BY <1>1 DEF TypeOK
  <1>6. thread' \in [Threads -> ThreadRecord]
    BY <1>1, <1>3, <1>4 DEF TypeOK
  <1> QED
    BY <1>2, <1>3, <1>5, <1>6 DEF ThreadRecord

-----------------------------------------------------------------------------
(* Requests, recovery and publication as far as they only move an invocation *)

LEMMA RequestStep ==
    ASSUME TrustInv, NEW h \in Handlers, NEW k \in Keys, NEW c \in Consumers, NEW q \in Csrs,
           Request(h, k, c, q)
    PROVE  TrustInv'
  <1>1. h \in Threads /\ h # Recovery /\ TypeOK
    BY RecoveryAssumption DEF Threads, TrustInv
  <1>2. thread' = [thread EXCEPT ![h] =
           [Idle EXCEPT !.phase = "issuer", !.key = k, !.consumer = c, !.csr = q]]
    BY DEF Request
  <1>3. /\ thread'[h] \in ThreadRecord /\ thread'[h].phase = "issuer"
        /\ thread'[h].key = k /\ thread'[h].consumer = c /\ thread'[h].csr = q
        /\ thread'[h].purpose = "enrol"
    BY <1>1, <1>2 DEF TypeOK, Idle, ThreadRecord, Phases, OpOrNone
  <1>4. ThreadOK(h)'
    BY <1>1, <1>3 DEF ThreadOK, Carrying, Asking, Publishing
  <1>5. TypeOK'
    <2>1. requests' \in 0 .. MaxRequests
      BY <1>1, BoundAssumption DEF Request, TypeOK
    <2> QED
      BY <1>1, <1>2, <1>3, <2>1 DEF Request, TypeOK, tableVars, externalVars
  <1>6. RecordsKept /\ roots' = roots /\ \A u \in Threads \ {h} : thread'[u] = thread[u]
    BY <1>1, <1>2 DEF Request, RecordsKept, tableVars, externalVars, TypeOK
  <1> QED
    BY <1>1, <1>4, <1>5, <1>6, OnlyThreadsMove

LEMMA FindIssuerStep ==
    ASSUME TrustInv, NEW h \in Handlers, FindIssuer(h)
    PROVE  TrustInv'
  <1>1. /\ h \in Threads /\ h # Recovery /\ TypeOK /\ ThreadOK(h)
        /\ thread[h].phase = "issuer"
    BY RecoveryAssumption DEF Threads, TrustInv, ThreadsInv, FindIssuer, At
  <1>2. RecordsKept /\ lease' = lease /\ keys' = keys /\ todo' = todo /\ requests' = requests
        /\ incidents' = incidents
    BY DEF FindIssuer, RecordsKept, externalVars, bounds
  <1>3. CASE issuer = None
    <2>1. Move(h, "create") /\ roots' = roots
      BY <1>3 DEF FindIssuer
    <2>2. "create" \in Phases
      BY DEF Phases
    <2>3. ThreadOK(h)'
      BY <1>1, <2>1, <2>2, MovedIsOK DEF ThreadOK, Carrying, Asking, Publishing
    <2>4. TypeOK'
      BY <1>1, <1>2, <2>1, <2>2, MovedIsOK DEF TypeOK, RecordsKept
    <2> QED
      BY <1>1, <1>2, <2>1, <2>2, <2>3, <2>4, MovedIsOK, OnlyThreadsMove
  <1>4. CASE issuer # None
    <2>1. /\ thread' = [thread EXCEPT ![h] = [@ EXCEPT !.root = issuer, !.phase = "lookup"]]
          /\ roots' = roots \cup {issuer} /\ issuer \in Handlers
      BY <1>1, <1>4 DEF FindIssuer, TypeOK
    <2>2. thread[h] \in ThreadRecord
      BY <1>1 DEF TypeOK
    <2>3. /\ thread'[h] \in ThreadRecord /\ thread'[h].phase = "lookup"
          /\ thread'[h].root = issuer /\ thread'[h].key = thread[h].key
          /\ thread'[h].consumer = thread[h].consumer /\ thread'[h].csr = thread[h].csr
          /\ thread'[h].purpose = thread[h].purpose
      BY <1>1, <2>1, <2>2 DEF TypeOK, ThreadRecord, Phases
    <2>4. ThreadOK(h)'
      BY <1>1, <1>2, <2>1, <2>3 DEF ThreadOK, Carrying, Asking, Publishing, RecordsKept
    <2>5. TypeOK'
      BY <1>1, <1>2, <2>1, <2>3 DEF TypeOK, RecordsKept
    <2>6. \A u \in Threads \ {h} : thread'[u] = thread[u]
      BY <1>1, <2>1 DEF TypeOK
    <2> QED
      BY <1>1, <1>2, <2>1, <2>4, <2>5, <2>6, OnlyThreadsMove
  <1> QED
    BY <1>3, <1>4

\* The steps of an invocation that read, or wait for, what others write.
Reading(t) ==
    \/ t \in Handlers /\ (Lookup(t) \/ FindPending(t) \/ MatchPending(t))
    \/ Resume(t) \/ ReadRoots(t) \/ RecordBundle(t)
    \/ GetDomain(t) \/ Rejected(t) \/ GiveUp(t) \/ Rollback(t)

LEMMA ReadingMoves ==
    ASSUME TrustInv, NEW t \in Threads, Reading(t)
    PROVE  /\ thread' \in [Threads -> ThreadRecord] /\ ThreadOK(t)'
           /\ \A u \in Threads \ {t} : thread'[u] = thread[u]
           /\ UNCHANGED <<tableVars, externalVars, todo, bounds>>
  <1>1. TypeOK /\ ThreadOK(t) /\ thread[t] \in ThreadRecord
    BY DEF TrustInv, ThreadsInv, TypeOK
  <1>2. UNCHANGED <<tableVars, externalVars, todo, bounds>>
    BY DEF Reading, Lookup, FindPending, MatchPending, Resume, ReadRoots, RecordBundle,
           GetDomain, Rejected, GiveUp, Rollback
  <1>3. RecordsKept /\ roots' = roots
    BY <1>2 DEF RecordsKept, tableVars, externalVars
  <1>4. t \in Handlers => t # Recovery
    BY RecoveryAssumption
  <1>5. ASSUME Failed(t), thread[t].phase \in Carrying
        PROVE  /\ thread' \in [Threads -> ThreadRecord] /\ ThreadOK(t)'
               /\ \A u \in Threads \ {t} : thread'[u] = thread[u]
    BY <1>1, <1>5, FailedIsOK
  <1>6. CASE t \in Handlers /\ Lookup(t)
    <2>1. thread[t].phase = "lookup" /\ t # Recovery /\ "consumer" \in Phases
      BY <1>4, <1>6 DEF Lookup, At, Phases
    <2>2. FollowKey(t) \/ Move(t, "consumer")
      BY <1>6 DEF Lookup
    <2>3. CASE FollowKey(t)
      BY <1>2, <1>3, <1>6, <2>1, <2>3, FollowKeyIsOK DEF RecordsKept
    <2>4. CASE Move(t, "consumer")
      <3>1. ThreadOK(t)'
        BY <1>1, <1>3, <2>1, <2>4, MovedIsOK
           DEF ThreadOK, Carrying, Asking, Publishing, RecordsKept
      <3> QED
        BY <1>1, <1>2, <2>1, <2>4, <3>1, MovedIsOK
    <2> QED
      BY <2>2, <2>3, <2>4
  <1>7. CASE t \in Handlers /\ FindPending(t)
    <2> DEFINE pending == consumers[thread[t].consumer].pending
    <2>1. /\ thread[t].phase = "consumer" /\ t # Recovery /\ thread[t].consumer \in Consumers
          /\ "prepare" \in Phases
      BY <1>1, <1>4, <1>7 DEF FindPending, At, ThreadOK, Asking, Phases
    <2>2. CASE Move(t, "prepare")
      <3>1. ThreadOK(t)'
        BY <1>1, <1>3, <2>1, <2>2, MovedIsOK
           DEF ThreadOK, Carrying, Asking, Publishing, RecordsKept
      <3> QED
        BY <1>1, <1>2, <2>1, <2>2, <3>1, MovedIsOK
    <2>3. CASE /\ pending # None
               /\ thread' = [thread EXCEPT ![t] = [@ EXCEPT !.op = pending, !.phase = "pending"]]
      <3>1. pending \in Ops
        BY <1>1, <2>1, <2>3, ConsumerFields DEF TypeOK, OpOrNone
      <3>2. /\ thread'[t] \in ThreadRecord /\ thread'[t].phase = "pending"
            /\ thread'[t].op = pending /\ thread'[t].root = thread[t].root
            /\ thread'[t].key = thread[t].key /\ thread'[t].purpose = thread[t].purpose
            /\ thread'[t].consumer = thread[t].consumer /\ thread'[t].csr = thread[t].csr
        BY <1>1, <2>3, <3>1, ZenonT(60) DEF TypeOK, ThreadRecord, Phases, OpOrNone
      <3>3. ThreadOK(t)'
        BY <1>1, <1>3, <2>1, <3>1, <3>2
           DEF ThreadOK, Carrying, Asking, Publishing, RecordsKept
      <3> QED
        BY <1>1, <1>2, <2>3, <3>2, <3>3 DEF TypeOK
    <2> QED
      BY <1>7, <2>2, <2>3 DEF FindPending
  <1>8. CASE t \in Handlers /\ MatchPending(t)
    <2> DEFINE o == thread[t].op
    <2>1. /\ thread[t].phase = "pending" /\ t # Recovery /\ o \in Ops
          /\ thread[t].purpose # "reattach" /\ "associate" \in Phases
      BY <1>1, <1>4, <1>8 DEF MatchPending, At, ThreadOK, Asking, Phases
    <2>2. CASE Failed(t)
      BY <1>1, <1>2, <2>1, <2>2, FailedIsOK
    <2>3. CASE /\ SameRequest(t, o) /\ workflow[o].state = "PREPARED"
               /\ Move(t, "associate")
      <3>1. /\ identity[o].status # "none" /\ identity[o].consumer = thread[t].consumer
            /\ identity[o].csr = thread[t].csr
        BY <2>1, <2>3 DEF SameRequest, TrustInv, EnrollmentsInv
      <3>2. ThreadOK(t)'
        BY <1>1, <1>3, <2>1, <2>3, <3>1, MovedIsOK
           DEF ThreadOK, Carrying, Asking, Publishing, RecordsKept
      <3> QED
        BY <1>1, <1>2, <2>1, <2>3, <3>2, MovedIsOK
    <2> QED
      BY <1>8, <2>2, <2>3 DEF MatchPending
  <1>9. CASE Resume(t)
    <2> DEFINE o == thread[t].op
    <2>1. /\ thread[t].phase = "resume" /\ thread[t].purpose # "reattach" /\ o \in Ops
          /\ thread[t].phase \in Carrying
      BY <1>1, <1>9 DEF Resume, At, ThreadOK, Carrying
    <2>2. CASE workflow[o].state = "READY" /\ Succeeded(t, o)
      <3>1. PICK p \in Ops : p = o
        BY <2>1
      <3>2. t # Recovery => /\ identity[p].status # "none"
                            /\ identity[p].consumer = thread[t].consumer
                            /\ identity[p].csr = thread[t].csr
        BY <1>1, <2>1, <3>1 DEF ThreadOK
      <3>3. Succeeded(t, p) /\ workflow'[p].state = "READY"
        BY <1>3, <2>2, <3>1 DEF RecordsKept, Succeeded
      <3> QED
        BY <1>1, <1>2, <1>3, <3>2, <3>3, SucceededIsOK DEF RecordsKept
    <2>3. CASE Failed(t)
      BY <1>2, <1>5, <2>1, <2>3
    <2>4. CASE Move(t, "lease")
      <3>1. "lease" \in Phases
        BY DEF Phases
      <3>2. ThreadOK(t)'
        BY <1>1, <1>3, <2>1, <2>4, <3>1, MovedIsOK
           DEF ThreadOK, Carrying, Asking, Publishing, RecordsKept
      <3> QED
        BY <1>1, <1>2, <2>4, <3>1, <3>2, MovedIsOK
    <2> QED
      BY <1>9, <2>2, <2>3, <2>4 DEF Resume
  <1>10. CASE ReadRoots(t)
    <2> DEFINE o == thread[t].op
    <2>1. /\ thread[t].phase = "read" /\ thread[t].purpose # "reattach" /\ o \in Ops
          /\ thread[t].phase \in Carrying
      BY <1>1, <1>10 DEF ReadRoots, At, ThreadOK, Carrying, Asking, Publishing
    <2>2. CASE Failed(t)
      BY <1>2, <1>5, <2>1, <2>2
    <2>3. CASE /\ identity[o].root \in roots /\ current # None
               /\ thread' = [thread EXCEPT ![t] =
                    [@ EXCEPT !.bundle = current, !.phase = "get"]]
      <3>1. current \in Ops /\ content[current] # {}
        BY <1>1, <2>3 DEF TypeOK, OpOrNone, TrustInv, BundlesInv
      <3>2. /\ thread'[t] \in ThreadRecord /\ thread'[t].phase = "get"
            /\ thread'[t].bundle = current /\ thread'[t].op = o
            /\ thread'[t].purpose = thread[t].purpose
            /\ thread'[t].consumer = thread[t].consumer /\ thread'[t].csr = thread[t].csr
        BY <1>1, <2>3, <3>1, ZenonT(60) DEF TypeOK, ThreadRecord, Phases, Publishing, OpOrNone
      <3>3. ThreadOK(t)'
        BY <1>1, <1>3, <2>1, <3>1, <3>2 DEF ThreadOK, Carrying, Asking, Publishing, RecordsKept
      <3> QED
        BY <1>1, <1>2, <2>3, <3>2, <3>3 DEF TypeOK
    <2>4. CASE /\ identity[o].root \in roots
               /\ thread' = [thread EXCEPT ![t] = [@ EXCEPT !.listed = roots, !.phase = "store"]]
      <3>1. /\ thread'[t] \in ThreadRecord /\ thread'[t].phase = "store"
            /\ thread'[t].listed = roots /\ thread'[t].op = o
            /\ thread'[t].purpose = thread[t].purpose
            /\ thread'[t].consumer = thread[t].consumer /\ thread'[t].csr = thread[t].csr
        BY <1>1, <2>4, ZenonT(60) DEF TypeOK, ThreadRecord, Phases, Publishing
      <3>2. issuer \in roots
        <4>1. identity[o].root # None
          BY <1>1, <2>4, NoneAssumption DEF TypeOK
        <4>2. identity[o].status # "none"
          BY <1>1, <2>1, <4>1, IdentityFields DEF TypeOK
        <4> QED
          BY <2>1, <2>4, <4>2 DEF TrustInv, RootsInv
      <3>3. ThreadOK(t)'
        BY <1>1, <1>3, <2>1, <3>1, <3>2
           DEF ThreadOK, Carrying, Asking, Publishing, RecordsKept
      <3> QED
        BY <1>1, <1>2, <2>4, <3>1, <3>3 DEF TypeOK
    <2> QED
      BY <1>10, <2>2, <2>3, <2>4 DEF ReadRoots

  <1>11. CASE RecordBundle(t)
    <2>1. /\ thread[t].phase = "record" /\ thread[t].purpose # "reattach"
          /\ thread[t].phase \in Carrying /\ "get" \in Phases
      BY <1>1, <1>11 DEF RecordBundle, At, ThreadOK, Carrying, Publishing, Phases
    <2>2. CASE Move(t, "get")
      <3>1. ThreadOK(t)'
        BY <1>1, <1>3, <2>1, <2>2, MovedIsOK
           DEF ThreadOK, Carrying, Asking, Publishing, RecordsKept
      <3> QED
        BY <1>1, <1>2, <2>1, <2>2, <3>1, MovedIsOK
    <2>3. CASE Failed(t)
      BY <1>2, <1>5, <2>1, <2>3
    <2> QED
      BY <1>11, <2>2, <2>3 DEF RecordBundle
  <1>12. CASE GetDomain(t)
    <2>1. /\ thread[t].phase = "get" /\ thread[t].phase \in Carrying
      BY <1>12 DEF GetDomain, At, Carrying, Publishing
    <2>2. PICK p \in {"poll", "update"} : Move(t, p)
      BY <1>12 DEF GetDomain
    <2>3. p \in Phases /\ p \in Publishing
      BY DEF Phases, Publishing
    <2>4. ThreadOK(t)'
      BY <1>1, <1>3, <2>1, <2>2, <2>3, MovedIsOK
         DEF ThreadOK, Carrying, Asking, Publishing, RecordsKept
    <2> QED
      BY <1>1, <1>2, <2>2, <2>3, <2>4, MovedIsOK
  <1>13. CASE Rejected(t)
    <2>1. /\ thread[t].phase = "poll" /\ thread[t].phase \in Carrying
      BY <1>13 DEF Rejected, At, Carrying, Publishing
    <2>2. CASE Failed(t)
      BY <1>2, <1>5, <2>1, <2>2
    <2>3. CASE thread[t].purpose = "enrol" /\ Move(t, "rollback")
      <3>1. "rollback" \in Phases
        BY DEF Phases, Publishing
      <3>2. ThreadOK(t)'
        BY <1>1, <1>3, <2>1, <2>3, <3>1, MovedIsOK
           DEF ThreadOK, Carrying, Asking, Publishing, RecordsKept
      <3> QED
        BY <1>1, <1>2, <2>3, <3>1, <3>2, MovedIsOK
    <2> QED
      BY <1>13, <2>2, <2>3 DEF Rejected
  <1>14. CASE GiveUp(t)
    <2>1. thread[t].phase \in Carrying /\ Failed(t)
      BY <1>14 DEF GiveUp, At, Carrying, Publishing
    <2> QED
      BY <1>2, <1>5, <2>1
  <1>15. CASE Rollback(t)
    <2>1. /\ thread[t].phase = "rollback" /\ thread[t].purpose # "reattach"
          /\ thread[t].op \in Ops
      BY <1>1, <1>15 DEF Rollback, At, ThreadOK, Carrying, Asking, Publishing
    <2>2. PICK p \in {"fail", "get"} :
            /\ thread' = [thread EXCEPT ![t] = [@ EXCEPT !.purpose = "rollback",
                                                    !.bundle = current, !.phase = p]]
            /\ p = "get" => current # None
      BY <1>15 DEF Rollback
    <2>3. /\ current \in OpOrNone
          /\ current # None => current \in Ops /\ content[current] # {}
      BY DEF TypeOK, OpOrNone, TrustInv, BundlesInv
    <2>4. /\ thread'[t] \in ThreadRecord /\ thread'[t].phase = p
          /\ thread'[t].bundle = current /\ thread'[t].op = thread[t].op
          /\ thread'[t].purpose = "rollback"
          /\ thread'[t].consumer = thread[t].consumer /\ thread'[t].csr = thread[t].csr
      BY <1>1, <2>2, <2>3, ZenonT(60) DEF TypeOK, ThreadRecord, Phases, Publishing
    <2>5. ThreadOK(t)'
      BY <1>1, <1>3, <2>1, <2>2, <2>3, <2>4
         DEF ThreadOK, Carrying, Asking, Publishing, RecordsKept
    <2> QED
      BY <1>1, <1>2, <2>2, <2>4, <2>5 DEF TypeOK
  <1> QED
    BY <1>6, <1>7, <1>8, <1>9, <1>10, <1>11, <1>12, <1>13, <1>14, <1>15 DEF Reading

LEMMA ReadingStep ==
    ASSUME TrustInv, NEW t \in Threads, Reading(t)
    PROVE  TrustInv'
  <1>1. TypeOK'
    BY ReadingMoves DEF TrustInv, TypeOK, tableVars, externalVars, bounds
  <1>2. RecordsKept /\ roots' = roots
    BY ReadingMoves DEF RecordsKept, tableVars, externalVars
  <1> QED
    BY <1>1, <1>2, ReadingMoves, OnlyThreadsMove

\* The steps that write a key, the lease, or the list of a recovery pass.
LEMMA AssociateStep ==
    ASSUME TrustInv, NEW h \in Handlers, Associate(h)
    PROVE  TrustInv'
  <1>1. /\ h \in Threads /\ h # Recovery /\ TypeOK /\ ThreadOK(h)
        /\ thread[h].phase = "associate" /\ thread[h].op \in Ops
        /\ thread[h].key \in Keys
    BY RecoveryAssumption
       DEF Threads, TrustInv, ThreadsInv, Associate, At, ThreadOK, Carrying, Asking, Publishing
  <1>2. RecordsKept /\ roots' = roots /\ lease' = lease /\ todo' = todo
        /\ requests' = requests /\ incidents' = incidents
    BY DEF Associate, RecordsKept, externalVars, bounds
  <1>3. CASE /\ keys' = [keys EXCEPT ![thread[h].key] =
                           [type |-> "enroll", id |-> thread[h].op]]
             /\ Move(h, "resume")
    <2>1. "resume" \in Phases
      BY DEF Phases
    <2>2. ThreadOK(h)'
      BY <1>1, <1>2, <1>3, <2>1, MovedIsOK DEF ThreadOK, Carrying, Asking, Publishing, RecordsKept
    <2>3. keys' \in [Keys -> {NoKey} \cup [type : {"enroll", "rotate", "revoke"}, id : Ops]]
      BY <1>1, <1>3 DEF TypeOK
    <2>4. TypeOK'
      BY <1>1, <1>2, <1>3, <2>1, <2>3, MovedIsOK DEF TypeOK, RecordsKept
    <2> QED
      BY <1>1, <1>2, <1>3, <2>1, <2>2, <2>4, MovedIsOK, OnlyThreadsMove
  <1>4. CASE FollowKey(h) /\ keys' = keys
    <2>1. /\ thread' \in [Threads -> ThreadRecord] /\ ThreadOK(h)'
          /\ \A u \in Threads \ {h} : thread'[u] = thread[u]
      BY <1>1, <1>2, <1>4, FollowKeyIsOK DEF RecordsKept
    <2>2. TypeOK'
      BY <1>1, <1>2, <1>4, <2>1 DEF TypeOK, RecordsKept
    <2> QED
      BY <1>1, <1>2, <2>1, <2>2, OnlyThreadsMove
  <1> QED
    BY <1>3, <1>4 DEF Associate

LEMMA AcquireLeaseStep ==
    ASSUME TrustInv, NEW t \in Threads, AcquireLease(t)
    PROVE  TrustInv'
  <1>1. /\ TypeOK /\ ThreadOK(t) /\ thread[t].phase = "lease"
        /\ thread[t].purpose # "reattach" /\ thread[t].op \in Ops
        /\ thread[t].phase \in Carrying
    BY DEF TrustInv, ThreadsInv, AcquireLease, At, ThreadOK, Carrying
  <1>2. RecordsKept /\ roots' = roots /\ keys' = keys /\ todo' = todo
        /\ requests' = requests /\ incidents' = incidents
    BY DEF AcquireLease, RecordsKept, externalVars, bounds
  <1>3. /\ thread' \in [Threads -> ThreadRecord] /\ ThreadOK(t)'
        /\ \A u \in Threads \ {t} : thread'[u] = thread[u]
    <2>1. CASE Move(t, "read")
      <3>1. "read" \in Phases
        BY DEF Phases, Publishing
      <3>2. ThreadOK(t)'
        BY <1>1, <1>2, <2>1, <3>1, MovedIsOK DEF ThreadOK, Carrying, Asking, Publishing, RecordsKept
      <3> QED
        BY <1>1, <2>1, <3>1, <3>2, MovedIsOK
    <2>2. CASE Failed(t)
      BY <1>1, <2>2, FailedIsOK
    <2> QED
      BY <2>1, <2>2 DEF AcquireLease
  <1>4. lease' \in [owner : OpOrNone, expired : BOOLEAN]
    <2>1. CASE lease' = lease
      BY <1>1, <2>1 DEF TypeOK
    <2>2. CASE lease' = [owner |-> thread[t].op, expired |-> FALSE]
      BY <1>1, <2>2 DEF OpOrNone
    <2> QED
      BY <2>1, <2>2 DEF AcquireLease
  <1>5. TypeOK'
    BY <1>1, <1>2, <1>3, <1>4 DEF TypeOK, RecordsKept
  <1> QED
    BY <1>2, <1>3, <1>5, OnlyThreadsMove

LEMMA PassStep ==
    ASSUME TrustInv, StartPass \/ Reattach \/ \E o \in Ops : TakeNext(o)
    PROVE  TrustInv'
  <1>1. Recovery \in Threads /\ TypeOK /\ ThreadOK(Recovery)
    BY DEF Threads, TrustInv, ThreadsInv
  <1>2. /\ RecordsKept /\ roots' = roots /\ keys' = keys /\ lease' = lease
        /\ requests' = requests /\ incidents' = incidents
    BY DEF StartPass, Reattach, TakeNext, RecordsKept, tableVars, externalVars, bounds
  <1>3. todo' \subseteq Ops
    BY <1>1 DEF StartPass, Reattach, TakeNext, TypeOK
  <1>4. /\ thread' \in [Threads -> ThreadRecord] /\ ThreadOK(Recovery)'
        /\ \A u \in Threads \ {Recovery} : thread'[u] = thread[u]
    <2>1. CASE StartPass
      <3>1. "next" \in Phases /\ Move(Recovery, "next") /\ thread[Recovery].phase = "idle"
        BY <2>1 DEF StartPass, At, Phases
      <3>2. ThreadOK(Recovery)'
        BY <1>1, <3>1, MovedIsOK DEF ThreadOK, Carrying, Asking, Publishing
      <3> QED
        BY <1>1, <3>1, <3>2, MovedIsOK
    <2>2. CASE Reattach
      <3>1. CASE current = None
        BY <1>1, <2>2, <3>1, EndedIsOK DEF Reattach
      <3>2. CASE current # None
        <4>1. current \in Ops /\ content[current] # {}
          BY <1>1, <3>2 DEF TypeOK, OpOrNone, TrustInv, BundlesInv
        <4>2. thread' = [thread EXCEPT ![Recovery] =
                 [Idle EXCEPT !.phase = "get", !.bundle = current, !.purpose = "reattach"]]
          BY <2>2, <3>2 DEF Reattach
        <4>3. /\ thread'[Recovery] \in ThreadRecord /\ thread'[Recovery].phase = "get"
              /\ thread'[Recovery].bundle = current
          BY <1>1, <4>1, <4>2 DEF TypeOK, Idle, ThreadRecord, Phases, Publishing, OpOrNone
        <4>4. thread'[Recovery].purpose = "reattach"
          BY <1>1, <4>2 DEF TypeOK, Idle
        <4>5. ThreadOK(Recovery)'
          BY <1>2, <4>1, <4>3, <4>4 DEF ThreadOK, Carrying, Asking, Publishing, RecordsKept
        <4> QED
          BY <1>1, <4>2, <4>3, <4>5 DEF TypeOK
      <3> QED
        BY <3>1, <3>2
    <2>3. ASSUME NEW o \in Ops, TakeNext(o)
          PROVE  /\ thread' \in [Threads -> ThreadRecord] /\ ThreadOK(Recovery)'
                 /\ \A u \in Threads \ {Recovery} : thread'[u] = thread[u]
      <3>1. thread' = [thread EXCEPT ![Recovery] =
               [Idle EXCEPT !.phase = "resume", !.op = o]]
        BY <2>3 DEF TakeNext
      <3>2. /\ thread'[Recovery] \in ThreadRecord /\ thread'[Recovery].phase = "resume"
            /\ thread'[Recovery].op = o /\ thread'[Recovery].purpose = "enrol"
        BY <1>1, <3>1 DEF TypeOK, Idle, ThreadRecord, Phases, OpOrNone
      <3>3. ThreadOK(Recovery)'
        BY <3>2 DEF ThreadOK, Carrying, Asking, Publishing
      <3> QED
        BY <1>1, <3>1, <3>2, <3>3 DEF TypeOK
    <2> QED
      BY <2>1, <2>2, <2>3
  <1>5. TypeOK'
    BY <1>1, <1>2, <1>3, <1>4 DEF TypeOK, RecordsKept
  <1> QED
    BY <1>1, <1>2, <1>4, <1>5, OnlyThreadsMove

LEMMA StopStep ==
    ASSUME TrustInv, NEW t \in Threads, Stop(t)
    PROVE  TrustInv'
  <1>1. TypeOK
    BY DEF TrustInv
  <1>2. /\ RecordsKept /\ roots' = roots /\ keys' = keys /\ lease' = lease
        /\ requests' = requests
    BY DEF Stop, RecordsKept, tableVars, externalVars
  <1>3. /\ thread' \in [Threads -> ThreadRecord] /\ ThreadOK(t)'
        /\ \A u \in Threads \ {t} : thread'[u] = thread[u]
    BY <1>1, EndedIsOK DEF Stop
  <1>4. incidents' \in 0 .. MaxIncidents
    BY <1>1, BoundAssumption DEF Stop, TypeOK
  <1>5. todo' \subseteq Ops
    BY <1>1 DEF Stop, TypeOK
  <1>6. TypeOK'
    BY <1>1, <1>2, <1>3, <1>4, <1>5 DEF TypeOK, RecordsKept
  <1> QED
    BY <1>2, <1>3, <1>6, OnlyThreadsMove

-----------------------------------------------------------------------------
(* The issuer, the bundles, the domain and time *)

LEMMA CreateIssuerStep ==
    ASSUME TrustInv, NEW h \in Handlers, CreateIssuer(h)
    PROVE  TrustInv'
  <1>1. /\ h \in Threads /\ h # Recovery /\ TypeOK /\ ThreadOK(h)
        /\ thread[h].phase = "create" /\ thread[h] \in ThreadRecord
    BY RecoveryAssumption
       DEF Threads, TrustInv, ThreadsInv, TypeOK, CreateIssuer, At
  <1>2. /\ consumers' = consumers /\ identity' = identity /\ workflow' = workflow
        /\ current' = current /\ content' = content /\ domain' = domain
        /\ served' = served /\ lease' = lease /\ keys' = keys /\ todo' = todo
        /\ requests' = requests /\ incidents' = incidents
    BY DEF CreateIssuer, externalVars, bounds
  <1>3. /\ issuer' \in Handlers
        /\ issuer \in Handlers => issuer' = issuer
        /\ roots' = roots \cup {issuer'}
    BY <1>1, NoneAssumption DEF CreateIssuer, TypeOK
  <1>4. thread' = [thread EXCEPT ![h] = [@ EXCEPT !.root = issuer', !.phase = "lookup"]]
    BY DEF CreateIssuer
  <1>5. /\ thread'[h] \in ThreadRecord /\ thread'[h].phase = "lookup"
        /\ thread'[h].root = issuer' /\ thread'[h].key = thread[h].key
        /\ thread'[h].consumer = thread[h].consumer /\ thread'[h].csr = thread[h].csr
        /\ thread'[h].purpose = thread[h].purpose
    BY <1>1, <1>3, <1>4 DEF TypeOK, ThreadRecord, Phases
  <1>6. ThreadOK(h)'
    BY <1>1, <1>3, <1>5 DEF ThreadOK, Carrying, Asking, Publishing
  <1>7. TypeOK'
    BY <1>1, <1>2, <1>3, <1>4, <1>5 DEF TypeOK
  <1>8. \A u \in Threads \ {h} : thread'[u] = thread[u]
    BY <1>1, <1>4 DEF TypeOK
  <1>9. ThreadsInv'
    BY <1>1, <1>2, <1>3, <1>6, <1>8, OneThreadMoves DEF Forward
  <1>10. RootsInv' /\ EnrollmentsInv'
    BY <1>2, <1>3 DEF TrustInv, RootsInv, EnrollmentsInv
  <1>11. BundlesInv'
    BY <1>1, <1>2, <1>3 DEF TrustInv, BundlesInv, TypeOK
  <1> QED
    BY <1>7, <1>9, <1>10, <1>11 DEF TrustInv

LEMMA StoreBundleStep ==
    ASSUME TrustInv, NEW t \in Threads, StoreBundle(t)
    PROVE  TrustInv'
  <1>1. /\ TypeOK /\ ThreadOK(t) /\ thread[t].phase = "store"
        /\ thread[t].purpose # "reattach" /\ thread[t].op \in Ops
        /\ thread[t].phase \in Carrying /\ issuer \in thread[t].listed
    BY DEF TrustInv, ThreadsInv, StoreBundle, At, ThreadOK, Carrying, Asking, Publishing
  <1>2. PICK o \in Ops : o = thread[t].op
    BY <1>1
  <1>3. /\ consumers' = consumers /\ identity' = identity /\ workflow' = workflow
        /\ issuer' = issuer /\ roots' = roots /\ current' = current /\ domain' = domain
        /\ served' = served /\ lease' = lease /\ keys' = keys /\ todo' = todo
        /\ requests' = requests /\ incidents' = incidents
    BY DEF StoreBundle, tableVars, bounds
  <1>4. /\ content' = IF content[o] = {} THEN [content EXCEPT ![o] = thread[t].listed]
                      ELSE content
        /\ \/ /\ content'[o] = thread[t].listed
              /\ thread' = [thread EXCEPT ![t] =
                    [@ EXCEPT !.bundle = o, !.listed = {}, !.phase = "record"]]
           \/ Failed(t)
    BY <1>2 DEF StoreBundle
  <1>5. /\ content' \in [Ops -> SUBSET Handlers]
        /\ \A b \in Ops : /\ content[b] # {} => content'[b] = content[b]
                          /\ content'[b] # {} => issuer \in content'[b]
    <2>1. thread[t].listed \in SUBSET Handlers
      BY <1>1 DEF TypeOK, ThreadRecord
    <2> QED
      BY <1>1, <1>4, <2>1 DEF TypeOK, TrustInv, BundlesInv
  <1>6. Forward
    BY <1>3, <1>5 DEF Forward
  <1>7. /\ thread' \in [Threads -> ThreadRecord] /\ ThreadOK(t)'
        /\ \A u \in Threads \ {t} : thread'[u] = thread[u]
    <2>1. CASE /\ content'[o] = thread[t].listed
               /\ thread' = [thread EXCEPT ![t] =
                    [@ EXCEPT !.bundle = o, !.listed = {}, !.phase = "record"]]
      <3>1. /\ thread[t] \in ThreadRecord /\ content'[o] # {}
        BY <1>1, <2>1 DEF TypeOK
      <3>2. /\ thread'[t] \in ThreadRecord /\ thread'[t].phase = "record"
            /\ thread'[t].bundle = o /\ thread'[t].op = o
            /\ thread'[t].purpose = thread[t].purpose
            /\ thread'[t].consumer = thread[t].consumer /\ thread'[t].csr = thread[t].csr
        BY <1>1, <1>2, <2>1, <3>1 DEF TypeOK, ThreadRecord, Phases, Publishing, OpOrNone
      <3>3. ThreadOK(t)'
        BY <1>1, <1>2, <1>3, <3>1, <3>2 DEF ThreadOK, Carrying, Asking, Publishing
      <3> QED
        BY <1>1, <2>1, <3>2, <3>3 DEF TypeOK
    <2>2. CASE Failed(t)
      BY <1>1, <2>2, FailedIsOK
    <2> QED
      BY <1>4, <2>1, <2>2
  <1>8. TypeOK'
    BY <1>1, <1>3, <1>5, <1>7 DEF TypeOK
  <1>9. ThreadsInv'
    BY <1>6, <1>7, OneThreadMoves
  <1>10. RootsInv' /\ EnrollmentsInv'
    BY <1>3 DEF TrustInv, RootsInv, EnrollmentsInv
  <1>11. BundlesInv'
    BY <1>1, <1>3, <1>5 DEF TrustInv, BundlesInv, TypeOK, OpOrNone
  <1> QED
    BY <1>8, <1>9, <1>10, <1>11 DEF TrustInv

LEMMA UpdateDomainStep ==
    ASSUME TrustInv, NEW t \in Threads, UpdateDomain(t)
    PROVE  TrustInv'
  <1>1. /\ TypeOK /\ ThreadOK(t) /\ thread[t].phase = "update"
        /\ thread[t].phase \in Carrying
        /\ thread[t].bundle \in Ops /\ content[thread[t].bundle] # {}
    BY DEF TrustInv, ThreadsInv, UpdateDomain, At, ThreadOK, Carrying, Asking, Publishing
  <1>2. /\ consumers' = consumers /\ identity' = identity /\ workflow' = workflow
        /\ issuer' = issuer /\ roots' = roots /\ current' = current /\ content' = content
        /\ served' = served /\ lease' = lease /\ keys' = keys /\ todo' = todo
        /\ requests' = requests
    BY DEF UpdateDomain, tableVars
  <1>3. \/ /\ domain' = [attached |-> thread[t].bundle, updating |-> TRUE, warned |-> FALSE]
           /\ Move(t, "poll")
        \/ domain' = domain /\ Failed(t)
    BY DEF UpdateDomain
  <1>4. incidents' \in 0 .. MaxIncidents
    BY <1>1, BoundAssumption DEF UpdateDomain, TypeOK
  <1>5. Forward
    BY <1>2 DEF Forward
  <1>6. /\ thread' \in [Threads -> ThreadRecord] /\ ThreadOK(t)'
        /\ \A u \in Threads \ {t} : thread'[u] = thread[u]
    <2>1. CASE Move(t, "poll")
      <3>1. "poll" \in Phases
        BY DEF Phases, Publishing
      <3>2. ThreadOK(t)'
        BY <1>1, <1>2, <2>1, <3>1, MovedIsOK DEF ThreadOK, Carrying, Asking, Publishing
      <3> QED
        BY <1>1, <2>1, <3>1, <3>2, MovedIsOK
    <2>2. CASE Failed(t)
      BY <1>1, <2>2, FailedIsOK
    <2> QED
      BY <1>3, <2>1, <2>2
  <1>7. domain' \in [attached : OpOrNone, updating : BOOLEAN, warned : BOOLEAN]
    <2>1. CASE domain' = [attached |-> thread[t].bundle, updating |-> TRUE, warned |-> FALSE]
      BY <1>1, <2>1 DEF OpOrNone
    <2>2. CASE domain' = domain
      BY <1>1, <2>2 DEF TypeOK
    <2> QED
      BY <1>3, <2>1, <2>2
  <1>8. TypeOK'
    BY <1>1, <1>2, <1>4, <1>6, <1>7 DEF TypeOK
  <1>9. ThreadsInv'
    BY <1>5, <1>6, OneThreadMoves
  <1>10. RootsInv' /\ EnrollmentsInv'
    BY <1>2 DEF TrustInv, RootsInv, EnrollmentsInv
  <1>11. domain'.attached # None => content'[domain'.attached] # {}
    BY <1>1, <1>2, <1>3 DEF TrustInv, BundlesInv
  <1>12. BundlesInv'
    BY <1>2, <1>11 DEF TrustInv, BundlesInv
  <1> QED
    BY <1>8, <1>9, <1>10, <1>12 DEF TrustInv

LEMMA ConfirmStep ==
    ASSUME TrustInv, NEW t \in Threads, Confirm(t)
    PROVE  TrustInv'
  <1>1. /\ TypeOK /\ ThreadOK(t) /\ thread[t].phase = "poll"
        /\ thread[t].phase \in Carrying /\ thread[t].bundle \in Ops
    BY DEF TrustInv, ThreadsInv, Confirm, At, ThreadOK, Carrying, Asking, Publishing
  <1>2. /\ consumers' = consumers /\ identity' = identity /\ workflow' = workflow
        /\ issuer' = issuer /\ roots' = roots /\ current' = current /\ content' = content
        /\ domain' = domain /\ lease' = lease /\ keys' = keys /\ todo' = todo
        /\ requests' = requests /\ incidents' = incidents
        /\ served' = served \cup {thread[t].bundle}
    BY DEF Confirm, tableVars, bounds
  <1>3. Forward
    BY <1>2 DEF Forward
  <1>4. /\ thread' \in [Threads -> ThreadRecord] /\ ThreadOK(t)'
        /\ \A u \in Threads \ {t} : thread'[u] = thread[u]
    <2>1. CASE /\ thread[t].purpose # "reattach"
               /\ \/ Move(t, "complete")
                  \/ Move(t, "fail")
      <3>1. PICK p \in {"complete", "fail"} : Move(t, p)
        BY <2>1
      <3>2. p \in Phases
        BY DEF Phases, Publishing
      <3>3. ThreadOK(t)'
        BY <1>1, <1>2, <2>1, <3>1, <3>2, MovedIsOK DEF ThreadOK, Carrying, Asking, Publishing
      <3> QED
        BY <1>1, <3>1, <3>2, <3>3, MovedIsOK
    <2>2. CASE thread' = [thread EXCEPT ![t] = Idle]
      BY <1>1, <2>2, EndedIsOK
    <2> QED
      BY <2>1, <2>2 DEF Confirm
  <1>5. TypeOK'
    BY <1>1, <1>2, <1>4 DEF TypeOK
  <1>6. ThreadsInv'
    BY <1>3, <1>4, OneThreadMoves
  <1>7. RootsInv' /\ EnrollmentsInv' /\ BundlesInv'
    BY <1>2 DEF TrustInv, RootsInv, EnrollmentsInv, BundlesInv
  <1> QED
    BY <1>5, <1>6, <1>7 DEF TrustInv

\* Time and API Gateway change no record but the ones that stand for them.
LEMMA EnvironmentStep ==
    ASSUME TrustInv,
           LeaseExpires \/ DomainSettles \/ DomainReplaced \/ \E o \in Ops : Overdue(o)
    PROVE  TrustInv'
  <1>1. TypeOK
    BY DEF TrustInv
  <1>2. /\ consumers' = consumers /\ identity' = identity /\ issuer' = issuer
        /\ roots' = roots /\ current' = current /\ content' = content /\ served' = served
        /\ keys' = keys /\ thread' = thread /\ todo' = todo /\ requests' = requests
    BY DEF LeaseExpires, DomainSettles, DomainReplaced, Overdue, tableVars, externalVars, bounds
  <1>3. /\ workflow' \in [Ops -> [state : {"none", "PREPARED", "READY", "FAILED"},
                                   due : BOOLEAN]]
        /\ \A p \in Ops : workflow'[p].state = workflow[p].state
    <2>1. CASE workflow' = workflow
      BY <1>1, <2>1 DEF TypeOK
    <2>2. ASSUME NEW o \in Ops, Overdue(o)
          PROVE  /\ workflow' \in [Ops -> [state : {"none", "PREPARED", "READY", "FAILED"},
                                           due : BOOLEAN]]
                 /\ \A p \in Ops : workflow'[p].state = workflow[p].state
      <3>1. workflow' = [workflow EXCEPT ![o] = [@ EXCEPT !.due = TRUE]]
        BY <2>2 DEF Overdue
      <3>2. /\ workflow'[o] \in [state : {"none", "PREPARED", "READY", "FAILED"},
                                 due : BOOLEAN]
            /\ workflow'[o].state = workflow[o].state
        BY <1>1, <3>1, ZenonT(60) DEF TypeOK
      <3> QED
        BY <1>1, <3>1, <3>2 DEF TypeOK
    <2>3. \/ workflow' = workflow
          \/ \E o \in Ops : Overdue(o)
      BY DEF LeaseExpires, DomainSettles, DomainReplaced, tableVars
    <2> QED
      BY <2>1, <2>2, <2>3
  <1>4. /\ domain' \in [attached : OpOrNone, updating : BOOLEAN, warned : BOOLEAN]
        /\ domain'.attached \in {domain.attached, None}
    <2>1. CASE domain' = domain
      BY <1>1, <2>1 DEF TypeOK
    <2>2. CASE DomainSettles
      BY <1>1, <2>2 DEF DomainSettles, TypeOK
    <2>3. CASE domain' = [attached |-> None, updating |-> FALSE, warned |-> FALSE]
      BY <2>3 DEF OpOrNone
    <2> QED
      BY <2>1, <2>2, <2>3 DEF LeaseExpires, DomainReplaced, Overdue, externalVars
  <1>5. lease' \in [owner : OpOrNone, expired : BOOLEAN]
    <2>1. CASE lease' = lease
      BY <1>1, <2>1 DEF TypeOK
    <2>2. CASE LeaseExpires
      BY <1>1, <2>2 DEF LeaseExpires, TypeOK
    <2> QED
      BY <2>1, <2>2 DEF DomainSettles, DomainReplaced, Overdue, tableVars
  <1>6. incidents' \in 0 .. MaxIncidents
    <2>1. \/ incidents' = incidents
          \/ incidents < MaxIncidents /\ incidents' = incidents + 1
      BY DEF LeaseExpires, DomainSettles, DomainReplaced, Overdue, bounds
    <2> QED
      BY <1>1, <2>1, BoundAssumption DEF TypeOK
  <1>7. TypeOK'
    BY <1>1, <1>2, <1>3, <1>4, <1>5, <1>6 DEF TypeOK
  <1>8. ThreadsInv'
    <2>1. Forward
      BY <1>2, <1>3 DEF Forward
    <2> QED
      BY <1>1, <1>2, <2>1, OthersStayOK DEF TrustInv, ThreadsInv
  <1>9. RootsInv' /\ EnrollmentsInv'
    BY <1>1, <1>2, <1>3, ConsumerFields DEF TrustInv, RootsInv, EnrollmentsInv, TypeOK
  <1>10. BundlesInv'
    BY <1>2, <1>3, <1>4 DEF TrustInv, BundlesInv
  <1> QED
    BY <1>7, <1>8, <1>9, <1>10 DEF TrustInv

-----------------------------------------------------------------------------
(* The steps that write the records of an enrolment *)

\* Where an operation is prepared, its certificate and its consumer wait for it.
LEMMA UnusedOperation ==
    ASSUME TrustInv, NEW o \in Ops, identity[o].status = "none"
    PROVE  workflow[o].state = "none"
  <1>1. workflow[o].state \in {"none", "PREPARED", "READY", "FAILED"}
    BY DEF TrustInv, TypeOK
  <1> QED
    BY <1>1 DEF TrustInv, EnrollmentsInv

LEMMA PrepareStep ==
    ASSUME TrustInv, NEW h \in Handlers, Prepare(h)
    PROVE  TrustInv'
  <1>1. /\ h \in Threads /\ h # Recovery /\ TypeOK /\ ThreadOK(h)
        /\ thread[h].phase = "prepare" /\ thread[h] \in ThreadRecord
        /\ thread[h].key \in Keys /\ thread[h].csr \in Csrs
        /\ issuer \in Handlers /\ thread[h].root = issuer
    BY RecoveryAssumption
       DEF Threads, TrustInv, ThreadsInv, TypeOK, Prepare, At, ThreadOK, Asking
  <1>2. PICK c \in Consumers : c = thread[h].consumer
    BY <1>1 DEF ThreadOK, Asking
  <1>3. /\ issuer' = issuer /\ roots' = roots /\ lease' = lease /\ current' = current
        /\ content' = content /\ domain' = domain /\ served' = served /\ todo' = todo
        /\ requests' = requests /\ incidents' = incidents
    BY DEF Prepare, externalVars, bounds
  <1>4. CASE FollowKey(h) /\ UNCHANGED <<keys, consumers, identity, workflow>>
    <2>1. /\ thread' \in [Threads -> ThreadRecord] /\ ThreadOK(h)'
          /\ \A u \in Threads \ {h} : thread'[u] = thread[u]
      BY <1>1, <1>4, FollowKeyIsOK
    <2>2. TypeOK'
      BY <1>1, <1>3, <1>4, <2>1 DEF TypeOK
    <2> QED
      BY <1>1, <1>3, <1>4, <2>1, <2>2, OnlyThreadsMove DEF RecordsKept
  <1>5. ASSUME NEW o \in Fresh, Issue(o, h, "PENDING"),
               workflow' = [workflow EXCEPT ![o] = [state |-> "PREPARED", due |-> FALSE]],
               consumers' = [consumers EXCEPT ![c] = [status |-> "PENDING", pending |-> o]],
               consumers[c] = NoConsumer,
               keys' = [keys EXCEPT ![thread[h].key] = [type |-> "enroll", id |-> o]],
               thread' = [thread EXCEPT ![h] = [@ EXCEPT !.op = o, !.phase = "resume"]]
        PROVE  TrustInv'
    <2> USE <1>5
    <2>1. o \in Ops /\ identity[o].status = "none" /\ workflow[o].state = "none"
      BY UnusedOperation DEF Fresh, Unused
    <2>2. /\ identity' = [identity EXCEPT ![o] = [status |-> "PENDING", consumer |-> c,
                             csr |-> thread[h].csr, root |-> issuer]]
      BY <1>1, <1>2 DEF Issue
    <2>3. /\ identity'[o].status = "PENDING" /\ identity'[o].consumer = c
          /\ identity'[o].csr = thread[h].csr /\ identity'[o].root = issuer
          /\ \A p \in Ops \ {o} : identity'[p] = identity[p]
      BY <1>1, <2>1, <2>2 DEF TypeOK
    <2>4. /\ workflow'[o].state = "PREPARED"
          /\ \A p \in Ops \ {o} : workflow'[p] = workflow[p]
          /\ consumers'[c] = [status |-> "PENDING", pending |-> o]
          /\ consumers'[c].status = "PENDING" /\ consumers'[c].pending = o
          /\ \A d \in Consumers \ {c} : consumers'[d] = consumers[d]
      BY <1>1, <2>1 DEF TypeOK
    <2>5. /\ thread'[h] \in ThreadRecord /\ thread'[h].phase = "resume"
          /\ thread'[h].op = o /\ thread'[h].purpose = thread[h].purpose
          /\ thread'[h].consumer = c /\ thread'[h].csr = thread[h].csr
          /\ \A u \in Threads \ {h} : thread'[u] = thread[u]
      BY <1>1, <1>2, <2>1 DEF TypeOK, ThreadRecord, Phases, OpOrNone
    <2>6. ThreadOK(h)'
      BY <1>1, <2>1, <2>3, <2>5 DEF ThreadOK, Carrying, Asking, Publishing
    <2>7. Forward
      BY <1>3, <2>1, <2>3, <2>4 DEF Forward
    <2>8. ThreadsInv'
      BY <1>1, <2>5, <2>6, <2>7, OneThreadMoves
    <2>9. TypeOK'
      <3>1. keys' \in [Keys -> {NoKey} \cup
                          [type : {"enroll", "rotate", "revoke"}, id : Ops]]
        BY <1>1, <2>1 DEF TypeOK
      <3>2. consumers' \in [Consumers -> {NoConsumer} \cup
                               [status : {"PENDING", "ACTIVE"}, pending : OpOrNone]]
        BY <1>1, <2>1 DEF TypeOK, OpOrNone
      <3>3. identity' \in [Ops -> {NoIdentity} \cup
                              [status : {"PENDING", "ACTIVE", "FAILED", "REVOKED"},
                               consumer : Consumers, csr : Csrs, root : Handlers]]
        BY <1>1, <2>1, <2>2 DEF TypeOK
      <3>4. workflow' \in [Ops -> [state : {"none", "PREPARED", "READY", "FAILED"},
                                   due : BOOLEAN]]
        BY <1>1, <2>1 DEF TypeOK
      <3>5. thread' \in [Threads -> ThreadRecord]
        BY <1>1, <2>5 DEF TypeOK
      <3> QED
        BY <1>1, <1>3, <3>1, <3>2, <3>3, <3>4, <3>5 DEF TypeOK
    <2>10. RootsInv'
      BY <1>1, <1>3, <2>3 DEF TrustInv, RootsInv
    <2>11. BundlesInv'
      BY <1>3, <2>3, <2>4 DEF TrustInv, BundlesInv
    <2>12. consumers[c].status = "none" /\ consumers[c] = NoConsumer
      BY DEF NoConsumer
    <2>13. ASSUME NEW p \in Ops
           PROVE  /\ workflow'[p].state = "PREPARED" =>
                        /\ identity'[p].status = "PENDING"
                        /\ consumers'[identity'[p].consumer] =
                              [status |-> "PENDING", pending |-> p]
                  /\ workflow'[p].state = "READY" =>
                        identity'[p].status \in {"ACTIVE", "REVOKED"}
                  /\ workflow'[p].state = "FAILED" => identity'[p].status = "FAILED"
      <3>1. CASE p = o
        BY <2>3, <2>4, <3>1
      <3>2. CASE p # o
        <4>1. /\ identity'[p] = identity[p] /\ workflow'[p] = workflow[p]
              /\ identity[p].status # "none" => identity[p].consumer \in Consumers
          BY <1>1, <2>3, <2>4, <3>2, IdentityFields DEF TypeOK
        <4> QED
          BY <2>4, <2>12, <4>1 DEF TrustInv, EnrollmentsInv
      <3> QED
        BY <3>1, <3>2
    <2>14. ASSUME NEW d \in Consumers
           PROVE  /\ consumers'[d].status = "PENDING" =>
                        /\ consumers'[d].pending \in Ops
                        /\ workflow'[consumers'[d].pending].state = "PREPARED"
                        /\ identity'[consumers'[d].pending].consumer = d
                  /\ consumers'[d].status = "ACTIVE" <=>
                        \E p \in Ops : identity'[p].consumer = d /\ workflow'[p].state = "READY"
      <3>1. (\E p \in Ops : identity'[p].consumer = d /\ workflow'[p].state = "READY") <=>
            \E p \in Ops : identity[p].consumer = d /\ workflow[p].state = "READY"
        BY <2>1, <2>3, <2>4
      <3>2. CASE d = c
        BY <2>1, <2>3, <2>4, <2>12, <3>1, <3>2 DEF TrustInv, EnrollmentsInv
      <3>3. CASE d # c
        <4>1. consumers'[d] = consumers[d]
          BY <2>4, <3>3
        <4>2. consumers[d].status = "PENDING" =>
                  /\ consumers[d].pending \in Ops \ {o}
                  /\ workflow[consumers[d].pending].state = "PREPARED"
                  /\ identity[consumers[d].pending].consumer = d
          BY <2>1 DEF TrustInv, EnrollmentsInv
        <4> QED
          BY <2>3, <2>4, <3>1, <4>1, <4>2 DEF TrustInv, EnrollmentsInv
      <3> QED
        BY <3>2, <3>3
    <2>15. EnrollmentsInv'
      BY <2>13, <2>14 DEF EnrollmentsInv
    <2> QED
      BY <2>8, <2>9, <2>10, <2>11, <2>15 DEF TrustInv
  <1> QED
    BY <1>2, <1>4, <1>5, ZenonT(60) DEF Prepare

\* What the end of an enrolment does to its three records.
Ends(o, c, end) ==
    /\ identity' = [identity EXCEPT ![o] = [@ EXCEPT !.status = end]]
    /\ workflow' = [workflow EXCEPT ![o] =
          [state |-> IF end = "ACTIVE" THEN "READY" ELSE "FAILED", due |-> FALSE]]
    /\ consumers' = [consumers EXCEPT ![c] =
          IF end = "ACTIVE" THEN [status |-> "ACTIVE", pending |-> None] ELSE NoConsumer]

LEMMA EndKeepsRecords ==
    ASSUME TrustInv, NEW o \in Ops, NEW c \in Consumers, identity[o].consumer = c,
           identity[o].status = "PENDING", workflow[o].state = "PREPARED",
           NEW end \in {"ACTIVE", "FAILED"}, Ends(o, c, end), issuer' = issuer
    PROVE  /\ identity' \in [Ops -> {NoIdentity} \cup
                               [status : {"PENDING", "ACTIVE", "FAILED", "REVOKED"},
                                consumer : Consumers, csr : Csrs, root : Handlers]]
           /\ workflow' \in [Ops -> [state : {"none", "PREPARED", "READY", "FAILED"},
                                     due : BOOLEAN]]
           /\ consumers' \in [Consumers -> {NoConsumer} \cup
                                [status : {"PENDING", "ACTIVE"}, pending : OpOrNone]]
           /\ identity'[o].status = end /\ workflow'[o].state # "PREPARED"
           /\ workflow'[o].state = "READY" <=> end = "ACTIVE"
           /\ \A p \in Ops \ {o} : identity'[p] = identity[p] /\ workflow'[p] = workflow[p]
           /\ \A p \in Ops : /\ identity'[p].consumer = identity[p].consumer
                             /\ identity'[p].csr = identity[p].csr
                             /\ identity[p].status # "none" => identity'[p].status # "none"
                             /\ workflow[p].state = "READY" => workflow'[p].state = "READY"
           /\ RootsInv' /\ EnrollmentsInv'
  <1> USE DEF Ends
  <1>1. TypeOK
    BY DEF TrustInv
  <1>2. identity[o] \in [status : {"PENDING", "ACTIVE", "FAILED", "REVOKED"},
                         consumer : Consumers, csr : Csrs, root : Handlers]
    BY <1>1, IdentityFields DEF TypeOK, NoIdentity
  <1>3. /\ identity'[o] \in [status : {"PENDING", "ACTIVE", "FAILED", "REVOKED"},
                             consumer : Consumers, csr : Csrs, root : Handlers]
        /\ identity'[o].status = end /\ identity'[o].consumer = c
        /\ identity'[o].csr = identity[o].csr /\ identity'[o].root = identity[o].root
        /\ \A p \in Ops \ {o} : identity'[p] = identity[p]
    BY <1>1, <1>2 DEF TypeOK
  <1>4. /\ workflow'[o].state = IF end = "ACTIVE" THEN "READY" ELSE "FAILED"
        /\ \A p \in Ops \ {o} : workflow'[p] = workflow[p]
    BY <1>1 DEF TypeOK
  <1>5. /\ consumers'[c].status = IF end = "ACTIVE" THEN "ACTIVE" ELSE "none"
        /\ \A d \in Consumers \ {c} : consumers'[d] = consumers[d]
    BY <1>1 DEF TypeOK, NoConsumer
  <1>6. identity' \in [Ops -> {NoIdentity} \cup
                         [status : {"PENDING", "ACTIVE", "FAILED", "REVOKED"},
                          consumer : Consumers, csr : Csrs, root : Handlers]]
    BY <1>1, <1>3 DEF TypeOK
  <1>7. workflow' \in [Ops -> [state : {"none", "PREPARED", "READY", "FAILED"},
                               due : BOOLEAN]]
    <2>1. [state |-> IF end = "ACTIVE" THEN "READY" ELSE "FAILED", due |-> FALSE]
              \in [state : {"none", "PREPARED", "READY", "FAILED"}, due : BOOLEAN]
      OBVIOUS
    <2> QED
      BY <1>1, <2>1 DEF TypeOK
  <1>8. consumers' \in [Consumers -> {NoConsumer} \cup
                          [status : {"PENDING", "ACTIVE"}, pending : OpOrNone]]
    <2>1. (IF end = "ACTIVE" THEN [status |-> "ACTIVE", pending |-> None] ELSE NoConsumer)
              \in {NoConsumer} \cup [status : {"PENDING", "ACTIVE"}, pending : OpOrNone]
      BY DEF OpOrNone
    <2> QED
      BY <1>1, <2>1 DEF TypeOK
  <1>9. RootsInv'
    BY <1>3 DEF TrustInv, RootsInv
  <1>10. consumers[c] = [status |-> "PENDING", pending |-> o]
    BY DEF TrustInv, EnrollmentsInv
  <1>11. consumers[c].status = "PENDING" /\ consumers[c].pending = o
    BY <1>10
  <1>12. ASSUME NEW p \in Ops
         PROVE  /\ workflow'[p].state = "PREPARED" =>
                      /\ identity'[p].status = "PENDING"
                      /\ consumers'[identity'[p].consumer] =
                            [status |-> "PENDING", pending |-> p]
                /\ workflow'[p].state = "READY" =>
                      identity'[p].status \in {"ACTIVE", "REVOKED"}
                /\ workflow'[p].state = "FAILED" => identity'[p].status = "FAILED"
    <2>1. CASE p = o
      BY <1>3, <1>4, <2>1
    <2>2. CASE p # o
      <3>1. /\ identity'[p] = identity[p] /\ workflow'[p] = workflow[p]
            /\ identity[p].status # "none" => identity[p].consumer \in Consumers
        BY <1>1, <1>3, <1>4, <2>2, IdentityFields DEF TypeOK
      <3>2. workflow[p].state = "PREPARED" =>
               /\ identity[p].status = "PENDING"
               /\ consumers[identity[p].consumer] = [status |-> "PENDING", pending |-> p]
        BY DEF TrustInv, EnrollmentsInv
      <3>3. workflow[p].state = "PREPARED" => identity[p].consumer # c
        BY <1>11, <2>2, <3>2
      <3> QED
        BY <1>5, <3>1, <3>2, <3>3 DEF TrustInv, EnrollmentsInv
    <2> QED
      BY <2>1, <2>2
  <1>13. ASSUME NEW d \in Consumers
         PROVE  /\ consumers'[d].status = "PENDING" =>
                      /\ consumers'[d].pending \in Ops
                      /\ workflow'[consumers'[d].pending].state = "PREPARED"
                      /\ identity'[consumers'[d].pending].consumer = d
                /\ consumers'[d].status = "ACTIVE" <=>
                      \E p \in Ops : identity'[p].consumer = d /\ workflow'[p].state = "READY"
    <2>1. CASE d = c
      <3>1. \A p \in Ops : ~(identity[p].consumer = c /\ workflow[p].state = "READY")
        BY <1>11 DEF TrustInv, EnrollmentsInv
      <3>2. CASE end = "ACTIVE"
        BY <1>3, <1>4, <1>5, <2>1, <3>2
      <3>3. CASE end # "ACTIVE"
        BY <1>3, <1>4, <1>5, <2>1, <3>1, <3>3
      <3> QED
        BY <3>2, <3>3
    <2>2. CASE d # c
      <3>1. consumers'[d] = consumers[d]
        BY <1>5, <2>2
      <3>2. consumers[d].status = "PENDING" =>
                /\ consumers[d].pending \in Ops \ {o}
                /\ workflow[consumers[d].pending].state = "PREPARED"
                /\ identity[consumers[d].pending].consumer = d
        BY <2>2 DEF TrustInv, EnrollmentsInv
      <3>3. (\E p \in Ops : identity'[p].consumer = d /\ workflow'[p].state = "READY") <=>
            \E p \in Ops : identity[p].consumer = d /\ workflow[p].state = "READY"
        BY <1>3, <1>4, <2>2
      <3> QED
        BY <1>3, <1>4, <3>1, <3>2, <3>3 DEF TrustInv, EnrollmentsInv
    <2> QED
      BY <2>1, <2>2
  <1>14. EnrollmentsInv'
    BY <1>12, <1>13 DEF EnrollmentsInv
  <1>15. \A p \in Ops : /\ identity'[p].consumer = identity[p].consumer
                        /\ identity'[p].csr = identity[p].csr
                        /\ identity[p].status # "none" => identity'[p].status # "none"
                        /\ workflow[p].state = "READY" => workflow'[p].state = "READY"
    BY <1>3, <1>4
  <1> QED
    BY <1>3, <1>4, <1>6, <1>7, <1>8, <1>9, <1>14, <1>15

LEMMA CompleteStep ==
    ASSUME TrustInv, NEW t \in Threads, Complete(t)
    PROVE  TrustInv'
  <1>1. /\ TypeOK /\ ThreadOK(t) /\ thread[t].phase = "complete"
        /\ thread[t].phase \in Carrying /\ thread[t].purpose # "reattach"
        /\ thread[t].bundle \in Ops /\ content[thread[t].bundle] # {}
        /\ thread[t].bundle \in served
    BY DEF TrustInv, ThreadsInv, Complete, At, ThreadOK, Carrying, Asking, Publishing
  <1>2. PICK o \in Ops : o = thread[t].op
    BY <1>1 DEF ThreadOK
  <1>3. /\ issuer' = issuer /\ roots' = roots /\ content' = content /\ domain' = domain
        /\ served' = served /\ keys' = keys /\ todo' = todo
        /\ requests' = requests /\ incidents' = incidents
    BY DEF Complete, externalVars, bounds
  <1>4. t # Recovery => /\ identity[o].status # "none"
                        /\ identity[o].consumer = thread[t].consumer
                        /\ identity[o].csr = thread[t].csr
    BY <1>1, <1>2 DEF ThreadOK
  <1>5. CASE UNCHANGED <<consumers, identity, workflow, lease, current>>
    <2>2. (workflow[o].state = "READY" /\ Succeeded(t, o)) \/ Failed(t)
      <3>1. CASE /\ identity[o].status = "PENDING" /\ workflow[o].state = "PREPARED"
                 /\ identity' = [identity EXCEPT ![o] = [@ EXCEPT !.status = "ACTIVE"]]
        <4>1. identity'[o].status = "ACTIVE"
          BY <1>1, <3>1, IdentityFields DEF TypeOK, NoIdentity
        <4> QED
          BY <1>5, <3>1, <4>1
      <3>2. CASE (workflow[o].state = "READY" /\ Succeeded(t, o)) \/ Failed(t)
        BY <3>2
      <3> QED
        BY <1>2, <3>1, <3>2 DEF Complete
    <2>3. /\ thread' \in [Threads -> ThreadRecord] /\ ThreadOK(t)'
          /\ \A u \in Threads \ {t} : thread'[u] = thread[u]
      <3>1. CASE Failed(t)
        BY <1>1, <3>1, FailedIsOK
      <3>2. CASE workflow[o].state = "READY" /\ Succeeded(t, o)
        BY <1>1, <1>4, <1>5, <3>2, SucceededIsOK
      <3> QED
        BY <2>2, <3>1, <3>2
    <2>4. TypeOK'
      BY <1>1, <1>3, <1>5, <2>3 DEF TypeOK
    <2> QED
      BY <1>3, <1>5, <2>3, <2>4, OnlyThreadsMove DEF RecordsKept
  <1>6. CASE /\ identity[o].status = "PENDING" /\ workflow[o].state = "PREPARED"
             /\ identity' = [identity EXCEPT ![o] = [@ EXCEPT !.status = "ACTIVE"]]
             /\ workflow' = [workflow EXCEPT ![o] = [state |-> "READY", due |-> FALSE]]
             /\ current' = thread[t].bundle
             /\ lease' = [owner |-> None, expired |-> FALSE]
             /\ consumers' = [consumers EXCEPT ![identity[o].consumer] =
                                [status |-> "ACTIVE", pending |-> None]]
             /\ Succeeded(t, o)
    <2>1. PICK c \in Consumers : c = identity[o].consumer
      BY <1>1, <1>6, IdentityFields DEF TypeOK
    <2>2. Ends(o, c, "ACTIVE")
      BY <1>6, <2>1 DEF Ends
    <2> DEFINE end == "ACTIVE"
    <2>3. end \in {"ACTIVE", "FAILED"} /\ Ends(o, c, end)
      BY <2>2
    <2> HIDE DEF end
    <2>4. /\ identity' \in [Ops -> {NoIdentity} \cup
                               [status : {"PENDING", "ACTIVE", "FAILED", "REVOKED"},
                                consumer : Consumers, csr : Csrs, root : Handlers]]
          /\ workflow' \in [Ops -> [state : {"none", "PREPARED", "READY", "FAILED"},
                                    due : BOOLEAN]]
          /\ consumers' \in [Consumers -> {NoConsumer} \cup
                                [status : {"PENDING", "ACTIVE"}, pending : OpOrNone]]
          /\ workflow'[o].state = "READY" <=> end = "ACTIVE"
          /\ \A p \in Ops : /\ identity'[p].consumer = identity[p].consumer
                            /\ identity'[p].csr = identity[p].csr
                            /\ identity[p].status # "none" => identity'[p].status # "none"
                            /\ workflow[p].state = "READY" => workflow'[p].state = "READY"
          /\ RootsInv' /\ EnrollmentsInv'
      BY <1>3, <1>6, <2>1, <2>3, EndKeepsRecords
    <2>5. workflow'[o].state = "READY"
      BY <2>4 DEF end
    <2>6. /\ thread' \in [Threads -> ThreadRecord] /\ ThreadOK(t)'
          /\ \A u \in Threads \ {t} : thread'[u] = thread[u]
      BY <1>1, <1>4, <1>6, <2>4, <2>5, SucceededIsOK
    <2>7. TypeOK'
      BY <1>1, <1>3, <1>6, <2>4, <2>6 DEF TypeOK, OpOrNone
    <2>8. ThreadsInv'
      BY <1>3, <2>4, <2>6, OneThreadMoves DEF Forward
    <2>9. BundlesInv'
      BY <1>1, <1>3, <1>6, NoneAssumption DEF TrustInv, BundlesInv
    <2> QED
      BY <2>4, <2>7, <2>8, <2>9 DEF TrustInv
  <1> QED
    BY <1>2, <1>5, <1>6 DEF Complete

\* An enrolment that may fail, fails as a whole.
LEMMA FailureKeepsRecords ==
    ASSUME TrustInv, NEW o \in Ops,
           \/ MayFail(o) /\ FailEnrollment(o)
           \/ UNCHANGED <<consumers, identity, workflow, lease>>,
           issuer' = issuer, roots' = roots, current' = current, content' = content,
           domain' = domain, served' = served, keys' = keys, todo' = todo,
           requests' = requests, incidents' = incidents,
           NEW t \in Threads, ThreadOK(t)', thread' \in [Threads -> ThreadRecord],
           \A u \in Threads \ {t} : thread'[u] = thread[u]
    PROVE  TrustInv'
  <1>1. TypeOK
    BY DEF TrustInv
  <1>2. CASE UNCHANGED <<consumers, identity, workflow, lease>>
    BY <1>1, <1>2, OnlyThreadsMove DEF RecordsKept, TypeOK
  <1>3. CASE MayFail(o) /\ FailEnrollment(o)
    <2>1. identity[o].status = "PENDING" /\ workflow[o].state = "PREPARED"
          /\ lease' = [owner |-> None, expired |-> FALSE]
      BY <1>3 DEF MayFail, FailEnrollment
    <2>2. PICK c \in Consumers : c = identity[o].consumer
      BY <1>1, <2>1, IdentityFields DEF TypeOK
    <2> DEFINE end == "FAILED"
    <2>3. end \in {"ACTIVE", "FAILED"} /\ Ends(o, c, end)
      BY <1>3, <2>2 DEF Ends, FailEnrollment
    <2> HIDE DEF end
    <2>4. /\ identity' \in [Ops -> {NoIdentity} \cup
                               [status : {"PENDING", "ACTIVE", "FAILED", "REVOKED"},
                                consumer : Consumers, csr : Csrs, root : Handlers]]
          /\ workflow' \in [Ops -> [state : {"none", "PREPARED", "READY", "FAILED"},
                                    due : BOOLEAN]]
          /\ consumers' \in [Consumers -> {NoConsumer} \cup
                                [status : {"PENDING", "ACTIVE"}, pending : OpOrNone]]
          /\ identity'[o].status = end
          /\ workflow'[o].state = "READY" <=> end = "ACTIVE"
          /\ \A p \in Ops \ {o} : identity'[p] = identity[p] /\ workflow'[p] = workflow[p]
          /\ \A p \in Ops : /\ identity'[p].consumer = identity[p].consumer
                            /\ identity'[p].csr = identity[p].csr
                            /\ identity[p].status # "none" => identity'[p].status # "none"
                            /\ workflow[p].state = "READY" => workflow'[p].state = "READY"
          /\ RootsInv' /\ EnrollmentsInv'
      BY <2>1, <2>2, <2>3, EndKeepsRecords
    <2>5. identity'[o].status = "FAILED" /\ workflow'[o].state # "READY"
      BY <2>4 DEF end
    <2>6. TypeOK'
      BY <1>1, <2>1, <2>4 DEF TypeOK, OpOrNone
    <2>7. ThreadsInv'
      BY <2>4, OneThreadMoves DEF Forward
    <2>8. BundlesInv'
      BY <2>4, <2>5 DEF TrustInv, BundlesInv
    <2> QED
      BY <2>4, <2>6, <2>7, <2>8 DEF TrustInv
  <1> QED
    BY <1>2, <1>3

LEMMA FailStep ==
    ASSUME TrustInv, NEW t \in Threads, Fail(t)
    PROVE  TrustInv'
  <1>1. /\ TypeOK /\ ThreadOK(t) /\ thread[t].phase = "fail" /\ Failed(t)
        /\ thread[t].phase \in Carrying /\ thread[t].op \in Ops
    BY DEF TrustInv, ThreadsInv, Fail, At, ThreadOK, Carrying, Asking, Publishing
  <1>2. PICK o \in Ops : o = thread[t].op
    BY <1>1
  <1>3. /\ thread' \in [Threads -> ThreadRecord] /\ ThreadOK(t)'
        /\ \A u \in Threads \ {t} : thread'[u] = thread[u]
    BY <1>1, FailedIsOK
  <1>4. \/ MayFail(o) /\ FailEnrollment(o)
        \/ UNCHANGED <<consumers, identity, workflow, lease>>
    BY <1>2 DEF Fail
  <1>5. /\ issuer' = issuer /\ roots' = roots /\ current' = current /\ content' = content
        /\ domain' = domain /\ served' = served /\ keys' = keys /\ todo' = todo
        /\ requests' = requests /\ incidents' = incidents
    BY DEF Fail, externalVars, bounds
  <1> QED
    BY <1>3, <1>4, <1>5, FailureKeepsRecords

LEMMA SettleStep == ASSUME TrustInv, Settle PROVE TrustInv'
  <1>1. /\ TypeOK /\ Recovery \in Threads /\ ThreadOK(Recovery)
        /\ thread[Recovery].phase = "settle"
    BY DEF TrustInv, ThreadsInv, Threads, Settle, At
  <1>2. PICK o \in Ops : o = thread[Recovery].op
    BY <1>1 DEF ThreadOK, Carrying, Asking
  <1>3. /\ thread' \in [Threads -> ThreadRecord] /\ ThreadOK(Recovery)'
        /\ \A u \in Threads \ {Recovery} : thread'[u] = thread[u]
    <2>1. thread' = [thread EXCEPT ![Recovery] = [Idle EXCEPT !.phase = "next"]]
      BY DEF Settle
    <2>2. /\ thread'[Recovery] \in ThreadRecord /\ thread'[Recovery].phase = "next"
          /\ thread'[Recovery].purpose = "enrol"
      BY <1>1, <2>1 DEF TypeOK, Idle, ThreadRecord, Phases, OpOrNone
    <2>3. ThreadOK(Recovery)'
      BY <2>2 DEF ThreadOK, Carrying, Asking, Publishing
    <2> QED
      BY <1>1, <2>1, <2>2, <2>3 DEF TypeOK
  <1>4. \/ MayFail(o) /\ FailEnrollment(o)
        \/ UNCHANGED <<consumers, identity, workflow, lease>>
    BY <1>2 DEF Settle
  <1>5. /\ issuer' = issuer /\ roots' = roots /\ current' = current /\ content' = content
        /\ domain' = domain /\ served' = served /\ keys' = keys /\ todo' = todo
        /\ requests' = requests /\ incidents' = incidents
    BY DEF Settle, externalVars, bounds
  <1> QED
    BY <1>1, <1>3, <1>4, <1>5, FailureKeepsRecords

LEMMA RotateStep ==
    ASSUME TrustInv, NEW k \in Keys, NEW c \in Consumers, NEW q \in Csrs, Rotate(k, c, q)
    PROVE  TrustInv'
  <1>1. TypeOK /\ consumers[c].status = "ACTIVE"
    BY DEF TrustInv, Rotate
  <1>2. /\ consumers' = consumers /\ workflow' = workflow /\ issuer' = issuer
        /\ roots' = roots /\ lease' = lease /\ current' = current /\ content' = content
        /\ domain' = domain /\ served' = served /\ thread' = thread /\ todo' = todo
        /\ incidents' = incidents
    BY DEF Rotate, externalVars
  <1>3. PICK o \in Fresh :
          /\ identity' = [identity EXCEPT ![o] =
                [status |-> "ACTIVE", consumer |-> c, csr |-> q, root |-> issuer]]
          /\ keys' = [keys EXCEPT ![k] = [type |-> "rotate", id |-> o]]
    BY DEF Rotate
  <1>4. o \in Ops /\ identity[o].status = "none" /\ workflow[o].state = "none"
    BY UnusedOperation DEF Fresh, Unused
  <1>5. issuer \in Handlers /\ current # None
    <2>1. PICK p \in Ops : identity[p].consumer = c /\ workflow[p].state = "READY"
      BY <1>1 DEF TrustInv, EnrollmentsInv
    <2>2. identity[p].status \in {"ACTIVE", "REVOKED"}
      BY <2>1 DEF TrustInv, EnrollmentsInv
    <2> QED
      BY <2>1, <2>2 DEF TrustInv, RootsInv, BundlesInv
  <1>6. /\ identity'[o].status = "ACTIVE" /\ identity'[o].root = issuer
        /\ \A p \in Ops \ {o} : identity'[p] = identity[p]
    BY <1>1, <1>3, <1>4 DEF TypeOK
  <1>7. TypeOK'
    <2>1. requests' \in 0 .. MaxRequests
      BY <1>1, BoundAssumption DEF Rotate, TypeOK
    <2>2. keys' \in [Keys -> {NoKey} \cup [type : {"enroll", "rotate", "revoke"}, id : Ops]]
      BY <1>1, <1>3, <1>4 DEF TypeOK
    <2>3. identity' \in [Ops -> {NoIdentity} \cup
                            [status : {"PENDING", "ACTIVE", "FAILED", "REVOKED"},
                             consumer : Consumers, csr : Csrs, root : Handlers]]
      BY <1>1, <1>3, <1>4, <1>5 DEF TypeOK
    <2> QED
      BY <1>1, <1>2, <2>1, <2>2, <2>3 DEF TypeOK
  <1>8. ThreadsInv'
    <2>1. Forward
      BY <1>2, <1>4, <1>6 DEF Forward
    <2> QED
      BY <1>1, <1>2, <2>1, OthersStayOK DEF TrustInv, ThreadsInv
  <1>9. RootsInv' /\ BundlesInv'
    BY <1>2, <1>5, <1>6 DEF TrustInv, RootsInv, BundlesInv
  <1>10. EnrollmentsInv'
    <2>1. ASSUME NEW d \in Consumers
          PROVE  /\ consumers[d].status = "PENDING" =>
                       identity'[consumers[d].pending].consumer = d
                 /\ (\E p \in Ops : identity'[p].consumer = d /\ workflow[p].state = "READY")
                    <=> \E p \in Ops : identity[p].consumer = d /\ workflow[p].state = "READY"
      BY <1>4, <1>6 DEF TrustInv, EnrollmentsInv
    <2>2. \A p \in Ops : workflow[p].state # "none" => identity'[p] = identity[p]
      BY <1>4, <1>6
    <2> QED
      BY <1>2, <2>1, <2>2 DEF TrustInv, EnrollmentsInv
  <1> QED
    BY <1>7, <1>8, <1>9, <1>10 DEF TrustInv

LEMMA RevokeStep ==
    ASSUME TrustInv, NEW k \in Keys, NEW o \in Ops, Revoke(k, o)
    PROVE  TrustInv'
  <1>1. /\ TypeOK /\ identity[o].status = "ACTIVE"
        /\ identity' = [identity EXCEPT ![o] = [@ EXCEPT !.status = "REVOKED"]]
        /\ keys' = [keys EXCEPT ![k] = [type |-> "revoke", id |-> o]]
    BY DEF TrustInv, Revoke
  <1>2. /\ consumers' = consumers /\ workflow' = workflow /\ issuer' = issuer
        /\ roots' = roots /\ lease' = lease /\ current' = current /\ content' = content
        /\ domain' = domain /\ served' = served /\ thread' = thread /\ todo' = todo
        /\ incidents' = incidents
    BY DEF Revoke, externalVars
  <1>3. identity[o] \in [status : {"PENDING", "ACTIVE", "FAILED", "REVOKED"},
                         consumer : Consumers, csr : Csrs, root : Handlers]
    BY <1>1, IdentityFields DEF TypeOK, NoIdentity
  <1>4. /\ identity'[o] \in [status : {"PENDING", "ACTIVE", "FAILED", "REVOKED"},
                             consumer : Consumers, csr : Csrs, root : Handlers]
        /\ identity'[o].status = "REVOKED"
        /\ identity'[o].consumer = identity[o].consumer
        /\ identity'[o].csr = identity[o].csr /\ identity'[o].root = identity[o].root
        /\ \A p \in Ops \ {o} : identity'[p] = identity[p]
    BY <1>1, <1>3 DEF TypeOK
  <1>5. TypeOK'
    <2>1. requests' \in 0 .. MaxRequests
      BY <1>1, BoundAssumption DEF Revoke, TypeOK
    <2>2. keys' \in [Keys -> {NoKey} \cup [type : {"enroll", "rotate", "revoke"}, id : Ops]]
      BY <1>1 DEF TypeOK
    <2>3. identity' \in [Ops -> {NoIdentity} \cup
                            [status : {"PENDING", "ACTIVE", "FAILED", "REVOKED"},
                             consumer : Consumers, csr : Csrs, root : Handlers]]
      BY <1>1, <1>4 DEF TypeOK
    <2> QED
      BY <1>1, <1>2, <2>1, <2>2, <2>3 DEF TypeOK
  <1>6. ThreadsInv'
    <2>1. Forward
      BY <1>1, <1>2, <1>4 DEF Forward
    <2> QED
      BY <1>1, <1>2, <2>1, OthersStayOK DEF TrustInv, ThreadsInv
  <1>7. RootsInv' /\ BundlesInv'
    BY <1>1, <1>2, <1>4 DEF TrustInv, RootsInv, BundlesInv
  <1>8. EnrollmentsInv'
    <2>1. ASSUME NEW d \in Consumers
          PROVE  /\ consumers[d].status = "PENDING" =>
                       identity'[consumers[d].pending].consumer = d
                 /\ (\E p \in Ops : identity'[p].consumer = d /\ workflow[p].state = "READY")
                    <=> \E p \in Ops : identity[p].consumer = d /\ workflow[p].state = "READY"
      BY <1>4 DEF TrustInv, EnrollmentsInv
    <2>2. workflow[o].state \notin {"PREPARED", "FAILED"}
      BY <1>1 DEF TrustInv, EnrollmentsInv
    <2> QED
      BY <1>2, <1>4, <2>1, <2>2 DEF TrustInv, EnrollmentsInv
  <1> QED
    BY <1>5, <1>6, <1>7, <1>8 DEF TrustInv

-----------------------------------------------------------------------------
(* The invariant *)

LEMMA PublishStep ==
    ASSUME TrustInv, NEW t \in Threads, Publish(t)
    PROVE  TrustInv'
  BY ReadingStep, AcquireLeaseStep, StoreBundleStep, UpdateDomainStep, ConfirmStep,
     CompleteStep, FailStep
     DEF Publish, Reading

LEMMA TrustStep == TrustInv /\ [Next]_vars => TrustInv'
  <1> SUFFICES ASSUME TrustInv, [Next]_vars PROVE TrustInv'
    OBVIOUS
  <1>1. CASE Administer
    BY <1>1, RequestStep, RotateStep, RevokeStep DEF Administer
  <1>2. ASSUME NEW h \in Handlers, Handle(h) PROVE TrustInv'
    <2>1. h \in Threads
      BY DEF Threads
    <2> QED
      BY <1>2, <2>1, FindIssuerStep, CreateIssuerStep, ReadingStep, AssociateStep,
         PrepareStep, PublishStep
         DEF Handle, Reading
  <1>3. CASE Recover
    <2>1. Recovery \in Threads
      BY DEF Threads
    <2> QED
      BY <1>3, <2>1, PassStep, SettleStep, PublishStep DEF Recover
  <1>4. CASE Environment
    BY <1>4, EnvironmentStep, StopStep DEF Environment
  <1>5. CASE UNCHANGED vars
    <2>1. RecordsKept /\ roots' = roots /\ thread' = thread
      BY <1>5 DEF vars, tableVars, externalVars, RecordsKept
    <2>2. TypeOK'
      BY <1>5 DEF TrustInv, TypeOK, vars, tableVars, externalVars, bounds
    <2>3. Forward
      BY <2>1 DEF RecordsKept, Forward
    <2>4. ThreadsInv'
      BY <2>1, <2>3, OthersStayOK DEF TrustInv, ThreadsInv
    <2> QED
      BY <2>1, <2>2, <2>4
         DEF TrustInv, RecordsKept, RootsInv, EnrollmentsInv, BundlesInv
  <1> QED
    BY <1>1, <1>2, <1>3, <1>4, <1>5 DEF Next

\* The invariant holds whatever requests, recovery passes, crashes and refusals interleave.
THEOREM TrustInvariant == Spec => []TrustInv
  BY TrustInit, TrustStep, PTL DEF Spec

-----------------------------------------------------------------------------
(* The promises *)

\* Every record keeps its shape under any interleaving of requests, recovery and time.
THEOREM EnrollmentTypeCorrectness == Spec => []TypeOK
  <1>1. TrustInv => TypeOK
    BY DEF TrustInv
  <1> QED
    BY <1>1, TrustInvariant, PTL

\* The transactions of startEnrollment, completeEnrollment and failEnrollment keep the
\* consumer, its enrolment and its certificate in step, whoever runs them and how often.
THEOREM EnrolmentsMatchTheirConsumers == Spec => []ConsumersMatchEnrollments
  <1>1. TrustInv => ConsumersMatchEnrollments
    BY DEF TrustInv, EnrollmentsInv, ConsumersMatchEnrollments
  <1> QED
    BY <1>1, TrustInvariant, PTL

\* Two cold starts cannot leave two roots, and no bundle that is promoted, attached or
\* put back drops the root that signed the certificates in use.
THEOREM CertificatesStayTrusted == Spec => []TrustCoversCertificates
  <1>1. TrustInv => TrustCoversCertificates
    <2> SUFFICES ASSUME TrustInv, NEW o \in Ops, identity[o].status = "ACTIVE",
                        NEW b \in {current, domain.attached} \ {None}
                 PROVE  identity[o].root = issuer /\ identity[o].root \in content[b]
      BY DEF TrustCoversCertificates, TrustInv, RootsInv
    <2>1. identity[o].root = issuer
      BY DEF TrustInv, RootsInv
    <2>2. b \in Ops /\ content[b] # {}
      BY DEF TrustInv, TypeOK, OpOrNone, BundlesInv
    <2> QED
      BY <2>1, <2>2 DEF TrustInv, BundlesInv
  <1> QED
    BY <1>1, TrustInvariant, PTL

\* publishTruststore waits for API Gateway before completeEnrollment promotes a bundle.
THEOREM PromotedTruststoresAreServed == Spec => []PromotedBundlesWereServed
  <1>1. TrustInv => PromotedBundlesWereServed
    BY DEF TrustInv, BundlesInv, PromotedBundlesWereServed
  <1> QED
    BY <1>1, TrustInvariant, PTL

\* A handler answers with an active identity only if the enrolment it names is complete.
THEOREM AnsweredEnrolmentsAreActive == Spec => []AnswersAreActive
  <1>1. TrustInv => AnswersAreActive
    <2> SUFFICES ASSUME TrustInv, NEW h \in Handlers, thread[h].phase = "answered"
                 PROVE  /\ workflow[thread[h].op].state = "READY"
                        /\ consumers[thread[h].consumer].status = "ACTIVE"
                        /\ identity[thread[h].op].csr = thread[h].csr
      BY DEF AnswersAreActive, At
    <2>1. h \in Threads /\ h # Recovery /\ ThreadOK(h) /\ TypeOK
      BY RecoveryAssumption DEF Threads, TrustInv, ThreadsInv
    <2>2. thread[h].op \in Ops /\ workflow[thread[h].op].state = "READY"
      BY <2>1 DEF ThreadOK, Carrying, Asking
    <2>3. /\ identity[thread[h].op].status # "none"
          /\ identity[thread[h].op].consumer = thread[h].consumer
          /\ identity[thread[h].op].csr = thread[h].csr
      BY <2>1 DEF ThreadOK, Carrying, Asking
    <2>4. thread[h].consumer \in Consumers
      BY <2>1, <2>2, <2>3, IdentityFields DEF TypeOK
    <2> QED
      BY <2>2, <2>3, <2>4 DEF TrustInv, EnrollmentsInv
  <1> QED
    BY <1>1, TrustInvariant, PTL

-----------------------------------------------------------------------------
(* The refinement *)

\* The registry's variables, as Enrollment maps them.
StatusOf == [c \in Consumers |-> consumers[c].status]
StandingOf == [o \in Ops |-> identity[o].status]
OwnerOf == [o \in Ops |-> identity[o].consumer]
KeyOf == [o \in Ops |-> identity[o].csr]

LEMMA RecordsKeptStutters ==
    ASSUME consumers' = consumers, identity' = identity
    PROVE  UNCHANGED Registry!vars
  BY DEF Registry!vars

LEMMA PrepareRefines ==
    ASSUME TrustInv, NEW h \in Handlers, Prepare(h)
    PROVE  Registry!Next \/ UNCHANGED Registry!vars
  <1>1. CASE UNCHANGED <<keys, consumers, identity, workflow>>
    BY <1>1, RecordsKeptStutters
  <1>2. PICK c \in Consumers, q \in Csrs : c = thread[h].consumer /\ q = thread[h].csr
    BY DEF Prepare, At, TrustInv, ThreadsInv, ThreadOK, Asking, Threads
  <1>3. ASSUME NEW o \in Fresh, Issue(o, h, "PENDING"), consumers[c] = NoConsumer,
               consumers' = [consumers EXCEPT ![c] = [status |-> "PENDING", pending |-> o]]
        PROVE  Registry!Next
    <2> USE <1>3
    <2>1. o \in Ops /\ identity[o].status = "none" /\ TypeOK
      BY DEF Fresh, Unused, TrustInv
    <2>2. StatusOf' = [StatusOf EXCEPT ![c] = "PENDING"] /\ StatusOf[c] = "none"
      <3>1. /\ consumers'[c].status = "PENDING" /\ consumers[c].status = "none"
            /\ \A d \in Consumers \ {c} : consumers'[d] = consumers[d]
        BY <2>1 DEF TypeOK, NoConsumer
      <3>2. \A d \in Consumers :
               consumers'[d].status = IF d = c THEN "PENDING" ELSE consumers[d].status
        BY <3>1
      <3> HIDE <1>3
      <3> QED
        BY <3>1, <3>2 DEF StatusOf
    <2>3. identity' = [identity EXCEPT ![o] = [status |-> "PENDING", consumer |-> c,
                                               csr |-> q, root |-> thread[h].root]]
      BY <1>2 DEF Issue
    <2>4. /\ StandingOf[o] = "none"
          /\ StandingOf' = [StandingOf EXCEPT ![o] = "PENDING"]
          /\ OwnerOf' = [OwnerOf EXCEPT ![o] = c] /\ KeyOf' = [KeyOf EXCEPT ![o] = q]
      BY <2>1, <2>3 DEF StandingOf, OwnerOf, KeyOf, TypeOK
    <2>5. Registry!Register(o, c, q)
      BY <2>2, <2>4
         DEF Registry!Register, Registry!Issue, StatusOf, StandingOf, OwnerOf, KeyOf
    <2> QED
      BY <2>1, <2>5 DEF Registry!Next
  <1> QED
    BY <1>1, <1>2, <1>3 DEF Prepare

LEMMA EndRefines ==
    ASSUME TrustInv, NEW o \in Ops, NEW c \in Consumers, identity[o].consumer = c,
           identity[o].status = "PENDING", consumers[c].status = "PENDING",
           NEW end \in {"ACTIVE", "FAILED"}, Ends(o, c, end)
    PROVE  Registry!Next
  <1> USE DEF Ends
  <1>1. TypeOK /\ identity[o] \in [status : {"PENDING", "ACTIVE", "FAILED", "REVOKED"},
                                   consumer : Consumers, csr : Csrs, root : Handlers]
    BY IdentityFields DEF TrustInv, TypeOK, NoIdentity
  <1>2. StandingOf' = [StandingOf EXCEPT ![o] = end] /\ OwnerOf' = OwnerOf /\ KeyOf' = KeyOf
    <2>1. /\ identity'[o].status = end /\ identity'[o].consumer = c
          /\ identity'[o].csr = identity[o].csr
          /\ \A p \in Ops \ {o} : identity'[p] = identity[p]
      BY <1>1 DEF TypeOK
    <2>2. \A p \in Ops : /\ identity'[p].consumer = identity[p].consumer
                         /\ identity'[p].csr = identity[p].csr
                         /\ identity'[p].status = IF p = o THEN end ELSE identity[p].status
      BY <2>1
    <2> QED
      BY <2>2 DEF StandingOf, OwnerOf, KeyOf
  <1>3. StandingOf[o] = "PENDING" /\ OwnerOf[o] = c /\ StatusOf[c] = "PENDING"
    BY DEF StandingOf, OwnerOf, StatusOf
  <1>4. CASE end = "ACTIVE"
    <2>1. StatusOf' = [StatusOf EXCEPT ![c] = "ACTIVE"]
      BY <1>1, <1>4 DEF StatusOf, TypeOK
    <2>2. Registry!Activate(o, c)
      BY <1>2, <1>3, <1>4, <2>1
         DEF Registry!Activate, StatusOf, StandingOf, OwnerOf, KeyOf
    <2> QED
      BY <2>2 DEF Registry!Next
  <1>5. CASE end = "FAILED"
    <2>1. StatusOf' = [StatusOf EXCEPT ![c] = "none"]
      BY <1>1, <1>5 DEF StatusOf, TypeOK, NoConsumer
    <2>2. Registry!Reject(o, c)
      BY <1>2, <1>3, <1>5, <2>1
         DEF Registry!Reject, StatusOf, StandingOf, OwnerOf, KeyOf
    <2> QED
      BY <2>2 DEF Registry!Next
  <1> QED
    BY <1>4, <1>5

LEMMA CompleteRefines ==
    ASSUME TrustInv, NEW t \in Threads, Complete(t)
    PROVE  Registry!Next \/ UNCHANGED Registry!vars
  <1>1. PICK o \in Ops : o = thread[t].op
    BY DEF TrustInv, ThreadsInv, Complete, At, ThreadOK, Carrying, Asking, Publishing
  <1>2. CASE UNCHANGED <<consumers, identity, workflow, lease, current>>
    BY <1>2, RecordsKeptStutters
  <1>3. CASE /\ identity[o].status = "PENDING"
             /\ consumers[identity[o].consumer].status = "PENDING"
             /\ identity' = [identity EXCEPT ![o] = [@ EXCEPT !.status = "ACTIVE"]]
             /\ workflow' = [workflow EXCEPT ![o] = [state |-> "READY", due |-> FALSE]]
             /\ consumers' = [consumers EXCEPT ![identity[o].consumer] =
                                [status |-> "ACTIVE", pending |-> None]]
    <2>1. PICK c \in Consumers : c = identity[o].consumer
      BY <1>3, IdentityFields DEF TrustInv, TypeOK
    <2> DEFINE end == "ACTIVE"
    <2>2. end \in {"ACTIVE", "FAILED"} /\ Ends(o, c, end)
      BY <1>3, <2>1 DEF Ends
    <2> HIDE DEF end
    <2> QED
      BY <1>3, <2>1, <2>2, EndRefines
  <1> QED
    BY <1>1, <1>2, <1>3 DEF Complete

LEMMA FailureRefines ==
    ASSUME TrustInv, NEW o \in Ops,
           \/ MayFail(o) /\ FailEnrollment(o)
           \/ UNCHANGED <<consumers, identity, workflow, lease>>
    PROVE  Registry!Next \/ UNCHANGED Registry!vars
  <1>1. CASE UNCHANGED <<consumers, identity, workflow, lease>>
    BY <1>1, RecordsKeptStutters
  <1>2. CASE MayFail(o) /\ FailEnrollment(o)
    <2>1. PICK c \in Consumers : c = identity[o].consumer
      BY <1>2, IdentityFields DEF MayFail, TrustInv, TypeOK
    <2> DEFINE end == "FAILED"
    <2>2. end \in {"ACTIVE", "FAILED"} /\ Ends(o, c, end)
      BY <1>2, <2>1 DEF Ends, FailEnrollment
    <2>3. identity[o].status = "PENDING" /\ consumers[c].status = "PENDING"
      BY <1>2, <2>1 DEF MayFail
    <2> HIDE DEF end
    <2> QED
      BY <2>1, <2>2, <2>3, EndRefines
  <1> QED
    BY <1>1, <1>2

LEMMA RotateRefines ==
    ASSUME TrustInv, NEW k \in Keys, NEW c \in Consumers, NEW q \in Csrs, Rotate(k, c, q)
    PROVE  Registry!Next
  <1>1. PICK o \in Fresh :
          identity' = [identity EXCEPT ![o] =
              [status |-> "ACTIVE", consumer |-> c, csr |-> q, root |-> issuer]]
    BY DEF Rotate
  <1>2. o \in Ops /\ identity[o].status = "none" /\ TypeOK
    BY DEF Fresh, Unused, TrustInv
  <1>3. StatusOf' = StatusOf /\ StatusOf[c] = "ACTIVE"
    BY DEF Rotate, StatusOf
  <1>4. /\ StandingOf[o] = "none"
        /\ StandingOf' = [StandingOf EXCEPT ![o] = "ACTIVE"]
        /\ OwnerOf' = [OwnerOf EXCEPT ![o] = c] /\ KeyOf' = [KeyOf EXCEPT ![o] = q]
    BY <1>1, <1>2 DEF StandingOf, OwnerOf, KeyOf, TypeOK
  <1>5. Registry!Rotate(o, c, q)
    BY <1>3, <1>4
       DEF Registry!Rotate, Registry!Issue, StatusOf, StandingOf, OwnerOf, KeyOf
  <1> QED
    BY <1>2, <1>5 DEF Registry!Next

LEMMA RevokeRefines ==
    ASSUME TrustInv, NEW k \in Keys, NEW o \in Ops, Revoke(k, o)
    PROVE  Registry!Next
  <1>1. /\ identity[o].status = "ACTIVE" /\ TypeOK
        /\ identity' = [identity EXCEPT ![o] = [@ EXCEPT !.status = "REVOKED"]]
    BY DEF Revoke, TrustInv
  <1>2. StatusOf' = StatusOf
    BY DEF Revoke, StatusOf
  <1>3. /\ StandingOf[o] = "ACTIVE"
        /\ StandingOf' = [StandingOf EXCEPT ![o] = "REVOKED"]
        /\ OwnerOf' = OwnerOf /\ KeyOf' = KeyOf
    <2>1. identity[o] \in [status : {"PENDING", "ACTIVE", "FAILED", "REVOKED"},
                           consumer : Consumers, csr : Csrs, root : Handlers]
      BY <1>1, IdentityFields DEF TypeOK, NoIdentity
    <2>2. /\ identity'[o].status = "REVOKED"
          /\ identity'[o].consumer = identity[o].consumer
          /\ identity'[o].csr = identity[o].csr
          /\ \A p \in Ops \ {o} : identity'[p] = identity[p]
      BY <1>1, <2>1 DEF TypeOK
    <2>3. \A p \in Ops :
             /\ identity'[p].consumer = identity[p].consumer
             /\ identity'[p].csr = identity[p].csr
             /\ identity'[p].status = IF p = o THEN "REVOKED" ELSE identity[p].status
      BY <2>2
    <2> QED
      BY <1>1, <2>3 DEF StandingOf, OwnerOf, KeyOf
  <1>4. Registry!Revoke(o)
    BY <1>2, <1>3 DEF Registry!Revoke, StatusOf, StandingOf, OwnerOf, KeyOf
  <1> QED
    BY <1>4 DEF Registry!Next

LEMMA PublishRefines ==
    ASSUME TrustInv, NEW t \in Threads, Publish(t)
    PROVE  Registry!Next \/ UNCHANGED Registry!vars
  <1>1. CASE \/ Resume(t) \/ AcquireLease(t) \/ ReadRoots(t) \/ StoreBundle(t)
             \/ RecordBundle(t) \/ GetDomain(t) \/ UpdateDomain(t) \/ Confirm(t) \/ Rejected(t)
             \/ GiveUp(t) \/ Rollback(t)
    <2>1. consumers' = consumers /\ identity' = identity
      BY <1>1 DEF Resume, AcquireLease, ReadRoots, StoreBundle, RecordBundle, GetDomain, UpdateDomain,
                  Confirm, Rejected, GiveUp, Rollback, tableVars
    <2> QED
      BY <2>1, RecordsKeptStutters
  <1>2. CASE Complete(t)
    BY <1>2, CompleteRefines
  <1>3. CASE Fail(t)
    <2>1. PICK o \in Ops : o = thread[t].op
      BY <1>3 DEF TrustInv, ThreadsInv, Fail, At, ThreadOK, Carrying, Asking, Publishing
    <2>2. \/ MayFail(o) /\ FailEnrollment(o)
          \/ UNCHANGED <<consumers, identity, workflow, lease>>
      BY <1>3, <2>1 DEF Fail
    <2> QED
      BY <2>2, FailureRefines
  <1> QED
    BY <1>1, <1>2, <1>3 DEF Publish

LEMMA StepRefines ==
    ASSUME TrustInv, [Next]_vars
    PROVE  Registry!Next \/ UNCHANGED Registry!vars
  <1>1. CASE Administer
    <2>1. ASSUME NEW h \in Handlers, NEW k \in Keys, NEW c \in Consumers, NEW q \in Csrs,
                 Request(h, k, c, q)
          PROVE  UNCHANGED Registry!vars
      BY <2>1, RecordsKeptStutters DEF Request, tableVars
    <2> QED
      BY <1>1, <2>1, RotateRefines, RevokeRefines DEF Administer
  <1>2. ASSUME NEW h \in Handlers, Handle(h)
        PROVE  Registry!Next \/ UNCHANGED Registry!vars
    <2>1. h \in Threads
      BY DEF Threads
    <2>2. ASSUME \/ FindIssuer(h) \/ CreateIssuer(h) \/ Lookup(h)
                 \/ FindPending(h) \/ MatchPending(h) \/ Associate(h)
          PROVE  UNCHANGED Registry!vars
      <3>1. consumers' = consumers /\ identity' = identity
        BY <2>2 DEF FindIssuer, CreateIssuer, Lookup, FindPending, MatchPending, Associate,
                    tableVars
      <3> QED
        BY <3>1, RecordsKeptStutters
    <2> QED
      BY <1>2, <2>1, <2>2, PrepareRefines, PublishRefines DEF Handle
  <1>3. CASE Recover
    <2>1. Recovery \in Threads
      BY DEF Threads
    <2>2. ASSUME StartPass \/ Reattach \/ \E o \in Ops : TakeNext(o)
          PROVE  UNCHANGED Registry!vars
      <3>1. consumers' = consumers /\ identity' = identity
        BY <2>2 DEF StartPass, Reattach, TakeNext, tableVars
      <3> QED
        BY <3>1, RecordsKeptStutters
    <2>3. CASE Settle
      <3>1. PICK o \in Ops : o = thread[Recovery].op
        BY <2>1, <2>3 DEF TrustInv, ThreadsInv, Settle, At, ThreadOK, Carrying
      <3>2. \/ MayFail(o) /\ FailEnrollment(o)
            \/ UNCHANGED <<consumers, identity, workflow, lease>>
        BY <2>3, <3>1 DEF Settle
      <3> QED
        BY <3>2, FailureRefines
    <2> QED
      BY <1>3, <2>1, <2>2, <2>3, PublishRefines DEF Recover
  <1>4. CASE Environment \/ UNCHANGED vars
    <2>1. consumers' = consumers /\ identity' = identity
      BY <1>4 DEF Environment, Overdue, LeaseExpires, DomainSettles, DomainReplaced, Stop,
                  vars, tableVars
    <2> QED
      BY <2>1, RecordsKeptStutters
  <1> QED
    BY <1>1, <1>2, <1>3, <1>4 DEF Next

LEMMA InitRefines == Init => Registry!Init
  BY DEF Init, Registry!Init, NoConsumer, NoIdentity

\* Three transactions, a lease, a bundle, API Gateway and recovery lie between a request
\* and its answer; the registry sees one step that registers a consumer, and one that
\* activates or rejects it with its certificate.
THEOREM EnrolmentImplementsTheRegistry == Spec => ImplementsRegistry
  <1>1. TrustInv /\ [Next]_vars => [Registry!Next]_(Registry!vars)
    BY StepRefines
  <1> QED
    BY <1>1, InitRefines, TrustInvariant, PTL
       DEF Spec, ImplementsRegistry, Registry!Spec
=============================================================================
