------------------------- MODULE NotificationOutbox -------------------------
(***************************************************************************)
(* The outbox of change notifications: a mutation writes one record, whose *)
(* insertion DynamoDB Streams hands to the publisher (handlers/            *)
(* notifications.ts), which tells every recipient over IoT and marks the   *)
(* record delivered.  The event source of cdk/stack.ts retries a batch     *)
(* that failed in halves, and gives a single record up to a dead-letter    *)
(* queue after its last retry.                                             *)
(***************************************************************************)
EXTENDS Naturals, Sequences, FiniteSets

CONSTANTS
    Events,         \* outbox records
    Consumers,      \* their recipients
    Retries         \* retryAttempts of the event source

ASSUME RetriesAssumption == Retries \in Nat

VARIABLES
    outbox,         \* per event its [status, environment]; status "none" is not written yet
    stream,         \* insertions that were not polled, in order
    queue,          \* the batches of the last poll that are left, [records, tries] each
    done, told,     \* of the first batch: records done; of the next record: recipients told
    published, dead \* what the broker accepted; what the dead-letter queue holds

outboxVars == <<outbox, stream, queue, done, told, published, dead>>

Unwritten == [status |-> "none", environment |-> FALSE]

OutboxInit(old) ==
    /\ outbox = [e \in Events |-> IF e \in old THEN [Unwritten EXCEPT !.status = "PENDING"]
                                  ELSE Unwritten]
    /\ stream = <<>> /\ queue = <<>> /\ done = 0 /\ told = {} /\ published = {} /\ dead = {}

\* A mutation commits with its notification.
Record(e) ==
    /\ outbox[e].status = "none"
    /\ outbox' = [outbox EXCEPT ![e] = [status |-> "PENDING", environment |-> TRUE]]
    /\ stream' = Append(stream, e)
    /\ UNCHANGED <<queue, done, told, published, dead>>

\* The event source passes on insertions, and nothing that only changed.
Poll ==
    /\ queue = <<>> /\ stream # <<>>
    /\ \E n \in 1 .. Len(stream) :
        /\ queue' = <<[records |-> SubSeq(stream, 1, n), tries |-> 0]>>
        /\ stream' = SubSeq(stream, n + 1, Len(stream))
    /\ UNCHANGED <<outbox, done, told, published, dead>>

Current == Head(queue).records[done + 1]

Publish(c) ==
    /\ queue # <<>> /\ c \notin told
    /\ told' = told \cup {c}
    /\ published' = published \cup {<<Current, c>>}
    /\ UNCHANGED <<outbox, stream, queue, done, dead>>

NextRecord ==
    /\ told' = {}
    /\ IF done + 1 = Len(Head(queue).records)
       THEN queue' = Tail(queue) /\ done' = 0
       ELSE done' = done + 1 /\ UNCHANGED queue

\* Every recipient was told; a record that was marked before stays as it is.
MarkDelivered ==
    /\ queue # <<>> /\ told = Consumers
    /\ outbox' = [outbox EXCEPT ![Current].status = "DELIVERED"]
    /\ NextRecord
    /\ UNCHANGED <<stream, published, dead>>

Halves(batch) ==
    LET half == Len(batch.records) \div 2 IN
    <<[batch EXCEPT !.records = SubSeq(@, 1, half)],
      [batch EXCEPT !.records = SubSeq(@, half + 1, Len(@))]>>

\* The publisher stops anywhere, and its whole batch is delivered again.
PublishFails ==
    /\ queue # <<>>
    /\ LET batch == Head(queue) IN
       IF Len(batch.records) > 1 THEN queue' = Halves(batch) \o Tail(queue) /\ UNCHANGED dead
       ELSE IF batch.tries < Retries
       THEN queue' = [queue EXCEPT ![1].tries = @ + 1] /\ UNCHANGED dead
       ELSE queue' = Tail(queue) /\ dead' = dead \cup {batch.records[1]}
    /\ done' = 0 /\ told' = {}
    /\ UNCHANGED <<outbox, stream, published>>

PublisherStep == Poll \/ (\E c \in Consumers : Publish(c)) \/ MarkDelivered
OutboxStep == (\E e \in Events : Record(e)) \/ PublisherStep

OutboxTypeOK ==
    /\ outbox \in [Events -> [status : {"none", "PENDING", "DELIVERED"}, environment : BOOLEAN]]
    /\ stream \in Seq(Events) /\ queue \in Seq([records : Seq(Events), tries : 0 .. Retries])
    /\ told \subseteq Consumers /\ published \subseteq Events \X Consumers /\ dead \subseteq Events

\* A record that is called delivered has reached the broker for every recipient.
DeliveredIsPublished ==
    \A e \in Events : outbox[e].status = "DELIVERED" => \A c \in Consumers : <<e, c>> \in published
=============================================================================
