------------------------- MODULE SecretClientsProofs -------------------------
(***************************************************************************)
(* Proofs about SecretClients: for any payloads, metadata, writers and     *)
(* faults, no change of the cluster goes unnoticed, no export is skipped   *)
(* that is not current, and a draft is committed as the successor of its   *)
(* base or never, and never once the console said that it was not.         *)
(***************************************************************************)
EXTENDS SecretClients, Sequences, TLAPS

-----------------------------------------------------------------------------
(* The invariant *)

Exports == [generation : 0 .. MaxIncidents, metadata : Metas]
Sources == [payload : Payloads \cup {None}, edit : 0 .. MaxIncidents]
Controls == [version : Nat, payloadAt : Nat, metadata : Metas \cup {Foreign, None},
             archived : BOOLEAN]
Passes ==
    [at : {"idle", "listed", "synced", "sourced", "deciding", "metadata", "payload", "saving"},
     by : {"timer", "run"}, export : Exports, source : Sources,
     mark : [through : Nat, write : BOOLEAN], control : Controls,
     failed : BOOLEAN, retry : BOOLEAN]
Stacks == [at : {"idle", "deciding", "metadata", "payload"}, payload : BOOLEAN,
           control : Controls, count : Nat]
Keys == ({"console", "pulumi"} \X Nat)
            \cup (Nat \X {"metadata", "payload"} \X (Payloads \cup Metas) \X Nat)
Changes == [payload : Payloads \cup {Foreign, None}, metadata : Metas \cup {Foreign, None}]
Calls == [client : {"controller", "console", "pulumi"}, key : Keys, base : Nat, change : Changes,
          at : {"prepared", "answered", "dead"}, code : Codes, heard : BOOLEAN]

ClientTypes ==
    /\ TypeOK
    /\ pass \in Passes /\ pass.control.payloadAt <= head.version
    /\ stack \in Stacks /\ faults \in Nat
    /\ calls \subseteq Calls

\* One lease on the secret; whoever prepared names the head that is still current.
Leased(q) == q.at \in {"prepared", "dead"}
Waits(c) ==
    CASE c = "controller" -> pass.at \in {"metadata", "payload"}
      [] c = "console" -> draft.at = "submitting"
      [] c = "pulumi" -> stack.at \in {"metadata", "payload"}

CallsInv ==
    /\ \A q \in calls :
          /\ q.at = "prepared" => q.base = head.version
          /\ q.at = "answered" => q.heard
          /\ q.at = "dead" => ~q.heard
          /\ q.at = "answered" /\ q.code = 200 => q.base < head.version
          /\ q.heard => Waits(q.client)
    /\ \A q, r \in calls : Leased(q) /\ Leased(r) => q = r
    /\ \A q, r \in calls : q.heard /\ r.heard /\ q.client = r.client => q = r

\* The submissions of a draft, under way or answered, are made from its version; nothing
\* is known to have failed that landed, or that may still land.
DraftKey == <<"console", draft.count>>
Mine(q) == q.key = DraftKey

DraftCalls ==
    \A q \in calls :
        /\ q.client = "console" => \E n \in 0 .. draft.count : q.key = <<"console", n>>
        /\ q.client # "console" => \A n \in Nat : q.key # <<"console", n>>
        /\ q.client = "console" /\ q.heard => Mine(q)
        /\ Mine(q) =>
              /\ draft.at \notin {"idle", "editing", "stale", "failed"}
              /\ q.base = draft.base
              /\ q.at = "prepared" => landed = 0
              /\ q.at = "answered" /\ q.code = 200 => landed # 0
              /\ q.at = "answered" /\ q.code \in {403, 404, 412} =>
                    landed = 0 /\ \A r \in calls : Mine(r) => r = q

DraftInv ==
    /\ DraftCalls
    /\ draft.at \in {"idle", "editing", "stale", "failed"} => landed = 0
    /\ draft.at = "succeeded" => landed # 0
    /\ draft.at = "applied" => draft.base < head.version
    /\ draft.seen # 0 => draft.base = draft.seen
    /\ landed # 0 => landed = draft.base + 1

\* Generations grow, and each has one specification.
GenerationInv ==
    /\ pass.export.generation <= export.generation
    /\ pass.export.generation = export.generation => pass.export = export
    /\ status.generation <= export.generation
    /\ pass.at # "idle" => status.generation <= pass.export.generation
    /\ status.ready => status.generation # 0
    /\ pass.at \in {"synced", "sourced", "deciding", "metadata", "payload"} =>
          pass.export.generation # 0

\* What a pass has read is the secret as it is, or older than it is.
Agrees(c) ==
    c.version = head.version => c.payloadAt = head.payloadAt /\ c.metadata = head.metadata

PassInv ==
    /\ pass.at \notin {"idle", "listed"} => checkpoint.through <= pass.mark.through
    /\ pass.at \in {"sourced", "deciding", "metadata", "payload"} => pass.source.payload # None
    /\ pass.at \in {"deciding", "metadata", "payload"} =>
          pass.mark.through <= pass.control.version /\ Agrees(pass.control)
    /\ pass.at = "synced" =>
          \/ pass.control = NoControl /\ checkpoint.through = pass.mark.through
          \/ pass.mark.through <= pass.control.version /\ Agrees(pass.control)

\* The export's calls are made from what the pass has read, and change what it says.
ExportInv ==
    \A q \in calls : q.client = "controller" /\ q.heard =>
        /\ q.base = pass.control.version
        /\ pass.at = "metadata" => q.change = NewMetadata(pass.export.metadata)
        /\ pass.at = "payload" => q.change = NewPayload(pass.source.payload)
        /\ q.at = "answered" /\ q.code = 200 =>
              /\ pass.at = "metadata" /\ head.version = q.base + 1 =>
                    /\ head.metadata = pass.export.metadata
                    /\ head.payloadAt = pass.control.payloadAt
              /\ pass.at = "payload" /\ head.payloadAt = q.base + 1 =>
                    head.payload = pass.source.payload

\* A version has one payload; and an export that is recorded as ready, of the specification
\* as it is, is what the secret is, as of the checkpoint that was saved or will be.
Current(through) ==
    status.ready /\ status.generation = export.generation /\ through = head.version =>
        head.payload = status.payload /\ head.metadata = export.metadata

StatusInv ==
    /\ status.payload # None => status.payloadAt # 0
    /\ status.payload # None /\ status.payloadAt = head.payloadAt => head.payload = status.payload
    /\ Current(checkpoint.through)
    /\ pass.at = "saving" /\ ~pass.failed => Current(pass.mark.through)

\* A change is on its way to a pass, unless the pass that has not seen it was refused, or
\* asks for a retry itself.
Refused == status.generation = pass.export.generation /\ status.refused
WakeInv ==
    watching =>
        /\ export.generation # pass.export.generation => "export" \in events \/ timer \/ rerun
        /\ pass.export.generation # 0 /\ source.edit # pass.source.edit
              /\ pass.at \notin {"listed", "synced"} =>
              \/ "source" \in events \/ timer \/ rerun
              \/ (Refused \/ pass.retry) /\ pass.at \in {"idle", "saving"}

ClientsKnow ==
    /\ ClientTypes /\ CallsInv /\ DraftInv /\ GenerationInv
    /\ PassInv /\ ExportInv /\ StatusInv /\ WakeInv

-----------------------------------------------------------------------------
(* Calls *)

\* A controller's key names a generation, a change and a version; a submission's a number.
LEMMA KeysDiffer ==
    \A g, k, x, v, c, n : <<g, k, x, v>> # <<c, n>>
<1> SUFFICES ASSUME NEW g, NEW k, NEW x, NEW v, NEW c, NEW n, <<g, k, x, v>> = <<c, n>>
             PROVE FALSE
  OBVIOUS
<1>1. Len(<<g, k, x, v>>) = 4 /\ Len(<<c, n>>) = 2
  OBVIOUS
<1> QED BY <1>1

Clients == {"controller", "console", "pulumi"}

\* What a client has sent is prepared, on the head as it is and with no other lease, or has
\* been refused.
SentAs(n, c, key, base, change) ==
    /\ n.client = c /\ n.key = key /\ n.base = base /\ n.change = change /\ n.heard
    /\ \/ /\ n.at = "prepared" /\ n.code = 0
          /\ base = head.version /\ \A q \in calls : ~Leased(q)
       \/ /\ n.at = "answered" /\ n.code \in {403, 404, 409, 412}
          /\ n.code = 403 => c = "controller"
          /\ n.code = 412 => base # head.version

LEMMA SendAddsOne ==
    ASSUME NEW c \in Clients, NEW key \in Keys, NEW base \in Nat, NEW change \in Changes,
           Send(c, key, base, change)
    PROVE  \E n \in Calls : calls' = calls \cup {n} /\ SentAs(n, c, key, base, change)
<1> DEFINE call == [client |-> c, key |-> key, base |-> base, change |-> change,
                    at |-> "prepared", code |-> 0, heard |-> TRUE]
<1>1. call \in Calls
  BY DEF Calls, Clients, Codes
<1>2. /\ call.client = c /\ call.key = key /\ call.base = base /\ call.change = change
      /\ call.heard /\ call.at = "prepared" /\ call.code = 0
  OBVIOUS
<1>3. \/ Refusals(c, key, base) = {} /\ calls' = calls \cup {call}
      \/ \E code \in Refusals(c, key, base) : calls' = calls \cup Answered(call, code)
  BY DEF Send
<1> HIDE DEF call
<1>4. CASE Refusals(c, key, base) = {} /\ calls' = calls \cup {call}
  <2>1. base = head.version /\ ~LeaseIsHeld
    BY <1>4 DEF Refusals
  <2>2. \A q \in calls : ~Leased(q)
    BY <2>1 DEF LeaseIsHeld, Leased
  <2> QED BY <1>1, <1>2, <1>4, <2>1, <2>2 DEF SentAs
<1>5. ASSUME NEW code \in Refusals(c, key, base), calls' = calls \cup Answered(call, code)
      PROVE  \E n \in Calls : calls' = calls \cup {n} /\ SentAs(n, c, key, base, change)
  <2>1. /\ code \in {403, 404, 409, 412}
        /\ code = 403 => c = "controller"
        /\ code = 412 => base # head.version
    BY <1>5 DEF Refusals
  <2> DEFINE n == [call EXCEPT !.at = "answered", !.code = code]
  <2>0. code \in Codes
    BY <2>1 DEF Codes
  <2>2. n \in Calls
    BY <1>1, <2>0 DEF Calls
  <2>3. /\ n.client = c /\ n.key = key /\ n.base = base /\ n.change = change
        /\ n.heard /\ n.at = "answered" /\ n.code = code
    BY <1>1, <1>2 DEF Calls
  <2>4. calls' = calls \cup {n}
    BY <1>2, <1>5 DEF Answered
  <2> HIDE DEF n
  <2>5. SentAs(n, c, key, base, change)
    BY <2>1, <2>3 DEF SentAs
  <2> QED BY <2>2, <2>4, <2>5
<1> QED BY <1>3, <1>4, <1>5

\* Sending keeps the order of the calls, if the client was not waiting and is now.
LEMMA SendKeepsOrder ==
    ASSUME ClientTypes, CallsInv, UNCHANGED head, NEW c \in Clients,
           NEW n \in Calls, NEW key, NEW base, NEW change, SentAs(n, c, key, base, change),
           calls' = calls \cup {n},
           ~Waits(c), Waits(c)', \A d \in Clients : Waits(d) => Waits(d)'
    PROVE  CallsInv' /\ calls' \subseteq Calls
<1>1. \A q \in calls : q \in Calls /\ (q.heard => q.client # c)
  BY DEF ClientTypes, CallsInv
<1>2. /\ n.client = c /\ n.base = base /\ n.heard
      /\ \/ n.at = "prepared" /\ base = head.version /\ \A q \in calls : ~Leased(q)
         \/ n.at = "answered" /\ n.code # 200
  BY DEF SentAs
<1>3. \A q \in calls' :
        /\ q.at = "prepared" => q.base = head'.version
        /\ q.at = "answered" => q.heard
        /\ q.at = "dead" => ~q.heard
        /\ q.at = "answered" /\ q.code = 200 => q.base < head'.version
  BY <1>2 DEF CallsInv
<1>4. \A q \in calls' : q.heard => Waits(q.client)'
  BY <1>1, <1>2 DEF CallsInv, Calls, Clients
<1>5. \A q, r \in calls' : Leased(q) /\ Leased(r) => q = r
  BY <1>2 DEF CallsInv, Leased
<1>6. \A q, r \in calls' : q.heard /\ r.heard /\ q.client = r.client => q = r
  BY <1>1, <1>2 DEF CallsInv
<1> QED BY <1>1, <1>3, <1>4, <1>5, <1>6 DEF CallsInv, Leased

\* A client that hears, or gives up, leaves at most a call that nobody waits for.
Silent(q) == [q EXCEPT !.heard = FALSE]

LEMMA HearsTakesOne ==
    ASSUME ClientTypes, CallsInv, NEW c, NEW code, NEW version, Hears(c, code, version)
    PROVE  /\ UNCHANGED <<head, spent, landed>>
           /\ \E q \in calls :
                /\ q.client = c /\ q.heard
                /\ \/ /\ q.at = "answered" /\ code = q.code /\ version = q.base + 1
                      /\ calls' = calls \ {q} /\ faults' = faults
                   \/ /\ q.at = "answered" /\ code = 0 /\ version = 0
                      /\ calls' = calls \ {q} /\ faults' = faults + 1
                   \/ /\ q.at = "prepared" /\ code = 0 /\ version = 0
                      /\ calls' = (calls \ {q}) \cup {Silent(q)} /\ faults' = faults + 1
<1>1. \A q \in calls : q.heard => q.at \in {"answered", "prepared"}
  BY DEF ClientTypes, CallsInv, Calls
<1> QED BY <1>1 DEF Hears, Fault, Silent

LEMMA HearsKeepsOrder ==
    ASSUME ClientTypes, CallsInv,
           NEW c \in Clients, NEW code, NEW version, Hears(c, code, version),
           \A d \in Clients \ {c} : Waits(d) => Waits(d)'
    PROVE  /\ calls' \subseteq Calls /\ CallsInv' /\ faults' \in Nat
           /\ \A q \in calls' : q.heard => q \in calls /\ q.client # c
<1>0. UNCHANGED head /\ calls \subseteq Calls /\ faults \in Nat
  BY HearsTakesOne DEF ClientTypes
<1>1. PICK q \in calls :
        /\ q.client = c /\ q.heard /\ faults' \in {faults, faults + 1}
        /\ \/ calls' = calls \ {q}
           \/ q.at = "prepared" /\ calls' = (calls \ {q}) \cup {Silent(q)}
  BY HearsTakesOne
<1>2. \A r \in calls \ {q} : r.heard => r.client # c
  BY <1>0, <1>1 DEF CallsInv
<1>3. CASE calls' = calls \ {q}
  <2>1. \A r \in calls' : r.heard => Waits(r.client)'
    BY <1>0, <1>2, <1>3 DEF CallsInv, Calls, Clients
  <2>2. calls' \subseteq calls
    BY <1>3
  <2>3. \A r \in calls' : r.heard => r \in calls /\ r.client # c
    BY <1>2, <1>3
  <2>4. CallsInv'
    BY <1>0, <2>1, <2>2 DEF CallsInv, Leased
  <2> QED BY <1>0, <1>1, <2>2, <2>3, <2>4
<1>4. CASE q.at = "prepared" /\ calls' = (calls \ {q}) \cup {Silent(q)}
  <2> DEFINE s == Silent(q)
  <2>1. /\ s \in Calls /\ s.at = "prepared" /\ s.base = q.base /\ ~s.heard
    BY <1>0, <1>4 DEF Silent, Calls
  <2>2. calls' = (calls \ {q}) \cup {s}
    BY <1>4
  <2> HIDE DEF s
  <2>3. \A r \in calls' : r.heard => r \in calls /\ r.client # c /\ Waits(r.client)'
    BY <1>0, <1>1, <1>2, <2>1, <2>2 DEF CallsInv, Calls, Clients
  <2>4. \A r \in calls' :
          /\ r.at = "prepared" => r.base = head'.version
          /\ r.at = "answered" => r.heard
          /\ r.at = "dead" => ~r.heard
          /\ r.at = "answered" /\ r.code = 200 => r.base < head'.version
    BY <1>0, <1>4, <2>1, <2>2 DEF CallsInv
  <2>5. \A r, t \in calls' : Leased(r) /\ Leased(t) => r = t
    BY <1>4, <2>1, <2>2 DEF CallsInv, Leased
  <2>6. \A r, t \in calls' : r.heard /\ t.heard /\ r.client = t.client => r = t
    BY <2>1, <2>2 DEF CallsInv
  <2>7. calls' \subseteq Calls
    BY <1>0, <2>1, <2>2
  <2> QED BY <1>0, <1>1, <2>3, <2>4, <2>5, <2>6, <2>7 DEF CallsInv, Leased
<1> QED BY <1>1, <1>3, <1>4

-----------------------------------------------------------------------------
(* What leaves what alone *)

LEMMA CallsStay ==
    ASSUME ClientTypes, CallsInv, UNCHANGED <<head, calls>>,
           \A c \in Clients : Waits(c) => Waits(c)'
    PROVE  CallsInv'
BY DEF ClientTypes, CallsInv, Leased, Calls, Clients

\* A call of somebody else, and one that its client no longer waits for, say nothing new of
\* a draft.
LEMMA OthersKeepDrafts ==
    ASSUME DraftInv, UNCHANGED <<head, draft, landed>>,
           \A r \in calls' :
              \/ r \in calls
              \/ \E q \in calls :
                    /\ r.client = q.client /\ r.key = q.key /\ r.base = q.base
                    /\ r.at # "answered" /\ (r.at = "prepared" => q.at = "prepared")
                    /\ q.at # "answered" /\ (r.heard => q.heard)
              \/ r.client # "console" /\ \A n \in Nat : r.key # <<"console", n>>,
           draft.count \in Nat
    PROVE  DraftInv'
<1>1. \A r : Mine(r)' = Mine(r)
  BY DEF Mine, DraftKey
<1>2. DraftCalls
  BY DEF DraftInv
<1>3. ASSUME NEW r \in calls'
      PROVE  /\ r.client = "console" => \E n \in 0 .. draft.count : r.key = <<"console", n>>
             /\ r.client # "console" => \A n \in Nat : r.key # <<"console", n>>
             /\ r.client = "console" /\ r.heard => Mine(r)
             /\ Mine(r) =>
                  /\ draft.at \notin {"idle", "editing", "stale", "failed"}
                  /\ r.base = draft.base
                  /\ r.at = "prepared" => landed = 0
                  /\ r.at = "answered" /\ r.code = 200 => landed # 0
                  /\ r.at = "answered" /\ r.code \in {403, 404, 412} =>
                        landed = 0 /\ \A t \in calls' : Mine(t) => t = r
  <2>1. CASE r \in calls
    <3>1. ASSUME r.at = "answered", r.code \in {403, 404, 412}, Mine(r), NEW t \in calls', Mine(t)
          PROVE  t = r
      <4>1. \A q \in calls : Mine(q) => q = r
        BY <1>2, <2>1, <3>1 DEF DraftCalls
      <4>2. t \in calls \/ (\E q \in calls : q.at # "answered" /\ Mine(q))
        BY <3>1 DEF Mine, DraftKey
      <4> QED BY <3>1, <4>1, <4>2
    <3> QED BY <1>2, <2>1, <3>1 DEF DraftCalls
  <2>2. ASSUME NEW q \in calls,
               r.client = q.client /\ r.key = q.key /\ r.base = q.base,
               r.at # "answered" /\ (r.at = "prepared" => q.at = "prepared"),
               r.heard => q.heard
        PROVE  <1>3!2
    <3>1. Mine(r) = Mine(q)
      BY <2>2 DEF Mine
    <3> QED BY <1>2, <2>2, <3>1 DEF DraftCalls
  <2>3. CASE r.client # "console" /\ \A n \in Nat : r.key # <<"console", n>>
    BY <2>3 DEF Mine, DraftKey
  <2> QED BY <2>1, <2>2, <2>3
<1>4. DraftCalls'
  BY <1>1, <1>3 DEF DraftCalls
<1> QED BY <1>4 DEF DraftInv

LEMMA DraftStays ==
    ASSUME ClientTypes, DraftInv, UNCHANGED <<head, calls, landed, draft>>
    PROVE  DraftInv'
BY OthersKeepDrafts DEF ClientTypes, TypeOK

LEMMA PassStays ==
    ASSUME UNCHANGED <<head, checkpoint, pass>>, PassInv
    PROVE  PassInv'
BY DEF PassInv, Agrees

LEMMA ExportStays ==
    ASSUME UNCHANGED <<head, calls, pass>>, ExportInv
    PROVE  ExportInv'
BY DEF ExportInv

LEMMA StatusStays ==
    ASSUME UNCHANGED <<head, export, checkpoint, status, pass>>, StatusInv
    PROVE  StatusInv'
BY DEF StatusInv, Current

LEMMA GenerationStays ==
    ASSUME UNCHANGED <<export, status, pass>>, GenerationInv
    PROVE  GenerationInv'
BY DEF GenerationInv

LEMMA WakeStays ==
    ASSUME UNCHANGED <<source, export, status, watching, events, timer, rerun, pass>>, WakeInv
    PROVE  WakeInv'
BY DEF WakeInv, Refused

-----------------------------------------------------------------------------
(* The service *)

\* The head moves: what was read of it is old, and the call that moved it names the draft or
\* the export it was made from.
LEMMA CommitKnows ==
    ASSUME ClientsKnow, NEW q \in calls, Commit(q)
    PROVE  ClientsKnow'
<1> USE DEF ClientsKnow
<1>1. /\ q \in Calls /\ calls \subseteq Calls /\ q.at = "prepared" /\ q.base = head.version
      /\ head.version \in Nat \ {0} /\ draft.count \in Nat /\ faults \in Nat
      /\ \A r \in calls : Leased(r) => r = q
  BY DEF Commit, ClientTypes, TypeOK, CallsInv, Leased
<1>2. /\ head'.version = head.version + 1
      /\ head'.payload = IF q.change.payload = None THEN head.payload ELSE q.change.payload
      /\ head'.payloadAt = IF q.change.payload = None THEN head.payloadAt ELSE head.version + 1
      /\ head'.metadata = IF q.change.metadata = None THEN head.metadata ELSE q.change.metadata
      /\ head' \in [version : Nat \ {0}, payload : Payloads \cup {Foreign}, payloadAt : Nat,
                    metadata : Metas \cup {Foreign}, archived : BOOLEAN]
  <2>1. /\ head \in [version : Nat \ {0}, payload : Payloads \cup {Foreign}, payloadAt : Nat,
                     metadata : Metas \cup {Foreign}, archived : BOOLEAN]
        /\ q.change.payload \in Payloads \cup {Foreign, None}
        /\ q.change.metadata \in Metas \cup {Foreign, None}
    BY <1>1 DEF ClientTypes, TypeOK, Calls, Changes
  <2> DEFINE p == IF q.change.payload = None THEN head.payload ELSE q.change.payload
             a == IF q.change.payload = None THEN head.payloadAt ELSE head.version + 1
             m == IF q.change.metadata = None THEN head.metadata ELSE q.change.metadata
  <2>2. p \in Payloads \cup {Foreign} /\ a \in Nat /\ m \in Metas \cup {Foreign}
    BY <1>1, <2>1
  <2>3. head' = [head EXCEPT !.version = head.version + 1, !.payload = p, !.payloadAt = a,
                             !.metadata = m]
    BY DEF Commit
  <2> HIDE DEF p, a, m
  <2>4. head.version + 1 \in Nat \ {0}
    BY <1>1
  <2>5. /\ head' \in [version : Nat \ {0}, payload : Payloads \cup {Foreign}, payloadAt : Nat,
                      metadata : Metas \cup {Foreign}, archived : BOOLEAN]
        /\ head'.version = head.version + 1 /\ head'.payload = p /\ head'.payloadAt = a
        /\ head'.metadata = m
    BY <2>1, <2>2, <2>3, <2>4
  <2> QED BY <2>5 DEF p, a, m
<1>3. UNCHANGED <<source, export, scope, status, checkpoint, watching, events, timer, rerun,
                  pass, draft, stack>> /\ faults' \in {faults, faults + 1}
  BY DEF Commit, Fault, clusterVars, savedVars, wakeVars
<1>4. landed' = IF Mine(q) THEN head.version + 1 ELSE landed
  BY DEF Commit, Mine, DraftKey
\* What is left of the call.
<1>5. PICK n \in Calls :
        /\ n.client = q.client /\ n.key = q.key /\ n.base = q.base /\ n.change = q.change
        /\ n.at = "answered" /\ n.code \in {200, 500} /\ n.heard = q.heard
        /\ calls' = (calls \ {q}) \cup (IF q.heard THEN {n} ELSE {})
  <2>1. PICK code \in {200, 500} : calls' = (calls \ {q}) \cup Answered(q, code)
    BY DEF Commit
  <2> DEFINE n == [q EXCEPT !.at = "answered", !.code = code]
  <2>2. code \in Codes
    BY DEF Codes
  <2>3. /\ n \in Calls /\ n.client = q.client /\ n.key = q.key /\ n.base = q.base
        /\ n.change = q.change /\ n.at = "answered" /\ n.code = code /\ n.heard = q.heard
    BY <1>1, <2>2 DEF Calls
  <2>4. calls' = (calls \ {q}) \cup (IF q.heard THEN {n} ELSE {})
    BY <2>1 DEF Answered
  <2> HIDE DEF n
  <2> QED BY <2>3, <2>4
<1>6. \A r \in calls' : (r \in calls /\ r # q) \/ (r = n /\ q.heard)
  <2>1. CASE q.heard
    BY <1>5, <2>1
  <2>2. CASE ~q.heard
    BY <1>5, <2>2
  <2> QED BY <2>1, <2>2
<1>7. \A r \in calls : r # q => ~Leased(r)
  BY <1>1
<1>8. \A r \in calls' : ~Leased(r)
  BY <1>5, <1>6, <1>7 DEF Leased
<1>9. ClientTypes'
  <2>1. head.payloadAt \in 1 .. head.version /\ head'.payloadAt \in 1 .. head'.version
    BY <1>1, <1>2 DEF ClientTypes, TypeOK
  <2>2. landed' \in 0 .. head'.version
    BY <1>1, <1>2, <1>4 DEF ClientTypes, TypeOK
  <2>3. 0 .. head.version \subseteq 0 .. head'.version
    BY <1>1, <1>2
  <2>4. TypeOK'
    BY <1>2, <1>3, <2>1, <2>2, <2>3 DEF ClientTypes, TypeOK
  <2>5. calls' \subseteq Calls
    BY <1>1, <1>5, <1>6
  <2>6. pass.control.payloadAt <= head'.version
    BY <1>1, <1>2 DEF ClientTypes, Passes, Controls
  <2> QED BY <1>1, <1>3, <2>4, <2>5, <2>6 DEF ClientTypes
<1>10. CallsInv'
  <2>1. \A r \in calls' :
          /\ r.at = "prepared" => r.base = head'.version
          /\ r.at = "answered" => r.heard
          /\ r.at = "dead" => ~r.heard
          /\ r.at = "answered" /\ r.code = 200 => r.base < head'.version
    BY <1>1, <1>2, <1>5, <1>6, <1>8 DEF CallsInv, Calls, Leased
  <2>2. \A r \in calls' : r.heard => Waits(r.client)'
    <3>1. \A c \in Clients : Waits(c)' = Waits(c)
      BY <1>3 DEF Waits, Clients
    <3> QED BY <1>1, <1>5, <1>6, <3>1 DEF CallsInv, Calls, Clients
  <2>3. \A r, t \in calls' : r.heard /\ t.heard /\ r.client = t.client => r = t
    BY <1>5, <1>6 DEF CallsInv
  <2> QED BY <1>8, <2>1, <2>2, <2>3 DEF CallsInv
<1>11. DraftInv'
  <2>1. \A r : Mine(r)' = Mine(r)
    BY <1>3 DEF Mine, DraftKey
  <2>2. draft.base < head.version => draft.base < head'.version
    BY <1>1, <1>2 DEF ClientTypes, TypeOK
  <2>3. CASE ~Mine(q)
    <3>1. landed' = landed
      BY <1>4, <2>3
    <3>2. \A r \in calls' :
              /\ Mine(r) => r \in calls
              /\ r.client = "console" => \E k \in 0 .. draft.count : r.key = <<"console", k>>
              /\ r.client # "console" => \A k \in Nat : r.key # <<"console", k>>
              /\ r.client = "console" /\ r.heard => Mine(r)
      BY <1>5, <1>6, <2>3 DEF DraftInv, DraftCalls, Mine
    <3>3. DraftCalls'
      BY <1>3, <2>1, <3>1, <3>2 DEF DraftInv, DraftCalls
    <3> QED BY <1>3, <2>2, <3>1, <3>3 DEF DraftInv
  <2>4. CASE Mine(q)
    <3>1. /\ draft.at \notin {"idle", "editing", "stale", "failed"}
          /\ landed' = head.version + 1 /\ q.base = draft.base /\ landed' # 0
      BY <1>1, <1>4, <2>4 DEF DraftInv, DraftCalls
    <3>2. \A r \in calls' : r \in calls /\ Mine(r) => ~(r.at = "answered" /\ r.code \in {403, 404, 412})
      BY <1>1, <2>4 DEF DraftInv, DraftCalls
    <3>3. \A r \in calls' :
              /\ r.client = "console" => \E k \in 0 .. draft.count : r.key = <<"console", k>>
              /\ r.client # "console" => \A k \in Nat : r.key # <<"console", k>>
              /\ r.client = "console" /\ r.heard => Mine(r)
              /\ Mine(r) => r.base = draft.base
              /\ Mine(r) => ~(r.at = "answered" /\ r.code \in {403, 404, 412})
      BY <1>5, <1>6, <2>4, <3>2 DEF DraftInv, DraftCalls, Mine
    <3>4. DraftCalls'
      BY <1>3, <1>8, <2>1, <3>1, <3>3 DEF DraftCalls, Leased
    <3> QED BY <1>1, <1>3, <2>2, <3>1, <3>4 DEF DraftInv
  <2> QED BY <2>3, <2>4
<1>12. GenerationInv'
  BY <1>3, GenerationStays
<1>13. PassInv'
  <2>1. pass.control.version # head'.version
    BY <1>1, <1>2 DEF ClientTypes, TypeOK
  <2> QED BY <1>1, <1>3, <2>1 DEF PassInv, Agrees
<1>14. ExportInv'
  <2> SUFFICES ASSUME NEW r \in calls', r.client = "controller", r.heard
               PROVE  /\ r.base = pass.control.version
                      /\ pass.at = "metadata" => r.change = NewMetadata(pass.export.metadata)
                      /\ pass.at = "payload" => r.change = NewPayload(pass.source.payload)
                      /\ r.at = "answered" /\ r.code = 200 =>
                          /\ pass.at = "metadata" /\ head'.version = r.base + 1 =>
                                /\ head'.metadata = pass.export.metadata
                                /\ head'.payloadAt = pass.control.payloadAt
                          /\ pass.at = "payload" /\ head'.payloadAt = r.base + 1 =>
                                head'.payload = pass.source.payload
    BY <1>3 DEF ExportInv
  <2>1. CASE r \in calls /\ r # q
    <3>1. r.at = "answered" /\ r.code = 200 => r.base < head.version /\ r.base \in Nat
      BY <1>1, <2>1 DEF CallsInv, Calls
    <3>2. r.at = "answered" /\ r.code = 200 => head'.version # r.base + 1
      BY <1>1, <1>2, <3>1
    <3>3. r.at = "answered" /\ r.code = 200 /\ head'.payloadAt = r.base + 1 =>
              head'.payloadAt = head.payloadAt /\ head'.payload = head.payload
      BY <1>1, <1>2, <3>1
    <3> QED BY <2>1, <3>2, <3>3 DEF ExportInv
  <2>2. CASE /\ r.client = q.client /\ r.base = q.base /\ r.change = q.change /\ q.heard
    <3>1. /\ q.base = pass.control.version
          /\ pass.at = "metadata" => q.change = NewMetadata(pass.export.metadata)
          /\ pass.at = "payload" => q.change = NewPayload(pass.source.payload)
      BY <2>2 DEF ExportInv
    <3>2. /\ pass.export.metadata \in Metas
          /\ pass.at = "payload" => pass.source.payload \in Payloads
      BY DEF ClientTypes, Passes, Exports, Sources, PassInv
    <3>3. pass.at \in {"metadata", "payload"} => Agrees(pass.control)
      BY DEF PassInv
    <3>4. pass.at = "metadata" =>
              head'.metadata = pass.export.metadata /\ head'.payloadAt = pass.control.payloadAt
      BY <1>1, <1>2, <3>1, <3>2, <3>3, ValuesAssumption DEF NewMetadata, Agrees
    <3>5. pass.at = "payload" => head'.payload = pass.source.payload
      BY <1>2, <3>1, <3>2, ValuesAssumption DEF NewPayload
    <3> QED BY <2>2, <3>1, <3>4, <3>5
  <2> QED BY <1>5, <1>6, <2>1, <2>2
<1>15. StatusInv'
  <2>1. /\ status.payloadAt <= head.version /\ checkpoint.through <= head.version
        /\ pass.mark.through <= head.version
        /\ status.payloadAt \in Nat /\ checkpoint.through \in Nat /\ pass.mark.through \in Nat
    BY <1>1 DEF ClientTypes, TypeOK
  <2>2. checkpoint.through # head'.version /\ pass.mark.through # head'.version
    BY <1>1, <1>2, <2>1
  <2>3. status.payloadAt = head'.payloadAt =>
            head'.payloadAt = head.payloadAt /\ head'.payload = head.payload
    BY <1>1, <1>2, <2>1
  <2> QED BY <1>3, <2>2, <2>3 DEF StatusInv, Current
<1>16. WakeInv'
  BY <1>3, WakeStays
<1> QED BY <1>9, <1>10, <1>11, <1>12, <1>13, <1>14, <1>15, <1>16

\* A mutation that dies leaves its lease, and a failure for whoever waits.
LEMMA DieKnows ==
    ASSUME ClientsKnow, NEW q \in calls, Die(q)
    PROVE  ClientsKnow'
<1> USE DEF ClientsKnow
<1>1. /\ q \in Calls /\ calls \subseteq Calls /\ q.at = "prepared" /\ q.base = head.version
      /\ draft.count \in Nat /\ faults' \in Nat
      /\ \A r \in calls : Leased(r) => r = q
  BY DEF Die, Fault, ClientTypes, TypeOK, CallsInv, Leased
<1>2. UNCHANGED <<head, landed, source, export, scope, status, checkpoint, watching, events,
                  timer, rerun, pass, draft, stack>>
  BY DEF Die, clusterVars, savedVars, wakeVars
\* What is left of the call: an answer, and a lease.
<1>3. PICK n \in Calls, d \in Calls :
        /\ n.client = q.client /\ n.key = q.key /\ n.base = q.base
        /\ n.change = q.change /\ n.at = "answered" /\ n.code = 500 /\ n.heard = q.heard
        /\ d.client = q.client /\ d.key = q.key /\ d.base = q.base
        /\ d.at = "dead" /\ ~d.heard
        /\ calls' = (calls \ {q}) \cup (IF q.heard THEN {n} ELSE {}) \cup {d}
  <2>1. PICK code \in Codes : code = 500
    BY DEF Codes
  <2> DEFINE n == [q EXCEPT !.at = "answered", !.code = code]
             d == [q EXCEPT !.at = "dead", !.heard = FALSE]
  <2>2. /\ n \in Calls /\ n.client = q.client /\ n.key = q.key /\ n.base = q.base
        /\ n.change = q.change /\ n.at = "answered" /\ n.code = code /\ n.heard = q.heard
    BY <1>1 DEF Calls
  <2>3. /\ d \in Calls /\ d.client = q.client /\ d.key = q.key /\ d.base = q.base
        /\ d.at = "dead" /\ ~d.heard
    BY <1>1 DEF Calls
  <2>4. calls' = (calls \ {q}) \cup (IF q.heard THEN {n} ELSE {}) \cup {d}
    BY <2>1 DEF Die, Answered
  <2> HIDE DEF n, d
  <2> QED BY <2>1, <2>2, <2>3, <2>4
<1>4. \A r \in calls' : (r \in calls /\ r # q) \/ (r = n /\ q.heard) \/ r = d
  <2>1. CASE q.heard
    BY <1>3, <2>1
  <2>2. CASE ~q.heard
    BY <1>3, <2>2
  <2> QED BY <2>1, <2>2
<1>5. \A r \in calls' : Leased(r) => r = d
  BY <1>1, <1>3, <1>4 DEF Leased
<1>6. ClientTypes'
  <2>1. calls' \subseteq Calls
    BY <1>1, <1>3, <1>4
  <2> QED BY <1>1, <1>2, <2>1 DEF ClientTypes, TypeOK
<1>7. CallsInv'
  <2>1. \A r \in calls' :
          /\ r.at = "prepared" => r.base = head'.version
          /\ r.at = "answered" => r.heard
          /\ r.at = "dead" => ~r.heard
          /\ r.at = "answered" /\ r.code = 200 => r.base < head'.version
    BY <1>2, <1>3, <1>4 DEF CallsInv
  <2>2. \A r \in calls' : r.heard => Waits(r.client)'
    <3>1. \A c \in Clients : Waits(c)' = Waits(c)
      BY <1>2 DEF Waits, Clients
    <3> QED BY <1>1, <1>3, <1>4, <3>1 DEF CallsInv, Calls, Clients
  <2>3. \A r, t \in calls' : r.heard /\ t.heard /\ r.client = t.client => r = t
    BY <1>3, <1>4 DEF CallsInv
  <2> QED BY <1>5, <2>1, <2>2, <2>3 DEF CallsInv
<1>8. DraftInv'
  <2>1. \A r : Mine(r)' = Mine(r)
    BY <1>2 DEF Mine, DraftKey
  <2>2. \A r \in calls' :
            /\ r.client = "console" => \E i \in 0 .. draft.count : r.key = <<"console", i>>
            /\ r.client # "console" => \A i \in Nat : r.key # <<"console", i>>
            /\ r.client = "console" /\ r.heard => Mine(r)
    BY <1>3, <1>4 DEF DraftInv, DraftCalls, Mine
  <2>3. \A r \in calls' : Mine(r) =>
            /\ draft.at \notin {"idle", "editing", "stale", "failed"}
            /\ r.base = draft.base
            /\ r.at = "prepared" => landed = 0
            /\ r.at = "answered" /\ r.code = 200 => landed # 0
    BY <1>3, <1>4 DEF DraftInv, DraftCalls, Mine
  <2>4. ASSUME NEW r \in calls', Mine(r), r.at = "answered", r.code \in {403, 404, 412}
        PROVE  landed = 0 /\ \A t \in calls' : Mine(t) => t = r
    <3>1. r \in calls /\ r # q
      BY <1>3, <1>4, <2>4
    <3>2. landed = 0 /\ ~Mine(q) /\ \A t \in calls : Mine(t) => t = r
      BY <2>4, <3>1 DEF DraftInv, DraftCalls
    <3> QED BY <1>3, <1>4, <3>2 DEF Mine
  <2>5. DraftCalls'
    BY <1>2, <2>1, <2>2, <2>3, <2>4 DEF DraftCalls
  <2> QED BY <1>2, <2>5 DEF DraftInv
<1>9. ExportInv'
  <2>1. \A r \in calls' : r.heard => (r \in calls /\ r # q) \/ (r = n /\ q.heard)
    BY <1>3, <1>4
  <2> QED BY <1>2, <1>3, <2>1 DEF ExportInv
<1> QED BY <1>2, <1>6, <1>7, <1>8, <1>9, GenerationStays, PassStays, StatusStays, WakeStays

LEMMA RecoverKnows ==
    ASSUME ClientsKnow, NEW q \in calls, Recover(q)
    PROVE  ClientsKnow'
<1> USE DEF ClientsKnow
<1>1. calls' \subseteq calls
  BY DEF Recover
<1>2. UNCHANGED <<head, landed, source, export, scope, status, checkpoint, watching, events,
                  timer, rerun, pass, draft, stack, faults>>
  BY DEF Recover, clusterVars, savedVars, wakeVars
<1>3. ClientTypes'
  BY <1>1, <1>2 DEF ClientTypes, TypeOK
<1>4. CallsInv'
  <2>1. \A c \in Clients : Waits(c)' = Waits(c)
    BY <1>2 DEF Waits, Clients
  <2> QED BY <1>1, <1>2, <2>1 DEF CallsInv, Leased, ClientTypes, Calls, Clients
<1>5. DraftInv'
  BY <1>1, <1>2, OthersKeepDrafts DEF ClientTypes, TypeOK
<1>6. ExportInv'
  BY <1>1, <1>2 DEF ExportInv
<1> QED BY <1>2, <1>3, <1>4, <1>5, <1>6, GenerationStays, PassStays, StatusStays, WakeStays

\* An archived secret has a new head too; no call was prepared on the old one.
LEMMA ArchiveKnows == ASSUME ClientsKnow, Archive PROVE ClientsKnow'
<1> USE DEF ClientsKnow
<1>1. UNCHANGED <<calls, landed, source, export, scope, status, checkpoint, watching, events, timer,
                  rerun, pass, draft, stack>> /\ faults' \in Nat
  BY DEF Archive, Fault, clusterVars, savedVars, wakeVars, ClientTypes
<1>2. /\ head.version \in Nat \ {0} /\ head.payloadAt \in 1 .. head.version
      /\ head \in [version : Nat \ {0}, payload : Payloads \cup {Foreign}, payloadAt : Nat,
                   metadata : Metas \cup {Foreign}, archived : BOOLEAN]
  BY DEF ClientTypes, TypeOK
<1>3. /\ head'.version = head.version + 1 /\ head'.payload = head.payload
      /\ head'.payloadAt = head.payloadAt /\ head'.metadata = head.metadata
      /\ head' \in [version : Nat \ {0}, payload : Payloads \cup {Foreign}, payloadAt : Nat,
                    metadata : Metas \cup {Foreign}, archived : BOOLEAN]
  <2> HIDE DEF ClientsKnow
  <2>1. head' = [head EXCEPT !.version = head.version + 1, !.archived = TRUE]
    BY DEF Archive
  <2>2. head.version + 1 \in Nat \ {0}
    BY <1>2
  <2> QED BY <1>2, <2>1, <2>2
<1>4. ClientTypes'
  <2>1. head'.payloadAt \in 1 .. head'.version /\ 0 .. head.version \subseteq 0 .. head'.version
    BY <1>2, <1>3
  <2>2. TypeOK'
    BY <1>1, <1>3, <2>1 DEF ClientTypes, TypeOK
  <2>3. pass.control.payloadAt <= head'.version
    BY <1>2, <1>3 DEF ClientTypes, Passes, Controls
  <2> QED BY <1>1, <2>2, <2>3 DEF ClientTypes
<1>5. CallsInv'
  <2>1. \A q \in calls : ~Leased(q)
    BY DEF Archive, LeaseIsHeld, Leased
  <2>2. \A c \in Clients : Waits(c)' = Waits(c)
    BY <1>1 DEF Waits, Clients
  <2>3. \A q \in calls : q.base \in Nat /\ q.client \in Clients
    BY DEF ClientTypes, Calls, Clients
  <2> QED BY <1>1, <1>2, <1>3, <2>1, <2>2, <2>3 DEF CallsInv, Leased
<1>6. DraftInv'
  <2>1. \A r : Mine(r)' = Mine(r)
    BY <1>1 DEF Mine, DraftKey
  <2>2. DraftCalls'
    BY <1>1, <2>1 DEF DraftInv, DraftCalls
  <2>3. draft.base < head.version => draft.base < head'.version
    BY <1>2, <1>3 DEF ClientTypes, TypeOK
  <2> QED BY <1>1, <2>2, <2>3 DEF DraftInv
<1>7. GenerationInv' /\ WakeInv'
  BY <1>1, GenerationStays, WakeStays
<1>8. PassInv'
  <2>1. pass.control.version # head'.version
    BY <1>2, <1>3 DEF ClientTypes, TypeOK
  <2> QED BY <1>1, <2>1 DEF PassInv, Agrees
<1>9. ExportInv'
  <2>1. \A q \in calls : q.at = "answered" /\ q.code = 200 => head'.version # q.base + 1
    BY <1>2, <1>3 DEF CallsInv, ClientTypes, Calls
  <2> QED BY <1>1, <1>3, <2>1 DEF ExportInv
<1>10. StatusInv'
  <2>1. checkpoint.through # head'.version /\ pass.mark.through # head'.version
    BY <1>2, <1>3 DEF ClientTypes, TypeOK
  <2> QED BY <1>1, <1>3, <2>1 DEF StatusInv, Current
<1> QED BY <1>4, <1>5, <1>6, <1>7, <1>8, <1>9, <1>10

-----------------------------------------------------------------------------
(* The cluster and its watches *)

\* Where nothing of the service, its clients or the pass moves, only the types, the
\* generations, the status and the schedule are left to show.
LEMMA CallersStay ==
    ASSUME ClientsKnow, ClientTypes',
           UNCHANGED <<head, calls, landed, checkpoint, pass, draft, stack>>
    PROVE  CallsInv' /\ DraftInv' /\ PassInv' /\ ExportInv'
<1>1. \A c \in Clients : Waits(c) => Waits(c)'
  BY DEF Waits, Clients
<1> QED BY <1>1, CallsStay, DraftStays, PassStays, ExportStays DEF ClientsKnow

LEMMA EditSourceKnows == ASSUME ClientsKnow, EditSource PROVE ClientsKnow'
<1> USE DEF ClientsKnow
<1>1. PICK p \in Payloads \cup {None} : source' = [payload |-> p, edit |-> source.edit + 1]
  BY DEF EditSource
<1>2. UNCHANGED <<head, calls, landed, export, scope, status, checkpoint, watching, timer, rerun,
                  pass, draft, stack, faults>>
  BY DEF EditSource, serviceVars, savedVars
<1>3. events' = events \cup (IF watching THEN {"source"} ELSE {})
  BY DEF EditSource, Emit
<1>4. source.edit + 1 \in 0 .. MaxIncidents
  BY BoundsAssumption DEF EditSource, May, ClientTypes, TypeOK, Stacks
<1>5. ClientTypes'
  BY <1>1, <1>2, <1>3, <1>4 DEF ClientTypes, TypeOK
<1>6. WakeInv'
  BY <1>2, <1>3 DEF WakeInv, Refused
<1> QED BY <1>2, <1>5, <1>6, CallersStay, GenerationStays, StatusStays

\* A new generation: nothing that was recorded is of it.
LEMMA EditExportKnows == ASSUME ClientsKnow, EditExport PROVE ClientsKnow'
<1> USE DEF ClientsKnow
<1>1. PICK m \in Metas : export' = [generation |-> export.generation + 1, metadata |-> m]
  BY DEF EditExport
<1>2. UNCHANGED <<head, calls, landed, source, scope, status, checkpoint, watching, timer, rerun,
                  pass, draft, stack, faults>>
  BY DEF EditExport, serviceVars, savedVars
<1>3. events' = events \cup (IF watching THEN {"export"} ELSE {})
  BY DEF EditExport, Emit
<1>4. export.generation \in Nat /\ export.generation + 1 \in 0 .. MaxIncidents
  BY BoundsAssumption DEF EditExport, May, ClientTypes, TypeOK, Stacks
<1>5. ClientTypes'
  BY <1>1, <1>2, <1>3, <1>4 DEF ClientTypes, TypeOK
<1>6. export'.generation = export.generation + 1
  BY <1>1
<1>7. /\ pass.export.generation <= export.generation /\ status.generation <= export.generation
      /\ pass.export.generation \in Nat /\ status.generation \in Nat
  BY DEF GenerationInv, ClientTypes, TypeOK, Passes, Exports
<1>8. pass.export.generation < export'.generation /\ status.generation < export'.generation
  BY <1>4, <1>6, <1>7
<1>9. GenerationInv'
  BY <1>2, <1>4, <1>6, <1>7, <1>8 DEF GenerationInv
<1>10. StatusInv'
  BY <1>2, <1>7, <1>8, <1>4, <1>6 DEF StatusInv, Current
<1>11. WakeInv'
  BY <1>2, <1>3 DEF WakeInv, Refused
<1> QED BY <1>2, <1>5, <1>9, <1>10, <1>11, CallersStay

LEMMA ChangeScopeKnows == ASSUME ClientsKnow, ChangeScope PROVE ClientsKnow'
<1> USE DEF ClientsKnow
<1>1. UNCHANGED <<head, calls, landed, source, export, status, checkpoint, watching, events, timer,
                  rerun, pass, draft, stack, faults>>
  BY DEF ChangeScope, serviceVars, savedVars, wakeVars
<1>2. scope.changes + 1 \in 0 .. MaxIncidents
  BY BoundsAssumption DEF ChangeScope, May, ClientTypes, TypeOK, Stacks
<1>3. ClientTypes'
  BY <1>1, <1>2 DEF ChangeScope, ClientTypes, TypeOK
<1> QED BY <1>1, <1>3, CallersStay, GenerationStays, StatusStays, WakeStays

LEMMA WatchEventKnows ==
    ASSUME ClientsKnow, NEW e \in {"source", "export"}, WatchEvent(e)
    PROVE  ClientsKnow'
<1> USE DEF ClientsKnow
<1>1. UNCHANGED <<head, calls, landed, source, export, scope, status, checkpoint, watching, rerun,
                  pass, draft, stack, faults>>
  BY DEF WatchEvent, serviceVars, clusterVars, savedVars
<1>2. /\ events' = events \ {e} /\ timer \in BOOLEAN
      /\ timer' = (timer \/ (e = "source" => pass.export.generation # 0))
  BY DEF WatchEvent, IsRelevantWatchEvent, ClientTypes, TypeOK
<1>3. ClientTypes'
  BY <1>1, <1>2 DEF ClientTypes, TypeOK
<1>4. WakeInv'
  <2>1. CASE timer'
    BY <1>1, <2>1 DEF WakeInv
  <2>2. CASE ~timer'
    <3>1. e = "source" /\ pass.export.generation = 0 /\ ~timer
      BY <1>2, <2>2
    <3> QED BY <1>1, <1>2, <3>1 DEF WakeInv
  <2> QED BY <2>1, <2>2
<1> QED BY <1>1, <1>3, <1>4, CallersStay, GenerationStays, StatusStays

LEMMA WatchExpiresKnows == ASSUME ClientsKnow, WatchExpires PROVE ClientsKnow'
<1> USE DEF ClientsKnow
<1>1. UNCHANGED <<head, calls, landed, source, export, scope, status, checkpoint, watching, rerun,
                  pass, draft, stack, faults>>
  BY DEF WatchExpires, serviceVars, clusterVars, savedVars
<1>2. timer' = TRUE /\ events' = {}
  BY DEF WatchExpires
<1>3. ClientTypes'
  BY <1>1, <1>2 DEF ClientTypes, TypeOK
<1>4. WakeInv'
  BY <1>2 DEF WakeInv
<1> QED BY <1>1, <1>3, <1>4, CallersStay, GenerationStays, StatusStays

LEMMA HintKnows == ASSUME ClientsKnow, Hint PROVE ClientsKnow'
<1> USE DEF ClientsKnow
<1>1. UNCHANGED <<head, calls, landed, source, export, scope, status, checkpoint, watching, events,
                  rerun, pass, draft, stack>>
  BY DEF Hint, serviceVars, clusterVars, savedVars
<1>2. timer' = TRUE /\ faults' = faults + 1
  BY DEF Hint, Fault
<1>3. ClientTypes'
  BY <1>1, <1>2 DEF ClientTypes, TypeOK
<1>4. WakeInv'
  BY <1>2 DEF WakeInv
<1> QED BY <1>1, <1>3, <1>4, CallersStay, GenerationStays, StatusStays

-----------------------------------------------------------------------------
(* How a pass begins *)

LEMMA IdleFields ==
    ASSUME NEW e \in Exports, NEW s \in Sources
    PROVE  /\ Idle(e, s) \in Passes
           /\ Idle(e, s).at = "idle" /\ Idle(e, s).by = "timer" /\ Idle(e, s).export = e
           /\ Idle(e, s).source = s /\ Idle(e, s).mark = Unsynced /\ Idle(e, s).control = NoControl
           /\ ~Idle(e, s).failed /\ ~Idle(e, s).retry
<1>1. NoControl \in Controls
  BY DEF NoControl, Controls
<1>2. Unsynced \in [through : Nat, write : BOOLEAN]
  BY DEF Unsynced
<1> QED BY <1>1, <1>2 DEF Idle, Passes

LEMMA BeginsOrReruns ==
    ASSUME ClientTypes, NEW by \in {"timer", "run"}, ReconcileAll(by)
    PROVE  \/ /\ pass.at = "idle"
              /\ pass' \in Passes /\ pass'.at = "listed" /\ pass'.export = export
              /\ pass'.source = pass.source /\ pass'.mark = Unsynced /\ pass'.control = NoControl
              /\ rerun' = FALSE
           \/ pass' = pass /\ rerun' = TRUE /\ pass.at # "idle"
<1>1. CASE pass.at = "idle"
  <2> DEFINE i == Idle(export, pass.source)
             b == IF watching THEN "timer" ELSE by
  <2>1. export \in Exports /\ pass.source \in Sources
    BY DEF ClientTypes, TypeOK, Exports, Passes
  <2>2. i \in Passes /\ i.export = export /\ i.source = pass.source /\ i.mark = Unsynced
        /\ i.control = NoControl
    BY <2>1, IdleFields
  <2>3. b \in {"timer", "run"}
    OBVIOUS
  <2>4. pass' = [i EXCEPT !.at = "listed", !.by = b] /\ rerun' = FALSE
    BY <1>1 DEF ReconcileAll, Begin
  <2> HIDE DEF i, b
  <2> QED BY <1>1, <2>2, <2>3, <2>4 DEF Passes
<1> QED BY <1>1 DEF ReconcileAll

\* A pass that is not waiting for an answer moves on, and nobody else with it.
LEMMA PassMoves ==
    ASSUME ClientsKnow, UNCHANGED <<head, calls, landed, draft, stack>>,
           pass.at \notin {"metadata", "payload"}
    PROVE  CallsInv' /\ DraftInv' /\ ExportInv'
<1> USE DEF ClientsKnow
<1>1. \A c \in Clients : Waits(c) => Waits(c)'
  BY DEF Waits, Clients
<1>2. \A q \in calls : q.heard => q.client # "controller"
  BY DEF CallsInv, Waits
<1> QED BY <1>1, <1>2, CallsStay, DraftStays DEF ExportInv

LEMMA PassBegins ==
    ASSUME ClientsKnow, NEW by \in {"timer", "run"}, ReconcileAll(by),
           UNCHANGED <<head, calls, landed, export, status, checkpoint, draft, stack>>
    PROVE  /\ CallsInv' /\ DraftInv' /\ GenerationInv' /\ PassInv' /\ ExportInv' /\ StatusInv'
           /\ pass' \in Passes /\ rerun' \in BOOLEAN
           /\ pass'.control.version \in 0 .. head.version /\ pass'.control.payloadAt <= head.version
           /\ pass'.mark.through \in 0 .. head.version
<1> USE DEF ClientsKnow
<1>1. CASE pass' = pass /\ rerun' = TRUE
  <2>1. \A c \in Clients : Waits(c) => Waits(c)'
    BY <1>1 DEF Waits, Clients
  <2> QED BY <1>1, <2>1, CallsStay, DraftStays, GenerationStays, PassStays, ExportStays, StatusStays
          DEF ClientTypes, TypeOK
<1>2. CASE /\ pass.at = "idle"
           /\ pass' \in Passes /\ pass'.at = "listed" /\ pass'.export = export
           /\ pass'.mark = Unsynced /\ pass'.control = NoControl /\ rerun' = FALSE
  <2>1. head.version \in Nat \ {0}
    BY DEF ClientTypes, TypeOK
  <2>2. GenerationInv'
    BY <1>2 DEF GenerationInv, ClientTypes, TypeOK
  <2>3. PassInv'
    BY <1>2 DEF PassInv
  <2>4. StatusInv'
    BY <1>2 DEF StatusInv, Current
  <2>5. /\ pass'.control.version = 0 /\ pass'.control.payloadAt = 0 /\ pass'.mark.through = 0
    BY <1>2 DEF NoControl, Unsynced
  <2>6. CallsInv' /\ DraftInv' /\ ExportInv'
    BY <1>2, PassMoves
  <2>7. /\ pass'.control.version \in 0 .. head.version /\ pass'.control.payloadAt <= head.version
        /\ pass'.mark.through \in 0 .. head.version
    BY <2>1, <2>5
  <2>8. pass' \in Passes /\ rerun' \in BOOLEAN
    BY <1>2
  <2> QED BY <2>2, <2>3, <2>4, <2>6, <2>7, <2>8
<1> QED BY <1>1, <1>2, BeginsOrReruns

LEMMA TimerFiresKnows == ASSUME ClientsKnow, TimerFires PROVE ClientsKnow'
<1> USE DEF ClientsKnow
<1>1. UNCHANGED <<head, calls, landed, source, export, scope, status, checkpoint, watching, events,
                  draft, stack, faults>>
  BY DEF TimerFires, serviceVars, clusterVars, savedVars
<1>2. timer' = FALSE /\ ReconcileAll("timer")
  BY DEF TimerFires
<1>3. /\ CallsInv' /\ DraftInv' /\ GenerationInv' /\ PassInv' /\ ExportInv' /\ StatusInv'
      /\ pass' \in Passes /\ rerun' \in BOOLEAN
      /\ pass'.control.version \in 0 .. head.version /\ pass'.control.payloadAt <= head.version
      /\ pass'.mark.through \in 0 .. head.version
  BY <1>1, <1>2, PassBegins
<1>4. ClientTypes'
  <2>1. ClientTypes
    OBVIOUS
  <2> HIDE DEF ClientsKnow
  <2>2. timer' \in BOOLEAN
    BY <1>2
  <2>3. TypeOK'
    BY <1>1, <1>3, <2>1, <2>2 DEF ClientTypes, TypeOK
  <2> QED BY <1>1, <1>3, <2>1, <2>3 DEF ClientTypes
<1>5. WakeInv'
  <2>1. rerun' = TRUE \/ (pass'.at = "listed" /\ pass'.export = export)
    BY <1>2, BeginsOrReruns
  <2> QED BY <1>1, <2>1 DEF WakeInv
<1> QED BY <1>3, <1>4, <1>5

LEMMA SweepKnows == ASSUME ClientsKnow, Sweep PROVE ClientsKnow'
<1> USE DEF ClientsKnow
<1>1. UNCHANGED <<head, calls, landed, source, export, scope, status, checkpoint, events, draft,
                  stack, faults>>
  BY DEF Sweep, serviceVars, clusterVars, savedVars
<1>2. ReconcileAll("run") /\ watching \in BOOLEAN /\ timer \in BOOLEAN
  BY DEF Sweep, ClientTypes, TypeOK
<1>3. /\ CallsInv' /\ DraftInv' /\ GenerationInv' /\ PassInv' /\ ExportInv' /\ StatusInv'
      /\ pass' \in Passes /\ rerun' \in BOOLEAN
      /\ pass'.control.version \in 0 .. head.version /\ pass'.control.payloadAt <= head.version
      /\ pass'.mark.through \in 0 .. head.version
  BY <1>1, <1>2, PassBegins
<1>4. watching' \in BOOLEAN /\ timer' \in BOOLEAN
  BY <1>2 DEF Sweep, StartWatches
<1>5. ClientTypes'
  BY <1>1, <1>3, <1>4 DEF ClientTypes, TypeOK
<1>6. WakeInv'
  <2>1. rerun' = TRUE \/ (pass'.at = "listed" /\ pass'.export = export)
    BY <1>2, BeginsOrReruns
  <2> QED BY <1>1, <2>1 DEF WakeInv
<1> QED BY <1>3, <1>5, <1>6

-----------------------------------------------------------------------------
(* What a pass reads, and how it ends *)

LEMMA SynchronizeKnows == ASSUME ClientsKnow, Synchronize PROVE ClientsKnow'
<1> USE DEF ClientsKnow
<1>1. UNCHANGED <<head, calls, landed, source, export, scope, status, checkpoint, watching, events,
                  timer, rerun, draft, stack, faults>>
  BY DEF Synchronize, serviceVars, clusterVars, savedVars, wakeVars
<1> DEFINE a == IF pass.export.generation = 0 THEN "saving" ELSE "synced"
           m == [through |-> head.version, write |-> scope.write]
           c == IF (checkpoint.through = 0 \/ checkpoint.write # scope.write)
                    \/ checkpoint.through # head.version
                THEN Control ELSE NoControl
<1>2. pass.at = "listed" /\ pass' = [pass EXCEPT !.at = a, !.mark = m, !.control = c]
  BY DEF Synchronize
<1>3. /\ head.version \in Nat \ {0} /\ head.payloadAt \in 1 .. head.version
      /\ head.metadata \in Metas \cup {Foreign} /\ scope.write \in BOOLEAN
      /\ head.archived \in BOOLEAN
      /\ checkpoint.through \in 0 .. head.version
      /\ pass \in Passes
  BY DEF ClientTypes, TypeOK
<1>4. Control \in Controls /\ NoControl \in Controls
  BY <1>3 DEF Control, NoControl, Controls
<1>5. c \in Controls /\ m \in [through : Nat, write : BOOLEAN] /\ m.through = head.version
  BY <1>3, <1>4
<1>6. \/ c = Control
      \/ c = NoControl /\ checkpoint.through = head.version
  OBVIOUS
<1>7. a = (IF pass.export.generation = 0 THEN "saving" ELSE "synced")
  OBVIOUS
<1> HIDE DEF a, m, c
<1>8. /\ pass' \in Passes /\ pass'.at = a /\ pass'.mark = m /\ pass'.control = c
      /\ pass'.export = pass.export /\ pass'.source = pass.source
  BY <1>2, <1>3, <1>5, <1>7 DEF Passes
<1>9. c.version \in 0 .. head.version /\ c.payloadAt <= head.version
  BY <1>3, <1>6 DEF Control, NoControl
<1>10. ClientTypes'
  BY <1>1, <1>3, <1>5, <1>8, <1>9 DEF ClientTypes, TypeOK
<1>11. GenerationInv'
  BY <1>1, <1>2, <1>7, <1>8 DEF GenerationInv
<1>12. PassInv'
  <2>1. c = Control => m.through <= c.version
    BY <1>3, <1>5 DEF Control
  <2>2. c = Control => Agrees(pass.control)'
    BY <1>1, <1>8 DEF Control, Agrees
  <2>3. checkpoint.through <= m.through
    BY <1>3, <1>5
  <2>4. pass'.at \in {"saving", "synced"}
    BY <1>7, <1>8
  <2> QED BY <1>1, <1>5, <1>6, <1>8, <2>1, <2>2, <2>3, <2>4 DEF PassInv
<1>13. StatusInv'
  <2>1. pass'.at = "saving" => export.generation # status.generation \/ ~status.ready
    BY <1>2, <1>3, <1>7, <1>8 DEF GenerationInv, ClientTypes, TypeOK, Passes, Exports
  <2> QED BY <1>1, <2>1 DEF StatusInv, Current
<1>14. WakeInv'
  BY <1>1, <1>2, <1>7, <1>8 DEF WakeInv
<1>15. CallsInv' /\ DraftInv' /\ ExportInv'
  BY <1>1, <1>2, PassMoves
<1> QED BY <1>10, <1>11, <1>12, <1>13, <1>14, <1>15

LEMMA FailPassFields ==
    ASSUME pass \in Passes, NEW code, FailPass(code)
    PROVE  /\ pass' \in Passes /\ pass'.at = "saving" /\ pass'.export = pass.export
           /\ pass'.source = pass.source /\ pass'.mark = pass.mark
           /\ pass'.control = pass.control /\ (code # 403 => pass'.failed)
           /\ pass'.retry = IsTransientStatus(code)
<1> DEFINE f == (code # 403)
           r == IsTransientStatus(code)
<1>1. f \in BOOLEAN /\ r \in BOOLEAN /\ (code # 403 => f) /\ (r = IsTransientStatus(code))
  BY DEF IsTransientStatus
<1>2. pass' = [pass EXCEPT !.at = "saving", !.failed = f, !.retry = r]
  BY DEF FailPass
<1> HIDE DEF f, r
<1> QED BY <1>1, <1>2 DEF Passes

\* A failure of the export forgets what was recorded of it.
LEMMA FailExportKnows ==
    ASSUME ClientsKnow, NEW code, FailExport(code),
           UNCHANGED <<head, source, export, watching, events, timer, rerun>>,
           checkpoint' \in {checkpoint, Unsynced}, pass.at \notin {"idle", "saving"},
           pass.at # "listed" \/ checkpoint' = Unsynced,
           pass.at \in {"listed", "synced"} => code \in {0, 403}
    PROVE  /\ pass' \in Passes /\ pass'.control = pass.control /\ pass'.mark = pass.mark
           /\ status' \in [ready : BOOLEAN, refused : BOOLEAN, generation : 0 .. MaxIncidents,
                           payload : Payloads \cup {None}, payloadAt : 0 .. head.version]
           /\ GenerationInv' /\ PassInv' /\ StatusInv' /\ WakeInv'
<1> USE DEF ClientsKnow
<1>1. /\ pass \in Passes /\ head.version \in Nat \ {0}
      /\ pass.export.generation \in 0 .. MaxIncidents /\ pass.mark.through \in 0 .. head.version
  BY DEF ClientTypes, TypeOK, Passes, Exports
<1>2. /\ pass' \in Passes /\ pass'.at = "saving" /\ pass'.export = pass.export
      /\ pass'.source = pass.source /\ pass'.mark = pass.mark /\ pass'.control = pass.control
  BY <1>1, FailPassFields DEF FailExport
<1> DEFINE f == (code = 403)
<1>3. status' = [ready |-> FALSE, refused |-> f, generation |-> pass.export.generation,
                 payload |-> None, payloadAt |-> 0]
  BY DEF FailExport, NotReady
<1>4. f \in BOOLEAN /\ (code = 403 => f) /\ (pass'.retry = IsTransientStatus(code))
  BY FailPassFields, <1>1 DEF FailExport
<1> HIDE DEF f
<1>5. /\ ~status'.ready /\ status'.generation = pass.export.generation /\ status'.payload = None
      /\ code = 403 => status'.refused
  BY <1>3, <1>4
<1>6. status' \in [ready : BOOLEAN, refused : BOOLEAN, generation : 0 .. MaxIncidents,
                   payload : Payloads \cup {None}, payloadAt : 0 .. head.version]
  BY <1>1, <1>3, <1>4
<1>7. GenerationInv'
  BY <1>2, <1>5, <1>1 DEF GenerationInv
<1>8. PassInv'
  BY <1>1, <1>2 DEF PassInv, Unsynced
<1>9. StatusInv'
  BY <1>5 DEF StatusInv, Current
<1>10. WakeInv'
  <2>1. CASE pass.at \in {"listed", "synced"}
    <3>1. status'.refused \/ pass'.retry
      BY <1>5, <1>4, <2>1 DEF IsTransientStatus
    <3> QED BY <1>2, <1>5, <2>1, <3>1 DEF WakeInv, Refused
  <2>2. CASE pass.at \notin {"listed", "synced"}
    BY <1>2, <2>2 DEF WakeInv
  <2> QED BY <2>1, <2>2
<1> QED BY <1>2, <1>6, <1>7, <1>8, <1>9, <1>10

LEMMA SynchronizeFailsKnows == ASSUME ClientsKnow, SynchronizeFails PROVE ClientsKnow'
<1> USE DEF ClientsKnow
<1>1. UNCHANGED <<head, calls, landed, source, export, scope, watching, events, timer, rerun,
                  draft, stack>> /\ faults' = faults + 1
  BY DEF SynchronizeFails, Fault, serviceVars, clusterVars, wakeVars
<1>2. pass.at = "listed" /\ checkpoint' = Unsynced
  BY DEF SynchronizeFails
<1>3. /\ pass' \in Passes /\ pass'.control = pass.control /\ pass'.mark = pass.mark
      /\ status' \in [ready : BOOLEAN, refused : BOOLEAN, generation : 0 .. MaxIncidents,
                      payload : Payloads \cup {None}, payloadAt : 0 .. head.version]
      /\ GenerationInv' /\ PassInv' /\ StatusInv' /\ WakeInv'
  <2>1. CASE pass.export.generation # 0
    <3>1. FailExport(0)
      BY <2>1 DEF SynchronizeFails
    <3> QED BY <1>1, <1>2, <3>1, FailExportKnows
  <2>2. CASE pass.export.generation = 0
    <3>1. FailPass(0) /\ status' = status
      BY <2>2 DEF SynchronizeFails
    <3>2. /\ pass' \in Passes /\ pass'.at = "saving" /\ pass'.export = pass.export
          /\ pass'.source = pass.source /\ pass'.mark = pass.mark /\ pass'.control = pass.control
          /\ pass'.failed
      BY <3>1, FailPassFields DEF ClientTypes
    <3>3. ~status.ready
      BY <1>2, <2>2 DEF GenerationInv, ClientTypes, TypeOK
    <3>4. GenerationInv'
      BY <1>1, <1>2, <3>1, <3>2 DEF GenerationInv
    <3>5. PassInv'
      <4>1. 0 <= pass.mark.through
        BY DEF ClientTypes, TypeOK
      <4> QED BY <1>2, <3>2, <4>1 DEF PassInv, Unsynced
    <3>6. StatusInv'
      BY <1>1, <3>1, <3>3 DEF StatusInv, Current
    <3>7. WakeInv'
      BY <1>1, <2>2, <3>2 DEF WakeInv
    <3> QED BY <1>1, <3>1, <3>2, <3>4, <3>5, <3>6, <3>7 DEF ClientTypes, TypeOK
  <2> QED BY <2>1, <2>2
<1>4. ClientTypes'
  <2>1. Unsynced \in [through : 0 .. head.version, write : BOOLEAN]
    BY DEF Unsynced, ClientTypes, TypeOK
  <2> QED BY <1>1, <1>2, <1>3, <2>1 DEF ClientTypes, TypeOK
<1>5. CallsInv' /\ DraftInv' /\ ExportInv'
  BY <1>1, <1>2, PassMoves
<1> QED BY <1>3, <1>4, <1>5

LEMMA ReadSourceKnows == ASSUME ClientsKnow, ReadSource PROVE ClientsKnow'
<1> USE DEF ClientsKnow
<1>1. UNCHANGED <<head, calls, landed, source, export, scope, checkpoint, watching, events, timer,
                  rerun, draft, stack>> /\ faults' \in Nat
  BY DEF ReadSource, Fault, serviceVars, clusterVars, wakeVars, ClientTypes
<1>2. pass.at = "synced"
  BY DEF ReadSource
<1>3. CallsInv' /\ DraftInv' /\ ExportInv'
  BY <1>1, <1>2, PassMoves
<1>4. ASSUME NEW code \in {0, 403}, FailExport(code)
      PROVE  ClientsKnow'
  <2>1. /\ pass' \in Passes /\ pass'.control = pass.control /\ pass'.mark = pass.mark
        /\ status' \in [ready : BOOLEAN, refused : BOOLEAN, generation : 0 .. MaxIncidents,
                        payload : Payloads \cup {None}, payloadAt : 0 .. head.version]
        /\ GenerationInv' /\ PassInv' /\ StatusInv' /\ WakeInv'
    BY <1>1, <1>2, <1>4, FailExportKnows
  <2>2. ClientTypes'
    BY <1>1, <2>1 DEF ClientTypes, TypeOK
  <2> QED BY <1>3, <2>1, <2>2
<1>5. /\ head.version \in Nat \ {0} /\ source \in Sources /\ pass \in Passes
      /\ pass.control.version \in 0 .. head.version /\ pass.control.payloadAt <= head.version
      /\ pass.mark.through \in 0 .. head.version /\ checkpoint.through \in 0 .. head.version
      /\ pass.export.generation \in 0 .. MaxIncidents
  BY DEF ClientTypes, TypeOK, Sources, Passes, Exports
<1>6. checkpoint.through <= pass.mark.through /\ pass.export.generation # 0
  BY <1>2 DEF PassInv, GenerationInv
\* A source that is not there.
<1>7. CASE /\ status' = NotReady(pass.export.generation)
           /\ pass' = [[pass EXCEPT !.source = source] EXCEPT !.at = "saving", !.failed = TRUE]
  <2>1. /\ pass' \in Passes /\ pass'.at = "saving" /\ pass'.source = source /\ pass'.failed
        /\ pass'.control = pass.control /\ pass'.export = pass.export /\ pass'.mark = pass.mark
    BY <1>5, <1>7 DEF Passes
  <2>2. /\ ~status'.ready /\ status'.generation = pass.export.generation /\ status'.payload = None
        /\ status' \in [ready : BOOLEAN, refused : BOOLEAN, generation : 0 .. MaxIncidents,
                        payload : Payloads \cup {None}, payloadAt : 0 .. head.version]
    BY <1>5, <1>7 DEF NotReady
  <2>3. ClientTypes'
    BY <1>1, <2>1, <2>2 DEF ClientTypes, TypeOK
  <2>4. GenerationInv'
    BY <1>1, <1>5, <2>1, <2>2 DEF GenerationInv
  <2>5. PassInv' /\ StatusInv'
    BY <1>1, <1>6, <2>1, <2>2 DEF PassInv, StatusInv, Current
  <2>6. WakeInv'
    BY <1>1, <2>1 DEF WakeInv
  <2> QED BY <1>3, <2>3, <2>4, <2>5, <2>6
<1>8. ASSUME NEW a \in {"saving", "sourced", "deciding"},
             pass' = [[pass EXCEPT !.source = source] EXCEPT !.at = a],
             source.payload # None, UNCHANGED status,
             a = "saving" => IsUnchanged,
             a = "deciding" => pass.control # NoControl
      PROVE  ClientsKnow'
  <2>1. /\ pass' \in Passes /\ pass'.at = a /\ pass'.source = source
        /\ pass'.control = pass.control /\ pass'.export = pass.export /\ pass'.mark = pass.mark
    BY <1>5, <1>8 DEF Passes
  <2>2. ClientTypes'
    BY <1>1, <1>8, <2>1 DEF ClientTypes, TypeOK
  <2>3. GenerationInv'
    BY <1>1, <1>2, <1>6, <1>8, <2>1 DEF GenerationInv
  <2>4. PassInv'
    <3>1. a = "deciding" => pass.mark.through <= pass.control.version /\ Agrees(pass.control)
      BY <1>2, <1>8 DEF PassInv
    <3> QED BY <1>1, <1>6, <1>8, <2>1, <3>1 DEF PassInv, Agrees
  <2>5. StatusInv'
    <3>1. a = "saving" /\ pass.mark.through = head.version =>
              checkpoint.through = pass.mark.through
      <4>1. NoControl.version = 0
        BY DEF NoControl
      <4> QED BY <1>2, <1>5, <1>8, <4>1 DEF PassInv, IsUnchanged
    <3> QED BY <1>1, <1>8, <2>1, <3>1 DEF StatusInv, Current
  <2>6. WakeInv'
    BY <1>1, <2>1 DEF WakeInv
  <2> QED BY <1>3, <2>2, <2>3, <2>4, <2>5, <2>6
<1>9. \/ \E code \in {0, 403} : FailExport(code)
      \/ /\ status' = NotReady(pass.export.generation)
         /\ pass' = [[pass EXCEPT !.source = source] EXCEPT !.at = "saving", !.failed = TRUE]
      \/ \E a \in {"saving", "sourced", "deciding"} :
            /\ pass' = [[pass EXCEPT !.source = source] EXCEPT !.at = a]
            /\ source.payload # None /\ UNCHANGED status
            /\ a = "saving" => IsUnchanged
            /\ a = "deciding" => pass.control # NoControl
  <2> HIDE DEF ClientsKnow
  <2>1. CASE FailExport(403) \/ FailExport(0)
    BY <2>1
  <2>2. CASE /\ source.payload # None /\ UNCHANGED status
             /\ pass' = [[pass EXCEPT !.source = source] EXCEPT
                            !.at = IF IsUnchanged THEN "saving"
                                   ELSE IF pass.control = NoControl THEN "sourced"
                                   ELSE "deciding"]
    <3> DEFINE a == IF IsUnchanged THEN "saving"
                    ELSE IF pass.control = NoControl THEN "sourced" ELSE "deciding"
    <3>1. /\ a \in {"saving", "sourced", "deciding"} /\ (a = "saving" => IsUnchanged)
          /\ (a = "deciding" => pass.control # NoControl)
      OBVIOUS
    <3>2. pass' = [[pass EXCEPT !.source = source] EXCEPT !.at = a]
      BY <2>2
    <3> HIDE DEF a
    <3> QED BY <2>2, <3>1, <3>2
  <2> QED BY <2>1, <2>2 DEF ReadSource
<1> QED BY <1>4, <1>7, <1>8, <1>9

LEMMA ReadControlKnows == ASSUME ClientsKnow, ReadControl PROVE ClientsKnow'
<1> USE DEF ClientsKnow
<1>1. UNCHANGED <<head, calls, landed, source, export, scope, checkpoint, watching, events, timer,
                  rerun, draft, stack>> /\ faults' \in Nat
  BY DEF ReadControl, Fault, serviceVars, clusterVars, wakeVars, ClientTypes
<1>2. pass.at = "sourced"
  BY DEF ReadControl
<1>3. CallsInv' /\ DraftInv' /\ ExportInv'
  BY <1>1, <1>2, PassMoves
<1>4. ASSUME NEW code, FailExport(code)
      PROVE  ClientsKnow'
  <2>1. /\ pass' \in Passes /\ pass'.control = pass.control /\ pass'.mark = pass.mark
        /\ status' \in [ready : BOOLEAN, refused : BOOLEAN, generation : 0 .. MaxIncidents,
                        payload : Payloads \cup {None}, payloadAt : 0 .. head.version]
        /\ GenerationInv' /\ PassInv' /\ StatusInv' /\ WakeInv'
    BY <1>1, <1>2, <1>4, FailExportKnows
  <2>2. ClientTypes'
    BY <1>1, <2>1 DEF ClientTypes, TypeOK
  <2> QED BY <1>3, <2>1, <2>2
<1>5. CASE /\ pass' = [pass EXCEPT !.at = "deciding", !.control = Control]
           /\ UNCHANGED status
  <2>1. /\ head.version \in Nat \ {0} /\ head.payloadAt \in 1 .. head.version
        /\ head.metadata \in Metas \cup {Foreign} /\ head.archived \in BOOLEAN
        /\ pass \in Passes /\ pass.mark.through \in 0 .. head.version
    BY DEF ClientTypes, TypeOK
  <2>2. Control \in Controls /\ Control.version = head.version /\ Control.payloadAt = head.payloadAt
        /\ Control.metadata = head.metadata
    BY <2>1 DEF Control, Controls
  <2>3. /\ pass' \in Passes /\ pass'.at = "deciding" /\ pass'.source = pass.source
        /\ pass'.control = Control /\ pass'.export = pass.export /\ pass'.mark = pass.mark
    BY <1>5, <2>1, <2>2 DEF Passes
  <2>4. ClientTypes'
    BY <1>1, <1>5, <2>1, <2>2, <2>3 DEF ClientTypes, TypeOK
  <2>5. GenerationInv' /\ StatusInv'
    BY <1>1, <1>2, <1>5, <2>3 DEF GenerationInv, StatusInv, Current
  <2>6. PassInv'
    BY <1>1, <1>2, <2>1, <2>2, <2>3 DEF PassInv, Agrees
  <2>7. WakeInv'
    BY <1>1, <1>2, <2>3 DEF WakeInv
  <2> QED BY <1>3, <2>4, <2>5, <2>6, <2>7
<1> QED BY <1>4, <1>5 DEF ReadControl

LEMMA EndPassKnows == ASSUME ClientsKnow, EndPass PROVE ClientsKnow'
<1> USE DEF ClientsKnow
<1>1. UNCHANGED <<head, calls, landed, source, export, scope, status, events, draft, stack, faults>>
  BY DEF EndPass, serviceVars, clusterVars
<1>2. /\ pass.at = "saving" /\ pass' = Idle(pass.export, pass.source) /\ rerun' = FALSE
      /\ checkpoint' = IF pass.failed THEN checkpoint ELSE pass.mark
  BY DEF EndPass
<1>3. /\ pass' \in Passes /\ pass'.at = "idle" /\ pass'.export = pass.export
      /\ pass'.source = pass.source /\ pass'.mark.through = 0
      /\ pass'.control.version = 0 /\ pass'.control.payloadAt = 0
  <2>1. pass.export \in Exports /\ pass.source \in Sources
    BY DEF ClientTypes, Passes
  <2> QED BY <1>2, <2>1, IdleFields DEF Unsynced, NoControl
<1>4. /\ watching' \in BOOLEAN /\ timer' \in BOOLEAN
      /\ watching /\ (timer \/ rerun \/ pass.retry) => timer'
      /\ watching' /\ ~watching => timer'
  <2>1. watching \in BOOLEAN /\ timer \in BOOLEAN /\ rerun \in BOOLEAN /\ pass.retry \in BOOLEAN
    BY DEF ClientTypes, TypeOK, Passes
  <2>2. CASE pass.by = "run"
    BY <2>1, <2>2 DEF EndPass, StartWatches
  <2>3. CASE pass.by # "run"
    BY <2>1, <2>3 DEF EndPass
  <2> QED BY <2>2, <2>3
<1>5. checkpoint' \in [through : 0 .. head.version, write : BOOLEAN]
  <2>1. pass.mark \in [through : Nat, write : BOOLEAN] /\ pass.mark.through \in 0 .. head.version
    BY DEF ClientTypes, TypeOK, Passes
  <2>2. pass.mark \in [through : 0 .. head.version, write : BOOLEAN]
    BY <2>1
  <2> QED BY <1>2, <2>2 DEF ClientTypes, TypeOK
<1>6. ClientTypes'
  <2>1. head.version \in Nat \ {0}
    BY DEF ClientTypes, TypeOK
  <2>2. /\ pass'.control.version \in 0 .. head.version /\ pass'.control.payloadAt <= head.version
        /\ pass'.mark.through \in 0 .. head.version
    BY <1>3, <2>1
  <2>3. TypeOK'
    BY <1>1, <1>2, <1>4, <1>5, <2>2 DEF ClientTypes, TypeOK
  <2> QED BY <1>1, <1>3, <2>2, <2>3 DEF ClientTypes
<1>7. GenerationInv'
  BY <1>1, <1>3 DEF GenerationInv
<1>8. PassInv'
  BY <1>3 DEF PassInv
<1>9. StatusInv'
  BY <1>1, <1>2, <1>3 DEF StatusInv, Current
<1>10. WakeInv'
  BY <1>1, <1>2, <1>3, <1>4 DEF WakeInv, Refused
<1>11. CallsInv' /\ DraftInv' /\ ExportInv'
  BY <1>1, <1>2, PassMoves
<1> QED BY <1>6, <1>7, <1>8, <1>9, <1>10, <1>11

LEMMA PassThrowsKnows == ASSUME ClientsKnow, PassThrows PROVE ClientsKnow'
<1> USE DEF ClientsKnow
<1>1. UNCHANGED <<head, calls, landed, source, export, scope, status, checkpoint, watching, events,
                  rerun, draft, stack>>
  BY DEF PassThrows, serviceVars, clusterVars, savedVars
<1>2. /\ pass.at \in {"listed", "synced", "sourced", "deciding", "saving"} /\ timer' = TRUE
      /\ pass' = Idle(pass.export, pass.source) /\ faults' = faults + 1
  BY DEF PassThrows, Fault
<1>3. /\ pass' \in Passes /\ pass'.at = "idle" /\ pass'.export = pass.export
      /\ pass'.source = pass.source /\ pass'.mark.through = 0
      /\ pass'.control.version = 0 /\ pass'.control.payloadAt = 0
  <2>1. pass.export \in Exports /\ pass.source \in Sources
    BY DEF ClientTypes, Passes
  <2> QED BY <1>2, <2>1, IdleFields DEF Unsynced, NoControl
<1>4. ClientTypes'
  <2>1. head.version \in Nat \ {0}
    BY DEF ClientTypes, TypeOK
  <2> QED BY <1>1, <1>2, <1>3, <2>1 DEF ClientTypes, TypeOK
<1>5. GenerationInv' /\ PassInv' /\ StatusInv' /\ WakeInv'
  BY <1>1, <1>2, <1>3 DEF GenerationInv, PassInv, StatusInv, Current, WakeInv
<1>6. CallsInv' /\ DraftInv' /\ ExportInv'
  BY <1>1, <1>2, PassMoves
<1> QED BY <1>4, <1>5, <1>6

LEMMA RestartKnows == ASSUME ClientsKnow, Restart PROVE ClientsKnow'
<1> USE DEF ClientsKnow
<1>1. UNCHANGED <<head, landed, source, export, scope, status, checkpoint, draft, stack>>
  BY DEF Restart, clusterVars, savedVars
<1>2. /\ watching' = FALSE /\ timer' = FALSE /\ rerun' = FALSE /\ events' = {}
      /\ faults' = faults + 1
  BY DEF Restart, Fault
<1>3. /\ calls \subseteq Calls /\ export \in Exports /\ source \in Sources
      /\ head.version \in Nat \ {0}
  BY DEF ClientTypes, TypeOK, Exports, Sources
<1>4. PICK e \in Exports : /\ e = [export EXCEPT !.generation = 0] /\ e.generation = 0
                           /\ export.generation = 0 => e = export
  <2> DEFINE e == [export EXCEPT !.generation = 0]
  <2>1. e \in Exports /\ e.generation = 0
    BY <1>3, BoundsAssumption DEF Exports
  <2>2. export.generation = 0 => e = export
    BY <1>3 DEF Exports
  <2> QED BY <2>1, <2>2
<1>5. /\ pass' \in Passes /\ pass'.at = "idle" /\ pass'.export = e
      /\ pass'.source = source /\ pass'.mark.through = 0
      /\ pass'.control.version = 0 /\ pass'.control.payloadAt = 0
  <2>1. pass' = Idle(e, source)
    BY <1>4 DEF Restart
  <2> QED BY <1>3, <2>1, IdleFields DEF Unsynced, NoControl
\* The controller's calls go on without it.
<1> DEFINE Left(q) == IF q.client = "controller" THEN Silent(q) ELSE q
<1>0. \A r \in calls' : \E q \in calls :
          r = Left(q) /\ (q.client = "controller" => q.at # "answered")
  BY DEF Restart, Silent
<1>6. \A r \in calls' :
        /\ r \in Calls /\ (r.heard => r \in calls /\ r.client # "controller")
        /\ \/ r \in calls
           \/ \E q \in calls :
                /\ r.client = q.client /\ r.key = q.key /\ r.base = q.base
                /\ r.at # "answered" /\ r.at = q.at /\ ~r.heard
  <2>1. \A q \in calls :
          /\ Silent(q) \in Calls /\ ~Silent(q).heard /\ Silent(q).client = q.client
          /\ Silent(q).key = q.key /\ Silent(q).base = q.base /\ Silent(q).at = q.at
    BY <1>3 DEF Silent, Calls
  <2> QED BY <1>3, <1>0, <2>1
<1>7. ClientTypes'
  <2>1. /\ pass'.control.version \in 0 .. head.version /\ pass'.control.payloadAt <= head.version
        /\ pass'.mark.through \in 0 .. head.version
    BY <1>3, <1>5
  <2>2. TypeOK'
    BY <1>1, <1>2, <2>1 DEF ClientTypes, TypeOK
  <2>3. faults' \in Nat
    BY <1>2 DEF ClientTypes
  <2> QED BY <1>1, <1>5, <1>6, <2>1, <2>2, <2>3 DEF ClientTypes
<1>8. CallsInv'
  <2>1. \A r \in calls' :
          /\ r.at = "prepared" => r.base = head'.version
          /\ r.at = "answered" => r.heard
          /\ r.at = "dead" => ~r.heard
          /\ r.at = "answered" /\ r.code = 200 => r.base < head'.version
    BY <1>1, <1>6 DEF CallsInv
  <2>2. \A r \in calls' : r.heard => Waits(r.client)'
    <3>1. \A c \in Clients \ {"controller"} : Waits(c)' = Waits(c)
      BY <1>1 DEF Waits, Clients
    <3> QED BY <1>3, <1>6, <3>1 DEF CallsInv, Calls, Clients
  <2>3. \A r, t \in calls' : Leased(r) /\ Leased(t) => r = t
    <3>1. \A q \in calls : Left(q).at = q.at
      BY <1>3 DEF Silent, Calls
    <3> HIDE DEF Left
    <3>2. \A r \in calls' : Leased(r) => \E q \in calls : Leased(q) /\ r = Left(q)
      BY <1>0, <3>1 DEF Leased
    <3> QED BY <3>2 DEF CallsInv
  <2>4. \A r, t \in calls' : r.heard /\ t.heard /\ r.client = t.client => r = t
    BY <1>6 DEF CallsInv
  <2> QED BY <2>1, <2>2, <2>3, <2>4 DEF CallsInv
<1>9. DraftInv'
  <2>1. draft.count \in Nat
    BY DEF ClientTypes, TypeOK
  <2> QED BY <1>1, <1>6, <2>1, OthersKeepDrafts
<1>10. GenerationInv'
  BY <1>1, <1>3, <1>4, <1>5 DEF GenerationInv, Exports
<1>11. PassInv' /\ StatusInv'
  BY <1>1, <1>5 DEF PassInv, StatusInv, Current
<1>12. ExportInv'
  BY <1>6 DEF ExportInv
<1>13. WakeInv'
  BY <1>2 DEF WakeInv
<1> QED BY <1>7, <1>8, <1>9, <1>10, <1>11, <1>12, <1>13

-----------------------------------------------------------------------------
(* The calls of a pass *)

\* Neither a controller's key nor Pulumi's is a submission's.
LEMMA ForeignKeys ==
    /\ \A e \in Exports, v \in Nat, i \in Nat :
          MetadataKey(e, v) \in Keys /\ MetadataKey(e, v) # <<"console", i>>
    /\ \A e \in Exports, p \in Payloads, v \in Nat, i \in Nat :
          PayloadKey(e, p, v) \in Keys /\ PayloadKey(e, p, v) # <<"console", i>>
    /\ \A n \in Nat, i \in Nat : <<"pulumi", n>> \in Keys /\ <<"pulumi", n>> # <<"console", i>>
<1>1. ASSUME NEW e \in Exports, NEW v \in Nat
      PROVE  /\ MetadataKey(e, v) \in Keys /\ \A i \in Nat : MetadataKey(e, v) # <<"console", i>>
             /\ \A p \in Payloads :
                  /\ PayloadKey(e, p, v) \in Keys
                  /\ \A i \in Nat : PayloadKey(e, p, v) # <<"console", i>>
  <2>1. e.generation \in Nat /\ e.metadata \in Metas
    BY DEF Exports
  <2>2. <<e.generation, "metadata", e.metadata, v>> \in Keys
    BY <2>1 DEF Keys
  <2>3. \A p \in Payloads : <<e.generation, "payload", p, v>> \in Keys
    BY <2>1 DEF Keys
  <2> QED BY <2>2, <2>3, KeysDiffer DEF MetadataKey, PayloadKey
<1>2. ASSUME NEW n \in Nat
      PROVE  <<"pulumi", n>> \in Keys /\ \A i \in Nat : <<"pulumi", n>> # <<"console", i>>
  BY DEF Keys
<1> QED BY <1>1, <1>2

\* What sending means for everybody but the sender's own state.
LEMMA SendKnows ==
    ASSUME ClientsKnow, UNCHANGED <<head, landed, draft>>,
           NEW c \in {"controller", "pulumi"}, NEW key \in Keys, NEW base \in Nat,
           NEW change \in Changes, Send(c, key, base, change),
           \A i \in Nat : key # <<"console", i>>,
           ~Waits(c), Waits(c)', \A d \in Clients : Waits(d) => Waits(d)'
    PROVE  /\ calls' \subseteq Calls /\ CallsInv' /\ DraftInv'
           /\ \A q \in calls' : \/ q \in calls /\ (q.heard => q.client # c)
                                \/ q.client = c /\ q.base = base /\ q.change = change
                                   /\ ~(q.at = "answered" /\ q.code = 200)
<1> USE DEF ClientsKnow
<1>1. c \in Clients /\ draft.count \in Nat
  BY DEF Clients, ClientTypes, TypeOK
<1>2. PICK n \in Calls : calls' = calls \cup {n} /\ SentAs(n, c, key, base, change)
  BY <1>1, SendAddsOne
<1>3. CallsInv' /\ calls' \subseteq Calls
  BY <1>1, <1>2, SendKeepsOrder
<1>4. /\ n.client = c /\ n.key = key /\ n.base = base /\ n.change = change
      /\ ~(n.at = "answered" /\ n.code = 200)
  BY <1>2 DEF SentAs
<1>5. DraftInv'
  BY <1>1, <1>2, <1>4, OthersKeepDrafts
<1>6. \A q \in calls : q.heard => q.client # c
  BY DEF CallsInv
<1> QED BY <1>2, <1>3, <1>4, <1>5, <1>6

LEMMA ExportMetadataKnows == ASSUME ClientsKnow, ExportMetadata PROVE ClientsKnow'
<1> USE DEF ClientsKnow
<1>1. UNCHANGED <<head, landed, source, export, scope, status, checkpoint, watching, events, timer,
                  rerun, draft, stack, faults>>
  BY DEF ExportMetadata, clusterVars, savedVars, wakeVars
<1>2. pass.at = "deciding" /\ pass' = [pass EXCEPT !.at = "metadata"]
  BY DEF ExportMetadata
<1>3. /\ pass \in Passes /\ pass.export \in Exports /\ pass.export.metadata \in Metas
      /\ pass.control.version \in Nat
  BY DEF ClientTypes, TypeOK, Passes, Exports, Controls
<1>4. /\ pass' \in Passes /\ pass'.at = "metadata" /\ pass'.export = pass.export
      /\ pass'.source = pass.source /\ pass'.mark = pass.mark /\ pass'.control = pass.control
  BY <1>2, <1>3 DEF Passes
<1>5. NewMetadata(pass.export.metadata) \in Changes
  BY <1>3 DEF NewMetadata, Changes
<1>6. /\ ~Waits("controller") /\ Waits("controller")'
      /\ \A d \in Clients : Waits(d) => Waits(d)'
  BY <1>1, <1>2, <1>4 DEF Waits, Clients
<1>7. Send("controller", MetadataKey(pass.export, pass.control.version),
           pass.control.version, NewMetadata(pass.export.metadata))
  BY DEF ExportMetadata
<1> DEFINE key == MetadataKey(pass.export, pass.control.version)
<1>8. key \in Keys /\ \A i \in Nat : key # <<"console", i>>
  BY <1>3, ForeignKeys
<1> HIDE DEF key
<1>9. Send("controller", key, pass.control.version, NewMetadata(pass.export.metadata))
  BY <1>7 DEF key
<1>10. /\ calls' \subseteq Calls /\ CallsInv' /\ DraftInv'
       /\ \A q \in calls' :
            \/ q \in calls /\ (q.heard => q.client # "controller")
            \/ q.client = "controller" /\ q.base = pass.control.version
               /\ q.change = NewMetadata(pass.export.metadata)
               /\ ~(q.at = "answered" /\ q.code = 200)
  BY <1>1, <1>3, <1>5, <1>6, <1>8, <1>9, SendKnows
<1>11. ClientTypes'
  BY <1>1, <1>4, <1>10 DEF ClientTypes, TypeOK
<1>12. GenerationInv' /\ PassInv' /\ StatusInv' /\ WakeInv'
  BY <1>1, <1>2, <1>4 DEF GenerationInv, PassInv, Agrees, StatusInv, Current, WakeInv
<1>13. ExportInv'
  BY <1>4, <1>10 DEF ExportInv
<1> QED BY <1>10, <1>11, <1>12, <1>13

\* What is recorded of an export is what the secret is, or was.
LEMMA ExportedKnows ==
    ASSUME ClientsKnow, NEW at \in 1 .. head.version, Exported(at),
           UNCHANGED <<head, source, export, checkpoint, watching, events, timer, rerun>>,
           pass.at \in {"deciding", "metadata", "payload"},
           at = head.payloadAt => head.payload = pass.source.payload,
           pass.mark.through = head.version =>
              head.payload = pass.source.payload /\ head.metadata = pass.export.metadata
    PROVE  /\ pass' \in Passes /\ pass'.control = pass.control /\ pass'.mark = pass.mark
           /\ status' \in [ready : BOOLEAN, refused : BOOLEAN, generation : 0 .. MaxIncidents,
                           payload : Payloads \cup {None}, payloadAt : 0 .. head.version]
           /\ GenerationInv' /\ PassInv' /\ StatusInv' /\ WakeInv'
<1> USE DEF ClientsKnow
<1>1. /\ pass \in Passes /\ head.version \in Nat \ {0}
      /\ pass.export.generation \in 0 .. MaxIncidents /\ pass.source.payload \in Payloads
      /\ pass.mark.through \in 0 .. head.version /\ checkpoint.through \in 0 .. head.version
  BY DEF ClientTypes, TypeOK, Passes, Exports, Sources, PassInv
<1>2. pass' = [pass EXCEPT !.at = "saving"]
  BY DEF Exported
<1>3. /\ pass' \in Passes /\ pass'.at = "saving" /\ pass'.export = pass.export
      /\ pass'.source = pass.source /\ pass'.mark = pass.mark /\ pass'.control = pass.control
  BY <1>1, <1>2 DEF Passes
<1>4. /\ status'.ready /\ status'.generation = pass.export.generation
      /\ status'.payload = pass.source.payload /\ status'.payloadAt = at
      /\ status' \in [ready : BOOLEAN, refused : BOOLEAN, generation : 0 .. MaxIncidents,
                      payload : Payloads \cup {None}, payloadAt : 0 .. head.version]
  BY <1>1 DEF Exported
<1>5. pass.export.generation # 0 /\ checkpoint.through <= pass.mark.through
  BY DEF GenerationInv, PassInv
<1>6. GenerationInv'
  BY <1>1, <1>3, <1>4, <1>5 DEF GenerationInv
<1>7. PassInv'
  BY <1>3 DEF PassInv
<1>8. StatusInv'
  <2>1. status'.generation = export.generation => pass.export.metadata = export.metadata
    BY <1>4 DEF GenerationInv
  <2>2. checkpoint.through = head.version => pass.mark.through = head.version
    BY <1>1, <1>5
  <2> QED BY <1>3, <1>4, <2>1, <2>2 DEF StatusInv, Current
<1>9. WakeInv'
  BY <1>3 DEF WakeInv
<1> QED BY <1>3, <1>4, <1>6, <1>7, <1>8, <1>9

LEMMA ExportPayloadKnows == ASSUME ClientsKnow, ExportPayload PROVE ClientsKnow'
<1> USE DEF ClientsKnow
<1>1. UNCHANGED <<head, landed, source, export, scope, checkpoint, watching, events, timer,
                  rerun, draft, stack, faults>>
  BY DEF ExportPayload, clusterVars, wakeVars
<1>2. pass.at = "deciding" /\ pass.control.metadata = pass.export.metadata
  BY DEF ExportPayload
<1>3. /\ pass \in Passes /\ pass.export \in Exports /\ pass.source.payload \in Payloads
      /\ pass.control.version \in 0 .. head.version /\ head.version \in Nat \ {0}
      /\ pass.mark.through \in 0 .. head.version
      /\ pass.control.payloadAt \in Nat /\ pass.control.payloadAt <= head.version
      /\ status.payload \in Payloads \cup {None} /\ status.payloadAt \in Nat
  BY <1>2 DEF ClientTypes, TypeOK, Passes, Sources, Controls, PassInv
<1>4. CASE PayloadMatches /\ Exported(pass.control.payloadAt) /\ UNCHANGED <<calls, spent>>
  <2>1. status.payload # None /\ status.payload = pass.source.payload
        /\ status.payloadAt = pass.control.payloadAt
    BY <1>3, <1>4, ValuesAssumption DEF PayloadMatches
  <2>2. pass.control.payloadAt \in 1 .. head.version
    BY <1>3, <2>1 DEF StatusInv
  <2>3. pass.control.payloadAt = head.payloadAt => head.payload = pass.source.payload
    BY <2>1 DEF StatusInv
  <2>4. pass.mark.through = head.version =>
            head.payload = pass.source.payload /\ head.metadata = pass.export.metadata
    <3>1. pass.mark.through <= pass.control.version /\ Agrees(pass.control)
      BY <1>2 DEF PassInv
    <3> QED BY <1>2, <1>3, <2>3, <3>1 DEF Agrees
  <2>5. /\ pass' \in Passes /\ pass'.control = pass.control /\ pass'.mark = pass.mark
        /\ status' \in [ready : BOOLEAN, refused : BOOLEAN, generation : 0 .. MaxIncidents,
                        payload : Payloads \cup {None}, payloadAt : 0 .. head.version]
        /\ GenerationInv' /\ PassInv' /\ StatusInv' /\ WakeInv'
    BY <1>1, <1>2, <1>4, <2>2, <2>3, <2>4, ExportedKnows
  <2>6. ClientTypes'
    BY <1>1, <1>4, <2>5 DEF ClientTypes, TypeOK
  <2>7. CallsInv' /\ DraftInv' /\ ExportInv'
    BY <1>1, <1>2, <1>4, PassMoves
  <2> QED BY <2>5, <2>6, <2>7
<1>5. CASE /\ Send("controller", PayloadKey(pass.export, pass.source.payload, pass.control.version),
                   pass.control.version, NewPayload(pass.source.payload))
           /\ pass' = [pass EXCEPT !.at = "payload"] /\ UNCHANGED status
  <2>1. /\ pass' \in Passes /\ pass'.at = "payload" /\ pass'.export = pass.export
        /\ pass'.source = pass.source /\ pass'.mark = pass.mark /\ pass'.control = pass.control
    BY <1>3, <1>5 DEF Passes
  <2>2. NewPayload(pass.source.payload) \in Changes
    BY <1>3 DEF NewPayload, Changes
  <2>3. /\ ~Waits("controller") /\ Waits("controller")'
        /\ \A d \in Clients : Waits(d) => Waits(d)'
    BY <1>1, <1>2, <2>1 DEF Waits, Clients
  <2> DEFINE key == PayloadKey(pass.export, pass.source.payload, pass.control.version)
  <2>4. key \in Keys /\ \A i \in Nat : key # <<"console", i>>
    BY <1>3, ForeignKeys
  <2>5. Send("controller", key, pass.control.version, NewPayload(pass.source.payload))
    BY <1>5
  <2> HIDE DEF key
  <2>6. /\ calls' \subseteq Calls /\ CallsInv' /\ DraftInv'
        /\ \A q \in calls' :
            \/ q \in calls /\ (q.heard => q.client # "controller")
            \/ q.client = "controller" /\ q.base = pass.control.version
               /\ q.change = NewPayload(pass.source.payload)
               /\ ~(q.at = "answered" /\ q.code = 200)
    BY <1>1, <1>3, <2>2, <2>3, <2>4, <2>5, SendKnows
  <2>7. ClientTypes'
    BY <1>1, <1>5, <2>1, <2>6 DEF ClientTypes, TypeOK
  <2>8. GenerationInv' /\ PassInv' /\ StatusInv' /\ WakeInv'
    BY <1>1, <1>2, <1>5, <2>1 DEF GenerationInv, PassInv, Agrees, StatusInv, Current, WakeInv
  <2>9. ExportInv'
    BY <2>1, <2>6 DEF ExportInv
  <2> QED BY <2>6, <2>7, <2>8, <2>9
<1> QED BY <1>4, <1>5 DEF ExportPayload

\* Somebody stops waiting, and the others' drafts are as they were.
LEMMA HearsKnows ==
    ASSUME ClientsKnow, NEW c \in Clients, c # "console", NEW code, NEW version,
           Hears(c, code, version), UNCHANGED draft,
           \A d \in Clients \ {c} : Waits(d) => Waits(d)'
    PROVE  /\ UNCHANGED <<head, landed>> /\ faults' \in Nat
           /\ calls' \subseteq Calls /\ CallsInv' /\ DraftInv'
           /\ \A q \in calls' : q.heard => q \in calls /\ q.client # c
           /\ code = 200 => \E q \in calls :
                 /\ q.client = c /\ q.heard /\ q.at = "answered" /\ q.code = 200
                 /\ version = q.base + 1 /\ q.base \in Nat /\ version <= head.version
<1> USE DEF ClientsKnow
<1>1. /\ UNCHANGED <<head, landed>> /\ draft.count \in Nat /\ calls \subseteq Calls
      /\ head.version \in Nat
  BY HearsTakesOne DEF ClientTypes, TypeOK
<1>2. PICK q \in calls :
        /\ q.client = c /\ q.heard
        /\ \/ /\ q.at = "answered" /\ code = q.code /\ version = q.base + 1
              /\ calls' = calls \ {q}
           \/ /\ code = 0 /\ q.at = "answered" /\ calls' = calls \ {q}
           \/ /\ code = 0 /\ q.at = "prepared" /\ calls' = (calls \ {q}) \cup {Silent(q)}
  BY HearsTakesOne
<1>3. DraftInv'
  <2>1. /\ Silent(q).client = q.client /\ Silent(q).key = q.key /\ Silent(q).base = q.base
        /\ Silent(q).at = q.at /\ ~Silent(q).heard
    BY <1>1 DEF Silent, Calls
  <2> QED BY <1>1, <1>2, <2>1, OthersKeepDrafts
<1>4. code = 200 =>
        /\ q.at = "answered" /\ q.code = 200 /\ version = q.base + 1 /\ q.base \in Nat
        /\ version <= head.version
  BY <1>1, <1>2 DEF CallsInv, Calls
<1> QED BY <1>1, <1>2, <1>3, <1>4, HearsKeepsOrder

LEMMA HearExportKnows == ASSUME ClientsKnow, HearExport PROVE ClientsKnow'
<1> USE DEF ClientsKnow
<1>1. PICK code \in Codes, version \in 0 .. head.version + 1 :
        /\ Hears("controller", code, version)
        /\ \/ code # 200 /\ FailExport(code)
           \/ /\ code = 200 /\ pass.at = "metadata"
              /\ pass' = [pass EXCEPT !.at = "deciding", !.control.version = version,
                                      !.control.metadata = pass.export.metadata]
              /\ UNCHANGED status
           \/ code = 200 /\ pass.at = "payload" /\ Exported(version)
  BY DEF HearExport
<1>2. UNCHANGED <<source, export, scope, checkpoint, watching, events, timer, rerun, draft, stack>>
      /\ pass.at \in {"metadata", "payload"}
  BY DEF HearExport, clusterVars, wakeVars
<1>3. \A d \in Clients \ {"controller"} : Waits(d) => Waits(d)'
  BY <1>2 DEF Waits, Clients
<1>4. /\ UNCHANGED <<head, landed>> /\ faults' \in Nat
      /\ calls' \subseteq Calls /\ CallsInv' /\ DraftInv'
      /\ \A q \in calls' : q.heard => q \in calls /\ q.client # "controller"
      /\ code = 200 => \E q \in calls :
            /\ q.client = "controller" /\ q.heard /\ q.at = "answered" /\ q.code = 200
            /\ version = q.base + 1 /\ q.base \in Nat /\ version <= head.version
  BY <1>1, <1>2, <1>3, HearsKnows DEF Clients
<1>5. ExportInv'
  BY <1>4 DEF ExportInv
<1>6. /\ pass \in Passes /\ pass.control \in Controls /\ pass.export \in Exports
      /\ head.version \in Nat \ {0} /\ head.payloadAt \in 1 .. head.version
      /\ pass.control.payloadAt \in Nat /\ pass.control.payloadAt <= head.version
      /\ pass.mark.through \in 0 .. head.version /\ checkpoint.through \in 0 .. head.version
      /\ pass.export.metadata \in Metas
  BY DEF ClientTypes, TypeOK, Passes, Exports, Controls
<1>7. CASE FailExport(code)
  <2>1. /\ pass' \in Passes /\ pass'.control = pass.control /\ pass'.mark = pass.mark
        /\ status' \in [ready : BOOLEAN, refused : BOOLEAN, generation : 0 .. MaxIncidents,
                        payload : Payloads \cup {None}, payloadAt : 0 .. head.version]
        /\ GenerationInv' /\ PassInv' /\ StatusInv' /\ WakeInv'
    BY <1>2, <1>4, <1>7, FailExportKnows
  <2>2. ClientTypes'
    BY <1>2, <1>4, <2>1 DEF ClientTypes, TypeOK
  <2> QED BY <1>4, <1>5, <2>1, <2>2
<1>8. CASE code = 200 /\ ~FailExport(code)
  <2>1. PICK q \in calls :
            /\ q.client = "controller" /\ q.heard /\ q.at = "answered" /\ q.code = 200
            /\ version = q.base + 1 /\ q.base \in Nat /\ version <= head.version
    BY <1>4, <1>8
  <2>2. /\ q.base = pass.control.version /\ pass.mark.through <= q.base
        /\ checkpoint.through <= pass.mark.through
        /\ pass.at = "metadata" /\ head.version = version =>
              head.metadata = pass.export.metadata /\ head.payloadAt = pass.control.payloadAt
        /\ pass.at = "payload" /\ head.payloadAt = version => head.payload = pass.source.payload
    BY <1>2, <2>1 DEF ExportInv, PassInv
  <2>3. pass.mark.through # head.version /\ pass.mark.through <= version
    BY <1>6, <2>1, <2>2
  <2>4. CASE pass.at = "payload" /\ Exported(version)
    <3>1. version \in 1 .. head.version
      BY <1>6, <2>1
    <3>2. /\ pass' \in Passes /\ pass'.control = pass.control /\ pass'.mark = pass.mark
          /\ status' \in [ready : BOOLEAN, refused : BOOLEAN, generation : 0 .. MaxIncidents,
                          payload : Payloads \cup {None}, payloadAt : 0 .. head.version]
          /\ GenerationInv' /\ PassInv' /\ StatusInv' /\ WakeInv'
      <4>1. UNCHANGED <<head, source, export, checkpoint, watching, events, timer, rerun>>
        BY <1>2, <1>4
      <4>2. version = head.payloadAt => head.payload = pass.source.payload
        BY <2>2, <2>4
      <4> QED BY <2>3, <2>4, <3>1, <4>1, <4>2, ExportedKnows
    <3>3. ClientTypes'
      BY <1>2, <1>4, <3>2 DEF ClientTypes, TypeOK
    <3> QED BY <1>4, <1>5, <3>2, <3>3
  <2>5. CASE /\ pass.at = "metadata"
             /\ pass' = [pass EXCEPT !.at = "deciding", !.control.version = version,
                                     !.control.metadata = pass.export.metadata]
             /\ UNCHANGED status
    <3> DEFINE c == [pass.control EXCEPT !.version = version,
                                         !.metadata = pass.export.metadata]
    <3>1. /\ c \in Controls /\ c.version = version /\ c.metadata = pass.export.metadata
          /\ c.payloadAt = pass.control.payloadAt
      <4>1. version \in Nat
        BY <2>1
      <4> QED BY <1>6, <4>1 DEF Controls
    <3>2. pass' = [pass EXCEPT !.at = "deciding", !.control = c]
      BY <1>6, <2>5 DEF Passes
    <3> HIDE DEF c
    <3>3. /\ pass' \in Passes /\ pass'.at = "deciding" /\ pass'.export = pass.export
          /\ pass'.source = pass.source /\ pass'.mark = pass.mark /\ pass'.control = c
      BY <1>6, <3>1, <3>2 DEF Passes
    <3>4. version \in 0 .. head.version
      BY <1>6, <2>1
    <3>5. ClientTypes'
      BY <1>2, <1>4, <1>6, <2>5, <3>1, <3>3, <3>4 DEF ClientTypes, TypeOK
    <3>6. GenerationInv' /\ StatusInv'
      BY <1>2, <1>4, <2>5, <3>3 DEF GenerationInv, StatusInv, Current
    <3>7. PassInv'
      BY <1>2, <1>4, <2>2, <2>3, <2>5, <3>1, <3>3 DEF PassInv, Agrees
    <3>8. WakeInv'
      BY <1>2, <2>5, <3>3 DEF WakeInv
    <3> QED BY <1>4, <1>5, <3>5, <3>6, <3>7, <3>8
  <2> QED BY <1>1, <1>8, <2>4, <2>5
<1> QED BY <1>1, <1>7, <1>8

-----------------------------------------------------------------------------
(* The console *)

\* Where only a draft moves, the pass and its export are as they were.
LEMMA PassesStay ==
    ASSUME ClientsKnow,
           UNCHANGED <<head, source, export, status, checkpoint, watching, events, timer, rerun,
                       pass>>
    PROVE  GenerationInv' /\ PassInv' /\ StatusInv' /\ WakeInv'
BY GenerationStays, PassStays, StatusStays, WakeStays DEF ClientsKnow

\* A new draft has a key that no call has.
LEMMA OpenEditorKnows ==
    ASSUME ClientsKnow, NEW seen \in {0, head.version}, OpenEditor(seen)
    PROVE  ClientsKnow'
<1> USE DEF ClientsKnow
<1>1. UNCHANGED <<head, calls, source, export, scope, status, checkpoint, watching, events, timer,
                  rerun, pass, stack, faults>>
  BY DEF OpenEditor, clusterVars, savedVars, wakeVars
<1>2. /\ draft' = [draft EXCEPT !.at = "editing", !.base = head.version, !.seen = seen,
                                !.count = @ + 1]
      /\ landed' = 0 /\ draft.at \in Resting
  BY DEF OpenEditor
<1>3. /\ head.version \in Nat \ {0} /\ draft.count \in Nat /\ seen \in 0 .. head.version
      /\ draft \in [at : Resting \cup {"editing", "submitting", "reconciling"},
                    base : 0 .. head.version, seen : 0 .. head.version, count : 0 .. MaxIncidents]
  BY DEF ClientTypes, TypeOK
<1>4. draft.count + 1 \in 0 .. MaxIncidents
  BY BoundsAssumption DEF OpenEditor, MayWrite, May, ClientTypes, TypeOK, Stacks
<1>5. /\ draft'.at = "editing" /\ draft'.base = head.version /\ draft'.seen = seen
      /\ draft'.count = draft.count + 1
      /\ draft' \in [at : Resting \cup {"editing", "submitting", "reconciling"},
                     base : 0 .. head.version, seen : 0 .. head.version, count : 0 .. MaxIncidents]
  <2>1. head.version \in 0 .. head.version
    BY <1>3
  <2> QED BY <1>2, <1>3, <1>4, <2>1
<1>6. ClientTypes'
  <2>1. TypeOK'
    BY <1>1, <1>2, <1>3, <1>5 DEF ClientTypes, TypeOK
  <2> QED BY <1>1, <2>1 DEF ClientTypes
<1>7. draft.at # "submitting"
  BY <1>2 DEF Resting
<1>8. CallsInv'
  <2>1. \A c \in Clients : Waits(c) => Waits(c)'
    BY <1>1, <1>7 DEF Waits, Clients
  <2> QED BY <1>1, <2>1, CallsStay
<1>9. DraftInv'
  <2>1. \A q \in calls : q.heard => q.client # "console"
    BY <1>7 DEF CallsInv, Waits
  <2>2. \A q \in calls : q.key # <<"console", draft.count + 1>>
    <3>1. \A q \in calls :
            \/ q.client # "console" /\ \A i \in Nat : q.key # <<"console", i>>
            \/ \E i \in 0 .. draft.count : q.key = <<"console", i>>
      BY DEF DraftInv, DraftCalls
    <3>2. \A i \in 0 .. draft.count : <<"console", i>> # <<"console", draft.count + 1>>
      BY <1>3
    <3> QED BY <1>3, <3>1, <3>2
  <2>3. 0 .. draft.count \subseteq 0 .. draft'.count
    BY <1>3, <1>5
  <2>4. \A q \in calls : ~Mine(q)'
    BY <1>5, <2>2 DEF Mine, DraftKey
  <2>5. DraftCalls'
    BY <1>1, <2>1, <2>3, <2>4 DEF DraftInv, DraftCalls
  <2> QED BY <1>2, <1>5, <2>5 DEF DraftInv
<1> QED BY <1>1, <1>6, <1>8, <1>9, PassesStay, ExportStays

LEMMA RefetchKnows == ASSUME ClientsKnow, Refetch PROVE ClientsKnow'
<1> USE DEF ClientsKnow
<1>1. UNCHANGED <<head, calls, landed, source, export, scope, status, checkpoint, watching, events,
                  timer, rerun, pass, stack, faults>>
  BY DEF Refetch, serviceVars, clusterVars, savedVars, wakeVars
<1>2. /\ draft.at = "editing" /\ draft.seen = 0
      /\ draft' = [draft EXCEPT !.base = head.version]
  BY DEF Refetch
<1>3. /\ head.version \in 0 .. head.version
      /\ draft \in [at : Resting \cup {"editing", "submitting", "reconciling"},
                    base : 0 .. head.version, seen : 0 .. head.version, count : 0 .. MaxIncidents]
  BY DEF ClientTypes, TypeOK
<1>4. /\ draft'.at = "editing" /\ draft'.seen = 0 /\ draft'.count = draft.count
      /\ draft' \in [at : Resting \cup {"editing", "submitting", "reconciling"},
                     base : 0 .. head.version, seen : 0 .. head.version, count : 0 .. MaxIncidents]
  BY <1>2, <1>3
<1>5. ClientTypes'
  BY <1>1, <1>4 DEF ClientTypes, TypeOK
<1>6. CallsInv'
  <2>1. \A c \in Clients : Waits(c) => Waits(c)'
    BY <1>1, <1>2 DEF Waits, Clients
  <2> QED BY <1>1, <2>1, CallsStay
<1>7. DraftInv'
  <2>1. \A q \in calls : ~Mine(q) /\ Mine(q)' = Mine(q)
    BY <1>2, <1>4 DEF DraftInv, DraftCalls, Mine, DraftKey
  <2> QED BY <1>1, <1>2, <1>4, <2>1 DEF DraftInv, DraftCalls
<1> QED BY <1>1, <1>5, <1>6, <1>7, PassesStay, ExportStays

\* A submission is the only call of its draft.
LEMMA SubmitKnows ==
    ASSUME ClientsKnow, NEW change \in Changes, Submit(change)
    PROVE  ClientsKnow'
<1> USE DEF ClientsKnow
<1>1. UNCHANGED <<head, landed, source, export, scope, status, checkpoint, watching, events, timer,
                  rerun, pass, stack, faults>>
  BY DEF Submit, clusterVars, savedVars, wakeVars
<1>2. /\ draft.at = "editing" /\ draft' = [draft EXCEPT !.at = "submitting"]
      /\ Send("console", <<"console", draft.count>>, draft.base, change)
  BY DEF Submit
<1>3. /\ draft.count \in Nat /\ draft.base \in Nat
      /\ draft \in [at : Resting \cup {"editing", "submitting", "reconciling"},
                    base : 0 .. head.version, seen : 0 .. head.version, count : 0 .. MaxIncidents]
  BY DEF ClientTypes, TypeOK
<1>4. /\ draft'.at = "submitting" /\ draft'.seen = draft.seen /\ draft'.count = draft.count
      /\ draft'.base = draft.base
      /\ draft' \in [at : Resting \cup {"editing", "submitting", "reconciling"},
                     base : 0 .. head.version, seen : 0 .. head.version, count : 0 .. MaxIncidents]
  BY <1>2, <1>3
<1>5. DraftKey \in Keys /\ "console" \in Clients
  BY <1>3 DEF DraftKey, Keys, Clients
<1>6. Send("console", DraftKey, draft.base, change)
  BY <1>2 DEF DraftKey
<1>7. PICK n \in Calls :
        calls' = calls \cup {n} /\ SentAs(n, "console", DraftKey, draft.base, change)
  BY <1>3, <1>5, <1>6, SendAddsOne
<1>8. /\ n.client = "console" /\ n.key = DraftKey /\ n.base = draft.base /\ n.heard
      /\ ~(n.at = "answered" /\ n.code \in {200, 403})
  BY <1>7 DEF SentAs
<1>9. CallsInv' /\ calls' \subseteq Calls
  <2>1. /\ ~Waits("console") /\ Waits("console")'
        /\ \A d \in Clients : Waits(d) => Waits(d)'
    BY <1>1, <1>2, <1>4 DEF Waits, Clients
  <2> QED BY <1>1, <1>5, <1>7, <2>1, SendKeepsOrder
<1>10. ClientTypes'
  BY <1>1, <1>4, <1>9 DEF ClientTypes, TypeOK
<1>11. DraftInv'
  <2>1. landed = 0 /\ \A q \in calls : ~Mine(q)
    BY <1>2 DEF DraftInv, DraftCalls
  <2>2. \A q : Mine(q)' = Mine(q)
    BY <1>4 DEF Mine, DraftKey
  <2>3. Mine(n) /\ n.key = <<"console", draft.count>> /\ draft.count \in 0 .. draft.count
    BY <1>3, <1>8 DEF Mine, DraftKey
  <2>4. \A q \in calls' :
            /\ q.client = "console" => \E i \in 0 .. draft.count : q.key = <<"console", i>>
            /\ q.client # "console" => \A i \in Nat : q.key # <<"console", i>>
            /\ q.client = "console" /\ q.heard => Mine(q)
            /\ Mine(q) => q = n
    BY <1>7, <1>8, <2>1, <2>3 DEF DraftInv, DraftCalls
  <2>5. DraftCalls'
    BY <1>1, <1>4, <1>8, <2>1, <2>2, <2>4 DEF DraftCalls
  <2> QED BY <1>1, <1>4, <2>1, <2>5 DEF DraftInv
<1>12. ExportInv'
  BY <1>1, <1>7, <1>8 DEF ExportInv
<1> QED BY <1>1, <1>9, <1>10, <1>11, <1>12, PassesStay

\* What the answer says of the draft is so.
LEMMA HearDraftKnows == ASSUME ClientsKnow, HearDraft PROVE ClientsKnow'
<1> USE DEF ClientsKnow
<1>1. PICK code \in Codes, version \in 0 .. head.version + 1 :
        Hears("console", code, version) /\ draft' = [draft EXCEPT !.at = Outcome(code)]
  BY DEF HearDraft
<1>2. UNCHANGED <<source, export, scope, status, checkpoint, watching, events, timer, rerun, pass,
                  stack>> /\ draft.at = "submitting"
  BY DEF HearDraft, clusterVars, savedVars, wakeVars
<1>3. \A d \in Clients \ {"console"} : Waits(d) => Waits(d)'
  BY <1>2 DEF Waits, Clients
<1>4. /\ calls' \subseteq Calls /\ CallsInv' /\ faults' \in Nat
      /\ \A q \in calls' : q.heard => q \in calls /\ q.client # "console"
  BY <1>1, <1>3, HearsKeepsOrder DEF Clients
<1>5. /\ UNCHANGED <<head, landed>> /\ calls \subseteq Calls /\ draft.count \in Nat
      /\ draft \in [at : Resting \cup {"editing", "submitting", "reconciling"},
                    base : 0 .. head.version, seen : 0 .. head.version, count : 0 .. MaxIncidents]
  BY <1>1, HearsTakesOne DEF ClientTypes, TypeOK
<1>6. PICK q \in calls :
        /\ q.client = "console" /\ q.heard
        /\ \/ /\ q.at = "answered" /\ code = q.code /\ calls' = calls \ {q}
           \/ /\ code = 0 /\ q.at = "answered" /\ calls' = calls \ {q}
           \/ /\ code = 0 /\ q.at = "prepared" /\ calls' = (calls \ {q}) \cup {Silent(q)}
  BY <1>1, HearsTakesOne
<1> DEFINE o == Outcome(code)
<1>7. /\ o \in {"succeeded", "stale", "failed", "reconciling"}
      /\ o = "succeeded" => code = 200
      /\ o \in {"stale", "failed"} => code \in {403, 404, 412}
  BY DEF Outcome, Codes
<1>8. draft' = [draft EXCEPT !.at = o]
  BY <1>1
<1> HIDE DEF o
<1>9. /\ draft'.at = o /\ draft'.seen = draft.seen /\ draft'.count = draft.count
      /\ draft'.base = draft.base
      /\ draft' \in [at : Resting \cup {"editing", "submitting", "reconciling"},
                     base : 0 .. head.version, seen : 0 .. head.version, count : 0 .. MaxIncidents]
  BY <1>5, <1>7, <1>8 DEF Resting
<1>10. ClientTypes'
  BY <1>2, <1>4, <1>5, <1>9 DEF ClientTypes, TypeOK
<1>11. Mine(q) /\ \A r : Mine(r)' = Mine(r)
  BY <1>6, <1>9 DEF DraftInv, DraftCalls, Mine, DraftKey
<1>12. /\ code = 200 => landed # 0
       /\ code \in {403, 404, 412} => landed = 0 /\ \A r \in calls' : ~Mine(r)
  <2>1. code \in {200, 403, 404, 412} => q.at = "answered" /\ q.code = code /\ calls' = calls \ {q}
    BY <1>6
  <2> QED BY <1>11, <2>1 DEF DraftInv, DraftCalls
<1>13. DraftInv'
  <2>1. /\ Silent(q).client = q.client /\ Silent(q).key = q.key /\ Silent(q).base = q.base
        /\ Silent(q).at = q.at /\ ~Silent(q).heard
    BY <1>5 DEF Silent, Calls
  <2>2. \A r \in calls' : r \in calls \/ (r = Silent(q) /\ q.at = "prepared")
    <3> DEFINE s == Silent(q)
    <3>1. calls' = calls \ {q} \/ (q.at = "prepared" /\ calls' = (calls \ {q}) \cup {s})
      BY <1>6
    <3> HIDE DEF s
    <3>2. \A r \in calls' : r \in calls \/ (r = s /\ q.at = "prepared")
      BY <3>1
    <3> QED BY <3>2 DEF s
  <2>3. \A r \in calls' :
            /\ r.client = "console" => \E n \in 0 .. draft.count : r.key = <<"console", n>>
            /\ r.client # "console" => \A n \in Nat : r.key # <<"console", n>>
            /\ r.client = "console" /\ r.heard => Mine(r)
    BY <1>6, <2>1, <2>2 DEF DraftInv, DraftCalls, Mine
  <2>4. \A r \in calls' : Mine(r) =>
            /\ o \notin {"idle", "editing", "stale", "failed"}
            /\ r.base = draft.base
            /\ r.at = "prepared" => landed = 0
            /\ r.at = "answered" /\ r.code = 200 => landed # 0
            /\ r.at = "answered" => r \in calls
    BY <1>6, <1>7, <1>11, <1>12, <2>1, <2>2 DEF DraftInv, DraftCalls
  <2>5. ASSUME NEW r \in calls', Mine(r), r.at = "answered", r.code \in {403, 404, 412}
        PROVE  FALSE
    <3>1. q = r
      BY <1>11, <2>4, <2>5 DEF DraftInv, DraftCalls
    <3> QED BY <1>6, <2>1, <2>5, <3>1
  <2>6. DraftCalls'
    BY <1>5, <1>9, <1>11, <2>3, <2>4, <2>5 DEF DraftCalls
  <2> QED BY <1>5, <1>7, <1>9, <1>12, <2>6 DEF DraftInv
<1>14. ExportInv'
  BY <1>2, <1>4, <1>5 DEF ExportInv
<1> QED BY <1>2, <1>4, <1>5, <1>10, <1>13, <1>14, PassesStay

LEMMA ReconcileKnows == ASSUME ClientsKnow, Reconcile PROVE ClientsKnow'
<1> USE DEF ClientsKnow
<1>1. UNCHANGED <<head, calls, landed, source, export, scope, status, checkpoint, watching, events,
                  timer, rerun, pass, stack>>
  BY DEF Reconcile, serviceVars, clusterVars, savedVars, wakeVars
<1>2. PICK a \in {"applied", "absent", "unknown"} :
        draft' = [draft EXCEPT !.at = a] /\ (a = "applied" => head.version # draft.base)
  BY DEF Reconcile
<1>3. /\ draft.at = "reconciling" /\ faults' \in Nat
      /\ draft \in [at : Resting \cup {"editing", "submitting", "reconciling"},
                    base : 0 .. head.version, seen : 0 .. head.version, count : 0 .. MaxIncidents]
  BY DEF Reconcile, Fault, ClientTypes, TypeOK
<1>4. /\ draft'.at = a /\ draft'.seen = draft.seen /\ draft'.count = draft.count
      /\ draft'.base = draft.base
      /\ draft' \in [at : Resting \cup {"editing", "submitting", "reconciling"},
                     base : 0 .. head.version, seen : 0 .. head.version, count : 0 .. MaxIncidents]
  BY <1>2, <1>3 DEF Resting
<1>5. ClientTypes'
  BY <1>1, <1>3, <1>4 DEF ClientTypes, TypeOK
<1>6. CallsInv'
  <2>1. \A c \in Clients : Waits(c) => Waits(c)'
    BY <1>1, <1>3 DEF Waits, Clients
  <2> QED BY <1>1, <2>1, CallsStay
<1>7. DraftInv'
  <2>1. \A q : Mine(q)' = Mine(q)
    BY <1>4 DEF Mine, DraftKey
  <2>2. DraftCalls'
    BY <1>1, <1>4, <2>1 DEF DraftInv, DraftCalls
  <2>3. a = "applied" => draft.base < head.version
    BY <1>2 DEF ClientTypes, TypeOK
  <2> QED BY <1>1, <1>4, <2>2, <2>3 DEF DraftInv
<1> QED BY <1>1, <1>5, <1>6, <1>7, PassesStay, ExportStays

-----------------------------------------------------------------------------
(* The Pulumi provider *)

\* The stack has a record of its own, and nothing else is about it.
LEMMA StackMoves ==
    ASSUME ClientsKnow, UNCHANGED <<head, landed, source, export, scope, status, checkpoint,
                                    watching, events, timer, rerun, pass, draft>>,
           calls' \subseteq Calls, stack' \in Stacks, faults' \in Nat,
           \A q \in calls' : q.heard /\ q.client = "controller" => q \in calls
    PROVE  ClientTypes' /\ GenerationInv' /\ PassInv' /\ ExportInv' /\ StatusInv' /\ WakeInv'
BY PassesStay DEF ClientsKnow, ClientTypes, TypeOK, ExportInv

LEMMA RestStack == ASSUME ClientTypes PROVE Rest \in Stacks /\ Rest.at = "idle"
<1>1. NoControl \in Controls
  BY DEF NoControl, Controls
<1> QED BY <1>1 DEF Rest, ClientTypes, Stacks

LEMMA UpKnows == ASSUME ClientsKnow, Up PROVE ClientsKnow'
<1> USE DEF ClientsKnow
<1>1. UNCHANGED <<head, calls, landed, source, export, scope, status, checkpoint, watching, events,
                  timer, rerun, pass, draft, faults>>
  BY DEF Up, serviceVars, clusterVars, savedVars, wakeVars
<1>2. PICK payload \in BOOLEAN :
        stack' = [at |-> "deciding", payload |-> payload, control |-> Control,
                  count |-> stack.count + 1]
  BY DEF Up
<1>3. Control \in Controls /\ stack.count + 1 \in Nat
  BY DEF Control, Controls, ClientTypes, TypeOK, Stacks
<1>4. stack' \in Stacks
  BY <1>2, <1>3 DEF Stacks
<1>5. CallsInv' /\ DraftInv'
  <2>1. \A c \in Clients : Waits(c) => Waits(c)'
    BY <1>1 DEF Waits, Clients, Up
  <2> QED BY <1>1, <2>1, CallsStay, DraftStays
<1> QED BY <1>1, <1>4, <1>5, StackMoves DEF ClientTypes

LEMMA UpdateStackKnows == ASSUME ClientsKnow, UpdateStack PROVE ClientsKnow'
<1> USE DEF ClientsKnow
<1>1. UNCHANGED <<head, landed, source, export, scope, status, checkpoint, watching, events,
                  timer, rerun, pass, draft, faults>> /\ stack.at = "deciding"
  BY DEF UpdateStack, clusterVars, savedVars, wakeVars
<1>2. /\ stack \in Stacks /\ stack.control.version \in Nat /\ stack.count \in Nat
      /\ calls \subseteq Calls /\ faults \in Nat
  BY DEF ClientTypes, Stacks, Controls
<1>3. ASSUME NEW change \in Changes, NEW a \in {"metadata", "payload"},
             Send("pulumi", <<"pulumi", stack.count>>, stack.control.version, change),
             stack' = [stack EXCEPT !.at = a]
      PROVE  ClientsKnow'
  <2> DEFINE key == <<"pulumi", stack.count>>
  <2>1. key \in Keys /\ \A i \in Nat : key # <<"console", i>>
    BY <1>2, ForeignKeys
  <2>2. Send("pulumi", key, stack.control.version, change)
    BY <1>3
  <2> HIDE DEF key
  <2>3. stack' \in Stacks /\ stack'.at = a
    BY <1>2, <1>3 DEF Stacks
  <2>4. /\ ~Waits("pulumi") /\ Waits("pulumi")'
        /\ \A d \in Clients : Waits(d) => Waits(d)'
    BY <1>1, <2>3 DEF Waits, Clients
  <2>5. /\ calls' \subseteq Calls /\ CallsInv' /\ DraftInv'
        /\ \A q \in calls' : q \in calls \/ q.client = "pulumi"
    BY <1>1, <1>2, <2>1, <2>2, <2>4, SendKnows
  <2> QED BY <1>1, <1>2, <2>3, <2>5, StackMoves
<1>4. ASSUME stack' = Rest, UNCHANGED calls
      PROVE  ClientsKnow'
  <2>1. stack' \in Stacks
    BY <1>4, RestStack
  <2>2. \A c \in Clients : Waits(c) => Waits(c)'
    BY <1>1 DEF Waits, Clients
  <2> QED BY <1>1, <1>2, <1>4, <2>1, <2>2, CallsStay, DraftStays, StackMoves
<1>5. NewMetadata(Foreign) \in Changes /\ NewPayload(Foreign) \in Changes
  BY DEF NewMetadata, NewPayload, Changes
<1>6. \/ Send("pulumi", <<"pulumi", stack.count>>, stack.control.version, NewMetadata(Foreign))
         /\ stack' = [stack EXCEPT !.at = "metadata"]
      \/ Send("pulumi", <<"pulumi", stack.count>>, stack.control.version, NewPayload(Foreign))
         /\ stack' = [stack EXCEPT !.at = "payload"]
      \/ stack' = Rest /\ UNCHANGED calls
  BY DEF UpdateStack
<1> QED BY <1>3, <1>4, <1>5, <1>6

LEMMA HearStackKnows == ASSUME ClientsKnow, HearStack PROVE ClientsKnow'
<1> USE DEF ClientsKnow
<1>1. PICK code \in Codes, version \in 0 .. head.version + 1 :
        /\ Hears("pulumi", code, version)
        /\ stack' = IF code # 200 \/ stack.at = "payload" THEN Rest
                    ELSE [stack EXCEPT !.at = "deciding", !.control.version = version,
                                       !.control.metadata = Foreign]
  BY DEF HearStack
<1>2. UNCHANGED <<source, export, scope, status, checkpoint, watching, events, timer, rerun, pass,
                  draft>>
  BY DEF HearStack, clusterVars, savedVars, wakeVars
<1>3. \A d \in Clients \ {"pulumi"} : Waits(d) => Waits(d)'
  BY <1>2 DEF Waits, Clients
<1>4. /\ UNCHANGED <<head, landed>> /\ faults' \in Nat
      /\ calls' \subseteq Calls /\ CallsInv' /\ DraftInv'
      /\ \A q \in calls' : q.heard => q \in calls /\ q.client # "pulumi"
  BY <1>1, <1>2, <1>3, HearsKnows DEF Clients
<1>5. stack' \in Stacks
  <2>1. CASE stack' = Rest
    BY <2>1, RestStack
  <2>2. CASE stack' = [stack EXCEPT !.at = "deciding", !.control.version = version,
                                    !.control.metadata = Foreign]
    <3>1. version \in Nat /\ stack \in Stacks
      BY DEF ClientTypes, TypeOK
    <3> QED BY <2>2, <3>1 DEF Stacks, Controls
  <2> QED BY <1>1, <2>1, <2>2
<1> QED BY <1>2, <1>4, <1>5, StackMoves

-----------------------------------------------------------------------------
(* The theorems *)

LEMMA InitKnows == ASSUME Init PROVE ClientsKnow
<1> USE DEF Init
<1>1. /\ source \in Sources /\ export \in Exports /\ export.generation = 0
      /\ source.edit = 0
  BY ValuesAssumption, BoundsAssumption DEF Sources, Exports
<1>2. /\ pass \in Passes /\ pass.at = "idle" /\ pass.export = export /\ pass.source = source
      /\ pass.control = NoControl /\ pass.mark = Unsynced /\ ~pass.failed
  BY <1>1, IdleFields
<1>3. TypeOK
  <2>1. /\ head \in [version : Nat \ {0}, payload : Payloads \cup {Foreign}, payloadAt : Nat,
                     metadata : Metas \cup {Foreign}, archived : BOOLEAN]
        /\ head.version = 1 /\ head.payloadAt = 1 /\ landed = 0
    OBVIOUS
  <2>2. scope \in [write : BOOLEAN, changes : 0 .. MaxIncidents]
    BY BoundsAssumption
  <2>3. source \in [payload : Payloads \cup {None}, edit : 0 .. MaxIncidents]
        /\ export \in [generation : 0 .. MaxIncidents, metadata : Metas]
    BY <1>1 DEF Sources, Exports
  <2>4. status \in [ready : BOOLEAN, refused : BOOLEAN, generation : 0 .. MaxIncidents,
                    payload : Payloads \cup {None}, payloadAt : 0 .. head.version]
    BY BoundsAssumption DEF NotReady
  <2>5. checkpoint \in [through : 0 .. head.version, write : BOOLEAN]
    BY DEF Unsynced
  <2>6. /\ watching \in BOOLEAN /\ events \subseteq {"source", "export"}
        /\ timer \in BOOLEAN /\ rerun \in BOOLEAN
    OBVIOUS
  <2>7. pass.control.version = 0 /\ pass.mark.through = 0
    BY <1>2 DEF NoControl, Unsynced
  <2>8. draft \in [at : Resting \cup {"editing", "submitting", "reconciling"},
                   base : 0 .. head.version, seen : 0 .. head.version, count : 0 .. MaxIncidents]
    BY BoundsAssumption DEF Resting
  <2> HIDE DEF Init
  <2> QED BY <2>1, <2>2, <2>3, <2>4, <2>5, <2>6, <2>7, <2>8 DEF TypeOK
<1>4. stack \in Stacks
  BY DEF Stacks, Controls, NoControl
<1>5. ClientTypes
  BY <1>2, <1>3, <1>4 DEF ClientTypes, NoControl
<1>6. CallsInv /\ DraftInv /\ ExportInv
  BY DEF CallsInv, DraftInv, DraftCalls, ExportInv
<1>7. GenerationInv /\ PassInv /\ StatusInv /\ WakeInv
  BY <1>1, <1>2 DEF GenerationInv, PassInv, StatusInv, Current, WakeInv, NotReady, Unsynced
<1> QED BY <1>5, <1>6, <1>7 DEF ClientsKnow

LEMMA StepKnows == ASSUME ClientsKnow, [Next]_vars PROVE ClientsKnow'
<1>1. CASE ServiceStep
  BY <1>1, CommitKnows, DieKnows, RecoverKnows, ArchiveKnows DEF ServiceStep
<1>2. CASE ClusterStep
  BY <1>2, EditSourceKnows, EditExportKnows, ChangeScopeKnows, WatchEventKnows, WatchExpiresKnows
     DEF ClusterStep
<1>3. CASE TimerFires \/ Hint \/ Sweep
  BY <1>3, TimerFiresKnows, HintKnows, SweepKnows
<1>4. CASE PassStep
  BY <1>4, SynchronizeKnows, SynchronizeFailsKnows, ReadSourceKnows, ReadControlKnows,
     ExportMetadataKnows,
     ExportPayloadKnows, HearExportKnows, EndPassKnows, PassThrowsKnows, RestartKnows
     DEF PassStep
<1>5. CASE ConsoleStep
  <2>1. NewPayload(Foreign) \in Changes /\ NewMetadata(Foreign) \in Changes
    BY DEF NewPayload, NewMetadata, Changes
  <2> QED BY <1>5, <2>1, OpenEditorKnows, RefetchKnows, SubmitKnows, HearDraftKnows, ReconcileKnows
          DEF ConsoleStep, Open, LoadPayload, PutPayload, UpdateSecret
<1>6. CASE PulumiStep
  BY <1>6, UpKnows, UpdateStackKnows, HearStackKnows DEF PulumiStep
<1>7. CASE UNCHANGED vars
  <2>1. UNCHANGED <<head, calls, landed, source, export, scope, status, checkpoint, watching,
                    events, timer, rerun, pass, draft, stack, faults>>
    BY <1>7 DEF vars, serviceVars, clusterVars, savedVars, wakeVars
  <2>2. ClientTypes'
    BY <2>1 DEF ClientsKnow, ClientTypes, TypeOK
  <2> QED BY <2>1, <2>2, CallersStay, PassesStay DEF ClientsKnow
<1> QED BY <1>1, <1>2, <1>3, <1>4, <1>5, <1>6, <1>7 DEF Next

\* Whatever interleaves, fails, restarts or is lost, each client knows what it needs.
LEMMA ClientsAlwaysKnow == Spec => []ClientsKnow
<1>1. Init => ClientsKnow
  BY InitKnows
<1>2. ClientsKnow /\ [Next]_vars => ClientsKnow'
  BY StepKnows
<1> QED BY <1>1, <1>2, PTL DEF Spec

\* No change of an export or of its source goes unnoticed by the controller, however watches
\* expire, passes overlap, throw or fail (v1beta.ts: scheduleReconcile, reruns and retries).
THEOREM ChangesStayScheduled == Spec => []ChangesAreScheduled
<1>1. ClientsKnow => ChangesAreScheduled
  <2> SUFFICES ASSUME ClientsKnow PROVE ChangesAreScheduled
    OBVIOUS
  <2> QED BY DEF ClientsKnow, WakeInv, Refused, ChangesAreScheduled
<1> QED BY <1>1, ClientsAlwaysKnow, PTL

\* An export that the next pass would skip is what the secret is, whoever else wrote it.
THEOREM SkipsAreSafe == Spec => []SkippedExportsAreCurrent
<1>1. ClientsKnow => SkippedExportsAreCurrent
  <2> SUFFICES ASSUME ClientsKnow, status.ready, status.generation = export.generation,
                      status.payload = source.payload,
                      checkpoint = [through |-> head.version, write |-> scope.write]
               PROVE  head.payload = source.payload /\ head.metadata = export.metadata
    BY DEF SkippedExportsAreCurrent
  <2>1. checkpoint.through = head.version
    OBVIOUS
  <2> QED BY <2>1 DEF ClientsKnow, StatusInv, Current
<1> QED BY <1>1, ClientsAlwaysKnow, PTL

\* A draft is committed as the successor of its base or never, lost answers and everybody
\* else included; what the console saw answered is so, and what it only infers afterwards
\* ("applied", "absent") is what the versions say.  The type invariant holds too.
THEOREM DraftsStayGuarded == Spec => []ClientsInv
<1>1. ClientsKnow => ClientsInv
  <2> SUFFICES ASSUME ClientsKnow PROVE ClientsInv
    OBVIOUS
  <2>1. TypeOK
    BY DEF ClientsKnow, ClientTypes
  <2>2. DraftsAreGuarded
    <3> DEFINE underway == \E q \in calls : q.key = <<"console", draft.count>> /\ q.at = "prepared"
    <3>1. underway => /\ draft.at \notin {"stale", "failed"}
                      /\ head.version = draft.base
      BY DEF ClientsKnow, DraftInv, DraftCalls, Mine, DraftKey, CallsInv
    <3>2. draft.at = "applied" => head.version # draft.base
      BY <2>1 DEF ClientsKnow, DraftInv, TypeOK
    <3> HIDE DEF underway
    <3>3. /\ draft.at = "succeeded" => landed # 0
          /\ draft.at \in {"stale", "failed"} => landed = 0 /\ ~underway
          /\ draft.at = "applied" => head.version # draft.base
          /\ draft.at \in {"applied", "absent"} /\ head.version # draft.base => ~underway
          /\ landed # 0 => landed = draft.base + 1 /\ (draft.seen # 0 => draft.base = draft.seen)
      BY <3>1, <3>2 DEF ClientsKnow, DraftInv
    <3> QED BY <3>3 DEF DraftsAreGuarded, underway
  <2> QED BY <2>1, <2>2 DEF ClientsInv
<1> QED BY <1>1, ClientsAlwaysKnow, PTL
=============================================================================
