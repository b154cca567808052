------------------------ MODULE DynamicConfigProofs ------------------------
(***************************************************************************)
(* Theorems about DynamicConfig, for every set of handlers, principals,    *)
(* scopes and bodies and every bound.                                      *)
(***************************************************************************)
EXTENDS DynamicConfigRefines, TLAPS

-----------------------------------------------------------------------------
(* Type correctness *)

\* A handler between its reads and its transaction holds a complete request.
LEMMA OpenRequest ==
    ASSUME TypeOK, NEW h \in Handlers, handlers[h].stage \in {"insert", "update"}
    PROVE  handlers[h] \in Open
  BY DEF TypeOK, Done, Target, Open

\* Rollback, between its two reads, holds a revision row.
LEMMA TargetRequest ==
    ASSUME TypeOK, NEW h \in Handlers, handlers[h].stage = "target"
    PROVE  handlers[h] \in Target
  BY DEF TypeOK, Done, Target, Open

\* An answer leaves the handlers well typed.
LEMMA AnswerType ==
    ASSUME TypeOK, NEW h \in Handlers, NEW code, NEW s \in Scopes, NEW v \in Nat,
           Answer(h, code, s, v)
    PROVE  handlers' \in [Handlers -> Done \cup Target \cup Open]
<1>1. Outcome(code) \in {"ok", "stale", "internal", "refused"}
  BY DEF Outcome
<1>2. [stage |-> "done", outcome |-> Outcome(code), scope |-> s, version |-> v] \in Done
  BY <1>1 DEF Done
<1> QED  BY <1>2 DEF TypeOK, Answer

LEMMA RefuseType ==
    ASSUME TypeOK, NEW h \in Handlers, NEW code, NEW s \in Scopes, Refuse(h, code, s)
    PROVE  TypeOK'
<1>1. handlers' \in [Handlers -> Done \cup Target \cup Open]
  BY AnswerType, 0 \in Nat DEF Refuse
<1> QED  BY <1>1 DEF TypeOK, Refuse, tables

LEMMA BeginType ==
    ASSUME TypeOK, NEW h \in Handlers, NEW stage \in {"insert", "update"},
           NEW op \in Operations, NEW c \in Principals, NEW s \in Scopes,
           NEW x \in Nat, NEW body \in Contents, NEW current \in Entry,
           Begin(h, stage, op, c, s, x, body, current)
    PROVE  TypeOK'
<1>1. [stage |-> stage, op |-> op, caller |-> c, scope |-> s,
       expected |-> x, content |-> body, current |-> current] \in Open
  BY DEF Open
<1> QED  BY <1>1 DEF TypeOK, Begin, tables

\* Every expected_version a client sends is a natural number.
LEMMA ExpectedNat ==
    ASSUME TypeOK, NEW s \in Scopes, NEW x \in ExpectedVersions(s)
    PROVE  x \in Nat
<1>1. entries[s] \in Entry \/ entries[s] = NoEntry
  BY DEF TypeOK
<1>2. entries[s] \in Entry => entries[s].version \in Nat
  BY DEF Entry
<1>3. NoEntry.version = 0
  BY DEF NoEntry
<1>4. entries[s].version \in Nat
  BY <1>1, <1>2, <1>3
<1> QED  BY <1>4, BoundsAssumption DEF ExpectedVersions

\* Scopes without a row are told apart from those with one.
LEMMA ExistingEntry ==
    ASSUME TypeOK, NEW s \in Scopes, Exists(s)
    PROVE  entries[s] \in Entry
  BY DEF TypeOK, Exists

LEMMA ReadForChangeType ==
    ASSUME TypeOK, NEW h \in Handlers, NEW op \in Operations, NEW allowed,
           ReadForChange(h, op, allowed)
    PROVE  TypeOK'
<1>1. PICK c \in Principals, s \in Scopes :
        \/ \E code : Refuse(h, code, s)
        \/ /\ Exists(s)
           /\ \E x \in ExpectedVersions(s) :
                Begin(h, "update", op, c, s, x, entries[s].content, entries[s])
  BY DEF ReadForChange
<1>2. CASE \E code : Refuse(h, code, s)
  BY <1>2, RefuseType
<1>3. ASSUME Exists(s), NEW x \in ExpectedVersions(s),
             Begin(h, "update", op, c, s, x, entries[s].content, entries[s])
      PROVE  TypeOK'
  <2>1. entries[s] \in Entry /\ entries[s].content \in Contents /\ x \in Nat
    BY <1>3, ExistingEntry, ExpectedNat DEF Entry
  <2> QED  BY <2>1, <1>3, BeginType
<1> QED  BY <1>1, <1>2, <1>3

\* The entries the transactions write are well typed.
LEMMA WrittenType ==
    ASSUME NEW q \in Open
    PROVE  /\ Drafted(q) \in Entry
           /\ Submitted(q) \in Entry
           /\ Published(q) \in Entry
           /\ RolledBack(q) \in Entry
           /\ q.op \in {"approved", "rejected"} => Reviewed(q) \in Entry
<1>1. q.current \in Entry /\ q.content \in Contents /\ q.expected \in Nat
  BY DEF Open
<1>2. q.caller.id \in Ids
  BY DEF Open, Ids
<1>3. q.current.revision \in Nat
  BY <1>1 DEF Entry
<1>4. \A n \in Nat : n + 1 \in Nat \ {0}
  OBVIOUS
<1>5. q.current.revision + 1 \in Nat \ {0} /\ q.expected + 1 \in Nat \ {0}
  BY <1>1, <1>3, <1>4
<1> QED  BY <1>1, <1>2, <1>5 DEF Drafted, Submitted, Published, RolledBack, Reviewed, Entry, Status

LEMMA SnapshotType ==
    ASSUME NEW s \in Scopes, NEW e \in Entry
    PROVE  Snapshot(s, e) \in Row
  BY DEF Snapshot, Row, Entry

LEMMA EventType ==
    ASSUME TypeOK, NEW q \in Open, NEW e \in Entry
    PROVE  addChangedEvent(q, e) \in Seq(OutboxEvent)
<1>1. [scope |-> q.scope, changeType |-> q.op, entry |-> e, actor |-> q.caller.id] \in OutboxEvent
  BY DEF Open, OutboxEvent, Ids
<1> QED  BY <1>1 DEF TypeOK, addChangedEvent

LEMMA ReviewType ==
    ASSUME TypeOK, NEW q \in Open, q.op \in {"approved", "rejected"}
    PROVE  UpdateRevisionReview(q) \subseteq Row
<1>1. q.caller.id \in Ids
  BY DEF Open, Ids
<1>2. ASSUME NEW row \in ReviewedRows(q)
      PROVE  [row EXCEPT !.status = q.op, !.reviewedBy = q.caller.id] \in Row
  BY <1>1 DEF ReviewedRows, TypeOK, Row, Status
<1> QED  BY <1>2 DEF UpdateRevisionReview, TypeOK

\* A commit writes one entry and answers.
LEMMA CommitType ==
    ASSUME TypeOK, NEW h \in Handlers, NEW s \in Scopes, NEW e \in Entry, Commit(h, s, e)
    PROVE  /\ entries' \in [Scopes -> Entry \cup {NoEntry}]
           /\ handlers' \in [Handlers -> Done \cup Target \cup Open]
<1>1. entries' \in [Scopes -> Entry \cup {NoEntry}]
  BY DEF Commit, TypeOK
<1>2. e.version \in Nat /\ 0 \in Nat
  BY DEF Entry
<1>3. handlers' \in [Handlers -> Done \cup Target \cup Open]
  BY <1>2, AnswerType DEF Commit
<1> QED  BY <1>1, <1>3

LEMMA TypeStep ==
    ASSUME TypeOK, [Next]_vars
    PROVE  TypeOK'
<1>1. CASE UNCHANGED vars
  BY <1>1 DEF TypeOK, vars
<1>2. ASSUME NEW h \in Handlers, PutDraft(h)
      PROVE  TypeOK'
  <2>1. PICK c \in Principals, s \in Scopes, body \in Contents :
          \/ \E code : Refuse(h, code, s)
          \/ \E published \in SentPublishedRevisions :
               Begin(h, "insert", "draft", c, s, 0, body, NewEntry(c, body, published))
          \/ /\ Exists(s)
             /\ \E x \in ExpectedVersions(s) :
                  Begin(h, "update", "draft", c, s, x, body, entries[s])
    BY <1>2 DEF PutDraft
  <2>2. CASE \E code : Refuse(h, code, s)
    BY <2>2, RefuseType
  <2>3. ASSUME NEW published \in SentPublishedRevisions,
               Begin(h, "insert", "draft", c, s, 0, body, NewEntry(c, body, published))
        PROVE  TypeOK'
    <3>1. NewEntry(c, body, published) \in Entry
      BY SentAssumption DEF NewEntry, Entry, Status, Ids
    <3>2. 0 \in Nat /\ "draft" \in Operations
      BY DEF Operations, Status
    <3> QED  BY <2>3, <3>1, <3>2, BeginType
  <2>4. ASSUME Exists(s), NEW x \in ExpectedVersions(s),
               Begin(h, "update", "draft", c, s, x, body, entries[s])
        PROVE  TypeOK'
    <3>1. x \in Nat /\ entries[s] \in Entry /\ "draft" \in Operations
      BY <2>4, ExistingEntry, ExpectedNat DEF Operations, Status
    <3> QED  BY <2>4, <3>1, BeginType
  <2> QED  BY <2>1, <2>2, <2>3, <2>4
<1>3. ASSUME NEW h \in Handlers, Publish(h) \/ SubmitForApproval(h) \/ Approve(h) \/ Reject(h)
      PROVE  TypeOK'
  <2>1. {"published", "pending_approval", "approved", "rejected"} \subseteq Operations
    BY DEF Operations, Status
  <2> QED
    BY <1>3, <2>1, ReadForChangeType, RefuseType DEF Publish, SubmitForApproval, Approve, Reject
<1>4. ASSUME NEW h \in Handlers, Rollback(h)
      PROVE  TypeOK'
  <2>1. PICK c \in Principals, s \in Scopes :
          \/ Refuse(h, "not_found", s)
          \/ \E row \in revisions, x \in ExpectedVersions(s) :
               /\ handlers' = [handlers EXCEPT ![h] =
                     [stage |-> "target", caller |-> c, scope |-> s, expected |-> x, row |-> row]]
               /\ UNCHANGED tables
    BY <1>4 DEF Rollback
  <2>2. ASSUME NEW row \in revisions, NEW x \in ExpectedVersions(s)
        PROVE  [stage |-> "target", caller |-> c, scope |-> s, expected |-> x, row |-> row] \in Target
    BY <2>2, ExpectedNat DEF Target, TypeOK
  <2>3. CASE Refuse(h, "not_found", s)
    BY <2>3, RefuseType
  <2> QED  BY <2>1, <2>2, <2>3 DEF TypeOK, tables
<1>5. ASSUME NEW h \in Handlers, RollbackRead(h)
      PROVE  TypeOK'
  <2> DEFINE q == handlers[h]
  <2>1. q \in Target
    BY <1>5, TargetRequest DEF RollbackRead
  <2>2. CASE \E code : Refuse(h, code, q.scope)
    BY <2>1, <2>2, RefuseType DEF Target
  <2>3. CASE Begin(h, "update", "rolled_back", q.caller, q.scope, q.expected,
                   q.row.content, entries[q.scope]) /\ Exists(q.scope)
    <3>1. /\ "rolled_back" \in Operations /\ q.row.content \in Contents
          /\ q.caller \in Principals /\ q.scope \in Scopes /\ q.expected \in Nat
      BY <2>1 DEF Operations, Target, Row
    <3> QED  BY <2>3, <3>1, ExistingEntry, BeginType
  <2> QED  BY <1>5, <2>2, <2>3 DEF RollbackRead
<1>6. ASSUME NEW h \in Handlers, InsertTx(h)
      PROVE  TypeOK'
  <2> DEFINE q == handlers[h]
  <2>1. q \in Open /\ q.scope \in Scopes /\ q.current \in Entry
    BY <1>6, OpenRequest DEF InsertTx, Open
  <2>2. CASE Refuse(h, "internal", q.scope)
    BY <2>1, <2>2, RefuseType
  <2>3. CASE Commit(h, q.scope, q.current) /\ UNCHANGED <<revisions, outbox>>
    BY <2>1, <2>3, CommitType DEF TypeOK
  <2> QED  BY <1>6, <2>2, <2>3 DEF InsertTx
<1>7. ASSUME NEW h \in Handlers, DraftTx(h)
      PROVE  TypeOK'
  <2> DEFINE q == handlers[h]
  <2>1. q \in Open /\ q.scope \in Scopes
    BY <1>7, OpenRequest DEF DraftTx, Updating, Open
  <2>2. CASE Refuse(h, "stale", q.scope)
    BY <2>1, <2>2, RefuseType
  <2>3. CASE Commit(h, q.scope, Drafted(q)) /\ UNCHANGED <<revisions, outbox>>
    BY <2>1, <2>3, CommitType, WrittenType DEF TypeOK
  <2> QED  BY <1>7, <2>2, <2>3 DEF DraftTx
<1>8. ASSUME NEW h \in Handlers, SubmitTx(h)
      PROVE  TypeOK'
  <2> DEFINE q == handlers[h]
             e == Submitted(q)
  <2>1. q \in Open /\ q.scope \in Scopes
    BY <1>8, OpenRequest DEF SubmitTx, Updating, Open
  <2>2. CASE \E code : Refuse(h, code, q.scope)
    BY <2>1, <2>2, RefuseType
  <2>3. CASE /\ Commit(h, q.scope, e)
             /\ revisions' = revisions \cup {Snapshot(q.scope, e)}
             /\ outbox' = addChangedEvent(q, e)
    BY <2>1, <2>3, CommitType, WrittenType, SnapshotType, EventType DEF TypeOK
  <2> QED  BY <1>8, <2>2, <2>3 DEF SubmitTx
<1>9. ASSUME NEW h \in Handlers, PublishTx(h)
      PROVE  TypeOK'
  <2> DEFINE q == handlers[h]
  <2>1. q \in Open /\ q.scope \in Scopes
    BY <1>9, OpenRequest DEF PublishTx, Updating, Open
  <2>2. CASE \E code : Refuse(h, code, q.scope)
    BY <2>1, <2>2, RefuseType
  <2>3. CASE /\ Commit(h, q.scope, Published(q))
             /\ outbox' = addChangedEvent(q, Published(q))
             /\ UNCHANGED revisions
    BY <2>1, <2>3, CommitType, WrittenType, EventType DEF TypeOK
  <2> QED  BY <1>9, <2>2, <2>3 DEF PublishTx
<1>10. ASSUME NEW h \in Handlers, ReviewTx(h)
       PROVE  TypeOK'
  <2> DEFINE q == handlers[h]
  <2>1. q \in Open /\ q.scope \in Scopes /\ q.op \in {"approved", "rejected"}
    BY <1>10, OpenRequest DEF ReviewTx, Updating, Open
  <2>2. CASE \E code : Refuse(h, code, q.scope)
    BY <2>1, <2>2, RefuseType
  <2>3. CASE /\ Commit(h, q.scope, Reviewed(q))
             /\ revisions' = UpdateRevisionReview(q)
             /\ outbox' = addChangedEvent(q, Reviewed(q))
    BY <2>1, <2>3, CommitType, WrittenType, ReviewType, EventType DEF TypeOK
  <2> QED  BY <1>10, <2>2, <2>3 DEF ReviewTx
<1>11. ASSUME NEW h \in Handlers, RollbackTx(h)
       PROVE  TypeOK'
  <2> DEFINE q == handlers[h]
             e == RolledBack(q)
  <2>1. q \in Open /\ q.scope \in Scopes
    BY <1>11, OpenRequest DEF RollbackTx, Updating, Open
  <2>2. CASE \E code : Refuse(h, code, q.scope)
    BY <2>1, <2>2, RefuseType
  <2>3. CASE /\ Commit(h, q.scope, e)
             /\ revisions' = revisions \cup {Snapshot(q.scope, e)}
             /\ outbox' = addChangedEvent(q, e)
    BY <2>1, <2>3, CommitType, WrittenType, SnapshotType, EventType DEF TypeOK
  <2> QED  BY <1>11, <2>2, <2>3 DEF RollbackTx
<1>12. ASSUME NEW h \in Handlers, DatabaseError(h)
       PROVE  TypeOK'
  <2>1. handlers[h].scope \in Scopes
    BY DEF TypeOK, Done, Target, Open
  <2> QED  BY <1>12, <2>1, RefuseType DEF DatabaseError
<1> QED
  BY <1>1, <1>2, <1>3, <1>4, <1>5, <1>6, <1>7, <1>8, <1>9, <1>10, <1>11, <1>12 DEF Next, Step

LEMMA TypeInit == Init => TypeOK
<1> SUFFICES ASSUME Init PROVE TypeOK
  OBVIOUS
<1>1. handlers \in [Handlers -> Done \cup Target \cup Open]
  BY DEF Init, Done
<1> QED  BY <1>1 DEF Init, TypeOK

\* The tables and the handlers' requests keep their types: in particular a
\* transaction is only ever run with a complete request and an entry that was
\* read from the table.
THEOREM TypeCorrect == Spec => []TypeOK
  BY TypeInit, TypeStep, PTL DEF Spec

-----------------------------------------------------------------------------
(* Admissibility of what is stored *)

\* What AdmissibleInv says of one request.
RequestAdmissible(q) ==
    /\ q.stage \in {"insert", "update"} =>
         /\ ValidDraft(q.scope, q.current.content) /\ ValidDraft(q.scope, q.content)
         /\ MayWrite(q.caller, q.scope)
    /\ q.stage = "insert" => q.current.updatedBy = q.caller.id
    /\ q.stage = "target" => ValidDraft(q.scope, q.row.content)

LEMMA AdmissibleParts ==
    AdmissibleInv <=> StoredIsAdmissible /\ \A h \in Handlers : RequestAdmissible(handlers[h])
BY DEF AdmissibleInv, RequestAdmissible

LEMMA AdmissiblePartsNext ==
    AdmissibleInv' <=>
        StoredIsAdmissible' /\ \A h \in Handlers : RequestAdmissible(handlers'[h])
BY DEF AdmissibleInv, RequestAdmissible

\* A granted access is a principal that may write in the tenant.
LEMMA GrantedMayWrite ==
    ASSUME NEW c, NEW s, "ok" \in Access(c, s)
    PROVE  MayWrite(c, s)
BY DEF Access, enforceTenant, MayWrite

\* A step that leaves the tables alone and one handler with an admissible request.
LEMMA HandlerAdmissible ==
    ASSUME TypeOK, AdmissibleInv, NEW h \in Handlers, NEW q, UNCHANGED tables,
           handlers' = [handlers EXCEPT ![h] = q], RequestAdmissible(q)
    PROVE  AdmissibleInv'
<1>1. StoredIsAdmissible'
  BY AdmissibleParts DEF StoredIsAdmissible, Exists, tables
<1>2. \A g \in Handlers : handlers'[g] = IF g = h THEN q ELSE handlers[g]
  BY DEF TypeOK
<1>3. \A g \in Handlers : RequestAdmissible(handlers'[g])
  BY <1>2, AdmissibleParts
<1> QED  BY <1>1, <1>3, AdmissiblePartsNext

LEMMA RefuseAdmissible ==
    ASSUME TypeOK, AdmissibleInv, NEW h \in Handlers, NEW code, NEW s, Refuse(h, code, s)
    PROVE  AdmissibleInv'
<1> DEFINE q == [stage |-> "done", outcome |-> Outcome(code), scope |-> s, version |-> 0]
<1>1. UNCHANGED tables /\ handlers' = [handlers EXCEPT ![h] = q]
  BY DEF Refuse, Answer
<1>2. RequestAdmissible(q)
  BY DEF RequestAdmissible
<1> HIDE DEF q
<1> QED  BY <1>1, <1>2, HandlerAdmissible

LEMMA BeginAdmissible ==
    ASSUME TypeOK, AdmissibleInv, NEW h \in Handlers, NEW stage, NEW op, NEW c, NEW s,
           NEW x, NEW body, NEW current, Begin(h, stage, op, c, s, x, body, current),
           ValidDraft(s, body), ValidDraft(s, current.content), MayWrite(c, s),
           stage = "update" \/ (stage = "insert" /\ current.updatedBy = c.id)
    PROVE  AdmissibleInv'
<1> DEFINE q == [stage |-> stage, op |-> op, caller |-> c, scope |-> s,
                 expected |-> x, content |-> body, current |-> current]
<1>1. UNCHANGED tables /\ handlers' = [handlers EXCEPT ![h] = q]
  BY DEF Begin
<1>2. RequestAdmissible(q)
  BY DEF RequestAdmissible
<1> HIDE DEF q
<1> QED  BY <1>1, <1>2, HandlerAdmissible

\* A transaction whose entry is valid and carries the caller's name.
LEMMA CommitAdmissible ==
    ASSUME TypeOK, AdmissibleInv, NEW h \in Handlers, NEW c \in Principals, NEW s \in Scopes,
           NEW e, Commit(h, s, e), ValidDraft(s, e.content), e.updatedBy = c.id, MayWrite(c, s),
           \A row \in revisions' : ValidDraft(row.scope, row.content)
    PROVE  AdmissibleInv'
<1>1. entries' = [entries EXCEPT ![s] = e] /\ entries \in [Scopes -> Entry \cup {NoEntry}]
  BY DEF Commit, TypeOK
<1>2. \A t \in Scopes : entries'[t] = IF t = s THEN e ELSE entries[t]
  BY <1>1
<1>3. StoredIsAdmissible'
  BY <1>2, AdmissibleParts DEF StoredIsAdmissible, Exists
<1>4. PICK q : q.stage = "done" /\ handlers' = [handlers EXCEPT ![h] = q]
  BY DEF Commit, Answer
<1>5. \A g \in Handlers : handlers'[g] = IF g = h THEN q ELSE handlers[g]
  BY <1>4 DEF TypeOK
<1>6. RequestAdmissible(q)
  BY <1>4 DEF RequestAdmissible
<1>7. \A g \in Handlers : RequestAdmissible(handlers'[g])
  BY <1>5, <1>6, AdmissibleParts
<1> QED  BY <1>3, <1>7, AdmissiblePartsNext

\* The read of Publish, SubmitForApproval and review.
LEMMA ReadForChangeAdmissible ==
    ASSUME TypeOK, AdmissibleInv, NEW h \in Handlers, NEW op, NEW allowed,
           ReadForChange(h, op, allowed)
    PROVE  AdmissibleInv'
<1>1. PICK c \in Principals, s \in Scopes :
        \/ \E code : Refuse(h, code, s)
        \/ /\ Exists(s) /\ "ok" \in Access(c, s)
           /\ \E x : Begin(h, "update", op, c, s, x, entries[s].content, entries[s])
  BY DEF ReadForChange
<1>2. CASE \E code : Refuse(h, code, s)
  BY <1>2, RefuseAdmissible
<1>3. ASSUME Exists(s), "ok" \in Access(c, s),
             NEW x, Begin(h, "update", op, c, s, x, entries[s].content, entries[s])
      PROVE  AdmissibleInv'
  <2>1. ValidDraft(s, entries[s].content) /\ MayWrite(c, s)
    BY <1>3, AdmissibleParts, GrantedMayWrite DEF StoredIsAdmissible
  <2> QED  BY <1>3, <2>1, BeginAdmissible
<1> QED  BY <1>1, <1>2, <1>3

\* The transactions: what they write is valid, and names the caller.
LEMMA TransactionAdmissible ==
    ASSUME TypeOK, AdmissibleInv, NEW h \in Handlers,
           \/ InsertTx(h) \/ DraftTx(h) \/ SubmitTx(h) \/ PublishTx(h) \/ ReviewTx(h) \/ RollbackTx(h)
    PROVE  AdmissibleInv'
<1>0. PICK q : q = handlers[h]
  OBVIOUS
<1>1. q \in Open
  BY <1>0, OpenRequest DEF InsertTx, DraftTx, SubmitTx, PublishTx, ReviewTx, RollbackTx, Updating
<1>2. /\ q.caller \in Principals /\ q.scope \in Scopes /\ q.current \in Entry
      /\ q.stage \in {"insert", "update"}
  BY <1>1 DEF Open
<1>3. /\ ValidDraft(q.scope, q.current.content) /\ ValidDraft(q.scope, q.content)
      /\ MayWrite(q.caller, q.scope)
      /\ q.stage = "insert" => q.current.updatedBy = q.caller.id
      /\ \A row \in revisions : ValidDraft(row.scope, row.content)
  BY <1>0, <1>2, AdmissibleParts DEF RequestAdmissible, StoredIsAdmissible
<1>4. /\ Drafted(q).content = q.content /\ Drafted(q).updatedBy = q.caller.id
      /\ Submitted(q).content = q.current.content /\ Submitted(q).updatedBy = q.caller.id
      /\ Published(q).content = q.current.content /\ Published(q).updatedBy = q.caller.id
      /\ Reviewed(q).content = q.current.content /\ Reviewed(q).updatedBy = q.caller.id
      /\ RolledBack(q).content = q.content /\ RolledBack(q).updatedBy = q.caller.id
  BY <1>2 DEF Drafted, Submitted, Published, Reviewed, RolledBack, Entry
<1>5. CASE \E code : Refuse(h, code, q.scope)
  BY <1>5, RefuseAdmissible
<1>6. CASE Commit(h, q.scope, q.current) /\ q.stage = "insert" /\ UNCHANGED revisions
  BY <1>2, <1>3, <1>6, CommitAdmissible
<1>7. CASE Commit(h, q.scope, Drafted(q)) /\ UNCHANGED revisions
  BY <1>2, <1>3, <1>4, <1>7, CommitAdmissible
<1>8. CASE Commit(h, q.scope, Published(q)) /\ UNCHANGED revisions
  BY <1>2, <1>3, <1>4, <1>8, CommitAdmissible
<1>9. ASSUME NEW e, e.content \in {q.content, q.current.content}, e.updatedBy = q.caller.id,
             Commit(h, q.scope, e), revisions' = revisions \cup {Snapshot(q.scope, e)}
      PROVE  AdmissibleInv'
  <2>1. Snapshot(q.scope, e).scope = q.scope /\ Snapshot(q.scope, e).content = e.content
    BY DEF Snapshot
  <2>2. ValidDraft(q.scope, e.content)
    BY <1>3, <1>9
  <2>3. \A row \in revisions' : ValidDraft(row.scope, row.content)
    BY <1>3, <1>9, <2>1, <2>2
  <2> QED  BY <1>2, <1>3, <1>9, <2>2, <2>3, CommitAdmissible
<1>10. CASE Commit(h, q.scope, Reviewed(q)) /\ revisions' = UpdateRevisionReview(q)
  <2>1. ASSUME NEW row \in ReviewedRows(q),
               NEW new, new = [row EXCEPT !.status = q.op, !.reviewedBy = q.caller.id]
        PROVE  new.scope = row.scope /\ new.content = row.content /\ row \in revisions
    BY <2>1 DEF ReviewedRows, TypeOK, Row
  <2>2. ASSUME NEW new \in revisions' PROVE ValidDraft(new.scope, new.content)
    <3>1. CASE new \in revisions
      BY <1>3, <3>1
    <3>2. CASE new \notin revisions
      <4>1. PICK row \in ReviewedRows(q) :
              new = [row EXCEPT !.status = q.op, !.reviewedBy = q.caller.id]
        BY <1>10, <2>2, <3>2 DEF UpdateRevisionReview
      <4>2. new.scope = row.scope /\ new.content = row.content /\ row \in revisions
        BY <2>1, <4>1
      <4> QED  BY <1>3, <4>2
    <3> QED  BY <3>1, <3>2
  <2> QED  BY <1>2, <1>3, <1>4, <1>10, <2>2, CommitAdmissible
<1>11. CASE InsertTx(h) \/ DraftTx(h) \/ PublishTx(h)
  BY <1>0, <1>5, <1>6, <1>7, <1>8, <1>11 DEF InsertTx, DraftTx, PublishTx
<1>12. CASE SubmitTx(h) \/ RollbackTx(h)
  <2>1. CASE /\ Commit(h, q.scope, Submitted(q))
             /\ revisions' = revisions \cup {Snapshot(q.scope, Submitted(q))}
    BY <1>4, <1>9, <2>1
  <2>2. CASE /\ Commit(h, q.scope, RolledBack(q))
             /\ revisions' = revisions \cup {Snapshot(q.scope, RolledBack(q))}
    BY <1>4, <1>9, <2>2
  <2>3. CASE SubmitTx(h)
    BY <1>0, <1>5, <2>1, <2>3 DEF SubmitTx
  <2>4. CASE RollbackTx(h)
    BY <1>0, <1>5, <2>2, <2>4 DEF RollbackTx
  <2> QED  BY <1>12, <2>3, <2>4
<1>13. CASE ReviewTx(h)
  BY <1>0, <1>5, <1>10, <1>13 DEF ReviewTx
<1> QED  BY <1>11, <1>12, <1>13

LEMMA AdmissibleStep ==
    ASSUME TypeOK, AdmissibleInv, [Next]_vars
    PROVE  AdmissibleInv'
<1>1. CASE UNCHANGED vars
  BY <1>1 DEF vars, AdmissibleInv, StoredIsAdmissible, Exists
<1>2. ASSUME NEW h \in Handlers, PutDraft(h) PROVE AdmissibleInv'
  <2>1. PICK c \in Principals, s \in Scopes, body \in Contents :
          \/ \E code : Refuse(h, code, s)
          \/ /\ ValidDraft(s, body) /\ "ok" \in Access(c, s)
             /\ \/ \E published : Begin(h, "insert", "draft", c, s, 0, body, NewEntry(c, body, published))
                \/ Exists(s) /\ \E x : Begin(h, "update", "draft", c, s, x, body, entries[s])
    BY <1>2 DEF PutDraft
  <2>2. CASE \E code : Refuse(h, code, s)
    BY <2>2, RefuseAdmissible
  <2>3. ASSUME ValidDraft(s, body), "ok" \in Access(c, s), NEW published,
               Begin(h, "insert", "draft", c, s, 0, body, NewEntry(c, body, published))
        PROVE  AdmissibleInv'
    <3>1. /\ NewEntry(c, body, published).content = body
          /\ NewEntry(c, body, published).updatedBy = c.id
      BY DEF NewEntry
    <3> QED  BY <2>3, <3>1, GrantedMayWrite, BeginAdmissible
  <2>4. ASSUME ValidDraft(s, body), "ok" \in Access(c, s), Exists(s), NEW x,
               Begin(h, "update", "draft", c, s, x, body, entries[s])
        PROVE  AdmissibleInv'
    <3>1. ValidDraft(s, entries[s].content)
      BY <2>4, AdmissibleParts DEF StoredIsAdmissible
    <3> QED  BY <2>4, <3>1, GrantedMayWrite, BeginAdmissible
  <2> QED  BY <2>1, <2>2, <2>3, <2>4
<1>3. ASSUME NEW h \in Handlers, Publish(h) \/ SubmitForApproval(h) \/ Approve(h) \/ Reject(h)
      PROVE  AdmissibleInv'
  BY <1>3, ReadForChangeAdmissible, RefuseAdmissible DEF Publish, SubmitForApproval, Approve, Reject
<1>4. ASSUME NEW h \in Handlers, Rollback(h) PROVE AdmissibleInv'
  <2>1. CASE \E code, s : Refuse(h, code, s)
    BY <2>1, RefuseAdmissible
  <2>2. ASSUME NEW c, NEW s, NEW x, NEW row \in revisions, row.scope = s, UNCHANGED tables,
               NEW q, q = [stage |-> "target", caller |-> c, scope |-> s, expected |-> x, row |-> row],
               handlers' = [handlers EXCEPT ![h] = q]
        PROVE  AdmissibleInv'
    <3>1. ValidDraft(s, row.content)
      BY <2>2, AdmissibleParts DEF StoredIsAdmissible
    <3>2. RequestAdmissible(q)
      BY <2>2, <3>1 DEF RequestAdmissible
    <3> QED  BY <2>2, <3>2, HandlerAdmissible
  <2> QED  BY <1>4, <2>1, <2>2 DEF Rollback
<1>5. ASSUME NEW h \in Handlers, RollbackRead(h) PROVE AdmissibleInv'
  <2>0. PICK q : q = handlers[h]
    OBVIOUS
  <2>1. q.stage = "target" /\ q \in Target /\ ValidDraft(q.scope, q.row.content) /\ q.scope \in Scopes
    BY <1>5, <2>0, TargetRequest, AdmissibleParts DEF RollbackRead, RequestAdmissible, Target
  <2>2. CASE \E code : Refuse(h, code, q.scope)
    BY <2>2, RefuseAdmissible
  <2>3. CASE /\ "ok" \in Access(q.caller, q.scope) /\ Exists(q.scope)
             /\ Begin(h, "update", "rolled_back", q.caller, q.scope, q.expected,
                      q.row.content, entries[q.scope])
    <3>1. ValidDraft(q.scope, entries[q.scope].content) /\ MayWrite(q.caller, q.scope)
      BY <2>1, <2>3, AdmissibleParts, GrantedMayWrite DEF StoredIsAdmissible
    <3> QED  BY <2>1, <2>3, <3>1, BeginAdmissible
  <2> QED  BY <1>5, <2>0, <2>2, <2>3 DEF RollbackRead
<1>6. ASSUME NEW h \in Handlers, DatabaseError(h) PROVE AdmissibleInv'
  BY <1>6, RefuseAdmissible DEF DatabaseError
<1> QED
  BY <1>1, <1>2, <1>3, <1>4, <1>5, <1>6, TransactionAdmissible DEF Next, Step

LEMMA AdmissibleInit == Init => AdmissibleInv
BY DEF Init, AdmissibleInv, StoredIsAdmissible, Exists

\* Validation and tenant checks hold for everything that is stored and everything
\* a handler is about to store, however requests interleave.
THEOREM AdmissibleInvariant == Spec => []AdmissibleInv
<1>1. TypeOK /\ AdmissibleInv /\ [Next]_vars => AdmissibleInv'
  BY AdmissibleStep
<1> QED  BY <1>1, AdmissibleInit, TypeCorrect, PTL DEF Spec

\* What is stored passed the validation of PutDraft and was last written by a
\* principal that may write in its tenant.
THEOREM StoredIsChecked == Spec => []StoredIsAdmissible
<1>1. AdmissibleInv => StoredIsAdmissible
  BY DEF AdmissibleInv
<1> QED  BY <1>1, AdmissibleInvariant, PTL

-----------------------------------------------------------------------------
(* What Resolve serves was approved by somebody other than its submitter,  *)
(* however requests interleave and whatever expected_version clients send, *)
(* provided drafts are created with PublishedRevision 0.                   *)

\* A row keeps its key, body and submitter, and all of it once reviewed.
RowsKept ==
    \A row \in revisions : \E new \in revisions' :
        /\ new.scope = row.scope /\ new.revision = row.revision
        /\ new.content = row.content /\ new.createdBy = row.createdBy
        /\ row.status # "pending_approval" => new = row

\* The only step that touches an existing row is a review, of a pending row.
LEMMA RowsAreKept ==
    ASSUME TypeOK, [Next]_vars
    PROVE  RowsKept
<1>1. CASE revisions \subseteq revisions'
  BY <1>1 DEF RowsKept
<1>2. ASSUME NEW h \in Handlers, ReviewTx(h), revisions' = UpdateRevisionReview(handlers[h])
      PROVE  RowsKept
  <2> DEFINE q == handlers[h]
  <2>1. ASSUME NEW row \in revisions, row \in ReviewedRows(q)
        PROVE  \E new \in revisions' :
                  /\ new.scope = row.scope /\ new.revision = row.revision
                  /\ new.content = row.content /\ new.createdBy = row.createdBy
                  /\ row.status # "pending_approval" => new = row
    <3> DEFINE new == [row EXCEPT !.status = q.op, !.reviewedBy = q.caller.id]
    <3>1. new \in revisions'
      BY <1>2, <2>1 DEF UpdateRevisionReview
    <3>2. row.status = "pending_approval" /\ row \in Row
      BY <2>1 DEF ReviewedRows, TypeOK
    <3>3. /\ new.scope = row.scope /\ new.revision = row.revision
          /\ new.content = row.content /\ new.createdBy = row.createdBy
      BY <3>2 DEF Row
    <3> HIDE DEF new
    <3> QED  BY <3>1, <3>2, <3>3
  <2>2. ASSUME NEW row \in revisions, row \notin ReviewedRows(q)
        PROVE  row \in revisions'
    BY <1>2, <2>2 DEF UpdateRevisionReview
  <2> QED  BY <2>1, <2>2 DEF RowsKept
<1>3. \/ revisions \subseteq revisions'
      \/ \E h \in Handlers : ReviewTx(h) /\ revisions' = UpdateRevisionReview(handlers[h])
  <2>1. CASE UNCHANGED vars
    BY <2>1 DEF vars
  <2>2. ASSUME NEW h \in Handlers, Step(h)
        PROVE  \/ revisions \subseteq revisions'
               \/ ReviewTx(h) /\ revisions' = UpdateRevisionReview(handlers[h])
    <3>1. CASE PutDraft(h) \/ Rollback(h) \/ RollbackRead(h) \/ DatabaseError(h)
      BY <3>1 DEF PutDraft, Rollback, RollbackRead, DatabaseError, Refuse, Begin, tables
    <3>2. CASE Publish(h) \/ SubmitForApproval(h) \/ Approve(h) \/ Reject(h)
      BY <3>2 DEF Publish, SubmitForApproval, Approve, Reject, ReadForChange, Refuse, Begin, tables
    <3>3. CASE InsertTx(h) \/ DraftTx(h) \/ PublishTx(h)
      BY <3>3 DEF InsertTx, DraftTx, PublishTx, Refuse, tables
    <3>4. CASE SubmitTx(h) \/ RollbackTx(h)
      BY <3>4 DEF SubmitTx, RollbackTx, Refuse, tables
    <3>5. CASE ReviewTx(h)
      BY <3>5 DEF ReviewTx, Refuse, tables
    <3> QED  BY <2>2, <3>1, <3>2, <3>3, <3>4, <3>5 DEF Step
  <2> QED  BY <2>1, <2>2 DEF Next
<1> QED  BY <1>1, <1>2, <1>3

\* What is known of the rows survives any step that keeps them.
LEMMA ApprovedKept ==
    ASSUME RowsKept, NEW s, NEW b, ApprovedContent(s, b)
    PROVE  ApprovedContent(s, b)'
<1>1. PICK row \in revisions : row.scope = s /\ row.status = "approved" /\ row.content = b
  BY DEF ApprovedContent
<1>2. row \in revisions'
  BY <1>1 DEF RowsKept
<1> QED  BY <1>1, <1>2 DEF ApprovedContent

LEMMA BackedKept ==
    ASSUME RowsKept, NEW s, NEW n, Backed(s, n)
    PROVE  Backed(s, n)'
<1>1. PICK row \in revisions :
        /\ row.scope = s /\ row.revision = n
        /\ row.status \in {"approved", "published"}
        /\ ApprovedContent(s, row.content)
  BY DEF Backed
<1>2. row \in revisions'
  BY <1>1 DEF RowsKept
<1>3. ApprovedContent(s, row.content)'
  BY <1>1, ApprovedKept
<1> QED  BY <1>1, <1>2, <1>3 DEF Backed

LEMMA EntryBackedKept ==
    ASSUME RowsKept, NEW s, NEW e, EntryBacked(s, e)
    PROVE  EntryBacked(s, e)'
<1>1. e.publishedRevision > 0 => Backed(s, e.publishedRevision)'
  BY BackedKept DEF EntryBacked
<1>2. ASSUME e.status = "pending_approval"
      PROVE  \E row \in revisions' : RowOf(s, e, row) /\ row.createdBy = e.updatedBy
  BY <1>2 DEF EntryBacked, RowsKept, RowOf
<1>3. ASSUME e.status \in {"approved", "rejected"}
      PROVE  \E row \in revisions' : RowOf(s, e, row) /\ row.status = e.status
  BY <1>3 DEF EntryBacked, RowsKept, RowOf
<1>4. ASSUME e.status = "published"
      PROVE  \E row \in revisions' : RowOf(s, e, row) /\ row.status \in {"approved", "published"}
  BY <1>4 DEF EntryBacked, RowsKept, RowOf
<1> QED  BY <1>1, <1>2, <1>3, <1>4 DEF EntryBacked, RowOf

LEMMA RequestBackedKept ==
    ASSUME RowsKept, NEW q, RequestBacked(q)
    PROVE  RequestBacked(q)'
  BY EntryBackedKept, ApprovedKept DEF RequestBacked

\* A handler that moves to a sound request leaves all requests sound.
LEMMA HandlersStep ==
    ASSUME TypeOK, RowsKept, \A g \in Handlers : RequestBacked(handlers[g]),
           NEW h \in Handlers, NEW q, RequestBacked(q)',
           handlers' = [handlers EXCEPT ![h] = q]
    PROVE  \A g \in Handlers : RequestBacked(handlers[g])'
<1> TAKE g \in Handlers
<1>1. PICK p : p = handlers[g]
  OBVIOUS
<1>2. RequestBacked(p)'
  BY <1>1, RequestBackedKept
<1>3. handlers'[g] = p \/ handlers'[g] = q
  BY <1>1 DEF TypeOK
<1> QED  BY <1>2, <1>3

\* An answered request claims nothing.
LEMMA AnswerStep ==
    ASSUME TypeOK, RowsKept, \A g \in Handlers : RequestBacked(handlers[g]),
           NEW h \in Handlers, NEW code, NEW s, NEW v, Answer(h, code, s, v)
    PROVE  \A g \in Handlers : RequestBacked(handlers[g])'
<1>1. PICK q : q = [stage |-> "done", outcome |-> Outcome(code), scope |-> s, version |-> v]
  OBVIOUS
<1>2. RequestBacked(q)'
  BY <1>1 DEF RequestBacked
<1> QED  BY <1>1, <1>2, HandlersStep DEF Answer

\* As long as the tables stay as they are, only the requests need care.
LEMMA TablesUnchanged ==
    ASSUME RowsInv, EntriesInv, UNCHANGED tables
    PROVE  RowsInv' /\ EntriesInv'
  BY DEF RowsInv, EntriesInv, tables, IndependentReview, ApprovedContent, Exists,
         EntryBacked, Backed, RowOf

LEMMA RefuseStep ==
    ASSUME TypeOK, ApprovalInv, RowsKept, NEW h \in Handlers, NEW code, NEW s, Refuse(h, code, s)
    PROVE  ApprovalInv'
<1>1. \A g \in Handlers : RequestBacked(handlers[g])'
  BY AnswerStep DEF Refuse, ApprovalInv
<1> QED  BY <1>1, TablesUnchanged DEF Refuse, ApprovalInv

LEMMA BeginStep ==
    ASSUME TypeOK, ApprovalInv, RowsKept, NEW h \in Handlers, NEW q, RequestBacked(q),
           handlers' = [handlers EXCEPT ![h] = q], UNCHANGED tables
    PROVE  ApprovalInv'
<1>1. RequestBacked(q)'
  BY RequestBackedKept
<1>2. \A g \in Handlers : RequestBacked(handlers[g])'
  BY <1>1, HandlersStep DEF ApprovalInv
<1> QED  BY <1>2, TablesUnchanged DEF ApprovalInv

\* What Publish, SubmitForApproval and review have checked when they begin.
LEMMA ReadForChangeStep ==
    ASSUME TypeOK, ApprovalInv, RowsKept, NEW h \in Handlers, NEW op, NEW allowed,
           \/ op = "published" /\ allowed = PublishableStatus
           \/ op = "pending_approval"
           \/ op \in {"approved", "rejected"} /\ allowed = ReviewableStatus,
           ReadForChange(h, op, allowed)
    PROVE  ApprovalInv'
<1>1. PICK c \in Principals, s \in Scopes :
        \/ \E code : Refuse(h, code, s)
        \/ /\ Exists(s) /\ entries[s].status \in allowed
           /\ ~(op \in {"approved", "rejected"} /\ OwnSubmission(c, entries[s]))
           /\ \E x \in ExpectedVersions(s) :
                Begin(h, "update", op, c, s, x, entries[s].content, entries[s])
  BY DEF ReadForChange
<1>2. CASE \E code : Refuse(h, code, s)
  BY <1>2, RefuseStep
<1>3. ASSUME Exists(s), entries[s].status \in allowed,
             ~(op \in {"approved", "rejected"} /\ OwnSubmission(c, entries[s])),
             NEW x \in ExpectedVersions(s),
             Begin(h, "update", op, c, s, x, entries[s].content, entries[s])
      PROVE  ApprovalInv'
  <2>1. PICK q : q = [stage |-> "update", op |-> op, caller |-> c, scope |-> s, expected |-> x,
                      content |-> entries[s].content, current |-> entries[s]]
    OBVIOUS
  <2>2. EntryBacked(s, entries[s])
    BY <1>3 DEF ApprovalInv, EntriesInv
  <2>3. /\ q.stage = "update" /\ q.op = op /\ q.caller = c /\ q.scope = s
        /\ q.current = entries[s]
    BY <2>1
  <2>4. RequestBacked(q)
    BY <1>3, <2>2, <2>3 DEF RequestBacked, PublishableStatus, ReviewableStatus, OwnSubmission
  <2> QED  BY <1>3, <2>1, <2>4, BeginStep DEF Begin
<1> QED  BY <1>1, <1>2, <1>3

\* A commit preserves the invariant if the rows it leaves are sound and back
\* the entry it writes.
LEMMA CommitStep ==
    ASSUME TypeOK, ApprovalInv, RowsKept, RowsInv',
           NEW h \in Handlers, NEW s \in Scopes, NEW e, Commit(h, s, e),
           EntryBacked(s, e)',
           e.status = "pending_approval" =>
               \E row \in revisions' : /\ row.scope = s /\ row.revision = e.revision
                                       /\ row.status = "pending_approval",
           \A row \in revisions : row.scope # s => row \in revisions'
    PROVE  ApprovalInv'
<1>1. \A g \in Handlers : RequestBacked(handlers[g])'
  BY AnswerStep DEF Commit, ApprovalInv
<1>2. ASSUME NEW t \in Scopes, Exists(t)'
      PROVE  /\ EntryBacked(t, entries[t])'
             /\ entries'[t].status = "pending_approval" =>
                  \E row \in revisions' : /\ row.scope = t /\ row.revision = entries'[t].revision
                                          /\ row.status = "pending_approval"
  <2>1. CASE t = s
    <3>1. entries'[t] = e
      BY <2>1 DEF Commit, TypeOK
    <3> QED  BY <2>1, <3>1
  <2>2. CASE t # s
    <3>1. entries'[t] = entries[t]
      BY <2>2 DEF Commit, TypeOK
    <3>2. Exists(t)
      BY <1>2, <3>1 DEF Exists, NoEntry
    <3>3. PICK d : d = entries[t]
      OBVIOUS
    <3>4. EntryBacked(t, d)'
      BY <3>2, <3>3, EntryBackedKept DEF ApprovalInv, EntriesInv
    <3>5. entries[t].status = "pending_approval" =>
             \E row \in revisions' : /\ row.scope = t /\ row.revision = entries[t].revision
                                     /\ row.status = "pending_approval"
      BY <2>2, <3>2 DEF ApprovalInv, EntriesInv
    <3> QED  BY <3>1, <3>3, <3>4, <3>5
  <2> QED  BY <2>1, <2>2
<1>3. EntriesInv'
  BY <1>2 DEF EntriesInv
<1> QED  BY <1>1, <1>3 DEF ApprovalInv

\* A snapshot of a submission, or of a rollback to an approved body, keeps the
\* rows sound.
LEMMA SnapshotRows ==
    ASSUME TypeOK, RowsInv, RowsKept, NEW s \in Scopes, NEW e \in Entry, SnapshotAllowed(s, e),
           revisions' = revisions \cup {Snapshot(s, e)},
           \/ e.status = "pending_approval"
           \/ e.status = "published" /\ ApprovedContent(s, e.content)
    PROVE  RowsInv'
<1>1. PICK new : new = Snapshot(s, e)
  OBVIOUS
<1>2. /\ new.scope = s /\ new.revision = e.revision /\ new.content = e.content
      /\ new.status = e.status
  BY <1>1 DEF Snapshot
<1>3. \A row \in revisions : ~(row.scope = new.scope /\ row.revision = new.revision)
  BY <1>2 DEF SnapshotAllowed, HasRow
<1>4. \A r1, r2 \in revisions' : r1.scope = r2.scope /\ r1.revision = r2.revision => r1 = r2
  BY <1>1, <1>3 DEF RowsInv
<1>5. IndependentReview'
  BY <1>1, <1>2 DEF RowsInv, IndependentReview
<1>6. ASSUME NEW row \in revisions', row.status = "published"
      PROVE  ApprovedContent(row.scope, row.content)'
  <2>1. CASE row \in revisions
    BY <1>6, <2>1, ApprovedKept DEF RowsInv
  <2>2. CASE row = new
    BY <1>2, <1>6, <2>2, ApprovedKept
  <2> QED  BY <1>1, <2>1, <2>2
<1> QED  BY <1>4, <1>5, <1>6 DEF RowsInv

\* A review keeps the rows sound: the pending row it matches is the one its
\* entry was read with, so the reviewer is not the submitter.
LEMMA ReviewRows ==
    ASSUME TypeOK, RowsInv, RowsKept, NEW q \in Open, RequestBacked(q), q.stage = "update",
           q.op \in {"approved", "rejected"}, revisions' = UpdateRevisionReview(q)
    PROVE  RowsInv'
<1>1. ASSUME NEW row \in ReviewedRows(q)
      PROVE  row \in Row /\ row.createdBy = q.current.updatedBy /\ row \in revisions
  BY DEF ReviewedRows, RowsInv, RequestBacked, EntryBacked, RowOf, TypeOK
<1>2. ASSUME NEW new \in revisions', new \notin revisions
      PROVE  \E row \in ReviewedRows(q) :
                /\ new.scope = row.scope /\ new.revision = row.revision
                /\ new.createdBy = row.createdBy /\ new.content = row.content
                /\ new.status = q.op /\ new.reviewedBy = q.caller.id
  <2>1. PICK row \in ReviewedRows(q) :
          new = [row EXCEPT !.status = q.op, !.reviewedBy = q.caller.id]
    BY <1>2 DEF UpdateRevisionReview
  <2> QED  BY <1>1, <2>1 DEF Row
<1>3. ASSUME NEW new \in revisions', new \in revisions
      PROVE  new \notin ReviewedRows(q)
  <2>1. CASE new \in revisions \ ReviewedRows(q)
    BY <2>1
  <2>2. ASSUME NEW row \in ReviewedRows(q),
               new = [row EXCEPT !.status = q.op, !.reviewedBy = q.caller.id]
        PROVE  new \notin ReviewedRows(q)
    BY <1>1, <2>2 DEF ReviewedRows, Row
  <2> QED  BY <2>1, <2>2 DEF UpdateRevisionReview
<1>4. \A r1, r2 \in revisions' : r1.scope = r2.scope /\ r1.revision = r2.revision => r1 = r2
  <2> SUFFICES ASSUME NEW r1 \in revisions', NEW r2 \in revisions',
                      r1.scope = r2.scope, r1.revision = r2.revision
               PROVE  r1 = r2
    OBVIOUS
  <2>1. CASE r1 \in revisions /\ r2 \in revisions
    BY <2>1 DEF RowsInv
  <2>2. CASE r1 \in revisions /\ r2 \notin revisions
    BY <2>2, <1>1, <1>2, <1>3 DEF RowsInv
  <2>3. CASE r1 \notin revisions /\ r2 \in revisions
    BY <2>3, <1>1, <1>2, <1>3 DEF RowsInv
  <2>4. CASE r1 \notin revisions /\ r2 \notin revisions
    <3>1. PICK a \in ReviewedRows(q) : r1 = [a EXCEPT !.status = q.op, !.reviewedBy = q.caller.id]
      BY <2>4 DEF UpdateRevisionReview
    <3>2. PICK b \in ReviewedRows(q) : r2 = [b EXCEPT !.status = q.op, !.reviewedBy = q.caller.id]
      BY <2>4 DEF UpdateRevisionReview
    <3>3. a = b
      BY <1>1 DEF ReviewedRows, RowsInv
    <3> QED  BY <3>1, <3>2, <3>3
  <2> QED  BY <2>1, <2>2, <2>3, <2>4
<1>5. IndependentReview'
  <2> SUFFICES ASSUME NEW new \in revisions', new.status = "approved"
               PROVE  new.reviewedBy \in Ids \ {new.createdBy}
    BY DEF IndependentReview
  <2>1. CASE new \in revisions
    BY <2>1 DEF RowsInv, IndependentReview
  <2>2. CASE new \notin revisions
    <3>1. q.caller.id \in Ids /\ q.caller.id # q.current.updatedBy
      BY DEF Open, Ids, RequestBacked
    <3> QED  BY <1>1, <1>2, <2>2, <3>1
  <2> QED  BY <2>1, <2>2
<1>6. ASSUME NEW row \in revisions', row.status = "published"
      PROVE  ApprovedContent(row.scope, row.content)'
  BY <1>2, <1>6, ApprovedKept DEF RowsInv
<1> QED  BY <1>4, <1>5, <1>6 DEF RowsInv

\* One transaction, whichever operation it belongs to.
LEMMA TransactionStep ==
    ASSUME TypeOK, ApprovalInv, RowsKept, NEW h \in Handlers,
           \/ InsertTx(h) \/ DraftTx(h) \/ SubmitTx(h) \/ PublishTx(h)
           \/ ReviewTx(h) \/ RollbackTx(h)
    PROVE  ApprovalInv'
<1>1. PICK q : q = handlers[h]
  OBVIOUS
<1>2. q \in Open /\ q.scope \in Scopes /\ q.current \in Entry /\ q.content \in Contents
  BY <1>1, OpenRequest
  DEF InsertTx, DraftTx, SubmitTx, PublishTx, ReviewTx, RollbackTx, Updating, Open
<1>3. PICK s \in Scopes : s = q.scope
  BY <1>2
<1>4. RequestBacked(q) /\ RowsInv
  BY <1>1 DEF ApprovalInv
<1>5. EntryBacked(s, q.current)
  BY <1>2, <1>3, <1>4 DEF RequestBacked, Open
<1>6. EntryBacked(s, q.current)'
  BY <1>5, EntryBackedKept
<1>7. CASE \E code : Refuse(h, code, q.scope)
  BY <1>7, RefuseStep
<1>8. UNCHANGED revisions => RowsInv'
  BY <1>4 DEF RowsInv, IndependentReview, ApprovedContent
<1>9. ASSUME q.stage = "insert", Commit(h, s, q.current), UNCHANGED <<revisions, outbox>>
      PROVE  ApprovalInv'
  <2>1. q.current.status = "draft"
    BY <1>4, <1>9 DEF RequestBacked
  <2> QED  BY <1>6, <1>8, <1>9, <2>1, CommitStep
<1>10. ASSUME Commit(h, s, Drafted(q)), UNCHANGED <<revisions, outbox>>
       PROVE  ApprovalInv'
  <2>1. PICK e : e = Drafted(q)
    OBVIOUS
  <2>2. e.status = "draft" /\ e.publishedRevision = q.current.publishedRevision
    BY <1>2, <2>1 DEF Drafted, Entry
  <2>3. EntryBacked(s, e)'
    BY <1>6, <2>2 DEF EntryBacked
  <2> QED  BY <1>8, <1>10, <2>1, <2>2, <2>3, CommitStep
<1>11. ASSUME SnapshotAllowed(s, Submitted(q)), Commit(h, s, Submitted(q)),
              revisions' = revisions \cup {Snapshot(s, Submitted(q))}
       PROVE  ApprovalInv'
  <2>1. PICK e : e = Submitted(q)
    OBVIOUS
  <2>2. /\ e \in Entry /\ e.status = "pending_approval"
        /\ e.publishedRevision = q.current.publishedRevision
    BY <1>2, <2>1, WrittenType DEF Submitted, Entry
  <2>3. RowsInv'
    BY <1>4, <1>11, <2>1, <2>2, SnapshotRows
  <2>4. PICK row : row = Snapshot(s, e)
    OBVIOUS
  <2>5. /\ row \in revisions' /\ RowOf(s, e, row) /\ row.createdBy = e.updatedBy
        /\ row.status = "pending_approval"
    BY <1>11, <2>1, <2>2, <2>4 DEF Snapshot, RowOf
  <2>6. EntryBacked(s, e)'
    BY <1>6, <2>2, <2>5 DEF EntryBacked
  <2> QED  BY <1>11, <2>1, <2>3, <2>5, <2>6, CommitStep DEF RowOf
<1>12. ASSUME q.stage = "update", q.op = "published", Commit(h, s, Published(q)), UNCHANGED revisions
       PROVE  ApprovalInv'
  <2>1. PICK e : e = Published(q)
    OBVIOUS
  <2>2. /\ e.status = "published" /\ e.publishedRevision = q.current.revision
        /\ e.revision = q.current.revision /\ e.content = q.current.content
    BY <1>2, <2>1 DEF Published, Entry
  <2>3. PICK row \in revisions : RowOf(s, q.current, row) /\ row.status = "approved"
    BY <1>4, <1>5, <1>12 DEF RequestBacked, EntryBacked
  <2>4. Backed(s, e.publishedRevision)
    BY <2>2, <2>3 DEF Backed, ApprovedContent, RowOf
  <2>5. Backed(s, e.publishedRevision)'
    BY <2>4, BackedKept
  <2>6. EntryBacked(s, e)'
    BY <1>12, <2>2, <2>3, <2>5 DEF EntryBacked, RowOf
  <2> QED  BY <1>8, <1>12, <2>1, <2>2, <2>6, CommitStep
<1>13. ASSUME q.stage = "update", q.op \in {"approved", "rejected"}, ReviewedRows(q) # {},
              Commit(h, s, Reviewed(q)), revisions' = UpdateRevisionReview(q)
       PROVE  ApprovalInv'
  <2>1. PICK e : e = Reviewed(q)
    OBVIOUS
  <2>2. /\ e.status = q.op /\ e.publishedRevision = q.current.publishedRevision
        /\ e.revision = q.current.revision /\ e.content = q.current.content
    BY <1>2, <2>1 DEF Reviewed, Entry
  <2>3. RowsInv'
    BY <1>2, <1>4, <1>13, ReviewRows
  <2>4. PICK row \in ReviewedRows(q) : TRUE
    BY <1>13
  <2>5. row \in Row /\ RowOf(s, q.current, row)
    <3>1. row \in revisions /\ row.scope = s /\ row.revision = q.current.revision
      BY <1>3, <2>4 DEF ReviewedRows
    <3>2. q.current.status = "pending_approval"
      BY <1>4, <1>13 DEF RequestBacked
    <3>3. PICK sent \in revisions : RowOf(s, q.current, sent)
      BY <1>5, <3>2 DEF EntryBacked
    <3>4. sent = row
      BY <1>4, <3>1, <3>3 DEF RowsInv, RowOf
    <3> QED  BY <3>1, <3>3, <3>4 DEF TypeOK
  <2>6. PICK new \in revisions' : new = [row EXCEPT !.status = q.op, !.reviewedBy = q.caller.id]
    BY <1>13 DEF UpdateRevisionReview
  <2>7. RowOf(s, e, new) /\ new.status = e.status
    BY <2>2, <2>5, <2>6 DEF RowOf, Row
  <2>8. EntryBacked(s, e)'
    BY <1>6, <1>13, <2>2, <2>7 DEF EntryBacked
  <2>9. \A r \in revisions : r.scope # s => r \in revisions'
    BY <1>3, <1>13 DEF UpdateRevisionReview, ReviewedRows
  <2> QED  BY <1>13, <2>1, <2>2, <2>3, <2>8, <2>9, CommitStep
<1>14. ASSUME q.stage = "update", q.op = "rolled_back", SnapshotAllowed(s, RolledBack(q)),
              Commit(h, s, RolledBack(q)), revisions' = revisions \cup {Snapshot(s, RolledBack(q))}
       PROVE  ApprovalInv'
  <2>1. PICK e : e = RolledBack(q)
    OBVIOUS
  <2>2. /\ e \in Entry /\ e.status = "published" /\ e.content = q.content
        /\ e.publishedRevision = e.revision
    BY <1>2, <2>1, WrittenType DEF RolledBack, Entry
  <2>3. ApprovedContent(s, e.content)
    BY <1>3, <1>4, <1>14, <2>2 DEF RequestBacked
  <2>4. RowsInv'
    BY <1>4, <1>14, <2>1, <2>2, <2>3, SnapshotRows
  <2>5. PICK row : row = Snapshot(s, e)
    OBVIOUS
  <2>6. row \in revisions' /\ RowOf(s, e, row) /\ row.status = "published"
    BY <1>14, <2>1, <2>2, <2>5 DEF Snapshot, RowOf
  <2>7. ApprovedContent(s, e.content)'
    BY <2>3, ApprovedKept
  <2>8. Backed(s, e.publishedRevision)'
    BY <2>2, <2>6, <2>7 DEF Backed, RowOf
  <2>9. EntryBacked(s, e)'
    BY <2>2, <2>6, <2>8 DEF EntryBacked
  <2> QED  BY <1>14, <2>1, <2>2, <2>4, <2>9, CommitStep
<1>15. CASE InsertTx(h)
  BY <1>1, <1>3, <1>7, <1>9, <1>15 DEF InsertTx
<1>16. CASE DraftTx(h)
  BY <1>1, <1>3, <1>7, <1>10, <1>16 DEF DraftTx
<1>17. CASE SubmitTx(h)
  BY <1>1, <1>3, <1>7, <1>11, <1>17 DEF SubmitTx
<1>18. CASE PublishTx(h)
  BY <1>1, <1>3, <1>7, <1>12, <1>18 DEF PublishTx, Updating
<1>19. CASE ReviewTx(h)
  BY <1>1, <1>3, <1>7, <1>13, <1>19 DEF ReviewTx, Updating
<1>20. CASE RollbackTx(h)
  BY <1>1, <1>3, <1>7, <1>14, <1>20 DEF RollbackTx, Updating
<1> QED  BY <1>15, <1>16, <1>17, <1>18, <1>19, <1>20

LEMMA PutDraftStep ==
    ASSUME SentPublishedRevisions = {0}, TypeOK, ApprovalInv, RowsKept,
           NEW h \in Handlers, PutDraft(h)
    PROVE  ApprovalInv'
<1>1. PICK c \in Principals, s \in Scopes, body \in Contents :
        \/ \E code : Refuse(h, code, s)
        \/ Begin(h, "insert", "draft", c, s, 0, body, NewEntry(c, body, 0))
        \/ /\ Exists(s)
           /\ \E x \in ExpectedVersions(s) :
                Begin(h, "update", "draft", c, s, x, body, entries[s])
  BY DEF PutDraft
<1>2. CASE \E code : Refuse(h, code, s)
  BY <1>2, RefuseStep
<1>3. CASE Begin(h, "insert", "draft", c, s, 0, body, NewEntry(c, body, 0))
  <2>1. PICK q : q = [stage |-> "insert", op |-> "draft", caller |-> c, scope |-> s,
                      expected |-> 0, content |-> body, current |-> NewEntry(c, body, 0)]
    OBVIOUS
  <2>2. q.current.publishedRevision = 0 /\ q.current.status = "draft" /\ q.stage = "insert"
    BY <2>1 DEF NewEntry
  <2>3. EntryBacked(q.scope, q.current)
    <3>1. ~(q.current.publishedRevision > 0)
      BY <2>2
    <3>2. q.current.status \notin {"pending_approval", "approved", "rejected", "published"}
      BY <2>2
    <3> QED  BY <3>1, <3>2, Zenon DEF EntryBacked
  <2>4. RequestBacked(q)
    BY <2>2, <2>3 DEF RequestBacked
  <2> QED  BY <1>3, <2>1, <2>4, BeginStep DEF Begin
<1>4. ASSUME Exists(s), NEW x \in ExpectedVersions(s),
             Begin(h, "update", "draft", c, s, x, body, entries[s])
      PROVE  ApprovalInv'
  <2>1. PICK q : q = [stage |-> "update", op |-> "draft", caller |-> c, scope |-> s,
                      expected |-> x, content |-> body, current |-> entries[s]]
    OBVIOUS
  <2>2. EntryBacked(s, entries[s])
    BY <1>4 DEF ApprovalInv, EntriesInv
  <2>3. RequestBacked(q)
    BY <2>1, <2>2 DEF RequestBacked
  <2> QED  BY <1>4, <2>1, <2>3, BeginStep DEF Begin
<1> QED  BY <1>1, <1>2, <1>3, <1>4

\* The body of an approved row is approved; so is that of a published one.
LEMMA RollbackStep ==
    ASSUME TypeOK, ApprovalInv, RowsKept, NEW h \in Handlers, Rollback(h) \/ RollbackRead(h)
    PROVE  ApprovalInv'
<1>1. CASE \E s \in Scopes : \E code : Refuse(h, code, s)
  BY <1>1, RefuseStep
<1>2. ASSUME NEW c \in Principals, NEW s \in Scopes, NEW row \in revisions, NEW x,
             row.scope = s, UNCHANGED tables,
             handlers' = [handlers EXCEPT ![h] =
                 [stage |-> "target", caller |-> c, scope |-> s, expected |-> x, row |-> row]]
      PROVE  ApprovalInv'
  <2>1. PICK q : q = [stage |-> "target", caller |-> c, scope |-> s, expected |-> x, row |-> row]
    OBVIOUS
  <2>2. row.status \in {"approved", "published"} => ApprovedContent(s, row.content)
    BY <1>2 DEF ApprovalInv, RowsInv, ApprovedContent
  <2>3. RequestBacked(q)
    BY <2>1, <2>2 DEF RequestBacked
  <2> QED  BY <1>2, <2>1, <2>3, BeginStep
<1>3. CASE Rollback(h)
  BY <1>1, <1>2, <1>3 DEF Rollback
<1>4. CASE RollbackRead(h)
  <2>1. PICK p : p = handlers[h]
    OBVIOUS
  <2>2. p \in Target /\ p.scope \in Scopes /\ p.stage = "target" /\ RequestBacked(p)
    BY <1>4, <2>1, TargetRequest DEF RollbackRead, Target, ApprovalInv
  <2>3. ASSUME p.row.status \in RollbackTargetStatus, Exists(p.scope),
               Begin(h, "update", "rolled_back", p.caller, p.scope, p.expected,
                     p.row.content, entries[p.scope])
        PROVE  ApprovalInv'
    <3>1. PICK q : q = [stage |-> "update", op |-> "rolled_back", caller |-> p.caller,
                        scope |-> p.scope, expected |-> p.expected,
                        content |-> p.row.content, current |-> entries[p.scope]]
      OBVIOUS
    <3>2. EntryBacked(p.scope, entries[p.scope])
      BY <2>2, <2>3 DEF ApprovalInv, EntriesInv
    <3>3. ApprovedContent(p.scope, p.row.content)
      BY <2>2, <2>3 DEF RequestBacked, RollbackTargetStatus
    <3>4. RequestBacked(q)
      BY <3>1, <3>2, <3>3 DEF RequestBacked
    <3> QED  BY <2>3, <3>1, <3>4, BeginStep DEF Begin
  <2> QED  BY <1>1, <1>4, <2>1, <2>2, <2>3 DEF RollbackRead
<1> QED  BY <1>3, <1>4

LEMMA ApprovalStep ==
    ASSUME SentPublishedRevisions = {0}, TypeOK, ApprovalInv, [Next]_vars
    PROVE  ApprovalInv'
<1>1. RowsKept
  BY RowsAreKept
<1>2. CASE UNCHANGED vars
  <2>1. UNCHANGED tables /\ UNCHANGED handlers
    BY <1>2 DEF vars, tables
  <2>2. \A g \in Handlers : RequestBacked(handlers[g])'
    <3> TAKE g \in Handlers
    <3>1. PICK p : p = handlers[g]
      OBVIOUS
    <3>2. RequestBacked(p)'
      BY <1>1, <3>1, RequestBackedKept DEF ApprovalInv
    <3> QED  BY <2>1, <3>1, <3>2
  <2> QED  BY <2>1, <2>2, TablesUnchanged DEF ApprovalInv
<1>3. ASSUME NEW h \in Handlers, Step(h)
      PROVE  ApprovalInv'
  <2>1. CASE PutDraft(h)
    BY <1>1, <2>1, PutDraftStep
  <2>2. CASE Publish(h) \/ SubmitForApproval(h) \/ Approve(h) \/ Reject(h)
    BY <1>1, <2>2, ReadForChangeStep, RefuseStep DEF Publish, SubmitForApproval, Approve, Reject
  <2>3. CASE Rollback(h) \/ RollbackRead(h)
    BY <1>1, <2>3, RollbackStep
  <2>4. CASE \/ InsertTx(h) \/ DraftTx(h) \/ SubmitTx(h) \/ PublishTx(h)
             \/ ReviewTx(h) \/ RollbackTx(h)
    BY <1>1, <2>4, TransactionStep
  <2>5. CASE DatabaseError(h)
    BY <1>1, <2>5, RefuseStep DEF DatabaseError
  <2> QED  BY <1>3, <2>1, <2>2, <2>3, <2>4, <2>5 DEF Step
<1> QED  BY <1>2, <1>3 DEF Next

LEMMA ApprovalInit == Init => ApprovalInv
<1> SUFFICES ASSUME Init PROVE ApprovalInv
  OBVIOUS
<1>1. \A h \in Handlers : RequestBacked(handlers[h])
  <2> TAKE h \in Handlers
  <2>1. handlers[h].stage = "done"
    BY DEF Init
  <2> QED  BY <2>1 DEF RequestBacked
<1>2. RowsInv
  BY DEF Init, RowsInv, IndependentReview
<1>3. EntriesInv
  BY DEF Init, EntriesInv, Exists
<1> QED  BY <1>1, <1>2, <1>3 DEF ApprovalInv

\* The strengthening is an invariant for any expected versions clients send.
THEOREM ApprovalInvariant ==
    ASSUME SentPublishedRevisions = {0}
    PROVE  Spec => []ApprovalInv
<1>1. TypeOK /\ ApprovalInv /\ [Next]_vars => ApprovalInv'
  BY ApprovalStep
<1> QED  BY <1>1, ApprovalInit, TypeCorrect, PTL DEF Spec

\* Resolve never serves a body that was not approved: for any number of
\* concurrent handlers, and even if clients guess expected versions.
THEOREM ServedIsApproved ==
    ASSUME SentPublishedRevisions = {0}
    PROVE  Spec => []PublishedIsApproved
<1>1. ApprovalInv => PublishedIsApproved
  BY DEF ApprovalInv, EntriesInv, EntryBacked, Backed, PublishedIsApproved
<1> QED  BY <1>1, ApprovalInvariant, PTL

\* No revision is approved by its submitter, although review checks the
\* submitter on an entry read outside the transaction.
THEOREM ReviewIsIndependent ==
    ASSUME SentPublishedRevisions = {0}
    PROVE  Spec => []IndependentReview
<1>1. ApprovalInv => IndependentReview
  BY DEF ApprovalInv, RowsInv
<1> QED  BY <1>1, ApprovalInvariant, PTL

\* Outside draft, an entry and the row of its revision carry the same body and
\* review status: what was reviewed is what Publish makes visible.
THEOREM EntryMatchesSnapshot ==
    ASSUME SentPublishedRevisions = {0}
    PROVE  Spec => []SnapshotAgrees
<1>1. ASSUME TypeOK, ApprovalInv
      PROVE  SnapshotAgrees
  <2> SUFFICES ASSUME NEW s \in Scopes, Exists(s), entries[s].status # "draft"
               PROVE  \E row \in revisions :
                        /\ row.scope = s /\ row.revision = entries[s].revision
                        /\ row.content = entries[s].content
                        /\ \/ row.status = entries[s].status
                           \/ entries[s].status = "published" /\ row.status = "approved"
    BY DEF SnapshotAgrees
  <2>1. EntryBacked(s, entries[s]) /\ entries[s].status \in Status
    BY <1>1, ExistingEntry DEF ApprovalInv, EntriesInv, Entry
  <2>2. CASE entries[s].status = "pending_approval"
    <3>1. PICK r1 \in revisions : /\ r1.scope = s /\ r1.revision = entries[s].revision
                                  /\ r1.status = "pending_approval"
      BY <1>1, <2>2 DEF ApprovalInv, EntriesInv
    <3>2. PICK r2 \in revisions : /\ r2.scope = s /\ r2.revision = entries[s].revision
                                  /\ r2.content = entries[s].content
      BY <2>1, <2>2 DEF EntryBacked, RowOf
    <3>3. r1 = r2
      BY <1>1, <3>1, <3>2 DEF ApprovalInv, RowsInv
    <3> QED  BY <2>2, <3>1, <3>2, <3>3
  <2>3. CASE entries[s].status # "pending_approval"
    BY <2>1, <2>3 DEF EntryBacked, RowOf, Status
  <2> QED  BY <2>2, <2>3
<1> QED  BY <1>1, ApprovalInvariant, TypeCorrect, PTL

\* Review is the only change a revision row ever sees, and it happens once.
THEOREM RevisionsAreImmutable == Spec => RevisionsImmutable
<1> DEFINE Kept == \A row \in revisions : \E new \in revisions' :
                      /\ new.scope = row.scope /\ new.revision = row.revision
                      /\ new.content = row.content /\ new.createdBy = row.createdBy
                      /\ new.status = row.status \/ row.status = "pending_approval"
<1>1. TypeOK /\ [Next]_vars => [Kept]_vars
  BY RowsAreKept DEF RowsKept
<1>2. Spec => [][Kept]_vars
  BY <1>1, TypeCorrect, PTL DEF Spec
<1> QED  BY <1>2 DEF RevisionsImmutable
=============================================================================
