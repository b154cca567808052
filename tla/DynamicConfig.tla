--------------------------- MODULE DynamicConfig ---------------------------
(***************************************************************************)
(* The configuration store and its approval workflow:                      *)
(* internal/dynamicconfig (service.go, repository.go, model.go) over the   *)
(* transactions of internal/database/transaction.go.                       *)
(*                                                                         *)
(* Every request runs in a handler (a goroutine of the HTTP or gRPC        *)
(* server).  A handler first READS the entry outside any transaction and   *)
(* checks its status, the caller and the application grant; it then runs   *)
(* ONE database transaction.  Other handlers run in between.  A            *)
(* transaction is one atomic step, because each of its statements is       *)
(* conditional on rows it locks until the commit.                          *)
(***************************************************************************)
EXTENDS TenantAccess, Integers, Sequences

CONSTANTS
    Handlers,       \* request slots, each serving one request at a time
    Principals,     \* callers: [id, type, tenant]
    Scopes,         \* UNIQUE key of an entry: [tenant, application, key]
    SensitiveKeys,  \* the keys sensitiveKey() recognises
    Contents,       \* draft bodies clients send: [value, secretRef, rollout]
    SentPublishedRevisions, \* PublishedRevision of the request's Entry: {0} over
                            \* HTTP; the gRPC message carries the field
    Lookback,       \* how far an expected_version may lag behind the store,
    Lookahead,      \* and how far it may run ahead of it (0: clients only send
                    \* versions the store has reached)
    MaxVersion      \* bound on the version of an entry

ASSUME BoundsAssumption == Lookback \in Nat /\ Lookahead \in Nat /\ MaxVersion \in Nat
ASSUME SentAssumption == SentPublishedRevisions \subseteq Nat

VARIABLES
    entries,        \* table config_entries, by scope
    revisions,      \* table config_revisions, a set of rows
    outbox,         \* table config_outbox_events, in commit order
    handlers        \* what each handler knows and has answered

vars == <<entries, revisions, outbox, handlers>>
tables == <<entries, revisions, outbox>>

-----------------------------------------------------------------------------
(* Types *)

Ids == {c.id : c \in Principals}

Status == {"draft", "pending_approval", "approved", "rejected", "published"}

\* An operation goes by the status or change type it writes.
Operations == Status \cup {"rolled_back"}

\* Application error codes.  All that is kept of an answer is its Outcome:
\* "refused" stands for every code that is decided before the transaction.
Codes == {"ok", "stale", "internal", "invalid", "unauthorized", "forbidden",
          "unavailable", "not_found", "conflict"}

Outcome(code) == IF code \in {"ok", "stale", "internal"} THEN code ELSE "refused"

Entry == [content : Contents, status : Status, revision : Nat \ {0},
          publishedRevision : Nat, reviewedBy : Ids \cup {""},
          version : Nat \ {0}, updatedBy : Ids]

\* No row in config_entries for the scope.
NoEntry == [version |-> 0]

Row == [scope : Scopes, revision : Nat \ {0}, content : Contents,
        status : Status, reviewedBy : Ids \cup {""}, createdBy : Ids]

OutboxEvent == [scope : Scopes, changeType : Operations, entry : Entry, actor : Ids]

\* Between requests: the last answer, with the version it reported.
Done == [stage : {"done"}, outcome : {"none", "ok", "stale", "internal", "refused"}, scope : Scopes, version : Nat]

\* Rollback has read the revision row and not yet the entry.
Target == [stage : {"target"}, caller : Principals, scope : Scopes,
           expected : Nat, row : Row]

\* All reads and checks are done; the transaction is next.
Open == [stage : {"insert", "update"}, op : Operations, caller : Principals,
         scope : Scopes, expected : Nat, content : Contents, current : Entry]

\* The type invariant.
TypeOK ==
    /\ entries \in [Scopes -> Entry \cup {NoEntry}]
    /\ revisions \subseteq Row
    /\ outbox \in Seq(OutboxEvent)
    /\ handlers \in [Handlers -> Done \cup Target \cup Open]

-----------------------------------------------------------------------------
(* Checks *)

Exists(s) == entries[s] # NoEntry

sensitiveKey(key) == key \in SensitiveKeys

\* The validation at the head of PutDraft.
ValidDraft(s, b) ==
    /\ s.key # ""
    /\ s.tenant = "" => s.application = ""
    /\ b.rollout \in 0 .. 100
    /\ (b.value = "") # (b.secretRef = "")
    /\ sensitiveKey(s.key) => b.secretRef # ""

\* Faulty variants: definitions named Faulty... are never used by Spec.  Each is
\* a plausible error in the definition that follows it, and shows that the
\* properties notice that error.
FaultyPublishableStatus == {"approved", "pending_approval"}

PublishableStatus == {"approved"}

SubmittableStatus == {"draft", "rejected"}

ReviewableStatus == {"pending_approval"}

RollbackTargetStatus == {"approved", "published"}

FaultyOwnSubmission(c, current) == FALSE

\* "submitter cannot review their own configuration"
OwnSubmission(c, current) == c.id = current.updatedBy

-----------------------------------------------------------------------------
(* Handler steps *)

Ready(h) == handlers[h].stage = "done"

Answer(h, code, s, v) ==
    handlers' = [handlers EXCEPT ![h] =
        [stage |-> "done", outcome |-> Outcome(code), scope |-> s, version |-> v]]

\* The handler returns an error: a transaction it had begun is rolled back.
Refuse(h, code, s) == Answer(h, code, s, 0) /\ UNCHANGED tables

\* The reads and checks passed: the handler goes on to its transaction.
Begin(h, stage, op, c, s, x, body, current) ==
    /\ handlers' = [handlers EXCEPT ![h] =
           [stage |-> stage, op |-> op, caller |-> c, scope |-> s,
            expected |-> x, content |-> body, current |-> current]]
    /\ UNCHANGED tables

\* expected_version is whatever the client sends.
ExpectedVersions(s) ==
    {x \in (entries[s].version - Lookback) .. (entries[s].version + Lookahead) :
        0 <= x /\ x < MaxVersion}

\* The entry PutDraft inserts: review fields and PublishedRevision keep the
\* request's values, of which only PublishedRevision matters here.
NewEntry(c, body, published) ==
    [content |-> body, status |-> "draft", revision |-> 1,
     publishedRevision |-> published, reviewedBy |-> "", version |-> 1,
     updatedBy |-> c.id]

PutDraft(h) ==
    /\ Ready(h)
    /\ \E c \in Principals, s \in Scopes, body \in Contents :
         \/ ~ValidDraft(s, body) /\ Refuse(h, "invalid", s)
         \/ /\ ValidDraft(s, body)
            /\ \E code \in Access(c, s) \ {"ok"} : Refuse(h, code, s)
         \/ /\ ValidDraft(s, body) /\ "ok" \in Access(c, s)
            /\ ~Exists(s)
            /\ \E published \in SentPublishedRevisions :
                 Begin(h, "insert", "draft", c, s, 0, body, NewEntry(c, body, published))
         \/ /\ ValidDraft(s, body) /\ "ok" \in Access(c, s)
            /\ Exists(s)
            /\ \E x \in ExpectedVersions(s) :
                 IF x < 1 THEN Refuse(h, "invalid", s)
                          ELSE Begin(h, "update", "draft", c, s, x, body, entries[s])

\* Publish, SubmitForApproval and review up to their transaction: read the
\* entry, check its status, the access, and for a review the submitter.
ReadForChange(h, op, allowed) ==
    /\ Ready(h)
    /\ \E c \in Principals, s \in Scopes :
         \/ ~Exists(s) /\ Refuse(h, "not_found", s)
         \/ Exists(s) /\ entries[s].status \notin allowed /\ Refuse(h, "conflict", s)
         \/ /\ Exists(s) /\ entries[s].status \in allowed
            /\ \E code \in Access(c, s) \ {"ok"} : Refuse(h, code, s)
         \/ /\ Exists(s) /\ entries[s].status \in allowed
            /\ "ok" \in Access(c, s)
            /\ IF op \in {"approved", "rejected"} /\ OwnSubmission(c, entries[s])
               THEN Refuse(h, "conflict", s)
               ELSE \E x \in ExpectedVersions(s) :
                      Begin(h, "update", op, c, s, x, entries[s].content, entries[s])

Publish(h) == ReadForChange(h, "published", PublishableStatus)

SubmitForApproval(h) == ReadForChange(h, "pending_approval", SubmittableStatus)

Approve(h) == ReadForChange(h, "approved", ReviewableStatus)

\* An empty reason is refused before anything is read.
Reject(h) ==
    \/ Ready(h) /\ \E s \in Scopes : Refuse(h, "invalid", s)
    \/ ReadForChange(h, "rejected", ReviewableStatus)

HasRow(s, n) == \E row \in revisions : row.scope = s /\ row.revision = n

\* Rollback reads the revision row first ...
Rollback(h) ==
    /\ Ready(h)
    /\ \E c \in Principals, s \in Scopes :
         \/ /\ \E target \in 1 .. MaxVersion : ~HasRow(s, target)
            /\ Refuse(h, "not_found", s)
         \/ \E row \in revisions, x \in ExpectedVersions(s) :
              /\ row.scope = s
              /\ handlers' = [handlers EXCEPT ![h] =
                     [stage |-> "target", caller |-> c, scope |-> s,
                      expected |-> x, row |-> row]]
              /\ UNCHANGED tables

\* ... then the entry (which exists: rows reference it and entries are never
\* deleted), and only then checks the status of the row it read.
RollbackRead(h) ==
    /\ handlers[h].stage = "target"
    /\ LET q == handlers[h] IN
         \/ /\ q.row.status \notin RollbackTargetStatus
            /\ Refuse(h, "conflict", q.scope)
         \/ /\ q.row.status \in RollbackTargetStatus
            /\ \E code \in Access(q.caller, q.scope) \ {"ok"} : Refuse(h, code, q.scope)
         \/ /\ q.row.status \in RollbackTargetStatus
            /\ "ok" \in Access(q.caller, q.scope)
            /\ Exists(q.scope)
            /\ Begin(h, "update", "rolled_back", q.caller, q.scope, q.expected,
                     q.row.content, entries[q.scope])

-----------------------------------------------------------------------------
(* Transactions *)

FaultyUpdateMatches(q) == TRUE

\* Repository.Update: UPDATE ... WHERE id = ? AND version = expected.
UpdateMatches(q) == entries[q.scope].version = q.expected

FaultyDraftedKeepsStatus(q) ==
    [q.current EXCEPT !.content = q.content, !.revision = @ + 1, !.reviewedBy = "",
        !.version = q.expected + 1, !.updatedBy = q.caller.id]

FaultyDraftedKeepsRevision(q) ==
    [q.current EXCEPT !.content = q.content, !.status = "draft", !.reviewedBy = "",
        !.version = q.expected + 1, !.updatedBy = q.caller.id]

FaultyDraftedUnpublishes(q) ==
    [q.current EXCEPT !.content = q.content, !.status = "draft",
        !.revision = @ + 1, !.publishedRevision = 0, !.reviewedBy = "",
        !.version = q.expected + 1, !.updatedBy = q.caller.id]

\* The entry the handler writes, computed from the entry it READ.
Drafted(q) ==
    [q.current EXCEPT !.content = q.content, !.status = "draft",
        !.revision = @ + 1, !.reviewedBy = "",
        !.version = q.expected + 1, !.updatedBy = q.caller.id]

Submitted(q) ==
    [q.current EXCEPT !.status = "pending_approval", !.reviewedBy = "",
        !.version = q.expected + 1, !.updatedBy = q.caller.id]

Published(q) ==
    [q.current EXCEPT !.status = "published", !.publishedRevision = q.current.revision,
        !.version = q.expected + 1, !.updatedBy = q.caller.id]

Reviewed(q) ==
    [q.current EXCEPT !.status = q.op, !.reviewedBy = q.caller.id,
        !.version = q.expected + 1, !.updatedBy = q.caller.id]

RolledBack(q) ==
    [q.current EXCEPT !.content = q.content, !.status = "published",
        !.revision = @ + 1, !.publishedRevision = q.current.revision + 1,
        !.version = q.expected + 1, !.updatedBy = q.caller.id]

\* Repository.Snapshot: the row inserted for entry e.
Snapshot(s, e) ==
    [scope |-> s, revision |-> e.revision, content |-> e.content,
     status |-> e.status, reviewedBy |-> e.reviewedBy, createdBy |-> e.updatedBy]

\* UNIQUE (entry_id, revision) of config_revisions.
SnapshotAllowed(s, e) == ~HasRow(s, e.revision)

FaultyReviewedRows(q) ==
    {row \in revisions : row.scope = q.scope /\ row.revision = q.current.revision}

\* The rows UpdateRevisionReview matches: WHERE entry_id, revision, status.
ReviewedRows(q) ==
    {row \in revisions : row.scope = q.scope /\ row.revision = q.current.revision
                          /\ row.status = "pending_approval"}

\* UPDATE config_revisions SET status, reviewed_by for the matching rows.
UpdateRevisionReview(q) ==
    (revisions \ ReviewedRows(q)) \cup
        {[row EXCEPT !.status = q.op, !.reviewedBy = q.caller.id] : row \in ReviewedRows(q)}

FaultyNoRejectedEvent(q, e) ==
    IF q.op = "rejected" THEN outbox
    ELSE Append(outbox, [scope |-> q.scope, changeType |-> q.op, entry |-> e, actor |-> q.caller.id])

FaultyEventOfReadEntry(q, e) ==
    Append(outbox, [scope |-> q.scope, changeType |-> q.op, entry |-> q.current, actor |-> q.caller.id])

addChangedEvent(q, e) ==
    Append(outbox, [scope |-> q.scope, changeType |-> q.op, entry |-> e, actor |-> q.caller.id])

\* COMMIT: the answer is ok, or an error when the acknowledgement is lost.
Commit(h, s, e) ==
    /\ entries' = [entries EXCEPT ![s] = e]
    /\ \/ Answer(h, "ok", s, e.version)
       \/ Answer(h, "internal", s, 0)

Updating(h, ops) == handlers[h].stage = "update" /\ handlers[h].op \in ops

InsertTx(h) ==
    /\ handlers[h].stage = "insert"
    /\ LET q == handlers[h] IN
         \/ Exists(q.scope) /\ Refuse(h, "internal", q.scope)
         \/ ~Exists(q.scope) /\ Commit(h, q.scope, q.current) /\ UNCHANGED <<revisions, outbox>>

DraftTx(h) ==
    /\ Updating(h, {"draft"})
    /\ LET q == handlers[h] IN
         \/ ~UpdateMatches(q) /\ Refuse(h, "stale", q.scope)
         \/ UpdateMatches(q) /\ Commit(h, q.scope, Drafted(q)) /\ UNCHANGED <<revisions, outbox>>

SubmitTx(h) ==
    /\ Updating(h, {"pending_approval"})
    /\ LET q == handlers[h]
           e == Submitted(q) IN
         \/ ~UpdateMatches(q) /\ Refuse(h, "stale", q.scope)
         \/ UpdateMatches(q) /\ ~SnapshotAllowed(q.scope, e) /\ Refuse(h, "internal", q.scope)
         \/ /\ UpdateMatches(q) /\ SnapshotAllowed(q.scope, e)
            /\ Commit(h, q.scope, e)
            /\ revisions' = revisions \cup {Snapshot(q.scope, e)}
            /\ outbox' = addChangedEvent(q, e)

PublishTx(h) ==
    /\ Updating(h, {"published"})
    /\ LET q == handlers[h] IN
         \/ ~UpdateMatches(q) /\ Refuse(h, "stale", q.scope)
         \/ /\ UpdateMatches(q)
            /\ Commit(h, q.scope, Published(q))
            /\ outbox' = addChangedEvent(q, Published(q))
            /\ UNCHANGED revisions

\* The row's review and the entry's update: either no match rolls both back.
ReviewTx(h) ==
    /\ Updating(h, {"approved", "rejected"})
    /\ LET q == handlers[h] IN
         \/ /\ ReviewedRows(q) = {} \/ ~UpdateMatches(q)
            /\ Refuse(h, "stale", q.scope)
         \/ /\ ReviewedRows(q) # {} /\ UpdateMatches(q)
            /\ Commit(h, q.scope, Reviewed(q))
            /\ revisions' = UpdateRevisionReview(q)
            /\ outbox' = addChangedEvent(q, Reviewed(q))

RollbackTx(h) ==
    /\ Updating(h, {"rolled_back"})
    /\ LET q == handlers[h]
           e == RolledBack(q) IN
         \/ ~UpdateMatches(q) /\ Refuse(h, "stale", q.scope)
         \/ UpdateMatches(q) /\ ~SnapshotAllowed(q.scope, e) /\ Refuse(h, "internal", q.scope)
         \/ /\ UpdateMatches(q) /\ SnapshotAllowed(q.scope, e)
            /\ Commit(h, q.scope, e)
            /\ revisions' = revisions \cup {Snapshot(q.scope, e)}
            /\ outbox' = addChangedEvent(q, e)

\* A query or statement fails, the request's context ends, or the process
\* dies before the commit: a first read has changed nothing, and the database
\* rolls back a transaction.
DatabaseError(h) ==
    \/ Ready(h) /\ \E s \in Scopes : Refuse(h, "internal", s)
    \/ ~Ready(h) /\ Refuse(h, "internal", handlers[h].scope)

-----------------------------------------------------------------------------
Init ==
    /\ entries = [s \in Scopes |-> NoEntry]
    /\ revisions = {}
    /\ outbox = <<>>
    /\ \E s \in Scopes : handlers = [h \in Handlers |->
           [stage |-> "done", outcome |-> "none", scope |-> s, version |-> 0]]

Step(h) ==
    \/ PutDraft(h) \/ Publish(h) \/ SubmitForApproval(h) \/ Approve(h) \/ Reject(h)
    \/ Rollback(h) \/ RollbackRead(h)
    \/ InsertTx(h) \/ DraftTx(h) \/ SubmitTx(h) \/ PublishTx(h) \/ ReviewTx(h) \/ RollbackTx(h)
    \/ DatabaseError(h)

Next == \E h \in Handlers : Step(h)

Spec == Init /\ [][Next]_vars

-----------------------------------------------------------------------------
(* Properties *)

\* Body b of scope s was approved: some revision row with it is approved.
ApprovedContent(s, b) ==
    \E row \in revisions : row.scope = s /\ row.status = "approved" /\ row.content = b

\* What Resolve serves went through review: whatever handlers race (a draft
\* saved over a pending revision, a review of a superseded one, a rollback from
\* any state), the row at published_revision exists and its body was approved.
PublishedIsApproved ==
    \A s \in Scopes : Exists(s) /\ entries[s].publishedRevision > 0 =>
        \E row \in revisions :
            /\ row.scope = s /\ row.revision = entries[s].publishedRevision
            /\ row.status \in {"approved", "published"}
            /\ ApprovedContent(s, row.content)

\* No revision is approved by the caller who submitted it, although review
\* compares the caller with the updated_by of an entry read before the
\* transaction.
IndependentReview ==
    \A row \in revisions : row.status = "approved" => row.reviewedBy \in Ids \ {row.createdBy}

\* Outside draft, an entry and the row of its current revision tell the same
\* story: same body, and the status of the review.  So the body a reviewer saw
\* in the entry is the one that publication makes visible.
SnapshotAgrees ==
    \A s \in Scopes : Exists(s) /\ entries[s].status # "draft" =>
        \E row \in revisions :
            /\ row.scope = s /\ row.revision = entries[s].revision
            /\ row.content = entries[s].content
            /\ \/ row.status = entries[s].status
               \/ entries[s].status = "published" /\ row.status = "approved"

(* The inductive invariant behind the three properties above.  It speaks of   *)
(* the entries the handlers have read as well as of those in the table: a    *)
(* handler's copy may be old, but what it says of the rows stays true.       *)

\* Revision n of s may be served: its row is approved, or copies approved text.
Backed(s, n) ==
    \E row \in revisions :
        /\ row.scope = s /\ row.revision = n
        /\ row.status \in {"approved", "published"}
        /\ ApprovedContent(s, row.content)

RowOf(s, e, row) ==
    row.scope = s /\ row.revision = e.revision /\ row.content = e.content

\* What an entry e of scope s, current or read earlier, says of the rows.
EntryBacked(s, e) ==
    /\ e.publishedRevision > 0 => Backed(s, e.publishedRevision)
    /\ e.status = "pending_approval" =>
          \E row \in revisions : RowOf(s, e, row) /\ row.createdBy = e.updatedBy
    /\ e.status \in {"approved", "rejected"} =>
          \E row \in revisions : RowOf(s, e, row) /\ row.status = e.status
    /\ e.status = "published" =>
          \E row \in revisions : RowOf(s, e, row) /\ row.status \in {"approved", "published"}

\* What a handler's reads and checks have established.
RequestBacked(q) ==
    /\ q.stage \in {"insert", "update"} => EntryBacked(q.scope, q.current)
    /\ q.stage = "insert" => q.current.status = "draft"
    /\ q.stage = "update" =>
         /\ q.op = "published" => q.current.status = "approved"
         /\ q.op \in {"approved", "rejected"} =>
               q.current.status = "pending_approval" /\ q.caller.id # q.current.updatedBy
         /\ q.op = "rolled_back" => ApprovedContent(q.scope, q.content)
    /\ q.stage = "target" /\ q.row.status \in {"approved", "published"} =>
         ApprovedContent(q.scope, q.row.content)

RowsInv ==
    /\ \A r1, r2 \in revisions : r1.scope = r2.scope /\ r1.revision = r2.revision => r1 = r2
    /\ IndependentReview
    /\ \A row \in revisions : row.status = "published" => ApprovedContent(row.scope, row.content)

EntriesInv ==
    \A s \in Scopes : Exists(s) =>
        /\ EntryBacked(s, entries[s])
        /\ entries[s].status = "pending_approval" =>
             \E row \in revisions : /\ row.scope = s /\ row.revision = entries[s].revision
                                    /\ row.status = "pending_approval"

\* The rows are unique and honestly reviewed, and every entry, and every copy
\* of an entry a handler still holds, agrees with them.
ApprovalInv == RowsInv /\ EntriesInv /\ \A h \in Handlers : RequestBacked(handlers[h])

\* Optimistic locking closes the gap between the read and the transaction: a
\* transaction whose version condition holds writes an entry computed from the
\* row it replaces, never from an older one.
NoStaleWrite ==
    \A h \in Handlers :
        /\ handlers[h].stage = "update"
        /\ entries[handlers[h].scope].version = handlers[h].expected
        => handlers[h].current = entries[handlers[h].scope]

\* Submitting a draft and rolling back never run into UNIQUE (entry_id,
\* revision): the revision they would snapshot has no row yet.
SnapshotIsFresh ==
    \A h \in Handlers : LET q == handlers[h] IN
        /\ q.stage = "update"
        /\ entries[q.scope].version = q.expected
        => /\ q.op = "pending_approval" /\ q.current.status = "draft" =>
                  ~HasRow(q.scope, q.current.revision)
           /\ q.op = "rolled_back" => ~HasRow(q.scope, q.current.revision + 1)

\* "only a draft or rejected configuration can be submitted": a submission that
\* read a draft or rejected entry and holds its current version goes through.
SubmittableCanBeSubmitted ==
    \A h \in Handlers : LET q == handlers[h] IN
        q.stage = "update" /\ q.op = "pending_approval" /\ UpdateMatches(q)
        => SnapshotAllowed(q.scope, Submitted(q))

\* An acknowledged write is in the store, and no two requests are told that
\* they wrote the same version of an entry.
OneWinnerPerVersion ==
    \A h \in Handlers : handlers[h].stage = "done" /\ handlers[h].outcome = "ok" =>
        /\ handlers[h].version <= entries[handlers[h].scope].version
        /\ \A g \in Handlers \ {h} :
             handlers[g].stage = "done" /\ handlers[g].outcome = "ok"
                 /\ handlers[g].scope = handlers[h].scope
             => handlers[g].version # handlers[h].version

(* The inductive invariant behind optimistic locking, for clients that only   *)
(* send versions the store has reached (Lookahead = 0).                      *)

\* What a handler has read may be old but never ahead of the table, and is the
\* table's entry if it has its version.  The client's version is not newer.
ReadInv(q) ==
    /\ q.stage = "insert" => /\ q.current.status = "draft"
                             /\ q.current.version = 1
                             /\ q.current.publishedRevision = 0
    /\ q.stage = "update" =>
         /\ Exists(q.scope)
         /\ q.expected <= q.current.version
         /\ q.current.version <= entries[q.scope].version
         /\ q.current.version = entries[q.scope].version => q.current = entries[q.scope]
    /\ q.stage = "target" => q.expected <= entries[q.scope].version

\* An entry's revision is ahead of the live one and of its rows, strictly so
\* while it is a draft.
RevisionOrder ==
    /\ \A s \in Scopes : Exists(s) => entries[s].publishedRevision <= entries[s].revision
    /\ \A row \in revisions :
         /\ Exists(row.scope)
         /\ row.revision <= entries[row.scope].revision
         /\ entries[row.scope].status = "draft" => row.revision < entries[row.scope].revision

\* Reads lag, revisions grow, and every announced version was committed.
LockInv ==
    /\ RevisionOrder
    /\ \A h \in Handlers : ReadInv(handlers[h])
    /\ \A i \in DOMAIN outbox : outbox[i].entry.version <= entries[outbox[i].scope].version

\* A principal that may write in the scope's tenant.
MayWrite(c, s) == c.type # "none" /\ (c.type = "user" => c.tenant = s.tenant)

\* Whatever path wrote it, a stored entry was last written by a service or a
\* user of its tenant, and every stored body passes the validation of PutDraft:
\* later operations only copy bodies.
StoredIsAdmissible ==
    /\ \A s \in Scopes : Exists(s) =>
         /\ ValidDraft(s, entries[s].content)
         /\ \E c \in Principals : c.id = entries[s].updatedBy /\ MayWrite(c, s)
    /\ \A row \in revisions : ValidDraft(row.scope, row.content)

\* The same of what the handlers have read and checked: together they are
\* inductive.
AdmissibleInv ==
    /\ StoredIsAdmissible
    /\ \A h \in Handlers : LET q == handlers[h] IN
         /\ q.stage \in {"insert", "update"} =>
              /\ ValidDraft(q.scope, q.current.content) /\ ValidDraft(q.scope, q.content)
              /\ MayWrite(q.caller, q.scope)
         /\ q.stage = "insert" => q.current.updatedBy = q.caller.id
         /\ q.stage = "target" => ValidDraft(q.scope, q.row.content)

\* Every committed change other than a draft is announced exactly once, with
\* the entry as committed, in version order; drafts are not announced.
ChangesAnnounced ==
    /\ \A i, j \in DOMAIN outbox : i < j /\ outbox[i].scope = outbox[j].scope =>
           outbox[i].entry.version < outbox[j].entry.version
    /\ \A s \in Scopes : Exists(s) =>
           IF entries[s].status = "draft"
           THEN \A i \in DOMAIN outbox : outbox[i].scope = s =>
                    outbox[i].entry.version < entries[s].version
           ELSE \E i \in DOMAIN outbox : outbox[i].scope = s /\ outbox[i].entry = entries[s]

\* A consumer that keeps the event with the highest version per entry knows
\* which revision is live, however many drafts were saved since.
LiveRevisionAnnounced ==
    \A s \in Scopes : Exists(s) =>
        \/ entries[s].publishedRevision = 0
        \/ \E i \in DOMAIN outbox :
             /\ outbox[i].scope = s
             /\ outbox[i].entry.publishedRevision = entries[s].publishedRevision
             /\ \A j \in DOMAIN outbox : outbox[j].scope = s => j <= i

\* A revision row never changes its body or submitter, and leaves
\* pending_approval only once: approved and rejected are final.
RevisionsImmutable ==
    [][\A row \in revisions : \E new \in revisions' :
          /\ new.scope = row.scope /\ new.revision = row.revision
          /\ new.content = row.content /\ new.createdBy = row.createdBy
          /\ new.status = row.status \/ row.status = "pending_approval"]_vars

\* Saving, submitting or rejecting never takes the live revision away, and the
\* live revision only moves forward, to the entry's current revision (rollback
\* included: it publishes a new revision with the old body).
PublishedMovesForward ==
    [][\A s \in Scopes : Exists(s) =>
          \/ entries'[s].publishedRevision = entries[s].publishedRevision
          \/ /\ entries'[s].publishedRevision > entries[s].publishedRevision
             /\ entries'[s].publishedRevision = entries'[s].revision]_vars
=============================================================================
