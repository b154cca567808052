------------------------- MODULE RefinementProofs -------------------------
(***************************************************************************)
(* Optimistic locking: as long as clients only send versions the store has *)
(* reached (Lookahead = 0), the version condition of Repository.Update     *)
(* makes every read-check-write of the service atomic.  With it and with   *)
(* the approval invariant DynamicConfig implements ReviewedConfig.         *)
(***************************************************************************)
EXTENDS DynamicConfigProofs

\* What every committed transaction does to the entry of scope s, written e.
Advance(s, e) ==
    /\ entries' = [entries EXCEPT ![s] = e]
    /\ e \in Entry
    /\ e.version = entries[s].version + 1
    /\ e.publishedRevision <= e.revision
    /\ IF Exists(s)
       THEN /\ entries[s].revision <= e.revision
            /\ e.status = "draft" => entries[s].revision < e.revision
            /\ \/ e.publishedRevision = entries[s].publishedRevision
               \/ /\ e.publishedRevision > entries[s].publishedRevision
                  /\ e.publishedRevision = e.revision
       ELSE e.status = "draft" /\ e.publishedRevision = 0

\* The rows it leaves: old ones, perhaps reviewed, and perhaps a snapshot of e.
RowsAdvance(s, e) ==
    \A new \in revisions' :
        \/ \E row \in revisions : row.scope = new.scope /\ row.revision = new.revision
        \/ new.scope = s /\ new.revision = e.revision /\ e.status # "draft"

\* Its announcement: none for a draft, which leaves the live revision alone.
Announce(s, e) ==
    \/ /\ e.status = "draft" /\ outbox' = outbox
       /\ Exists(s) => e.publishedRevision = entries[s].publishedRevision
    \/ /\ e.status # "draft"
       /\ \E ev \in OutboxEvent : ev.scope = s /\ ev.entry = e /\ outbox' = Append(outbox, ev)

LEMMA SnapshotAdvances ==
    ASSUME NEW s, NEW e, e.status # "draft", revisions' = revisions \cup {Snapshot(s, e)}
    PROVE  RowsAdvance(s, e)
<1>1. Snapshot(s, e).scope = s /\ Snapshot(s, e).revision = e.revision
  BY DEF Snapshot
<1> QED  BY <1>1 DEF RowsAdvance

LEMMA FirstAdvance ==
    ASSUME NEW h, NEW s \in Scopes, NEW e \in Entry, Commit(h, s, e), ~Exists(s),
           entries[s].version = 0, e.version = 1, e.status = "draft", e.publishedRevision = 0
    PROVE  Advance(s, e)
<1>1. e.publishedRevision <= e.revision
  <2>1. e.revision \in Nat
    BY DEF Entry
  <2> QED  BY <2>1
<1>2. entries' = [entries EXCEPT ![s] = e]
  BY DEF Commit
<1> QED  BY <1>1, <1>2 DEF Advance

LEMMA Advances ==
    ASSUME NEW h, NEW s \in Scopes, NEW e \in Entry, NEW old, Commit(h, s, e),
           Exists(s), old = entries[s], e.version = old.version + 1,
           old.revision \in Nat, old.publishedRevision \in Nat,
           old.publishedRevision <= old.revision,
           \/ /\ e.status = "draft" /\ e.revision = old.revision + 1
              /\ e.publishedRevision = old.publishedRevision
           \/ /\ e.status # "draft" /\ e.revision = old.revision
              /\ e.publishedRevision \in {old.publishedRevision, old.revision}
           \/ /\ e.status # "draft" /\ e.revision = old.revision + 1
              /\ e.publishedRevision = e.revision
    PROVE  Advance(s, e)
<1>1. /\ old.revision <= e.revision /\ e.publishedRevision <= e.revision
      /\ e.status = "draft" => old.revision < e.revision
  OBVIOUS
<1>2. \/ e.publishedRevision = old.publishedRevision
      \/ e.publishedRevision > old.publishedRevision /\ e.publishedRevision = e.revision
  OBVIOUS
<1>3. entries' = [entries EXCEPT ![s] = e]
  BY DEF Commit
<1> QED  BY <1>1, <1>2, <1>3 DEF Advance

LEMMA VersionNat ==
    ASSUME TypeOK, NEW s \in Scopes
    PROVE  entries[s].version \in Nat
<1>1. entries[s] \in Entry \/ entries[s] = NoEntry
  BY DEF TypeOK
<1>2. entries[s] \in Entry => entries[s].version \in Nat
  BY DEF Entry
<1>3. NoEntry.version = 0
  BY DEF NoEntry
<1> QED  BY <1>1, <1>2, <1>3

LEMMA NoEntryVersion ==
    ASSUME TypeOK, NEW s \in Scopes
    PROVE  Exists(s) <=> entries[s].version # 0
<1>1. NoEntry.version = 0
  BY DEF NoEntry
<1>2. Exists(s) => entries[s].version # 0
  BY ExistingEntry DEF Entry
<1> QED  BY <1>1, <1>2 DEF Exists

LEMMA AdvanceScope ==
    ASSUME TypeOK, NEW s \in Scopes, NEW e, Advance(s, e)
    PROVE  /\ entries'[s] = e
           /\ \A t \in Scopes \ {s} : entries'[t] = entries[t]
           /\ e.version \in Nat /\ entries[s].version < e.version
           /\ e # NoEntry /\ Exists(s)'
           /\ \A t \in Scopes : entries'[t].version \in Nat /\ entries[t].version <= entries'[t].version
           /\ \A t \in Scopes : Exists(t) => Exists(t)'
<1>1. entries'[s] = e /\ \A t \in Scopes \ {s} : entries'[t] = entries[t]
  BY DEF Advance, TypeOK
<1>2. \A t \in Scopes : entries[t].version \in Nat
  BY VersionNat
<1>3. e.version \in Nat /\ entries[s].version < e.version
  BY <1>2 DEF Advance
<1>4. e # NoEntry
  BY <1>2, <1>3 DEF NoEntry
<1>5. Exists(s)'
  BY <1>1, <1>4 DEF Exists, NoEntry
<1>6. \A t \in Scopes : entries'[t].version \in Nat /\ entries[t].version <= entries'[t].version
  <2> TAKE t \in Scopes
  <2>1. CASE t = s
    BY <1>1, <1>2, <1>3, <2>1
  <2>2. CASE t # s
    BY <1>1, <1>2, <2>2
  <2> QED  BY <2>1, <2>2
<1>7. \A t \in Scopes : Exists(t) => Exists(t)'
  BY <1>1, <1>5 DEF Exists, NoEntry
<1> QED  BY <1>1, <1>3, <1>4, <1>5, <1>6, <1>7

\* What a handler has read stays a lagging read when another one commits.
LEMMA ReadKept ==
    ASSUME TypeOK, NEW q \in Done \cup Target \cup Open, ReadInv(q),
           \/ UNCHANGED entries
           \/ \E s \in Scopes : \E e : Advance(s, e)
    PROVE  ReadInv(q)'
<1>1. CASE UNCHANGED entries
  BY <1>1 DEF ReadInv, Exists, NoEntry
<1>2. ASSUME NEW s \in Scopes, NEW e, Advance(s, e)
      PROVE  ReadInv(q)'
  <2>1. ASSUME q.stage = "update"
        PROVE  /\ Exists(q.scope)'
               /\ q.expected <= q.current.version
               /\ q.current.version <= entries'[q.scope].version
               /\ q.current.version = entries'[q.scope].version => q.current = entries'[q.scope]
    <3>1. q \in Open /\ q.scope \in Scopes /\ q.current.version \in Nat
      BY <2>1 DEF Done, Target, Open, Entry
    <3>2. /\ Exists(q.scope)
          /\ q.expected <= q.current.version
          /\ q.current.version <= entries[q.scope].version
          /\ q.current.version = entries[q.scope].version => q.current = entries[q.scope]
      BY <2>1 DEF ReadInv
    <3>3. CASE q.scope = s
      BY <1>2, <3>1, <3>2, <3>3, VersionNat, AdvanceScope
    <3>4. CASE q.scope # s
      BY <1>2, <3>1, <3>2, <3>4, AdvanceScope
    <3> QED  BY <3>3, <3>4
  <2>2. ASSUME q.stage = "target"
        PROVE  q.expected <= entries'[q.scope].version
    <3>1. q \in Target /\ q.scope \in Scopes /\ q.expected \in Nat
      BY <2>2 DEF Done, Target, Open
    <3>2. q.expected <= entries[q.scope].version
      BY <2>2 DEF ReadInv
    <3> QED  BY <1>2, <3>1, <3>2, VersionNat, AdvanceScope
  <2> QED  BY <2>1, <2>2 DEF ReadInv
<1> QED  BY <1>1, <1>2

\* A handler that moves to a sound request leaves all reads lagging.
LEMMA HandlersRead ==
    ASSUME TypeOK, \A g \in Handlers : ReadInv(handlers[g]),
           \/ UNCHANGED entries
           \/ \E s \in Scopes : \E e : Advance(s, e),
           NEW h \in Handlers, NEW q, ReadInv(q)',
           handlers' = [handlers EXCEPT ![h] = q]
    PROVE  \A g \in Handlers : ReadInv(handlers[g])'
<1> TAKE g \in Handlers
<1>1. PICK p : p = handlers[g]
  OBVIOUS
<1>2. p \in Done \cup Target \cup Open
  BY <1>1 DEF TypeOK
<1>3. ReadInv(p)'
  BY <1>1, <1>2, ReadKept
<1>4. handlers'[g] = p \/ handlers'[g] = q
  BY <1>1 DEF TypeOK
<1> QED  BY <1>3, <1>4

LEMMA AnswerRead ==
    ASSUME TypeOK, \A g \in Handlers : ReadInv(handlers[g]),
           \/ UNCHANGED entries
           \/ \E s \in Scopes : \E e : Advance(s, e),
           NEW h \in Handlers, NEW code, NEW t, NEW v, Answer(h, code, t, v)
    PROVE  \A g \in Handlers : ReadInv(handlers[g])'
<1>1. PICK q : q = [stage |-> "done", outcome |-> Outcome(code), scope |-> t, version |-> v]
  OBVIOUS
<1>2. ReadInv(q)'
  BY <1>1 DEF ReadInv
<1> QED  BY <1>1, <1>2, HandlersRead DEF Answer

LEMMA TablesRead ==
    ASSUME LockInv, UNCHANGED tables, \A g \in Handlers : ReadInv(handlers[g])'
    PROVE  LockInv'
  BY DEF LockInv, RevisionOrder, tables, Exists, NoEntry

LEMMA RefuseRead ==
    ASSUME TypeOK, LockInv, NEW h \in Handlers, NEW code, NEW s, Refuse(h, code, s)
    PROVE  LockInv'
<1>1. \A g \in Handlers : ReadInv(handlers[g])'
  BY AnswerRead DEF Refuse, LockInv, tables
<1> QED  BY <1>1, TablesRead DEF Refuse

LEMMA BeginRead ==
    ASSUME TypeOK, LockInv, NEW h \in Handlers, NEW q, ReadInv(q),
           handlers' = [handlers EXCEPT ![h] = q], UNCHANGED tables
    PROVE  LockInv'
<1>1. ReadInv(q)'
  BY DEF ReadInv, tables, Exists, NoEntry
<1>2. \A g \in Handlers : ReadInv(handlers[g])'
  BY <1>1, HandlersRead DEF LockInv, tables
<1> QED  BY <1>2, TablesRead

\* A client's version is not ahead of the entry it is sent for.
LEMMA ExpectedReached ==
    ASSUME Lookahead = 0, TypeOK, NEW s \in Scopes, NEW x \in ExpectedVersions(s)
    PROVE  x \in Nat /\ x <= entries[s].version
  BY VersionNat, BoundsAssumption DEF ExpectedVersions

\* A handler that has just read an existing entry holds a sound request.
LEMMA UpdateRead ==
    ASSUME Lookahead = 0, TypeOK, LockInv, NEW h \in Handlers, NEW op, NEW c,
           NEW s \in Scopes, NEW x, NEW body, Exists(s),
           x <= entries[s].version,
           Begin(h, "update", op, c, s, x, body, entries[s])
    PROVE  LockInv'
<1>1. PICK q : q = [stage |-> "update", op |-> op, caller |-> c, scope |-> s, expected |-> x,
                    content |-> body, current |-> entries[s]]
  OBVIOUS
<1>2. /\ q.stage = "update" /\ q.scope = s /\ q.expected = x /\ q.current = entries[s]
      /\ entries[s].version <= entries[s].version
  BY <1>1, VersionNat
<1>3. ReadInv(q)
  BY <1>2 DEF ReadInv
<1> QED  BY <1>1, <1>3, BeginRead DEF Begin

\* The reads and checks before a transaction.
LEMMA ReadSteps ==
    ASSUME Lookahead = 0, SentPublishedRevisions = {0}, TypeOK, LockInv, NEW h \in Handlers,
           \/ PutDraft(h) \/ Publish(h) \/ SubmitForApproval(h) \/ Approve(h) \/ Reject(h)
           \/ Rollback(h) \/ RollbackRead(h) \/ DatabaseError(h)
    PROVE  LockInv'
<1>1. CASE \E s : \E code : Refuse(h, code, s)
  BY <1>1, RefuseRead
<1>2. ASSUME NEW op, NEW c, NEW body, NEW s \in Scopes, NEW x \in ExpectedVersions(s),
             Exists(s), Begin(h, "update", op, c, s, x, body, entries[s])
      PROVE  LockInv'
  BY <1>2, UpdateRead, ExpectedReached
<1>3. ASSUME NEW c, NEW body, NEW s,
             Begin(h, "insert", "draft", c, s, 0, body, NewEntry(c, body, 0))
      PROVE  LockInv'
  <2>2. PICK q : q = [stage |-> "insert", op |-> "draft", caller |-> c, scope |-> s,
                      expected |-> 0, content |-> body, current |-> NewEntry(c, body, 0)]
    OBVIOUS
  <2>3. /\ q.stage = "insert" /\ q.current.status = "draft" /\ q.current.version = 1
        /\ q.current.publishedRevision = 0
    BY <2>2 DEF NewEntry
  <2>4. ReadInv(q)
    BY <2>3 DEF ReadInv
  <2> QED  BY <1>3, <2>2, <2>4, BeginRead DEF Begin
<1>4. CASE PutDraft(h)
  <2>1. PICK c \in Principals, s \in Scopes, body \in Contents :
          \/ \E code : Refuse(h, code, s)
          \/ Begin(h, "insert", "draft", c, s, 0, body, NewEntry(c, body, 0))
          \/ /\ Exists(s)
             /\ \E x \in ExpectedVersions(s) :
                  Begin(h, "update", "draft", c, s, x, body, entries[s])
    BY <1>4 DEF PutDraft
  <2> QED  BY <1>1, <1>2, <1>3, <2>1
<1>5. CASE Publish(h) \/ SubmitForApproval(h) \/ Approve(h) \/ Reject(h)
  <2>1. ASSUME NEW op, NEW allowed, ReadForChange(h, op, allowed)
        PROVE  LockInv'
    <3>1. PICK c \in Principals, s \in Scopes :
            \/ \E code : Refuse(h, code, s)
            \/ /\ Exists(s)
               /\ \E x \in ExpectedVersions(s) :
                    Begin(h, "update", op, c, s, x, entries[s].content, entries[s])
      BY <2>1 DEF ReadForChange
    <3> QED  BY <1>1, <1>2, <3>1
  <2> QED  BY <1>1, <1>5, <2>1 DEF Publish, SubmitForApproval, Approve, Reject
<1>6. CASE Rollback(h)
  <2>1. ASSUME NEW c \in Principals, NEW s \in Scopes, NEW row \in revisions,
               NEW x \in ExpectedVersions(s), UNCHANGED tables,
               handlers' = [handlers EXCEPT ![h] =
                   [stage |-> "target", caller |-> c, scope |-> s, expected |-> x, row |-> row]]
        PROVE  LockInv'
    <3>1. PICK q : q = [stage |-> "target", caller |-> c, scope |-> s, expected |-> x, row |-> row]
      OBVIOUS
    <3>2. q.stage = "target" /\ q.scope = s /\ q.expected = x /\ x <= entries[s].version
      BY <2>1, <3>1, ExpectedReached
    <3>3. ReadInv(q)
      BY <3>2 DEF ReadInv
    <3> QED  BY <2>1, <3>1, <3>3, BeginRead
  <2> QED  BY <1>1, <1>6, <2>1 DEF Rollback
<1>7. CASE RollbackRead(h)
  <2>1. PICK p : p = handlers[h]
    OBVIOUS
  <2>2. p.scope \in Scopes /\ p.stage = "target" /\ p.expected <= entries[p.scope].version
    BY <1>7, <2>1, TargetRequest DEF RollbackRead, Target, LockInv, ReadInv
  <2>3. ASSUME Exists(p.scope),
               Begin(h, "update", "rolled_back", p.caller, p.scope, p.expected,
                     p.row.content, entries[p.scope])
        PROVE  LockInv'
    BY <2>2, <2>3, UpdateRead
  <2> QED  BY <1>1, <1>7, <2>1, <2>3 DEF RollbackRead
<1>8. CASE DatabaseError(h)
  BY <1>1, <1>8 DEF DatabaseError
<1> QED  BY <1>4, <1>5, <1>6, <1>7, <1>8

\* A commit that advances the entry preserves the invariant.
LEMMA CommitRead ==
    ASSUME TypeOK, LockInv, NEW h \in Handlers, NEW s \in Scopes, NEW e,
           Commit(h, s, e), Advance(s, e), RowsAdvance(s, e), Announce(s, e)
    PROVE  LockInv'
<1>1. \A g \in Handlers : ReadInv(handlers[g])'
  BY AnswerRead DEF Commit, LockInv
<1>2. /\ entries'[s] = e /\ Exists(s)'
      /\ \A t \in Scopes \ {s} : entries'[t] = entries[t]
      /\ \A t \in Scopes : Exists(t) => Exists(t)'
  BY AdvanceScope
<1>3. /\ e.revision \in Nat /\ e.publishedRevision <= e.revision
      /\ Exists(s) => /\ entries[s].revision <= e.revision
                      /\ e.status = "draft" => entries[s].revision < e.revision
  BY DEF Advance, Entry
<1>4. ASSUME NEW t \in Scopes, Exists(t)'
      PROVE  entries'[t].publishedRevision <= entries'[t].revision
  <2>1. CASE t = s
    BY <1>2, <1>3, <2>1
  <2>2. CASE t # s
    BY <1>2, <1>4, <2>2 DEF LockInv, RevisionOrder, Exists, NoEntry
  <2> QED  BY <2>1, <2>2
<1>5. ASSUME NEW row \in revisions
      PROVE  /\ Exists(row.scope)'
             /\ row.revision <= entries'[row.scope].revision
             /\ entries'[row.scope].status = "draft" => row.revision < entries'[row.scope].revision
  <2>1. /\ Exists(row.scope) /\ row.revision <= entries[row.scope].revision
        /\ entries[row.scope].status = "draft" => row.revision < entries[row.scope].revision
    BY DEF LockInv, RevisionOrder
  <2>2. row.scope \in Scopes /\ row.revision \in Nat
    BY DEF TypeOK, Row
  <2>3. entries[row.scope].revision \in Nat
    BY <2>1, <2>2, ExistingEntry DEF Entry
  <2>4. CASE row.scope = s
    BY <1>2, <1>3, <2>1, <2>2, <2>3, <2>4
  <2>5. CASE row.scope # s
    BY <1>2, <2>1, <2>2, <2>5
  <2> QED  BY <2>4, <2>5
<1>6. ASSUME NEW new \in revisions'
      PROVE  /\ Exists(new.scope)'
             /\ new.revision <= entries'[new.scope].revision
             /\ entries'[new.scope].status = "draft" => new.revision < entries'[new.scope].revision
  <2>1. CASE \E row \in revisions : row.scope = new.scope /\ row.revision = new.revision
    BY <1>5, <2>1
  <2>2. CASE new.scope = s /\ new.revision = e.revision /\ e.status # "draft"
    BY <1>2, <1>3, <2>2
  <2> QED  BY <2>1, <2>2 DEF RowsAdvance
<1>7. RevisionOrder'
  BY <1>4, <1>6 DEF RevisionOrder
<1>8. ASSUME NEW i \in DOMAIN outbox
      PROVE  outbox[i].entry.version <= entries'[outbox[i].scope].version
  <2>1. outbox[i].entry.version <= entries[outbox[i].scope].version
    BY DEF LockInv
  <2>2. outbox[i] \in OutboxEvent
    BY DEF TypeOK
  <2>3. outbox[i].scope \in Scopes /\ outbox[i].entry.version \in Nat
    BY <2>2 DEF OutboxEvent, Entry
  <2> QED  BY <2>1, <2>3, VersionNat, AdvanceScope
<1>9. \A i \in DOMAIN outbox' : outbox'[i].entry.version <= entries'[outbox'[i].scope].version
  <2>1. CASE outbox' = outbox
    BY <1>8, <2>1
  <2>2. ASSUME NEW ev \in OutboxEvent, ev.scope = s, ev.entry = e, outbox' = Append(outbox, ev)
        PROVE  \A i \in DOMAIN outbox' : outbox'[i].entry.version <= entries'[outbox'[i].scope].version
    <3> TAKE i \in DOMAIN outbox'
    <3>1. outbox \in Seq(OutboxEvent)
      BY DEF TypeOK
    <3>2. \/ i \in DOMAIN outbox /\ outbox'[i] = outbox[i]
          \/ outbox'[i] = ev
      BY <2>2, <3>1
    <3>3. e.version <= e.version
      BY AdvanceScope
    <3> QED  BY <1>8, <2>2, <3>2, <3>3, AdvanceScope
  <2> QED  BY <2>1, <2>2 DEF Announce
<1> QED  BY <1>1, <1>7, <1>9 DEF LockInv

\* A transaction whose version condition holds writes over the entry it read.
LEMMA MatchIsCurrent ==
    ASSUME TypeOK, LockInv, NEW h \in Handlers, NEW q, q = handlers[h],
           q.stage = "update", entries[q.scope].version = q.expected
    PROVE  Exists(q.scope) /\ q.current = entries[q.scope]
<1>1. /\ Exists(q.scope) /\ q.expected <= q.current.version
      /\ q.current.version <= entries[q.scope].version
      /\ q.current.version = entries[q.scope].version => q.current = entries[q.scope]
  BY DEF LockInv, ReadInv
<1>2. q.current.version \in Nat /\ q.expected \in Nat
  BY OpenRequest DEF Open, Entry
<1> QED  BY <1>1, <1>2

\* A handler refuses, or its transaction advances the entry.
LEMMA TransactionAdvance ==
    ASSUME TypeOK, LockInv, NEW h \in Handlers,
           \/ InsertTx(h) \/ DraftTx(h) \/ SubmitTx(h) \/ PublishTx(h)
           \/ ReviewTx(h) \/ RollbackTx(h)
    PROVE  \/ \E code : code # "ok" /\ \E s \in Scopes : Refuse(h, code, s)
           \/ \E s \in Scopes : \E e : /\ Commit(h, s, e) /\ Advance(s, e)
                                   /\ RowsAdvance(s, e) /\ Announce(s, e)
<1> DEFINE Goal == \/ \E code : code # "ok" /\ \E s \in Scopes : Refuse(h, code, s)
                   \/ \E s \in Scopes : \E e : /\ Commit(h, s, e) /\ Advance(s, e)
                                           /\ RowsAdvance(s, e) /\ Announce(s, e)
<1>1. PICK q : q = handlers[h]
  OBVIOUS
<1>2. q \in Open /\ q.scope \in Scopes /\ q.current \in Entry
  BY <1>1, OpenRequest
  DEF InsertTx, DraftTx, SubmitTx, PublishTx, ReviewTx, RollbackTx, Updating, Open
<1>3. PICK s \in Scopes : s = q.scope
  BY <1>2
<1>4. /\ q.current.revision \in Nat \ {0} /\ q.current.publishedRevision \in Nat
      /\ q.expected \in Nat /\ q.current.version \in Nat
  BY <1>2 DEF Entry, Open
<1>5. CASE \E code : code # "ok" /\ Refuse(h, code, q.scope)
  BY <1>2, <1>5
<1>6. UNCHANGED revisions => \A e : RowsAdvance(s, e)
  BY DEF RowsAdvance
<1>7. ASSUME q.stage = "update", UpdateMatches(q)
      PROVE  /\ Exists(s) /\ q.current = entries[s] /\ q.expected = entries[s].version
             /\ entries[s].publishedRevision <= entries[s].revision
  <2>1. Exists(s) /\ q.current = entries[s]
    BY <1>1, <1>3, <1>7, MatchIsCurrent DEF UpdateMatches
  <2> QED  BY <1>3, <1>7, <2>1 DEF UpdateMatches, LockInv, RevisionOrder
<1>8. ASSUME NEW e \in Entry, outbox' = addChangedEvent(q, e), e.status # "draft"
      PROVE  Announce(s, e)
  <2>1. PICK ev : ev = [scope |-> q.scope, changeType |-> q.op, entry |-> e, actor |-> q.caller.id]
    OBVIOUS
  <2>2. ev \in OutboxEvent /\ ev.scope = s /\ ev.entry = e
    BY <1>2, <1>3, <2>1 DEF Open, OutboxEvent, Ids
  <2> QED  BY <1>8, <2>1, <2>2 DEF Announce, addChangedEvent
<1>9. ASSUME q.stage = "insert", ~Exists(s), Commit(h, s, q.current), UNCHANGED <<revisions, outbox>>
      PROVE  Goal
  <2>1. /\ q.current.status = "draft" /\ q.current.version = 1 /\ q.current.publishedRevision = 0
    BY <1>1, <1>9 DEF LockInv, ReadInv
  <2>2. entries[s].version = 0
    BY <1>9, NoEntryVersion
  <2>3. Advance(s, q.current)
    BY <1>2, <1>9, <2>1, <2>2, FirstAdvance
  <2>4. Announce(s, q.current)
    BY <1>9, <2>1 DEF Announce
  <2> QED  BY <1>6, <1>9, <2>3, <2>4
<1>10. ASSUME q.stage = "update", UpdateMatches(q), Commit(h, s, Drafted(q)), UNCHANGED <<revisions, outbox>>
       PROVE  Goal
  <2>1. PICK e : e = Drafted(q)
    OBVIOUS
  <2>2. /\ e \in Entry /\ e.status = "draft" /\ e.revision = q.current.revision + 1
        /\ e.publishedRevision = q.current.publishedRevision /\ e.version = q.expected + 1
    BY <1>2, <2>1, WrittenType DEF Drafted, Entry
  <2>3. Advance(s, e)
    <3>1. /\ Exists(s) /\ q.current = entries[s] /\ q.expected = q.current.version
          /\ q.current.publishedRevision <= q.current.revision
      BY <1>7, <1>10
    <3>2. Commit(h, s, e)
      BY <1>10, <2>1
    <3> QED  BY <1>4, <2>2, <3>1, <3>2, Advances
  <2>4. Announce(s, e)
    BY <1>7, <1>10, <2>2 DEF Announce
  <2> QED  BY <1>6, <1>10, <2>1, <2>3, <2>4
<1>11. ASSUME q.stage = "update", UpdateMatches(q), Commit(h, s, Submitted(q)),
              revisions' = revisions \cup {Snapshot(s, Submitted(q))},
              outbox' = addChangedEvent(q, Submitted(q))
       PROVE  Goal
  <2>1. PICK e : e = Submitted(q)
    OBVIOUS
  <2>2. /\ e \in Entry /\ e.status = "pending_approval" /\ e.revision = q.current.revision
        /\ e.publishedRevision = q.current.publishedRevision /\ e.version = q.expected + 1
    BY <1>2, <2>1, WrittenType DEF Submitted, Entry
  <2>3. Advance(s, e)
    <3>1. /\ Exists(s) /\ q.current = entries[s] /\ q.expected = q.current.version
          /\ q.current.publishedRevision <= q.current.revision
      BY <1>7, <1>11
    <3>2. Commit(h, s, e)
      BY <1>11, <2>1
    <3> QED  BY <1>4, <2>2, <3>1, <3>2, Advances
  <2>4. RowsAdvance(s, e)
    BY <1>11, <2>1, <2>2, SnapshotAdvances
  <2> QED  BY <1>8, <1>11, <2>1, <2>2, <2>3, <2>4
<1>12. ASSUME q.stage = "update", UpdateMatches(q), Commit(h, s, Published(q)), UNCHANGED revisions,
              outbox' = addChangedEvent(q, Published(q))
       PROVE  Goal
  <2>1. PICK e : e = Published(q)
    OBVIOUS
  <2>2. /\ e \in Entry /\ e.status = "published" /\ e.revision = q.current.revision
        /\ e.publishedRevision = q.current.revision /\ e.version = q.expected + 1
    BY <1>2, <2>1, WrittenType DEF Published, Entry
  <2>3. Advance(s, e)
    <3>1. /\ Exists(s) /\ q.current = entries[s] /\ q.expected = q.current.version
          /\ q.current.publishedRevision <= q.current.revision
      BY <1>7, <1>12
    <3>2. Commit(h, s, e)
      BY <1>12, <2>1
    <3> QED  BY <1>4, <2>2, <3>1, <3>2, Advances
  <2> QED  BY <1>6, <1>8, <1>12, <2>1, <2>2, <2>3
<1>13. ASSUME q.stage = "update", q.op \in {"approved", "rejected"}, UpdateMatches(q),
              Commit(h, s, Reviewed(q)), revisions' = UpdateRevisionReview(q),
              outbox' = addChangedEvent(q, Reviewed(q))
       PROVE  Goal
  <2>1. PICK e : e = Reviewed(q)
    OBVIOUS
  <2>2. /\ e \in Entry /\ e.status \in {"approved", "rejected"} /\ e.revision = q.current.revision
        /\ e.publishedRevision = q.current.publishedRevision /\ e.version = q.expected + 1
    BY <1>2, <1>13, <2>1, WrittenType DEF Reviewed, Entry
  <2>3. Advance(s, e)
    <3>1. /\ Exists(s) /\ q.current = entries[s] /\ q.expected = q.current.version
          /\ q.current.publishedRevision <= q.current.revision
      BY <1>7, <1>13
    <3>2. Commit(h, s, e)
      BY <1>13, <2>1
    <3> QED  BY <1>4, <2>2, <3>1, <3>2, Advances
  <2>4. ASSUME NEW new \in revisions'
        PROVE  \E row \in revisions : row.scope = new.scope /\ row.revision = new.revision
    <3>1. CASE new \in revisions
      BY <3>1
    <3>2. ASSUME NEW row \in ReviewedRows(q),
                 new = [row EXCEPT !.status = q.op, !.reviewedBy = q.caller.id]
          PROVE  row \in revisions /\ row.scope = new.scope /\ row.revision = new.revision
      BY <3>2 DEF ReviewedRows, TypeOK, Row
    <3> QED  BY <1>13, <3>1, <3>2 DEF UpdateRevisionReview
  <2>5. RowsAdvance(s, e)
    BY <2>4 DEF RowsAdvance
  <2> QED  BY <1>8, <1>13, <2>1, <2>2, <2>3, <2>5
<1>14. ASSUME q.stage = "update", UpdateMatches(q), Commit(h, s, RolledBack(q)),
              revisions' = revisions \cup {Snapshot(s, RolledBack(q))},
              outbox' = addChangedEvent(q, RolledBack(q))
       PROVE  Goal
  <2>1. PICK e : e = RolledBack(q)
    OBVIOUS
  <2>2. /\ e \in Entry /\ e.status = "published" /\ e.revision = q.current.revision + 1
        /\ e.publishedRevision = q.current.revision + 1 /\ e.version = q.expected + 1
    BY <1>2, <2>1, WrittenType DEF RolledBack, Entry
  <2>3. Advance(s, e)
    <3>1. /\ Exists(s) /\ q.current = entries[s] /\ q.expected = q.current.version
          /\ q.current.publishedRevision <= q.current.revision
      BY <1>7, <1>14
    <3>2. Commit(h, s, e)
      BY <1>14, <2>1
    <3> QED  BY <1>4, <2>2, <3>1, <3>2, Advances
  <2>4. RowsAdvance(s, e)
    BY <1>14, <2>1, <2>2, SnapshotAdvances
  <2> QED  BY <1>8, <1>14, <2>1, <2>2, <2>3, <2>4
<1>15. CASE InsertTx(h)
  BY <1>1, <1>3, <1>5, <1>9, <1>15 DEF InsertTx
<1>16. CASE DraftTx(h)
  BY <1>1, <1>3, <1>5, <1>10, <1>16 DEF DraftTx, Updating
<1>17. CASE SubmitTx(h)
  BY <1>1, <1>3, <1>5, <1>11, <1>17 DEF SubmitTx, Updating
<1>18. CASE PublishTx(h)
  BY <1>1, <1>3, <1>5, <1>12, <1>18 DEF PublishTx, Updating
<1>19. CASE ReviewTx(h)
  BY <1>1, <1>3, <1>5, <1>13, <1>19 DEF ReviewTx, Updating
<1>20. CASE RollbackTx(h)
  BY <1>1, <1>3, <1>5, <1>14, <1>20 DEF RollbackTx, Updating
<1> QED  BY <1>15, <1>16, <1>17, <1>18, <1>19, <1>20

LEMMA LockStep ==
    ASSUME Lookahead = 0, SentPublishedRevisions = {0}, TypeOK, LockInv, [Next]_vars
    PROVE  LockInv'
<1>1. CASE UNCHANGED vars
  BY <1>1 DEF vars, LockInv, RevisionOrder, ReadInv, Exists, NoEntry
<1>2. ASSUME NEW h \in Handlers, Step(h)
      PROVE  LockInv'
  <2>1. CASE \/ InsertTx(h) \/ DraftTx(h) \/ SubmitTx(h) \/ PublishTx(h)
             \/ ReviewTx(h) \/ RollbackTx(h)
    BY <2>1, TransactionAdvance, RefuseRead, CommitRead
  <2> QED  BY <1>2, <2>1, ReadSteps DEF Step
<1> QED  BY <1>1, <1>2 DEF Next

LEMMA LockInit == Init => LockInv
<1> SUFFICES ASSUME Init PROVE LockInv
  OBVIOUS
<1>1. \A h \in Handlers : ReadInv(handlers[h])
  <2> TAKE h \in Handlers
  <2>1. handlers[h].stage = "done"
    BY DEF Init
  <2> QED  BY <2>1 DEF ReadInv
<1>2. RevisionOrder
  BY DEF Init, RevisionOrder, Exists
<1>3. \A i \in DOMAIN outbox : outbox[i].entry.version <= entries[outbox[i].scope].version
  BY DEF Init
<1> QED  BY <1>1, <1>2, <1>3 DEF LockInv

\* Reads lag behind the table and revisions grow, in every reachable state.
THEOREM LockInvariant ==
    ASSUME Lookahead = 0, SentPublishedRevisions = {0}
    PROVE  Spec => []LockInv
<1>1. TypeOK /\ LockInv /\ [Next]_vars => LockInv'
  BY LockStep
<1> QED  BY <1>1, LockInit, TypeCorrect, PTL DEF Spec

\* The version condition of Update makes the read outside the transaction safe:
\* what it overwrites is exactly what the handler read and checked.
THEOREM WritesAreNotStale ==
    ASSUME Lookahead = 0, SentPublishedRevisions = {0}
    PROVE  Spec => []NoStaleWrite
<1>1. TypeOK /\ LockInv => NoStaleWrite
  BY MatchIsCurrent DEF NoStaleWrite
<1> QED  BY <1>1, LockInvariant, TypeCorrect, PTL

\* Submitting a draft and rolling back never collide with an existing row.
THEOREM SnapshotsAreFresh ==
    ASSUME Lookahead = 0, SentPublishedRevisions = {0}
    PROVE  Spec => []SnapshotIsFresh
<1>1. ASSUME TypeOK, LockInv
      PROVE  SnapshotIsFresh
  <2> SUFFICES ASSUME NEW h \in Handlers, NEW q, q = handlers[h], q.stage = "update",
                      entries[q.scope].version = q.expected
               PROVE  /\ q.op = "pending_approval" /\ q.current.status = "draft" =>
                            ~HasRow(q.scope, q.current.revision)
                      /\ q.op = "rolled_back" => ~HasRow(q.scope, q.current.revision + 1)
    BY DEF SnapshotIsFresh
  <2>1. Exists(q.scope) /\ q.current = entries[q.scope]
    BY <1>1, MatchIsCurrent
  <2>2. q.current.revision \in Nat
    BY <1>1, OpenRequest DEF Open, Entry
  <2>3. ASSUME NEW row \in revisions, row.scope = q.scope
        PROVE  /\ row.revision \in Nat /\ row.revision <= q.current.revision
               /\ q.current.status = "draft" => row.revision < q.current.revision
    BY <1>1, <2>1, <2>3 DEF LockInv, RevisionOrder, TypeOK, Row
  <2> QED  BY <2>2, <2>3 DEF HasRow
<1> QED  BY <1>1, LockInvariant, TypeCorrect, PTL

\* Every step leaves the tables alone or advances one entry.
LEMMA TablesAdvance ==
    ASSUME TypeOK, LockInv, [Next]_vars
    PROVE  \/ UNCHANGED tables
           \/ \E s \in Scopes : \E e : Advance(s, e) /\ RowsAdvance(s, e) /\ Announce(s, e)
<1>1. CASE UNCHANGED vars
  BY <1>1 DEF vars, tables
<1>2. ASSUME NEW h \in Handlers, Step(h)
      PROVE  \/ UNCHANGED tables
             \/ \E s \in Scopes : \E e : Advance(s, e) /\ RowsAdvance(s, e) /\ Announce(s, e)
  <2>1. CASE PutDraft(h) \/ Rollback(h) \/ RollbackRead(h) \/ DatabaseError(h)
    BY <2>1 DEF PutDraft, Rollback, RollbackRead, DatabaseError, Refuse, Begin
  <2>2. CASE Publish(h) \/ SubmitForApproval(h) \/ Approve(h) \/ Reject(h)
    BY <2>2 DEF Publish, SubmitForApproval, Approve, Reject, ReadForChange, Refuse, Begin
  <2>3. CASE \/ InsertTx(h) \/ DraftTx(h) \/ SubmitTx(h) \/ PublishTx(h)
             \/ ReviewTx(h) \/ RollbackTx(h)
    BY <2>3, TransactionAdvance DEF Refuse
  <2> QED  BY <1>2, <2>1, <2>2, <2>3 DEF Step
<1> QED  BY <1>1, <1>2 DEF Next

\* The live revision is never withdrawn and never moves back.
THEOREM LiveRevisionMovesForward ==
    ASSUME Lookahead = 0, SentPublishedRevisions = {0}
    PROVE  Spec => PublishedMovesForward
<1> DEFINE Forward(s) ==
      \/ entries'[s].publishedRevision = entries[s].publishedRevision
      \/ /\ entries'[s].publishedRevision > entries[s].publishedRevision
         /\ entries'[s].publishedRevision = entries'[s].revision
<1>1. ASSUME TypeOK, LockInv, [Next]_vars, NEW t \in Scopes, Exists(t)
      PROVE  Forward(t)
  <2>1. CASE UNCHANGED tables
    BY <2>1 DEF tables
  <2>2. ASSUME NEW s \in Scopes, NEW e, Advance(s, e)
        PROVE  Forward(t)
    <3>1. CASE t = s
      <4>1. entries'[s] = e
        BY <1>1, <2>2, AdvanceScope
      <4> QED  BY <1>1, <2>2, <3>1, <4>1 DEF Advance
    <3>2. CASE t # s
      BY <1>1, <2>2, <3>2, AdvanceScope
    <3> QED  BY <3>1, <3>2
  <2> QED  BY <1>1, <2>1, <2>2, TablesAdvance
<1>2. TypeOK /\ LockInv /\ [Next]_vars => [\A s \in Scopes : Exists(s) => Forward(s)]_vars
  BY <1>1
<1>3. Spec => [][\A s \in Scopes : Exists(s) => Forward(s)]_vars
  BY <1>2, LockInvariant, TypeCorrect, PTL DEF Spec
<1> QED  BY <1>3 DEF PublishedMovesForward

-----------------------------------------------------------------------------
(* Announcements *)

LEMMA AnnouncedStep ==
    ASSUME TypeOK, LockInv, [Next]_vars, ChangesAnnounced
    PROVE  ChangesAnnounced'
<1>1. CASE UNCHANGED tables
  BY <1>1 DEF tables, ChangesAnnounced, Exists, NoEntry
<1>2. ASSUME NEW s \in Scopes, NEW e, Advance(s, e), Announce(s, e)
      PROVE  ChangesAnnounced'
  <2>1. /\ entries'[s] = e /\ \A t \in Scopes \ {s} : entries'[t] = entries[t]
        /\ e.version \in Nat /\ entries[s].version \in Nat /\ entries[s].version < e.version
    BY <1>2, AdvanceScope, VersionNat
  <2>2. \A t \in Scopes \ {s} : Exists(t)' => Exists(t)
    BY <2>1 DEF Exists, NoEntry
  <2>3. ASSUME NEW i \in DOMAIN outbox, outbox[i].scope = s
        PROVE  outbox[i].entry.version \in Nat /\ outbox[i].entry.version < e.version
    <3>1. outbox[i] \in OutboxEvent
      BY DEF TypeOK
    <3>2. outbox[i].entry.version \in Nat
      BY <3>1 DEF OutboxEvent, Entry
    <3>3. outbox[i].entry.version <= entries[s].version
      BY <2>3 DEF LockInv
    <3> QED  BY <2>1, <3>2, <3>3
  <2>4. CASE e.status = "draft" /\ outbox' = outbox
    <3>1. ASSUME NEW t \in Scopes, Exists(t)'
          PROVE  IF entries'[t].status = "draft"
                 THEN \A i \in DOMAIN outbox : outbox[i].scope = t =>
                          outbox[i].entry.version < entries'[t].version
                 ELSE \E i \in DOMAIN outbox : outbox[i].scope = t /\ outbox[i].entry = entries'[t]
      <4>1. CASE t = s
        BY <2>1, <2>3, <2>4, <4>1
      <4>2. CASE t # s
        BY <2>1, <2>2, <3>1, <4>2 DEF ChangesAnnounced
      <4> QED  BY <4>1, <4>2
    <3> QED  BY <2>4, <3>1 DEF ChangesAnnounced
  <2>5. ASSUME e.status # "draft", NEW ev \in OutboxEvent, ev.scope = s, ev.entry = e,
               outbox' = Append(outbox, ev)
        PROVE  ChangesAnnounced'
    <3>1. outbox \in Seq(OutboxEvent)
      BY DEF TypeOK
    <3>2. PICK n \in Nat : n = Len(outbox)
      BY <3>1
    <3>3. /\ DOMAIN outbox = 1 .. n /\ DOMAIN outbox' = 1 .. (n + 1)
          /\ outbox'[n + 1] = ev /\ \A i \in 1 .. n : outbox'[i] = outbox[i]
      BY <2>5, <3>1, <3>2
    <3>4. ASSUME NEW i \in DOMAIN outbox', NEW j \in DOMAIN outbox', i < j,
                 outbox'[i].scope = outbox'[j].scope
          PROVE  outbox'[i].entry.version < outbox'[j].entry.version
      <4>1. i \in 1 .. n /\ (j \in 1 .. n \/ j = n + 1)
        BY <3>3, <3>4
      <4>2. CASE j \in 1 .. n
        BY <3>3, <3>4, <4>1, <4>2 DEF ChangesAnnounced
      <4>3. CASE j = n + 1
        BY <2>3, <2>5, <3>3, <3>4, <4>1, <4>3
      <4> QED  BY <4>1, <4>2, <4>3
    <3>5. ASSUME NEW t \in Scopes, Exists(t)'
          PROVE  IF entries'[t].status = "draft"
                 THEN \A i \in DOMAIN outbox' : outbox'[i].scope = t =>
                          outbox'[i].entry.version < entries'[t].version
                 ELSE \E i \in DOMAIN outbox' : outbox'[i].scope = t /\ outbox'[i].entry = entries'[t]
      <4>1. CASE t = s
        <5>1. n + 1 \in DOMAIN outbox'
          BY <3>3
        <5> QED  BY <2>1, <2>5, <3>3, <4>1, <5>1
      <4>2. CASE t # s
        <5>1. Exists(t) /\ entries'[t] = entries[t]
          BY <2>1, <2>2, <3>5, <4>2
        <5>2. CASE entries[t].status = "draft"
          <6>1. \A i \in 1 .. n : outbox[i].scope = t => outbox[i].entry.version < entries[t].version
            BY <3>3, <5>1, <5>2 DEF ChangesAnnounced
          <6>2. \A i \in DOMAIN outbox' : i \in 1 .. n \/ i = n + 1
            BY <3>3
          <6> QED  BY <2>5, <3>3, <4>2, <5>1, <5>2, <6>1, <6>2
        <5>3. CASE entries[t].status # "draft"
          <6>1. PICK i \in 1 .. n : outbox[i].scope = t /\ outbox[i].entry = entries[t]
            BY <3>3, <5>1, <5>3 DEF ChangesAnnounced
          <6>2. i \in DOMAIN outbox' /\ outbox'[i] = outbox[i]
            BY <3>3
          <6> QED  BY <5>1, <5>3, <6>1, <6>2
        <5> QED  BY <5>2, <5>3
      <4> QED  BY <4>1, <4>2
    <3> QED  BY <3>4, <3>5 DEF ChangesAnnounced
  <2> QED  BY <1>2, <2>4, <2>5 DEF Announce
<1> QED  BY <1>1, <1>2, TablesAdvance

\* The outbox holds, in version order, exactly one event for every committed
\* change but drafts: the event is written in the transaction it announces.
THEOREM ChangesAreAnnounced ==
    ASSUME Lookahead = 0, SentPublishedRevisions = {0}
    PROVE  Spec => []ChangesAnnounced
<1>1. Init => ChangesAnnounced
  BY DEF Init, ChangesAnnounced, Exists
<1>2. TypeOK /\ LockInv /\ ChangesAnnounced /\ [Next]_vars => ChangesAnnounced'
  BY AnnouncedStep
<1> QED  BY <1>1, <1>2, LockInvariant, TypeCorrect, PTL DEF Spec

LEMMA LiveStep ==
    ASSUME TypeOK, LockInv, [Next]_vars, LiveRevisionAnnounced
    PROVE  LiveRevisionAnnounced'
<1>1. CASE UNCHANGED tables
  BY <1>1 DEF tables, LiveRevisionAnnounced, Exists, NoEntry
<1>2. ASSUME NEW s \in Scopes, NEW e, Advance(s, e), Announce(s, e)
      PROVE  LiveRevisionAnnounced'
  <2>1. entries'[s] = e /\ \A t \in Scopes \ {s} : entries'[t] = entries[t]
    BY <1>2, AdvanceScope
  <2>2. \A t \in Scopes \ {s} : Exists(t)' => Exists(t)
    BY <2>1 DEF Exists, NoEntry
  <2>3. CASE e.status = "draft" /\ outbox' = outbox
             /\ (Exists(s) => e.publishedRevision = entries[s].publishedRevision)
    <3>1. ~Exists(s) => e.publishedRevision = 0
      BY <1>2 DEF Advance
    <3> SUFFICES ASSUME NEW t \in Scopes, Exists(t)'
                 PROVE  \/ entries'[t].publishedRevision = 0
                        \/ \E i \in DOMAIN outbox :
                             /\ outbox[i].scope = t
                             /\ outbox[i].entry.publishedRevision = entries'[t].publishedRevision
                             /\ \A j \in DOMAIN outbox : outbox[j].scope = t => j <= i
      BY <2>3 DEF LiveRevisionAnnounced
    <3>2. CASE t = s /\ ~Exists(s)
      BY <2>1, <3>1, <3>2
    <3>3. CASE Exists(t) /\ entries'[t].publishedRevision = entries[t].publishedRevision
      BY <3>3 DEF LiveRevisionAnnounced
    <3> QED  BY <2>1, <2>2, <2>3, <3>2, <3>3
  <2>4. ASSUME NEW ev \in OutboxEvent, ev.scope = s, ev.entry = e, outbox' = Append(outbox, ev)
        PROVE  LiveRevisionAnnounced'
    <3>1. outbox \in Seq(OutboxEvent)
      BY DEF TypeOK
    <3>2. PICK n \in Nat : n = Len(outbox)
      BY <3>1
    <3>3. /\ DOMAIN outbox = 1 .. n /\ DOMAIN outbox' = 1 .. (n + 1)
          /\ outbox'[n + 1] = ev /\ \A i \in 1 .. n : outbox'[i] = outbox[i]
      BY <2>4, <3>1, <3>2
    <3> SUFFICES ASSUME NEW t \in Scopes, Exists(t)', entries'[t].publishedRevision # 0
                 PROVE  \E i \in DOMAIN outbox' :
                           /\ outbox'[i].scope = t
                           /\ outbox'[i].entry.publishedRevision = entries'[t].publishedRevision
                           /\ \A j \in DOMAIN outbox' : outbox'[j].scope = t => j <= i
      BY DEF LiveRevisionAnnounced
    <3>4. CASE t = s
      <4>1. n + 1 \in DOMAIN outbox' /\ \A j \in DOMAIN outbox' : j <= n + 1
        BY <3>3
      <4> QED  BY <2>1, <2>4, <3>3, <3>4, <4>1
    <3>5. CASE t # s
      <4>1. PICK i \in 1 .. n :
              /\ outbox[i].scope = t
              /\ outbox[i].entry.publishedRevision = entries[t].publishedRevision
              /\ \A j \in 1 .. n : outbox[j].scope = t => j <= i
        BY <2>1, <2>2, <3>3, <3>5 DEF LiveRevisionAnnounced
      <4>2. i \in DOMAIN outbox' /\ outbox'[i] = outbox[i]
        BY <3>3
      <4>3. \A j \in DOMAIN outbox' : j \in 1 .. n \/ j = n + 1
        BY <3>3
      <4>4. \A j \in DOMAIN outbox' : outbox'[j].scope = t => j <= i
        BY <2>4, <3>3, <3>5, <4>1, <4>3
      <4> QED  BY <2>1, <3>5, <4>1, <4>2, <4>4
    <3> QED  BY <3>4, <3>5
  <2> QED  BY <1>2, <2>3, <2>4 DEF Announce
<1> QED  BY <1>1, <1>2, TablesAdvance

\* A consumer that keeps the last event per entry knows the live revision.
THEOREM LiveRevisionIsAnnounced ==
    ASSUME Lookahead = 0, SentPublishedRevisions = {0}
    PROVE  Spec => []LiveRevisionAnnounced
<1>1. Init => LiveRevisionAnnounced
  BY DEF Init, LiveRevisionAnnounced, Exists
<1>2. TypeOK /\ LockInv /\ LiveRevisionAnnounced /\ [Next]_vars => LiveRevisionAnnounced'
  BY LiveStep
<1> QED  BY <1>1, <1>2, LockInvariant, TypeCorrect, PTL DEF Spec

-----------------------------------------------------------------------------
(* Acknowledged writes *)

Acknowledged(q) == q.stage = "done" /\ q.outcome = "ok"

\* What a step does to its handler: an unacknowledged request and the tables as
\* they were, or a commit with an answer.
LEMMA HandlerMoves ==
    ASSUME TypeOK, LockInv, NEW h \in Handlers, Step(h)
    PROVE  \/ /\ UNCHANGED tables
              /\ \E q : ~Acknowledged(q) /\ handlers' = [handlers EXCEPT ![h] = q]
           \/ \E s \in Scopes : \E e : Commit(h, s, e) /\ Advance(s, e)
<1> DEFINE Quiet == /\ UNCHANGED tables
                    /\ \E q : ~Acknowledged(q) /\ handlers' = [handlers EXCEPT ![h] = q]
<1>1. ASSUME NEW code, NEW s, code # "ok", Refuse(h, code, s)
      PROVE  Quiet
  <2>1. PICK q : q = [stage |-> "done", outcome |-> Outcome(code), scope |-> s, version |-> 0]
    OBVIOUS
  <2>2. ~Acknowledged(q)
    BY <1>1, <2>1 DEF Acknowledged, Outcome
  <2> QED  BY <1>1, <2>1, <2>2 DEF Refuse, Answer
<1>2. ASSUME NEW stage \in {"insert", "update"}, NEW op, NEW c, NEW s, NEW x, NEW body, NEW current,
             Begin(h, stage, op, c, s, x, body, current)
      PROVE  Quiet
  <2>1. PICK q : q = [stage |-> stage, op |-> op, caller |-> c, scope |-> s,
                      expected |-> x, content |-> body, current |-> current]
    OBVIOUS
  <2>2. ~Acknowledged(q)
    BY <2>1 DEF Acknowledged
  <2> QED  BY <1>2, <2>1, <2>2 DEF Begin
<1>3. CASE PutDraft(h)
  <2>1. PICK c \in Principals, s \in Scopes, body \in Contents :
          \/ \E code : code # "ok" /\ Refuse(h, code, s)
          \/ \E published : Begin(h, "insert", "draft", c, s, 0, body, NewEntry(c, body, published))
          \/ \E x : Begin(h, "update", "draft", c, s, x, body, entries[s])
    BY <1>3 DEF PutDraft
  <2> QED  BY <1>1, <1>2, <2>1
<1>4. CASE Publish(h) \/ SubmitForApproval(h) \/ Approve(h) \/ Reject(h)
  <2>1. ASSUME NEW op, NEW allowed, ReadForChange(h, op, allowed)
        PROVE  Quiet
    <3>1. PICK c \in Principals, s \in Scopes :
            \/ \E code : code # "ok" /\ Refuse(h, code, s)
            \/ \E x : Begin(h, "update", op, c, s, x, entries[s].content, entries[s])
      BY <2>1 DEF ReadForChange
    <3> QED  BY <1>1, <1>2, <3>1
  <2> QED  BY <1>1, <1>4, <2>1 DEF Publish, SubmitForApproval, Approve, Reject
<1>5. CASE Rollback(h)
  <2>1. ASSUME NEW c, NEW s, NEW row, NEW x, UNCHANGED tables,
               handlers' = [handlers EXCEPT ![h] =
                   [stage |-> "target", caller |-> c, scope |-> s, expected |-> x, row |-> row]]
        PROVE  Quiet
    <3>1. PICK q : q = [stage |-> "target", caller |-> c, scope |-> s, expected |-> x, row |-> row]
      OBVIOUS
    <3>2. ~Acknowledged(q)
      BY <3>1 DEF Acknowledged
    <3> QED  BY <2>1, <3>1, <3>2
  <2> QED  BY <1>1, <1>5, <2>1 DEF Rollback
<1>6. CASE RollbackRead(h)
  <2>1. PICK p : p = handlers[h]
    OBVIOUS
  <2>2. \/ \E code : code # "ok" /\ Refuse(h, code, p.scope)
        \/ Begin(h, "update", "rolled_back", p.caller, p.scope, p.expected,
                 p.row.content, entries[p.scope])
    BY <1>6, <2>1 DEF RollbackRead
  <2> QED  BY <1>1, <1>2, <2>2
<1>7. CASE DatabaseError(h)
  BY <1>1, <1>7 DEF DatabaseError
<1>8. CASE \/ InsertTx(h) \/ DraftTx(h) \/ SubmitTx(h) \/ PublishTx(h)
           \/ ReviewTx(h) \/ RollbackTx(h)
  BY <1>1, <1>8, TransactionAdvance
<1> HIDE DEF Quiet
<1> QED  BY <1>3, <1>4, <1>5, <1>6, <1>7, <1>8 DEF Step

LEMMA WinnerStep ==
    ASSUME TypeOK, LockInv, [Next]_vars, OneWinnerPerVersion
    PROVE  OneWinnerPerVersion'
<1>1. \A g \in Handlers : Acknowledged(handlers[g]) =>
         /\ handlers[g].version \in Nat /\ handlers[g].scope \in Scopes
         /\ handlers[g].version <= entries[handlers[g].scope].version
  <2> SUFFICES ASSUME NEW g \in Handlers, Acknowledged(handlers[g])
               PROVE  /\ handlers[g].version \in Nat /\ handlers[g].scope \in Scopes
                      /\ handlers[g].version <= entries[handlers[g].scope].version
    OBVIOUS
  <2>1. handlers[g] \in Done
    BY DEF TypeOK, Acknowledged, Done, Target, Open
  <2> QED  BY <2>1 DEF Done, OneWinnerPerVersion, Acknowledged
<1>2. CASE UNCHANGED vars
  BY <1>2 DEF vars, OneWinnerPerVersion
<1>3. ASSUME NEW h \in Handlers, NEW q, ~Acknowledged(q), UNCHANGED entries,
             handlers' = [handlers EXCEPT ![h] = q]
      PROVE  OneWinnerPerVersion'
  <2>1. \A g \in Handlers : Acknowledged(handlers'[g]) => g # h /\ handlers'[g] = handlers[g]
    BY <1>3 DEF TypeOK
  <2> QED  BY <1>3, <2>1 DEF OneWinnerPerVersion, Acknowledged
<1>4. ASSUME NEW h \in Handlers, NEW s \in Scopes, NEW e, Commit(h, s, e), Advance(s, e)
      PROVE  OneWinnerPerVersion'
  <2>1. /\ entries'[s] = e /\ e.version \in Nat /\ entries[s].version < e.version
        /\ entries[s].version \in Nat
        /\ \A t \in Scopes : /\ entries'[t].version \in Nat /\ entries[t].version \in Nat
                             /\ entries[t].version <= entries'[t].version
    BY <1>4, AdvanceScope, VersionNat
  <2>2. PICK a : a = handlers'[h]
    OBVIOUS
  <2>3. Acknowledged(a) => a.version = e.version /\ a.scope = s
    BY <1>4, <2>2 DEF Commit, Answer, Outcome, Acknowledged, TypeOK
  <2>4. \A g \in Handlers \ {h} : handlers'[g] = handlers[g]
    BY <1>4 DEF Commit, Answer, TypeOK
  <2>5. ASSUME NEW g \in Handlers \ {h}, Acknowledged(handlers[g])
        PROVE  /\ handlers[g].version <= entries'[handlers[g].scope].version
               /\ handlers[g].scope = s => handlers[g].version < e.version
    BY <1>1, <2>1, <2>5
  <2>6. \A g \in Handlers : Acknowledged(handlers'[g]) =>
           handlers'[g].version <= entries'[handlers'[g].scope].version
    BY <2>1, <2>2, <2>3, <2>4, <2>5
  <2>7. ASSUME NEW f \in Handlers, NEW g \in Handlers \ {f}, Acknowledged(handlers'[f]),
               Acknowledged(handlers'[g]), handlers'[g].scope = handlers'[f].scope
        PROVE  handlers'[g].version # handlers'[f].version
    <3>1. CASE f = h
      <4>1. handlers'[f].version = e.version /\ handlers'[f].scope = s
        BY <2>2, <2>3, <2>7, <3>1
      <4>2. g \in Handlers \ {h} /\ handlers'[g] = handlers[g]
        BY <2>4, <2>7, <3>1
      <4>3. handlers[g].version < e.version
        BY <2>5, <2>7, <4>1, <4>2
      <4>4. handlers[g].version \in Nat
        BY <1>1, <2>7, <4>2
      <4> QED  BY <2>1, <4>1, <4>2, <4>3, <4>4
    <3>2. CASE g = h
      <4>1. handlers'[g].version = e.version /\ handlers'[g].scope = s
        BY <2>2, <2>3, <2>7, <3>2
      <4>2. f \in Handlers \ {h} /\ handlers'[f] = handlers[f]
        BY <2>4, <2>7, <3>2
      <4>3. handlers[f].version < e.version
        BY <2>5, <2>7, <4>1, <4>2
      <4>4. handlers[f].version \in Nat
        BY <1>1, <2>7, <4>2
      <4> QED  BY <2>1, <4>1, <4>2, <4>3, <4>4
    <3>3. CASE f # h /\ g # h
      BY <2>4, <2>7, <3>3 DEF OneWinnerPerVersion, Acknowledged
    <3> QED  BY <3>1, <3>2, <3>3
  <2> QED  BY <2>6, <2>7 DEF OneWinnerPerVersion, Acknowledged
<1> QED  BY <1>2, <1>3, <1>4, HandlerMoves DEF Next, tables

\* Every acknowledged write is in the store, and each version has one winner.
THEOREM VersionsHaveOneWinner ==
    ASSUME Lookahead = 0, SentPublishedRevisions = {0}
    PROVE  Spec => []OneWinnerPerVersion
<1>1. Init => OneWinnerPerVersion
  BY DEF Init, OneWinnerPerVersion
<1>2. TypeOK /\ LockInv /\ OneWinnerPerVersion /\ [Next]_vars => OneWinnerPerVersion'
  BY WinnerStep
<1> QED  BY <1>1, <1>2, LockInvariant, TypeCorrect, PTL DEF Spec

-----------------------------------------------------------------------------
(* DynamicConfig implements ReviewedConfig: for a client of Resolve, the   *)
(* handlers and their transactions only submit, approve and go live.       *)

Live(s) == {row.content : row \in ResolvedRows(s)}

\* A commit to scope s changes what Resolve serves for s alone.
LEMMA LiveExcept ==
    ASSUME TypeOK, NEW s \in Scopes, NEW e, entries' = [entries EXCEPT ![s] = e],
           \A row : row.scope # s => (row \in revisions' <=> row \in revisions)
    PROVE  liveBodies' = [liveBodies EXCEPT ![s] = Live(s)']
<1>1. ASSUME NEW t \in Scopes, t # s
      PROVE  ResolvedRows(t)' = ResolvedRows(t)
  <2>1. entries'[t] = entries[t]
    BY <1>1 DEF TypeOK
  <2>2. Exists(t)' <=> Exists(t)
    BY <2>1 DEF Exists, NoEntry
  <2> QED  BY <1>1, <2>1, <2>2 DEF ResolvedRows
<1>2. ASSUME NEW t \in Scopes
      PROVE  liveBodies'[t] = [liveBodies EXCEPT ![s] = Live(s)'][t]
  <2>1. CASE t = s
    BY <2>1 DEF liveBodies, Live
  <2>2. CASE t # s
    BY <1>1, <2>2 DEF liveBodies
  <2> QED  BY <2>1, <2>2
<1> QED  BY <1>2 DEF liveBodies

LEMMA LiveSame ==
    ASSUME TypeOK, NEW s \in Scopes, NEW e, entries' = [entries EXCEPT ![s] = e],
           \A row : row.scope # s => (row \in revisions' <=> row \in revisions),
           Live(s)' = Live(s)
    PROVE  liveBodies' = liveBodies
<1>1. liveBodies' = [liveBodies EXCEPT ![s] = Live(s)]
  BY LiveExcept
<1> QED  BY <1>1 DEF liveBodies, Live

\* The row Resolve finds for an entry is there already, so a new row of another
\* revision is not found.
LEMMA ServedRow ==
    ASSUME TypeOK, ApprovalInv, NEW s \in Scopes, Exists(s), entries[s].publishedRevision > 0
    PROVE  HasRow(s, entries[s].publishedRevision)
<1>1. EntryBacked(s, entries[s])
  BY DEF ApprovalInv, EntriesInv
<1>2. Backed(s, entries[s].publishedRevision)
  BY <1>1 DEF EntryBacked
<1> QED  BY <1>2 DEF Backed, HasRow

LEMMA RefinementInit == Init => Reviewed_Config!Init
<1> SUFFICES ASSUME Init PROVE Reviewed_Config!Init
  OBVIOUS
<1>1. revisions = {}
  BY DEF Init
<1>2. submittedRows = {} /\ approvedRows = {}
  BY <1>1 DEF submittedRows, approvedRows
<1>3. \A s \in Scopes : ResolvedRows(s) = {}
  BY <1>1 DEF ResolvedRows
<1>4. liveBodies = [s \in Scopes |-> {}]
  BY <1>3 DEF liveBodies
<1> QED  BY <1>2, <1>4 DEF Reviewed_Config!Init

Stutter == UNCHANGED <<submittedRows, approvedRows, liveBodies>>

LEMMA TablesStutter ==
    ASSUME UNCHANGED tables
    PROVE  Stutter
<1>1. \A s \in Scopes : ResolvedRows(s)' = ResolvedRows(s)
  BY DEF tables, ResolvedRows, Exists, NoEntry
<1>2. liveBodies' = liveBodies
  BY <1>1 DEF liveBodies
<1> QED  BY <1>2 DEF Stutter, tables, submittedRows, approvedRows

\* Saving a draft, or creating one, is invisible.
LEMMA DraftStutter ==
    ASSUME TypeOK, NEW s \in Scopes, NEW e, entries' = [entries EXCEPT ![s] = e],
           UNCHANGED revisions, Exists(s)',
           IF Exists(s) THEN e.publishedRevision = entries[s].publishedRevision
                        ELSE e.publishedRevision = 0
    PROVE  Stutter
<1>1. entries'[s] = e
  BY DEF TypeOK
<1>2. CASE Exists(s) /\ Exists(s)'
  <2>1. ResolvedRows(s)' = ResolvedRows(s)
    BY <1>1, <1>2 DEF ResolvedRows
  <2> QED  BY <2>1, LiveSame DEF Live, Stutter, submittedRows, approvedRows
<1>3. CASE ~Exists(s) /\ e.publishedRevision = 0
  <2>1. ResolvedRows(s)' = {} /\ ResolvedRows(s) = {}
    BY <1>1, <1>3 DEF ResolvedRows
  <2> QED  BY <2>1, LiveSame DEF Live, Stutter, submittedRows, approvedRows
<1> QED  BY <1>2, <1>3

\* A snapshot of a submission is an abstract Submit: Resolve does not see it.
LEMMA SubmitRefines ==
    ASSUME TypeOK, ApprovalInv, NEW s \in Scopes, NEW e \in Entry, NEW new,
           entries' = [entries EXCEPT ![s] = e], Exists(s), Exists(s)',
           e.publishedRevision = entries[s].publishedRevision, e.status = "pending_approval",
           SnapshotAllowed(s, e), new = Snapshot(s, e), revisions' = revisions \cup {new}
    PROVE  Reviewed_Config!Submit(s, e.content, e.updatedBy)
<1>1. /\ new.scope = s /\ new.revision = e.revision /\ new.content = e.content
      /\ new.status = "pending_approval" /\ new.createdBy = e.updatedBy
  BY DEF Snapshot
<1>2. entries'[s] = e
  BY DEF TypeOK
<1>3. ~(e.publishedRevision > 0 /\ new.revision = e.publishedRevision)
  BY <1>1, ServedRow DEF SnapshotAllowed
<1>4. ResolvedRows(s)' = ResolvedRows(s)
  BY <1>2, <1>3 DEF ResolvedRows
<1>5. liveBodies' = liveBodies
  BY <1>1, <1>4, LiveSame DEF Live
<1>6. approvedRows' = approvedRows
  BY <1>1 DEF approvedRows
<1>7. submittedRows' = submittedRows \cup
          {[scope |-> s, content |-> e.content, by |-> e.updatedBy]}
  BY <1>1 DEF submittedRows
<1> QED  BY <1>5, <1>6, <1>7 DEF Reviewed_Config!Submit

\* A rollback's row and a publication are abstract GoLives.
LEMMA RollbackRefines ==
    ASSUME TypeOK, NEW s \in Scopes, NEW e \in Entry, NEW new,
           entries' = [entries EXCEPT ![s] = e], Exists(s)',
           e.publishedRevision = e.revision, e.status = "published",
           ApprovedContent(s, e.content),
           SnapshotAllowed(s, e), new = Snapshot(s, e), revisions' = revisions \cup {new}
    PROVE  Reviewed_Config!GoLive(s, e.content)
<1>1. /\ new.scope = s /\ new.revision = e.revision /\ new.content = e.content
      /\ new.status = "published"
  BY DEF Snapshot
<1>2. entries'[s] = e /\ e.revision > 0
  <2>1. entries'[s] = e
    BY DEF TypeOK
  <2>2. e.revision \in Nat \ {0}
    BY DEF Entry
  <2> QED  BY <2>1, <2>2
<1>3. ResolvedRows(s)' = {new}
  BY <1>1, <1>2 DEF ResolvedRows, SnapshotAllowed, HasRow
<1>4. Live(s)' = {e.content}
  BY <1>1, <1>3 DEF Live
<1>5. liveBodies' = [liveBodies EXCEPT ![s] = {e.content}]
  BY <1>1, <1>4, LiveExcept
<1>6. UNCHANGED <<submittedRows, approvedRows>>
  BY <1>1 DEF submittedRows, approvedRows
<1>7. [scope |-> s, content |-> e.content] \in approvedRows
  BY DEF ApprovedContent, approvedRows
<1> QED  BY <1>5, <1>6, <1>7 DEF Reviewed_Config!GoLive

LEMMA PublishRefines ==
    ASSUME TypeOK, ApprovalInv, NEW s \in Scopes, NEW e \in Entry, NEW row \in revisions,
           entries' = [entries EXCEPT ![s] = e], Exists(s)', UNCHANGED revisions,
           e.publishedRevision = e.revision, RowOf(s, e, row), row.status = "approved"
    PROVE  Reviewed_Config!GoLive(s, e.content)
<1>1. row.scope = s /\ row.revision = e.revision /\ row.content = e.content
  BY DEF RowOf
<1>2. entries'[s] = e /\ e.revision > 0
  <2>1. entries'[s] = e
    BY DEF TypeOK
  <2>2. e.revision \in Nat \ {0}
    BY DEF Entry
  <2> QED  BY <2>1, <2>2
<1>3. ResolvedRows(s)' = {row}
  BY <1>1, <1>2 DEF ResolvedRows, ApprovalInv, RowsInv
<1>4. Live(s)' = {e.content}
  BY <1>1, <1>3 DEF Live
<1>5. liveBodies' = [liveBodies EXCEPT ![s] = {e.content}]
  BY <1>4, LiveExcept
<1>6. UNCHANGED <<submittedRows, approvedRows>>
  BY DEF submittedRows, approvedRows
<1>7. [scope |-> s, content |-> e.content] \in approvedRows
  BY <1>1 DEF approvedRows
<1> QED  BY <1>5, <1>6, <1>7 DEF Reviewed_Config!GoLive

\* A review of a pending row is an abstract Approve, or nothing if it rejects.
LEMMA ReviewRefines ==
    ASSUME TypeOK, ApprovalInv, NEW q \in Open, RequestBacked(q), q.stage = "update",
           q.op \in {"approved", "rejected"}, ReviewedRows(q) # {},
           NEW s \in Scopes, s = q.scope, NEW e \in Entry,
           entries' = [entries EXCEPT ![s] = e], Exists(s), Exists(s)',
           e.publishedRevision = entries[s].publishedRevision,
           revisions' = UpdateRevisionReview(q)
    PROVE  Stutter \/ Reviewed_Config!Approve(s, q.current.content, q.caller.id)
<1>1. PICK row \in ReviewedRows(q) : TRUE
  OBVIOUS
<1>2. /\ row \in revisions /\ row \in Row /\ row.scope = s /\ row.status = "pending_approval"
      /\ row.createdBy = q.current.updatedBy /\ row.content = q.current.content
  <2>1. /\ row \in revisions /\ row.scope = s /\ row.revision = q.current.revision
        /\ row.status = "pending_approval"
    BY <1>1 DEF ReviewedRows
  <2>2. q.current.status = "pending_approval" /\ EntryBacked(s, q.current)
    BY DEF RequestBacked
  <2>3. PICK sent \in revisions : RowOf(s, q.current, sent) /\ sent.createdBy = q.current.updatedBy
    BY <2>2 DEF EntryBacked
  <2>4. sent = row
    BY <2>1, <2>3 DEF ApprovalInv, RowsInv, RowOf
  <2> QED  BY <2>1, <2>3, <2>4 DEF TypeOK, RowOf
<1>3. ReviewedRows(q) = {row}
  BY <1>1 DEF ReviewedRows, ApprovalInv, RowsInv
<1>4. PICK new : new = [row EXCEPT !.status = q.op, !.reviewedBy = q.caller.id]
  OBVIOUS
<1>5. revisions' = (revisions \ {row}) \cup {new}
  BY <1>3, <1>4 DEF UpdateRevisionReview
<1>6. /\ new.scope = s /\ new.revision = row.revision /\ new.content = row.content
      /\ new.createdBy = row.createdBy /\ new.status = q.op
  BY <1>2, <1>4 DEF Row
<1>7. liveBodies' = liveBodies
  <2>1. entries'[s] = e
    BY DEF TypeOK
  <2>2. CASE row \in ResolvedRows(s)
    <3>1. ResolvedRows(s)' = (ResolvedRows(s) \ {row}) \cup {new}
      BY <1>2, <1>5, <1>6, <2>1, <2>2 DEF ResolvedRows
    <3>2. Live(s)' = Live(s)
      BY <1>6, <2>2, <3>1 DEF Live
    <3> QED  BY <1>2, <1>5, <1>6, <3>2, LiveSame
  <2>3. CASE row \notin ResolvedRows(s)
    <3>1. ResolvedRows(s)' = ResolvedRows(s)
      BY <1>2, <1>5, <1>6, <2>1, <2>3 DEF ResolvedRows
    <3> QED  BY <1>2, <1>5, <1>6, <3>1, LiveSame DEF Live
  <2> QED  BY <2>2, <2>3
<1>8. submittedRows' = submittedRows
  <2> DEFINE Sent(r) == [scope |-> r.scope, content |-> r.content, by |-> r.createdBy]
  <2>1. Sent(new) = Sent(row)
    BY <1>2, <1>6
  <2>2. row.status # "published" /\ new.status # "published" /\ row \in revisions
    BY <1>2, <1>6
  <2>3. ASSUME NEW x \in submittedRows PROVE x \in submittedRows'
    <3>1. PICK r \in revisions : r.status # "published" /\ x = Sent(r)
      BY <2>3 DEF submittedRows
    <3> HIDE DEF Sent
    <3>2. \E t \in revisions' : t.status # "published" /\ x = Sent(t)
      BY <1>5, <2>1, <2>2, <3>1
    <3> QED  BY <3>2 DEF submittedRows, Sent
  <2>4. ASSUME NEW x \in submittedRows' PROVE x \in submittedRows
    <3>1. PICK r \in revisions' : r.status # "published" /\ x = Sent(r)
      BY <2>4 DEF submittedRows
    <3> HIDE DEF Sent
    <3>2. \E t \in revisions : t.status # "published" /\ x = Sent(t)
      BY <1>5, <2>1, <2>2, <3>1
    <3> QED  BY <3>2 DEF submittedRows, Sent
  <2> QED  BY <2>3, <2>4
<1>9. CASE q.op = "rejected"
  <2>1. approvedRows' = approvedRows
    BY <1>2, <1>5, <1>6, <1>9 DEF approvedRows
  <2> QED  BY <1>7, <1>8, <2>1 DEF Stutter
<1>10. CASE q.op = "approved"
  <2>1. approvedRows' = approvedRows \cup {[scope |-> s, content |-> q.current.content]}
    BY <1>2, <1>5, <1>6, <1>10 DEF approvedRows
  <2>2. PICK p : p = [scope |-> row.scope, content |-> row.content, by |-> row.createdBy]
    OBVIOUS
  <2>3. p \in submittedRows
    BY <1>2, <2>2 DEF submittedRows
  <2>4. p.scope = s /\ p.content = q.current.content /\ p.by # q.caller.id
    BY <1>2, <2>2 DEF RequestBacked
  <2> QED  BY <1>7, <1>8, <2>1, <2>3, <2>4 DEF Reviewed_Config!Approve
<1> QED  BY <1>9, <1>10

LEMMA TransactionRefines ==
    ASSUME TypeOK, ApprovalInv, LockInv, NEW h \in Handlers,
           \/ InsertTx(h) \/ DraftTx(h) \/ SubmitTx(h) \/ PublishTx(h)
           \/ ReviewTx(h) \/ RollbackTx(h)
    PROVE  Stutter \/ Reviewed_Config!Next
<1>1. PICK q : q = handlers[h]
  OBVIOUS
<1>2. q \in Open /\ q.scope \in Scopes /\ q.current \in Entry /\ q.content \in Contents
  BY <1>1, OpenRequest
  DEF InsertTx, DraftTx, SubmitTx, PublishTx, ReviewTx, RollbackTx, Updating, Open
<1>3. PICK s \in Scopes : s = q.scope
  BY <1>2
<1>4. RequestBacked(q) /\ ReadInv(q)
  BY <1>1 DEF ApprovalInv, LockInv
<1>5. CASE \E code : Refuse(h, code, q.scope)
  BY <1>5, TablesStutter DEF Refuse
<1>6. ASSUME NEW e \in Entry, Commit(h, s, e)
      PROVE  entries' = [entries EXCEPT ![s] = e] /\ Exists(s)'
  <2>1. entries'[s] = e
    BY <1>6 DEF Commit, TypeOK
  <2>2. e.version # 0 /\ NoEntry.version = 0
    BY DEF Entry, NoEntry
  <2> QED  BY <1>6, <2>1, <2>2 DEF Commit, Exists, NoEntry
<1>7. ASSUME q.stage = "update", UpdateMatches(q)
      PROVE  Exists(s) /\ q.current = entries[s]
  BY <1>1, <1>3, <1>7, MatchIsCurrent DEF UpdateMatches
<1>8. ASSUME q.stage = "insert", ~Exists(s), Commit(h, s, q.current), UNCHANGED revisions
      PROVE  Stutter
  <2>1. q.current.publishedRevision = 0
    BY <1>4, <1>8 DEF ReadInv
  <2> QED  BY <1>2, <1>6, <1>8, <2>1, DraftStutter
<1>9. ASSUME q.stage = "update", UpdateMatches(q), Commit(h, s, Drafted(q)), UNCHANGED revisions
      PROVE  Stutter
  <2>1. PICK e : e = Drafted(q)
    OBVIOUS
  <2>2. e \in Entry /\ e.publishedRevision = q.current.publishedRevision
    BY <1>2, <2>1, WrittenType DEF Drafted, Entry
  <2> QED  BY <1>6, <1>7, <1>9, <2>1, <2>2, DraftStutter
<1>10. ASSUME q.stage = "update", UpdateMatches(q), SnapshotAllowed(s, Submitted(q)),
              Commit(h, s, Submitted(q)), revisions' = revisions \cup {Snapshot(s, Submitted(q))}
       PROVE  Reviewed_Config!Next
  <2>1. PICK e : e = Submitted(q)
    OBVIOUS
  <2>2. /\ e \in Entry /\ e.status = "pending_approval"
        /\ e.publishedRevision = q.current.publishedRevision
    BY <1>2, <2>1, WrittenType DEF Submitted, Entry
  <2>3. Reviewed_Config!Submit(s, e.content, e.updatedBy)
    BY <1>6, <1>7, <1>10, <2>1, <2>2, SubmitRefines
  <2>4. e.content \in Contents /\ e.updatedBy \in Ids
    BY <2>2 DEF Entry
  <2> QED  BY <2>3, <2>4 DEF Reviewed_Config!Next
<1>11. ASSUME q.stage = "update", q.op = "published", UpdateMatches(q), Commit(h, s, Published(q)),
              UNCHANGED revisions
       PROVE  Reviewed_Config!Next
  <2>1. PICK e : e = Published(q)
    OBVIOUS
  <2>2. /\ e \in Entry /\ e.publishedRevision = e.revision
        /\ e.revision = q.current.revision /\ e.content = q.current.content
    BY <1>2, <2>1, WrittenType DEF Published, Entry
  <2>3. PICK row \in revisions : RowOf(s, q.current, row) /\ row.status = "approved"
    BY <1>3, <1>4, <1>11 DEF RequestBacked, EntryBacked
  <2>4. RowOf(s, e, row)
    BY <2>2, <2>3 DEF RowOf
  <2>5. Reviewed_Config!GoLive(s, e.content)
    BY <1>6, <1>11, <2>1, <2>2, <2>3, <2>4, PublishRefines
  <2>6. e.content \in Contents
    BY <2>2 DEF Entry
  <2> QED  BY <2>5, <2>6 DEF Reviewed_Config!Next
<1>12. ASSUME q.stage = "update", q.op \in {"approved", "rejected"}, UpdateMatches(q),
              ReviewedRows(q) # {}, Commit(h, s, Reviewed(q)), revisions' = UpdateRevisionReview(q)
       PROVE  Stutter \/ Reviewed_Config!Next
  <2>1. PICK e : e = Reviewed(q)
    OBVIOUS
  <2>2. e \in Entry /\ e.publishedRevision = q.current.publishedRevision
    BY <1>2, <1>12, <2>1, WrittenType DEF Reviewed, Entry
  <2>3. Exists(s) /\ e.publishedRevision = entries[s].publishedRevision
    BY <1>7, <1>12, <2>2
  <2>4. entries' = [entries EXCEPT ![s] = e] /\ Exists(s)'
    BY <1>6, <1>12, <2>1, <2>2
  <2>5. Stutter \/ Reviewed_Config!Approve(s, q.current.content, q.caller.id)
    BY <1>2, <1>3, <1>4, <1>12, <2>2, <2>3, <2>4, ReviewRefines
  <2>6. q.current.content \in Contents /\ q.caller.id \in Ids
    BY <1>2 DEF Entry, Open, Ids
  <2> QED  BY <2>5, <2>6 DEF Reviewed_Config!Next
<1>13. ASSUME q.stage = "update", q.op = "rolled_back", SnapshotAllowed(s, RolledBack(q)),
              Commit(h, s, RolledBack(q)), revisions' = revisions \cup {Snapshot(s, RolledBack(q))}
       PROVE  Reviewed_Config!Next
  <2>1. PICK e : e = RolledBack(q)
    OBVIOUS
  <2>2. /\ e \in Entry /\ e.status = "published" /\ e.content = q.content
        /\ e.publishedRevision = e.revision
    BY <1>2, <2>1, WrittenType DEF RolledBack, Entry
  <2>3. ApprovedContent(s, e.content)
    BY <1>3, <1>4, <1>13, <2>2 DEF RequestBacked
  <2>4. Reviewed_Config!GoLive(s, e.content)
    BY <1>6, <1>13, <2>1, <2>2, <2>3, RollbackRefines
  <2> QED  BY <1>2, <2>2, <2>4 DEF Reviewed_Config!Next
<1>14. CASE InsertTx(h)
  BY <1>1, <1>3, <1>5, <1>8, <1>14 DEF InsertTx
<1>15. CASE DraftTx(h)
  BY <1>1, <1>3, <1>5, <1>9, <1>15 DEF DraftTx, Updating
<1>16. CASE SubmitTx(h)
  BY <1>1, <1>3, <1>5, <1>10, <1>16 DEF SubmitTx, Updating
<1>17. CASE PublishTx(h)
  BY <1>1, <1>3, <1>5, <1>11, <1>17 DEF PublishTx, Updating
<1>18. CASE ReviewTx(h)
  BY <1>1, <1>3, <1>5, <1>12, <1>18 DEF ReviewTx, Updating
<1>19. CASE RollbackTx(h)
  BY <1>1, <1>3, <1>5, <1>13, <1>19 DEF RollbackTx, Updating
<1> QED  BY <1>14, <1>15, <1>16, <1>17, <1>18, <1>19

LEMMA RefinementStep ==
    ASSUME TypeOK, ApprovalInv, LockInv, [Next]_vars
    PROVE  [Reviewed_Config!Next]_(Reviewed_Config!vars)
<1>1. CASE UNCHANGED tables
  BY <1>1, TablesStutter DEF Stutter, Reviewed_Config!vars
<1>2. ASSUME NEW h \in Handlers,
             \/ InsertTx(h) \/ DraftTx(h) \/ SubmitTx(h) \/ PublishTx(h)
             \/ ReviewTx(h) \/ RollbackTx(h)
      PROVE  [Reviewed_Config!Next]_(Reviewed_Config!vars)
  BY <1>2, TransactionRefines DEF Stutter, Reviewed_Config!vars
<1>3. ASSUME NEW h \in Handlers, PutDraft(h) \/ Rollback(h) \/ RollbackRead(h) \/ DatabaseError(h)
      PROVE  UNCHANGED tables
  BY <1>3 DEF PutDraft, Rollback, RollbackRead, DatabaseError, Refuse, Begin
<1>4. ASSUME NEW h \in Handlers, Publish(h) \/ SubmitForApproval(h) \/ Approve(h) \/ Reject(h)
      PROVE  UNCHANGED tables
  BY <1>4 DEF Publish, SubmitForApproval, Approve, Reject, ReadForChange, Refuse, Begin
<1>5. UNCHANGED vars => UNCHANGED tables
  BY DEF vars, tables
<1> QED  BY <1>1, <1>2, <1>3, <1>4, <1>5 DEF Next, Step

\* The service implements its abstract specification, for any number of
\* handlers, principals, scopes and bodies: what Resolve serves only ever
\* changes to a body one principal submitted and another one approved.
THEOREM Refinement ==
    ASSUME Lookahead = 0, SentPublishedRevisions = {0}
    PROVE  Spec => ImplementsReviewedConfig
<1>1. TypeOK /\ ApprovalInv /\ LockInv /\ [Next]_vars => [Reviewed_Config!Next]_(Reviewed_Config!vars)
  BY RefinementStep
<1> QED  BY <1>1, RefinementInit, ApprovalInvariant, LockInvariant, TypeCorrect, PTL
         DEF Spec, ImplementsReviewedConfig, Reviewed_Config!Spec
=============================================================================
