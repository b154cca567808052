----------------------------- MODULE Resolution -----------------------------
(***************************************************************************)
(* What readers see: Resolve and Get of internal/dynamicconfig/service.go  *)
(* over the queries of repository.go, while publications go on.            *)
(*                                                                         *)
(* Of an entry only what readers receive is kept: the revision that is     *)
(* live, its value and its rollout percentage.  How a revision becomes     *)
(* live is the subject of DynamicConfig; here it is one step, with the two *)
(* facts proved there: the live revision only moves forward, and the body  *)
(* of a revision never changes.                                            *)
(***************************************************************************)
EXTENDS TenantAccess, Integers, Sequences, FiniteSets

CONSTANTS
    Callers,      \* [type, tenant]
    Scopes,       \* scopes in use: [tenant, application, key], keys in lower case
    Requests,     \* of Resolve: [tenant, application, subject, keys], keys a
                  \* sequence in the client's spelling
    Values,       \* bodies
    Percentages,  \* rollout percentages, a subset of 0 .. 100
    Bucket,       \* [subject, key, revision] -> 0 .. 65535: the first two bytes
                  \* of the SHA-256 rolloutHit takes
    MaxRevision   \* bound on revisions, by scope

\* One entry for a tenant, an application and a key (the unique index).
ASSUME ScopesAssumption ==
    IsFiniteSet(Scopes) /\ \A s \in Scopes : s = [tenant |-> s.tenant, application |-> s.application, key |-> s.key]
ASSUME RequestsAssumption == \A q \in Requests : DOMAIN q.keys = 1 .. Len(q.keys) /\ Len(q.keys) \in Nat
ASSUME RevisionsAssumption == \A s \in Scopes : MaxRevision[s] \in Nat

VARIABLES
    entries,      \* by scope: NoEntry or what is live of the entry
    answer,       \* the last answer to a reader
    kept          \* entries and ETag of an earlier answer a client kept

vars == <<entries, answer, kept>>

NoEntry == [published |-> -1]

\* Drafted and never published.
Draft == [published |-> 0]

Live(s) == [published : 1 .. MaxRevision[s], rollout : Percentages, value : Values]

\* An entry as a reader gets it.
Served(s) == [scope |-> s, entry |-> entries[s]]

NoAnswer == [op |-> "none", code |-> "none", caller |-> [type |-> "none", tenant |-> ""],
             request |-> [tenant |-> "", application |-> "", subject |-> "", keys |-> << >>],
             entries |-> << >>, etag |-> << >>]

Init ==
    /\ entries = [s \in Scopes |-> NoEntry]
    /\ answer = NoAnswer
    /\ kept = [entries |-> << >>, etag |-> << >>]

-----------------------------------------------------------------------------
(* Writers *)

\* PutDraft creates the entry; nothing of it is live.
Create(s) ==
    /\ entries[s] = NoEntry
    /\ entries' = [entries EXCEPT ![s] = Draft]
    /\ UNCHANGED <<answer, kept>>

\* Publish and Rollback: a later revision becomes live.
GoLive(s) ==
    /\ entries[s] # NoEntry
    /\ \E n \in (entries[s].published + 1) .. MaxRevision[s], p \in Percentages, v \in Values :
         entries' = [entries EXCEPT ![s] = [published |-> n, rollout |-> p, value |-> v]]
    /\ UNCHANGED <<answer, kept>>

-----------------------------------------------------------------------------
(* Resolve *)

Elements(seq) == {seq[i] : i \in DOMAIN seq}

\* The WHERE clause: one row per scope, since (entry, revision) is unique.  The
\* keys of the request are compared as they were sent.
ResolvedScopes(q) ==
    {s \in Scopes :
        /\ entries[s] # NoEntry
        /\ entries[s].published > 0
        /\ s.key \in Elements(q.keys)
        /\ \/ s.tenant = q.tenant /\ s.application = q.application
           \/ s.tenant = q.tenant /\ s.application = ""
           \/ s.tenant = "" /\ s.application = ""}

FaultyRank(q, s) == IF s.application = "" THEN 0 ELSE 1

\* ORDER BY CASE ...
Rank(q, s) ==
    IF s.tenant = q.tenant /\ s.application = q.application THEN 0
    ELSE IF s.tenant = q.tenant /\ s.application = "" THEN 1
    ELSE 2

\* Every order in which the database may return the rows.
ResolvedRows(q) ==
    LET found == ResolvedScopes(q)
    IN  {rows \in [1 .. Cardinality(found) -> found] :
            /\ Elements(rows) = found
            /\ \A i, j \in DOMAIN rows :
                 i < j => rows[i] # rows[j] /\ Rank(q, rows[i]) <= Rank(q, rows[j])}

Within(bucket, percentage) == bucket % 100 < percentage

rolloutHit(subject, key, revision, percentage) ==
    \/ percentage >= 100
    \/ /\ percentage > 0 /\ subject # ""
       /\ Within(Bucket[subject, key, revision], percentage)

Hit(q, s) == rolloutHit(q.subject, s.key, entries[s].published, entries[s].rollout)

\* selected[key]: the first row of the key that hits, as a set of at most one.
Selected(q, rows, key) ==
    {rows[i] : i \in {n \in DOMAIN rows :
        /\ rows[n].key = key /\ Hit(q, rows[n])
        /\ \A j \in 1 .. n - 1 : ~(rows[j].key = key /\ Hit(q, rows[j]))}}

\* The n-th of a finite set of positions.
Nth(positions, n) ==
    CHOOSE i \in positions : Cardinality({j \in positions : j <= i}) = n

\* The keys that are among the wanted, in their order.
Among(keys, wanted) ==
    LET positions == {i \in DOMAIN keys : keys[i] \in wanted}
    IN  [n \in 1 .. Cardinality(positions) |-> keys[Nth(positions, n)]]

\* The selected entries in the order of the requested keys; a key that is
\* requested twice is answered twice.
ResultOf(q, rows) ==
    LET answered == Among(q.keys, {key \in Elements(q.keys) : Selected(q, rows, key) # {}})
    IN  [i \in DOMAIN answered |-> Served(CHOOSE s \in Selected(q, rows, answered[i]) : TRUE)]

FaultyETagOf(result) == [i \in DOMAIN result |-> <<result[i].scope>>]

\* SHA-256 over "id:revision;" of every entry: equal exactly when these are.
ETagOf(result) == [i \in DOMAIN result |-> <<result[i].scope, result[i].entry.published>>]

Answer(op, c, q, result) ==
    /\ answer' = [op |-> op, code |-> "ok", caller |-> c, request |-> q,
                  entries |-> result, etag |-> ETagOf(result)]
    /\ UNCHANGED <<entries, kept>>

Refuse(code) == answer' = [NoAnswer EXCEPT !.code = code] /\ UNCHANGED <<entries, kept>>

\* "internal": the query failed.
Resolve ==
    \E c \in Callers, q \in Requests :
      \/ \E code \in Access(c, q) \ {"ok"} : Refuse(code)
      \/ "ok" \in Access(c, q) /\ Refuse("internal")
      \/ /\ "ok" \in Access(c, q)
         /\ \E rows \in ResolvedRows(q) : Answer("Resolve", c, q, ResultOf(q, rows))

\* The row exists: sql.ErrNoRows becomes ErrNotFound.
Found(s) == entries[s] # NoEntry

\* By id: the entry is read before the caller is looked at.
Get ==
    \E c \in Callers, s \in Scopes :
      \/ Refuse("internal")
      \/ ~Found(s) /\ Refuse("not_found")
      \/ Found(s) /\ \E code \in Access(c, s) \ {"ok"} : Refuse(code)
      \/ /\ Found(s) /\ "ok" \in Access(c, s)
         /\ Answer("Get", c, [tenant |-> s.tenant, application |-> s.application,
                              subject |-> "", keys |-> << >>], <<Served(s)>>)

\* A client keeps an answer of Resolve for comparison with later ETags.
Keep ==
    /\ answer.op = "Resolve"
    /\ kept' = [entries |-> answer.entries, etag |-> answer.etag]
    /\ UNCHANGED <<entries, answer>>

Next ==
    \/ \E s \in Scopes : Create(s) \/ GoLive(s)
    \/ Resolve \/ Get \/ Keep

Spec == Init /\ [][Next]_vars

-----------------------------------------------------------------------------
(* Properties *)

\* Every entry in the table and in an answer has its type.
TypeOK ==
    /\ \A s \in Scopes : entries[s] \in Live(s) \cup {NoEntry, Draft}
    /\ \A i \in DOMAIN answer.entries :
         /\ answer.entries[i].scope \in Scopes
         /\ answer.entries[i].entry \in Live(answer.entries[i].scope) \cup {Draft}

\* The entry a request should get for a key, said without rows or ranks: of the
\* application's override, the tenant's and the platform's entry, the first that
\* is live and whose rollout includes the subject.
MostSpecific(q, key) ==
    LET level(t, a) == {s \in Scopes :
            /\ s.tenant = t /\ s.application = a /\ s.key = key
            /\ entries[s] # NoEntry /\ entries[s].published > 0 /\ Hit(q, s)}
    IN  IF level(q.tenant, q.application) # {} THEN level(q.tenant, q.application)
        ELSE IF level(q.tenant, "") # {} THEN level(q.tenant, "")
        ELSE level("", "")

\* Resolve answers every requested key with the most specific entry that is live
\* for the subject, falling through a scope whose rollout leaves the subject out,
\* and leaves out exactly the keys for which there is none (Service.Resolve over
\* the ORDER BY of Repository.Resolve).
ServesMostSpecific ==
    [][ answer' # answer /\ answer'.op = "Resolve" =>
          LET q == answer'.request
              found == {i \in DOMAIN q.keys : MostSpecific(q, q.keys[i]) # {}}
          IN  /\ Len(answer'.entries) = Cardinality(found)
              /\ \A i \in found :
                   {answer'.entries[Cardinality({j \in found : j <= i})].scope}
                      = MostSpecific(q, q.keys[i]) ]_vars

\* Two answers with one ETag are the same entries with the same bodies, whatever
\* was published between them: a client may keep what it has (ETag of Resolve).
ETagNamesContent ==
    answer.etag = kept.etag => answer.entries = kept.entries

\* A user is only ever given entries of its own tenant or of the platform, and
\* of no application but the one it asked for (enforceTenant with the scopes of
\* the query, and of Get after its read).
ServedWithinTenant ==
    answer.caller.type = "user" =>
        \A i \in DOMAIN answer.entries :
            /\ answer.entries[i].scope.tenant \in {answer.caller.tenant, ""}
            /\ answer.entries[i].scope.application \in {answer.request.application, ""}

-----------------------------------------------------------------------------
(* The inductive invariant behind the properties *)

\* What a reader was given is the entry, or one that is behind it.
Given == [scope : Scopes, entry : (UNION {Live(s) : s \in Scopes}) \cup {Draft}]

Behind(g) ==
    /\ g.entry.published <= entries[g.scope].published
    /\ g.entry.published = entries[g.scope].published => g.entry = entries[g.scope]

\* The entries of the two answers.
GivenNow == Elements(answer.entries) \cup Elements(kept.entries)

ResolutionInv ==
    /\ entries \in [Scopes -> (UNION {Live(s) : s \in Scopes}) \cup {NoEntry, Draft}]
    /\ answer.entries \in Seq(Given) /\ kept.entries \in Seq(Given)
    /\ answer.etag = ETagOf(answer.entries) /\ kept.etag = ETagOf(kept.entries)
    /\ \A g \in GivenNow : Behind(g)
    /\ \A g, h \in GivenNow :
         g.scope = h.scope /\ g.entry.published = h.entry.published => g = h
    /\ ServedWithinTenant
=============================================================================
