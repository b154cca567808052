---------------------------- MODULE Idempotency ----------------------------
(***************************************************************************)
(* Idempotent execution of write requests: IdempotencyKey and              *)
(* IdempotencyExecution of internal/transport/http/middleware.go around a  *)
(* handler that makes one versioned write (DynamicConfig).                 *)
(*                                                                         *)
(* The gRPC server chains the library's own interceptor, with the same     *)
(* manager, around the methods of idempotency.grpc_methods                 *)
(* (internal/transport/grpc/server.go:53).  It is external and taken to    *)
(* take the same steps; a request's route is a path or a method.           *)
(*                                                                         *)
(* The manager is a library over Redis.  It is modelled from how the       *)
(* middleware uses it, from integration/redis_test.go, and from the root   *)
(* README: a record per key that expires by itself, and an owner token     *)
(* without which a record is not changed.  Records expire at any time, so  *)
(* a handler may be slower than processing_ttl.                            *)
(***************************************************************************)
EXTENDS Integers, Sequences

CONSTANTS
    Workers,      \* concurrent requests
    Keys,         \* valid idempotency keys in use
    Inputs,       \* requests: [subject, route, body], body: [value, expected]
    MaxTokens     \* bound on the executions that are begun

ASSUME TokensAssumption == MaxTokens \in Nat

VARIABLES
    records,      \* Redis: the record of each key
    workers,      \* what each request is doing
    written,      \* the writes that have been committed to one entry, in order,
                  \* with the key and the token they ran under: the length is
                  \* the version of the entry, 0 while it does not exist
    tokens,       \* owner tokens given out so far
    lapsed,       \* history: the tokens whose record has expired
    given         \* history: business results clients got, with the token of
                  \* the execution they come from

vars == <<records, workers, written, tokens, lapsed, given>>

NoKey == "no key"

Absent == [state |-> "absent"]

\* "error" stands for every application error, the caller's or the service's.
Codes == {"ok", "error"}

Response == [input : Inputs, code : Codes]

IdleWorker == [stage |-> "idle"]

Init ==
    /\ records = [k \in Keys |-> Absent]
    /\ workers = [w \in Workers |-> IdleWorker]
    /\ written = << >>
    /\ tokens = 0
    /\ lapsed = {}
    /\ given = {}

Set(w, state) == workers' = [workers EXCEPT ![w] = state]

-----------------------------------------------------------------------------
(* Before the handler *)

FaultyFingerprint(i) == <<i.subject, i.route>>

\* SHA-256 over these: equal exactly when they are.
idempotencyFingerprint(i) == <<i.subject, i.route, i.body>>

Running(w, key, input, token) ==
    Set(w, [stage |-> "running", key |-> key, input |-> input, token |-> token])

\* No key, a route that is not configured, or a manager that is disabled.
Unprotected(w, input) ==
    /\ workers[w] = IdleWorker
    /\ Running(w, NoKey, input, 0)
    /\ UNCHANGED <<records, written, tokens, lapsed, given>>

FaultyAcquirable(record) == record = Absent \/ record.state = "failed"

\* A key has one execution at a time, and a failed one is not tried again.
Acquirable(record) == record = Absent

\* manager.Begin acquires the key for a new owner.  When its answer is lost the
\* request is refused (Unavailable), and the record stays.
Acquire(w, k, input) ==
    /\ workers[w] = IdleWorker
    /\ Acquirable(records[k]) /\ tokens < MaxTokens
    /\ tokens' = tokens + 1
    /\ records' = [records EXCEPT ![k] =
           [state |-> "processing", owner |-> tokens + 1,
            fingerprint |-> idempotencyFingerprint(input)]]
    /\ \/ Running(w, k, input, tokens + 1)
       \/ UNCHANGED workers
    /\ UNCHANGED <<written, lapsed, given>>

\* manager.Begin finds a result for the same fingerprint: it is replayed.
Replay(w, k, input) ==
    /\ workers[w] = IdleWorker
    /\ records[k].state \in {"completed", "failed"}
    /\ records[k].fingerprint = idempotencyFingerprint(input)
    /\ given' = given \cup {[token |-> records[k].owner, asked |-> input,
                             response |-> records[k].response]}
    /\ UNCHANGED <<records, workers, written, tokens, lapsed>>

\* Everything else is refused without a trace: Redis is away, the key is in
\* progress (RequestInProgress), or belongs to another request (Conflict).

-----------------------------------------------------------------------------
(* The handler and what follows *)

Protected(q) == q.key # NoKey

\* The handler answers.  A protected request goes on to store the answer.
Answered(w, code) ==
    LET q == workers[w]
        response == [input |-> q.input, code |-> code]
    IN  IF Protected(q)
        THEN /\ Set(w, [stage |-> "answered", key |-> q.key, input |-> q.input,
                        token |-> q.token, response |-> response])
             /\ given' = given \cup {[token |-> q.token, asked |-> q.input,
                                      response |-> response]}
        ELSE Set(w, IdleWorker) /\ UNCHANGED given

PutDraftRoutes == {"put-draft", "PutDraft"}

\* PutDraft creates an entry that does not exist, whatever version the request
\* expects, and the other operations find none.  An entry that exists is updated
\* WHERE id = ? AND version = ?.
Matches(input) ==
    IF written = << >> THEN input.route \in PutDraftRoutes
                       ELSE input.body.expected = Len(written)

Commit(q) ==
    /\ Matches(q.input)
    /\ written' = Append(written, [input |-> q.input, key |-> q.key, token |-> q.token])

\* The write commits; its acknowledgement may be lost, which is an error too.
Write(w) ==
    /\ workers[w].stage = "running"
    /\ Commit(workers[w])
    /\ \E code \in Codes : Answered(w, code)
    /\ UNCHANGED <<records, tokens, lapsed>>

\* The write is refused (stale, not found, conflict), fails before it commits, or
\* its context ends.
NoWrite(w) ==
    /\ workers[w].stage = "running"
    /\ Answered(w, "error")
    /\ UNCHANGED <<records, written, tokens, lapsed>>

\* The handler panics, before or after its commit: Recovery answers 500, the code
\* that stores the result is not reached.  Or the process dies.
Panic(w) ==
    /\ workers[w].stage \in {"running", "answered"}
    /\ Set(w, IdleWorker)
    /\ \/ UNCHANGED written
       \/ workers[w].stage = "running" /\ Commit(workers[w])
    /\ UNCHANGED <<records, tokens, lapsed, given>>

FaultyVerdict(response) == "completed"

\* c.Writer.Status() >= 400
Verdict(response) == IF response.code = "ok" THEN "completed" ELSE "failed"

FaultyOwns(q) == records[q.key] # Absent

\* The Lua script: the record is in processing and carries the caller's token.
Owns(q) == records[q.key].state = "processing" /\ records[q.key].owner = q.token

\* Complete or Fail, in a context of its own.  An error, also that of an owner
\* that is none any more, is only logged.
Persist(w) ==
    /\ workers[w].stage = "answered"
    /\ LET q == workers[w] IN
         \/ /\ Owns(q)
            /\ records' = [records EXCEPT ![q.key] =
                   [state |-> Verdict(q.response), owner |-> records[q.key].owner,
                    fingerprint |-> records[q.key].fingerprint, response |-> q.response]]
         \/ UNCHANGED records
    /\ Set(w, IdleWorker)
    /\ UNCHANGED <<written, tokens, lapsed, given>>

FaultyExpires(record) == record.state \in {"completed", "failed"}

\* Every record has a time to live: processing_ttl, result_ttl, failure_ttl.
Expires(record) == record # Absent

Expire(k) ==
    /\ Expires(records[k])
    /\ records' = [records EXCEPT ![k] = Absent]
    /\ lapsed' = lapsed \cup {records[k].owner}
    /\ UNCHANGED <<workers, written, tokens, given>>

-----------------------------------------------------------------------------

Request(w) ==
    \E i \in Inputs :
        \/ Unprotected(w, i)
        \/ \E k \in Keys : Acquire(w, k, i) \/ Replay(w, k, i)

Handle(w) == Write(w) \/ NoWrite(w) \/ Panic(w)

Next ==
    \/ \E w \in Workers : Request(w) \/ Handle(w) \/ Persist(w)
    \/ \E k \in Keys : Expire(k)

Spec == Init /\ [][Next]_vars

\* Times to live run out in Redis whatever the service does, handlers end with
\* their request's deadline, and the middleware runs on after them.
FairSpec ==
    /\ Spec
    /\ \A k \in Keys : WF_vars(Expire(k))
    /\ \A w \in Workers : WF_vars(Handle(w)) /\ WF_vars(Persist(w))

-----------------------------------------------------------------------------
(* Properties *)

Tokens == 1 .. MaxTokens

Fingerprints == {idempotencyFingerprint(i) : i \in Inputs}

Record == {Absent}
    \cup [state : {"processing"}, owner : Tokens, fingerprint : Fingerprints]
    \cup [state : {"completed", "failed"}, owner : Tokens, fingerprint : Fingerprints,
          response : Response]

Worker == {IdleWorker}
    \cup [stage : {"running"}, key : {NoKey}, input : Inputs, token : {0}]
    \cup [stage : {"running"}, key : Keys, input : Inputs, token : Tokens]
    \cup [stage : {"answered"}, key : Keys, input : Inputs, token : Tokens, response : Response]

Committed == [input : Inputs, key : {NoKey}, token : {0}]
    \cup [input : Inputs, key : Keys, token : Tokens]

\* The type invariant.
TypeOK ==
    /\ records \in [Keys -> Record]
    /\ workers \in [Workers -> Worker]
    /\ written \in Seq(Committed)
    /\ tokens \in 0 .. MaxTokens
    /\ lapsed \subseteq Tokens
    /\ given \subseteq [token : Tokens, asked : Inputs, response : Response]

\* All clients that are told a result of one execution are told the same one:
\* replays give the original result, and a worker whose key has expired cannot
\* put its own in the place of its successor's (owner token of Begin, Complete
\* and Fail).
ReplaysOriginal ==
    \A g, h \in given : g.token = h.token => g.response = h.response

\* A client is only given the result of a request with its own subject, route and
\* body, whatever key it sends (idempotencyFingerprint).
ReplayMatchesRequest ==
    \A g \in given :
        LET i == g.response.input
        IN  <<i.subject, i.route, i.body>> = <<g.asked.subject, g.asked.route, g.asked.body>>

\* A success was committed by the very execution whose result it is.
Backed(response, token) ==
    response.code = "ok" =>
        \E n \in DOMAIN written :
            written[n].input = response.input /\ written[n].token = token

\* A success that a client is told, at once or in a replay, was committed by the
\* execution it comes from, and only such results are stored as completed: the
\* middleware stores a result after the transaction and by the status it carries.
SuccessIsCommitted ==
    /\ \A g \in given : Backed(g.response, g.token)
    /\ \A k \in Keys : records[k].state = "completed" =>
         records[k].response.code = "ok" /\ Backed(records[k].response, records[k].owner)

\* A key commits once until it expires: of two writes committed under one key, the
\* one that was begun first had lost its record.  A failed result, a lost
\* acknowledgement, a panic or a result that could not be stored do not let a retry
\* run again; the version does not prevent it, since a PutDraft that creates an entry
\* and expects version 1 matches a second time (Begin, middleware.go:104-132).
KeyCommitsOnce ==
    \A m, n \in DOMAIN written :
        m # n /\ written[m].key # NoKey /\ written[m].key = written[n].key =>
            /\ written[m].token # written[n].token
            /\ written[m].token < written[n].token => written[m].token \in lapsed

\* Until it expires a record keeps its owner and its fingerprint, and its result
\* once it has one: a retry never takes over a request in progress, a late worker
\* never replaces a stored result.
HeldUntilExpired ==
    [][ \A k \in Keys :
          records[k] # Absent /\ records'[k] # Absent =>
              /\ records'[k].owner = records[k].owner
              /\ records'[k].fingerprint = records[k].fingerprint
              /\ records[k].state # "processing" => records'[k] = records[k] ]_vars

(* The inductive invariant behind the properties above: an execution          *)
(* is known by its token, and its worker, its record and what clients were    *)
(* told of it agree.                                                          *)

Owning(q) == q.stage # "idle" /\ q.token # 0

\* The worker of an execution is alone with its token; until it is done, its
\* record is in processing and nobody was told anything else.
WorkerInv(w) ==
    LET q == workers[w]
    IN  Owning(q) =>
          /\ q.token <= tokens
          /\ \A v \in Workers \ {w} : Owning(workers[v]) => workers[v].token # q.token
          /\ \A k \in Keys : records[k] # Absent /\ records[k].owner = q.token =>
               /\ records[k].state = "processing"
               /\ records[k].fingerprint = idempotencyFingerprint(q.input)
          /\ \A g \in given : g.token = q.token =>
               q.stage = "answered" /\ g.response = q.response
          /\ q.stage = "answered" => q.response.input = q.input /\ Backed(q.response, q.token)

\* A stored result belongs to the fingerprint it is stored under, and is what
\* every client was told of that execution.
RecordInv(k) ==
    LET r == records[k]
    IN  r # Absent =>
          /\ r.owner <= tokens
          /\ \A j \in Keys \ {k} : records[j] # Absent => records[j].owner # r.owner
          /\ r.state # "processing" =>
               /\ r.state = Verdict(r.response)
               /\ r.fingerprint = idempotencyFingerprint(r.response.input)
               /\ Backed(r.response, r.owner)
               /\ \A g \in given : g.token = r.owner => g.response = r.response

GivenInv(g) == g.token <= tokens /\ Backed(g.response, g.token)

\* Each execution has one result, whoever holds it.
ExecutionInv ==
    /\ TypeOK /\ ReplaysOriginal /\ ReplayMatchesRequest
    /\ \A w \in Workers : WorkerInv(w)
    /\ \A k \in Keys : RecordInv(k)
    /\ \A g \in given : GivenInv(g)

(* And the one behind KeyCommitsOnce: a key's record is held by one execution *)
(* at a time, and an execution commits once.                                  *)

\* An execution holds its key's record until that expires; from then on only
\* later ones do.
Held(k, token) ==
    \/ records[k] # Absent /\ records[k].owner = token
    \/ token \in lapsed /\ (records[k] # Absent => token < records[k].owner)

HolderInv(w) ==
    LET q == workers[w]
    IN  Owning(q) =>
          /\ Held(q.key, q.token)
          /\ q.stage = "running" => \A n \in DOMAIN written : written[n].token # q.token

WrittenInv(n) ==
    LET c == written[n]
    IN  c.token # 0 =>
          /\ c.token <= tokens /\ Held(c.key, c.token)
          /\ \A m \in DOMAIN written \ {n} : written[m].token # c.token

CommitInv ==
    /\ \A w \in Workers : HolderInv(w)
    /\ \A n \in DOMAIN written : WrittenInv(n)

\* A key does not stay in progress for ever, although a panic, a crash or a failed
\* Persist leaves its record behind.
KeyIsFreed ==
    \A k \in Keys : records[k].state = "processing" ~> records[k].state # "processing"
=============================================================================
