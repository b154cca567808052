------------------------- MODULE IdempotencyProofs -------------------------
(***************************************************************************)
(* Theorems about Idempotency, for every set of workers, keys and inputs   *)
(* and every bound on the executions.                                      *)
(***************************************************************************)
EXTENDS Idempotency, TLAPS

-----------------------------------------------------------------------------
(* Shape of the state *)

LEMMA WorkerCases ==
    ASSUME NEW q \in Worker
    PROVE  /\ q.stage \in {"idle", "running", "answered"}
           /\ q.stage # "idle" => q.input \in Inputs
           /\ q.stage # "idle" /\ Protected(q) => q.key \in Keys /\ q.token \in Tokens
           /\ q.stage = "answered" => /\ q.response \in Response
                                      /\ q.key \in Keys /\ q.token \in Tokens
BY DEF Worker, IdleWorker, Protected

LEMMA TokenFacts == \A t \in Tokens : t \in Nat /\ t # 0 /\ t <= MaxTokens
BY TokensAssumption DEF Tokens

LEMMA RecordCases ==
    ASSUME NEW r \in Record, r # Absent
    PROVE  /\ r.owner \in Tokens /\ r.fingerprint \in Fingerprints
           /\ r.state \in {"processing", "completed", "failed"}
           /\ r.state # "processing" => r.response \in Response
BY DEF Record

LEMMA AbsentState == Absent.state = "absent"
BY DEF Absent

LEMMA IdleOwnsNothing == ~Owning(IdleWorker)
BY DEF Owning, IdleWorker

\* The parts of the invariant, now and in the next state.
LEMMA InvParts ==
    ExecutionInv <=>
        /\ TypeOK /\ ReplaysOriginal /\ ReplayMatchesRequest
        /\ \A w \in Workers : WorkerInv(w)
        /\ \A k \in Keys : RecordInv(k)
        /\ \A g \in given : GivenInv(g)
BY DEF ExecutionInv

LEMMA InvPartsNext ==
    ExecutionInv' <=>
        /\ TypeOK' /\ ReplaysOriginal' /\ ReplayMatchesRequest'
        /\ \A w \in Workers : WorkerInv(w)'
        /\ \A k \in Keys : RecordInv(k)'
        /\ \A g \in given' : GivenInv(g)'
BY DEF ExecutionInv

LEMMA Types ==
    ASSUME TypeOK
    PROVE  /\ records \in [Keys -> Record] /\ workers \in [Workers -> Worker]
           /\ written \in Seq(Committed) /\ tokens \in Nat /\ tokens <= MaxTokens
           /\ lapsed \subseteq Tokens
           /\ given \subseteq [token : Tokens, asked : Inputs, response : Response]
BY TokensAssumption DEF TypeOK

\* What a step does to the committed writes: nothing, or one more.
Extends == \A response, token : Backed(response, token) => Backed(response, token)'

LEMMA SameWritten ==
    ASSUME UNCHANGED written
    PROVE  Extends
BY DEF Extends, Backed

\* The element that Commit appends.
CommitOf(q) == [input |-> q.input, key |-> q.key, token |-> q.token]

LEMMA CommitFacts ==
    ASSUME NEW q \in Worker, q.stage = "running"
    PROVE  /\ CommitOf(q) \in Committed
           /\ CommitOf(q).input = q.input /\ CommitOf(q).key = q.key
           /\ CommitOf(q).token = q.token
BY DEF Worker, IdleWorker, CommitOf, Committed

\* The sequence of the writes grows at its end.
LEMMA MoreWritten ==
    ASSUME TypeOK, NEW c \in Committed, written' = Append(written, c)
    PROVE  /\ written' \in Seq(Committed) /\ Len(written) \in Nat
           /\ DOMAIN written = 1 .. Len(written)
           /\ DOMAIN written' = DOMAIN written \cup {Len(written) + 1}
           /\ Len(written) + 1 \notin DOMAIN written
           /\ \A n \in DOMAIN written : written'[n] = written[n]
           /\ written'[Len(written) + 1] = c
<1>1. written \in Seq(Committed)
  BY Types
<1>2. /\ written' \in Seq(Committed) /\ Len(written) \in Nat
      /\ DOMAIN written = 1 .. Len(written) /\ DOMAIN written' = 1 .. (Len(written) + 1)
      /\ \A n \in 1 .. Len(written) : written'[n] = written[n]
      /\ written'[Len(written) + 1] = c
  BY <1>1
<1> QED  BY <1>2

LEMMA CommitExtends ==
    ASSUME TypeOK, NEW q \in Worker, q.stage = "running", Commit(q)
    PROVE  /\ written' \in Seq(Committed) /\ Extends
           /\ \E n \in DOMAIN written' :
                written'[n].input = q.input /\ written'[n].token = q.token
<1>0. PICK c : c = CommitOf(q)
  OBVIOUS
<1>1. /\ c \in Committed /\ written' = Append(written, c)
      /\ c.input = q.input /\ c.token = q.token
  BY <1>0, CommitFacts DEF Commit, CommitOf
<1>2. /\ written' \in Seq(Committed)
      /\ DOMAIN written' = DOMAIN written \cup {Len(written) + 1}
      /\ \A n \in DOMAIN written : written'[n] = written[n]
      /\ written'[Len(written) + 1] = c
  BY <1>1, MoreWritten
<1>3. Extends
  BY <1>2 DEF Extends, Backed
<1> QED  BY <1>1, <1>2, <1>3

-----------------------------------------------------------------------------
(* Steps *)

\* A step that only ends the work of w, or gives w work without a token.
LEMMA Released ==
    ASSUME ExecutionInv, TypeOK', Extends, UNCHANGED <<records, tokens, given>>,
           NEW w \in Workers, NEW q, ~Owning(q), workers' = [workers EXCEPT ![w] = q]
    PROVE  ExecutionInv'
<1>a. workers \in [Workers -> Worker] /\ ReplaysOriginal /\ ReplayMatchesRequest
  BY InvParts, Types
<1>b. \A v \in Workers : workers'[v] = IF v = w THEN q ELSE workers[v]
  BY <1>a
<1>1. ASSUME NEW v \in Workers PROVE WorkerInv(v)'
  <2>1. CASE v = w
    BY <1>b, <2>1 DEF WorkerInv
  <2>2. CASE v # w
    <3>1. WorkerInv(v) /\ workers'[v] = workers[v]
      BY <1>b, <2>2, InvParts
    <3>2. \A u \in Workers \ {v} : Owning(workers'[u]) => workers'[u] = workers[u]
      BY <1>b
    <3> QED  BY <3>1, <3>2 DEF WorkerInv, Extends
  <2> QED  BY <2>1, <2>2
<1>2. ASSUME NEW k \in Keys PROVE RecordInv(k)'
  <2>1. RecordInv(k)
    BY InvParts
  <2> QED  BY <2>1 DEF RecordInv, Extends
<1>3. ASSUME NEW g \in given' PROVE GivenInv(g)'
  <2>1. GivenInv(g)
    BY InvParts
  <2> QED  BY <2>1 DEF GivenInv, Extends
<1> QED  BY <1>a, <1>1, <1>2, <1>3, InvPartsNext DEF ReplaysOriginal, ReplayMatchesRequest

LEMMA UnprotectedInv ==
    ASSUME ExecutionInv, NEW w \in Workers, NEW i \in Inputs, Unprotected(w, i)
    PROVE  ExecutionInv'
<1> DEFINE q == [stage |-> "running", key |-> NoKey, input |-> i, token |-> 0]
<1>1. q \in Worker /\ ~Owning(q)
  BY DEF Worker, Owning
<1>2. workers' = [workers EXCEPT ![w] = q] /\ UNCHANGED <<records, written, tokens, lapsed, given>>
  BY DEF Unprotected, Running, Set
<1> HIDE DEF q
<1>3. TypeOK'
  BY <1>1, <1>2, InvParts DEF TypeOK
<1> QED  BY <1>1, <1>2, <1>3, SameWritten, Released

LEMMA PanicInv ==
    ASSUME ExecutionInv, NEW w \in Workers, Panic(w)
    PROVE  ExecutionInv'
<1>a. /\ workers \in [Workers -> Worker] /\ workers[w] \in Worker
      /\ workers[w].stage # "idle" /\ workers' = [workers EXCEPT ![w] = IdleWorker]
      /\ UNCHANGED <<records, tokens, lapsed, given>>
  BY InvParts, Types DEF Panic, Set
<1>b. workers' \in [Workers -> Worker] /\ TypeOK
  BY <1>a, InvParts DEF Worker
<1>1. written' \in Seq(Committed) /\ Extends
  <2>1. CASE UNCHANGED written
    BY <1>b, <2>1, SameWritten, Types
  <2>2. CASE workers[w].stage = "running" /\ Commit(workers[w])
    BY <1>a, <1>b, <2>2, CommitExtends
  <2> QED  BY <2>1, <2>2 DEF Panic
<1>2. TypeOK'
  BY <1>a, <1>b, <1>1, InvParts DEF TypeOK
<1> QED  BY <1>a, <1>1, <1>2, IdleOwnsNothing, Released

LEMMA ExpireInv ==
    ASSUME ExecutionInv, NEW k \in Keys, Expire(k)
    PROVE  ExecutionInv'
<1>a. /\ TypeOK /\ records \in [Keys -> Record] /\ ReplaysOriginal /\ ReplayMatchesRequest
      /\ records' = [records EXCEPT ![k] = Absent] /\ records[k] # Absent
      /\ lapsed' = lapsed \cup {records[k].owner}
      /\ UNCHANGED <<workers, written, tokens, given>>
  BY InvParts, Types DEF Expire, Expires
<1>b. records' \in [Keys -> Record] /\ \A j \in Keys : records'[j] \in {Absent, records[j]}
  BY <1>a DEF Record
<1>c. records[k].owner \in Tokens
  BY <1>a, RecordCases
<1>1. TypeOK'
  BY <1>a, <1>b, <1>c DEF TypeOK
<1>2. ASSUME NEW w \in Workers PROVE WorkerInv(w)'
  <2>1. WorkerInv(w)
    BY InvParts
  <2> QED  BY <1>a, <1>b, <2>1 DEF WorkerInv, Backed
<1>3. ASSUME NEW j \in Keys PROVE RecordInv(j)'
  <2>1. RecordInv(j)
    BY InvParts
  <2> QED  BY <1>a, <1>b, <2>1 DEF RecordInv, Backed
<1>4. ASSUME NEW g \in given' PROVE GivenInv(g)'
  <2>1. GivenInv(g)
    BY <1>a, InvParts
  <2> QED  BY <1>a, <2>1 DEF GivenInv, Backed
<1> QED
  BY <1>a, <1>1, <1>2, <1>3, <1>4, InvPartsNext DEF ReplaysOriginal, ReplayMatchesRequest

\* A new owner has a token nobody has seen.
LEMMA AcquireInv ==
    ASSUME ExecutionInv, NEW w \in Workers, NEW k \in Keys, NEW i \in Inputs, Acquire(w, k, i)
    PROVE  ExecutionInv'
<1> DEFINE r == [state |-> "processing", owner |-> tokens + 1,
                 fingerprint |-> idempotencyFingerprint(i)]
           q == [stage |-> "running", key |-> k, input |-> i, token |-> tokens + 1]
<1>a. /\ TypeOK /\ records \in [Keys -> Record] /\ workers \in [Workers -> Worker]
      /\ tokens \in Nat /\ ReplaysOriginal /\ ReplayMatchesRequest
      /\ given \subseteq [token : Tokens, asked : Inputs, response : Response]
  BY InvParts, Types
<1>b. /\ tokens < MaxTokens /\ tokens' = tokens + 1 /\ records' = [records EXCEPT ![k] = r]
      /\ workers' = workers \/ workers' = [workers EXCEPT ![w] = q]
      /\ UNCHANGED <<written, lapsed, given>> /\ workers[w] = IdleWorker
  BY DEF Acquire, Running, Set
<1>c. tokens + 1 \in Tokens /\ tokens' \in 0 .. MaxTokens
  BY <1>a, <1>b, TokensAssumption DEF Tokens
<1>d. /\ r \in Record /\ r # Absent /\ r.state = "processing" /\ r.owner = tokens + 1
      /\ r.fingerprint = idempotencyFingerprint(i)
  BY <1>c DEF Record, Absent, Fingerprints
<1>e. /\ q \in Worker /\ q.token = tokens + 1 /\ q.stage = "running" /\ q.input = i
  BY <1>c DEF Worker
<1> HIDE DEF r, q
<1>f. /\ \A j \in Keys : records'[j] = IF j = k THEN r ELSE records[j]
      /\ records' \in [Keys -> Record] /\ workers' \in [Workers -> Worker]
      /\ \A v \in Workers : workers'[v] = workers[v] \/ (v = w /\ workers'[v] = q)
  BY <1>a, <1>b, <1>d, <1>e
<1>g. /\ \A v \in Workers : Owning(workers[v]) => workers[v].token \in Nat /\ workers[v].token <= tokens
      /\ \A j \in Keys : records[j] # Absent => records[j].owner \in Nat /\ records[j].owner <= tokens
      /\ \A g \in given : g.token \in Nat /\ g.token <= tokens
  <2>1. ASSUME NEW v \in Workers, Owning(workers[v])
        PROVE  workers[v].token \in Nat /\ workers[v].token <= tokens
    <3>1. WorkerInv(v) /\ workers[v] \in Worker
      BY <1>a, InvParts
    <3>2. workers[v].token \in Tokens
      BY <2>1, <3>1 DEF Worker, Owning, IdleWorker
    <3> QED  BY <2>1, <3>1, <3>2, TokenFacts DEF WorkerInv
  <2>2. ASSUME NEW j \in Keys, records[j] # Absent
        PROVE  records[j].owner \in Nat /\ records[j].owner <= tokens
    <3>1. RecordInv(j) /\ records[j] \in Record
      BY <1>a, InvParts
    <3> QED  BY <2>2, <3>1, RecordCases, TokenFacts DEF RecordInv
  <2>3. ASSUME NEW g \in given PROVE g.token \in Nat /\ g.token <= tokens
    <3>1. GivenInv(g) /\ g.token \in Tokens
      BY <1>a, InvParts
    <3> QED  BY <3>1, TokenFacts DEF GivenInv
  <2> QED  BY <2>1, <2>2, <2>3
<1>1. TypeOK'
  BY <1>a, <1>b, <1>c, <1>f DEF TypeOK
<1>2. ASSUME NEW v \in Workers PROVE WorkerInv(v)'
  <2>1. WorkerInv(v)
    BY InvParts
  <2>2. CASE workers'[v] = workers[v]
    <3> SUFFICES ASSUME Owning(workers[v]) PROVE WorkerInv(v)'
      BY <2>2 DEF WorkerInv
    <3>1. workers[v].token <= tokens' /\ workers[v].token # tokens + 1
      BY <1>a, <1>b, <1>g
    <3>2. \A u \in Workers \ {v} : Owning(workers'[u]) => workers'[u].token # workers[v].token
      BY <1>e, <1>f, <2>1, <3>1 DEF WorkerInv
    <3>3. \A j \in Keys : records'[j] # Absent /\ records'[j].owner = workers[v].token =>
               /\ records'[j].state = "processing"
               /\ records'[j].fingerprint = idempotencyFingerprint(workers[v].input)
      BY <1>d, <1>f, <2>1, <3>1 DEF WorkerInv
    <3> QED  BY <1>b, <2>1, <2>2, <3>1, <3>2, <3>3 DEF WorkerInv, Backed
  <2>3. CASE v = w /\ workers'[v] = q
    <3>1. q.token <= tokens'
      BY <1>a, <1>b, <1>e
    <3>2. \A u \in Workers \ {v} : Owning(workers'[u]) => workers'[u].token # q.token
      BY <1>a, <1>e, <1>f, <1>g, <2>3
    <3>3. \A j \in Keys : records'[j] # Absent /\ records'[j].owner = q.token =>
               /\ records'[j].state = "processing"
               /\ records'[j].fingerprint = idempotencyFingerprint(q.input)
      BY <1>a, <1>d, <1>e, <1>f, <1>g
    <3>4. \A g \in given' : g.token # q.token
      BY <1>a, <1>b, <1>e, <1>g
    <3> QED  BY <1>e, <2>3, <3>1, <3>2, <3>3, <3>4 DEF WorkerInv
  <2> QED  BY <1>f, <2>2, <2>3
<1>3. ASSUME NEW j \in Keys PROVE RecordInv(j)'
  <2>1. CASE j = k
    <3>1. \A i2 \in Keys \ {j} : records'[i2] # Absent => records'[i2].owner # r.owner
      BY <1>a, <1>d, <1>f, <1>g, <2>1
    <3> QED  BY <1>a, <1>b, <1>d, <1>f, <2>1, <3>1 DEF RecordInv
  <2>2. CASE j # k
    <3>1. RecordInv(j) /\ records'[j] = records[j]
      BY <1>f, <2>2, InvParts
    <3>2. records[j] # Absent => records[j].owner <= tokens' /\ records[j].owner # tokens + 1
      BY <1>a, <1>b, <1>g
    <3>3. \A i2 \in Keys \ {j} : records[j] # Absent /\ records'[i2] # Absent =>
             records'[i2].owner # records[j].owner
      BY <1>d, <1>f, <3>1, <3>2 DEF RecordInv
    <3> QED  BY <1>b, <3>1, <3>2, <3>3 DEF RecordInv, Backed
  <2> QED  BY <2>1, <2>2
<1>4. ASSUME NEW g \in given' PROVE GivenInv(g)'
  <2>1. g \in given /\ GivenInv(g)
    BY <1>b, InvParts
  <2>2. g.token <= tokens'
    BY <1>a, <1>b, <1>g, <2>1
  <2> QED  BY <1>b, <2>1, <2>2 DEF GivenInv, Backed
<1> QED
  BY <1>a, <1>b, <1>1, <1>2, <1>3, <1>4, InvPartsNext
     DEF ReplaysOriginal, ReplayMatchesRequest

\* A step that tells one client a result g that every holder of the token agrees with.
LEMMA ToldInv ==
    ASSUME ExecutionInv, Extends, NEW g, given' = given \cup {g},
           UNCHANGED <<records, tokens>>, g.token <= tokens, Backed(g.response, g.token)',
           idempotencyFingerprint(g.asked) = idempotencyFingerprint(g.response.input),
           \A h \in given : h.token = g.token => h.response = g.response,
           \A k \in Keys : records[k] # Absent /\ records[k].state # "processing"
                               /\ records[k].owner = g.token => records[k].response = g.response
    PROVE  /\ ReplaysOriginal' /\ ReplayMatchesRequest'
           /\ \A k \in Keys : RecordInv(k)'
           /\ \A h \in given' : GivenInv(h)'
<1>1. ReplaysOriginal'
  BY InvParts DEF ReplaysOriginal
<1>2. ReplayMatchesRequest'
  BY InvParts DEF ReplayMatchesRequest, idempotencyFingerprint
<1>3. ASSUME NEW k \in Keys PROVE RecordInv(k)'
  <2>1. RecordInv(k)
    BY InvParts
  <2> QED  BY <2>1 DEF RecordInv, Extends
<1>4. ASSUME NEW h \in given' PROVE GivenInv(h)'
  <2>1. h \in given => GivenInv(h)
    BY InvParts
  <2> QED  BY <2>1 DEF GivenInv, Extends
<1> QED  BY <1>1, <1>2, <1>3, <1>4

LEMMA ReplayInv ==
    ASSUME ExecutionInv, NEW w \in Workers, NEW k \in Keys, NEW i \in Inputs, Replay(w, k, i)
    PROVE  ExecutionInv'
<1>0. PICK r, g : r = records[k] /\ g = [token |-> r.owner, asked |-> i, response |-> r.response]
  OBVIOUS
<1>a. /\ TypeOK /\ r \in Record /\ RecordInv(k)
      /\ given \subseteq [token : Tokens, asked : Inputs, response : Response]
  BY <1>0, InvParts, Types
<1>b. /\ r # Absent /\ r.state # "processing" /\ r.fingerprint = idempotencyFingerprint(i)
      /\ given' = given \cup {g} /\ UNCHANGED <<records, workers, written, tokens, lapsed>>
  BY <1>0, AbsentState DEF Replay
<1>c. r.owner \in Tokens /\ r.response \in Response
  BY <1>a, <1>b, RecordCases
<1>d. /\ r.owner <= tokens /\ r.fingerprint = idempotencyFingerprint(r.response.input)
      /\ Backed(r.response, r.owner) /\ \A h \in given : h.token = r.owner => h.response = r.response
  BY <1>0, <1>a, <1>b DEF RecordInv
<1>e. /\ g \in [token : Tokens, asked : Inputs, response : Response]
      /\ g.token = r.owner /\ g.asked = i /\ g.response = r.response
  BY <1>0, <1>c
<1>1. TypeOK'
  BY <1>a, <1>b, <1>e DEF TypeOK
<1>2. ASSUME NEW j \in Keys, records[j] # Absent, records[j].state # "processing",
             records[j].owner = r.owner
      PROVE  records[j].response = r.response
  BY <1>0, <1>a, <1>b, <1>2 DEF RecordInv
<1>3. ASSUME NEW v \in Workers PROVE WorkerInv(v)'
  <2>1. WorkerInv(v)
    BY InvParts
  <2>2. Owning(workers[v]) => workers[v].token # g.token
    BY <1>0, <1>b, <1>e, <2>1 DEF WorkerInv
  <2> QED  BY <1>b, <2>1, <2>2 DEF WorkerInv, Backed
<1>4. Extends /\ Backed(g.response, g.token)'
  BY <1>b, <1>d, <1>e, SameWritten DEF Extends
<1>5. /\ ReplaysOriginal' /\ ReplayMatchesRequest'
      /\ \A j \in Keys : RecordInv(j)'
      /\ \A h \in given' : GivenInv(h)'
  <2>1. idempotencyFingerprint(g.asked) = idempotencyFingerprint(g.response.input)
    BY <1>b, <1>d, <1>e
  <2>2. \A j \in Keys : records[j] # Absent /\ records[j].state # "processing"
            /\ records[j].owner = g.token => records[j].response = g.response
    BY <1>e, <1>2
  <2>3. \A h \in given : h.token = g.token => h.response = g.response
    BY <1>d, <1>e
  <2>4. g.token <= tokens
    BY <1>d, <1>e
  <2> QED  BY <1>b, <1>4, <2>1, <2>2, <2>3, <2>4, ToldInv
<1> QED  BY <1>1, <1>3, <1>4, <1>5, InvPartsNext

\* The handler answers, with the writes as the step leaves them.
LEMMA AnsweredInv ==
    ASSUME ExecutionInv, NEW w \in Workers, workers[w].stage = "running",
           NEW code \in Codes, Answered(w, code), UNCHANGED <<records, tokens, lapsed>>,
           written' \in Seq(Committed), Extends,
           code = "ok" => \E n \in DOMAIN written' :
               written'[n].input = workers[w].input /\ written'[n].token = workers[w].token
    PROVE  ExecutionInv'
<1>0. PICK q : q = workers[w]
  OBVIOUS
<1>a. /\ TypeOK /\ workers \in [Workers -> Worker] /\ q \in Worker /\ WorkerInv(w)
      /\ records \in [Keys -> Record]
      /\ given \subseteq [token : Tokens, asked : Inputs, response : Response]
  BY <1>0, InvParts, Types
<1>1. CASE ~Protected(q)
  <2>1. workers' = [workers EXCEPT ![w] = IdleWorker] /\ UNCHANGED given
    BY <1>0, <1>1 DEF Answered, Set
  <2>2. TypeOK'
    BY <1>a, <2>1 DEF TypeOK, Worker
  <2> QED  BY <2>1, <2>2, IdleOwnsNothing, Released
<1>2. CASE Protected(q)
  <2> DEFINE response == [input |-> q.input, code |-> code]
             p == [stage |-> "answered", key |-> q.key, input |-> q.input,
                   token |-> q.token, response |-> response]
             g == [token |-> q.token, asked |-> q.input, response |-> response]
  <2>1. workers' = [workers EXCEPT ![w] = p] /\ given' = given \cup {g}
    BY <1>0, <1>2 DEF Answered, Set
  <2>2. q.input \in Inputs /\ q.key \in Keys /\ q.token \in Tokens
    BY <1>0, <1>a, <1>2, WorkerCases
  <2>3. response \in Response /\ response.input = q.input /\ response.code = code
    BY <2>2 DEF Response
  <2>4. Backed(response, q.token)'
    BY <1>0, <2>3 DEF Backed
  <2> HIDE DEF response
  <2>5. /\ p \in Worker /\ p.token = q.token /\ p.stage = "answered" /\ p.input = q.input
        /\ p.response = response
    BY <2>2, <2>3 DEF Worker
  <2>6. /\ g \in [token : Tokens, asked : Inputs, response : Response]
        /\ g.token = q.token /\ g.asked = q.input /\ g.response = response
    BY <2>2, <2>3
  <2> HIDE DEF p, g
  <2>7. \A v \in Workers : workers'[v] = IF v = w THEN p ELSE workers[v]
    BY <1>a, <2>1
  <2>8. Owning(q) /\ Owning(p)
    BY <1>0, <2>2, <2>5, TokenFacts DEF Owning
  <2>9. /\ q.token <= tokens
        /\ \A v \in Workers \ {w} : Owning(workers[v]) => workers[v].token # q.token
        /\ \A k \in Keys : records[k] # Absent /\ records[k].owner = q.token =>
               /\ records[k].state = "processing"
               /\ records[k].fingerprint = idempotencyFingerprint(q.input)
        /\ \A h \in given : h.token # q.token
    BY <1>0, <1>a, <2>8 DEF WorkerInv
  <2>10. TypeOK'
    BY <1>a, <2>1, <2>5, <2>6 DEF TypeOK
  <2>11. ASSUME NEW v \in Workers PROVE WorkerInv(v)'
    <3>1. CASE v = w
      <4>1. workers'[v] = p
        BY <2>7, <3>1
      <4>2. \A u \in Workers \ {v} : Owning(workers'[u]) => workers'[u].token # p.token
        BY <2>5, <2>7, <2>9, <3>1
      <4>3. \A h \in given' : h.token = p.token => h.response = p.response
        BY <2>1, <2>5, <2>6, <2>9
      <4> QED  BY <2>3, <2>4, <2>5, <2>9, <4>1, <4>2, <4>3 DEF WorkerInv
    <3>2. CASE v # w
      <4>1. WorkerInv(v) /\ workers'[v] = workers[v]
        BY <2>7, <3>2, InvParts
      <4>2. Owning(workers[v]) => workers[v].token # q.token
        BY <2>9, <3>2
      <4>3. \A u \in Workers \ {v} :
               Owning(workers[v]) /\ Owning(workers'[u]) => workers'[u].token # workers[v].token
        BY <2>5, <2>7, <4>1, <4>2 DEF WorkerInv
      <4> QED  BY <2>1, <2>6, <4>1, <4>2, <4>3 DEF WorkerInv, Extends
    <3> QED  BY <3>1, <3>2
  <2>12. /\ ReplaysOriginal' /\ ReplayMatchesRequest'
         /\ \A k \in Keys : RecordInv(k)'
         /\ \A h \in given' : GivenInv(h)'
    BY <2>1, <2>3, <2>4, <2>6, <2>9, ToldInv
  <2> QED  BY <2>10, <2>11, <2>12, InvPartsNext
<1> QED  BY <1>1, <1>2

LEMMA HandleInv ==
    ASSUME ExecutionInv, NEW w \in Workers, Handle(w)
    PROVE  ExecutionInv'
<1>a. TypeOK /\ workers[w] \in Worker /\ written \in Seq(Committed)
  BY InvParts, Types
<1>1. CASE Write(w)
  <2>1. /\ workers[w].stage = "running" /\ Commit(workers[w])
        /\ UNCHANGED <<records, tokens, lapsed>>
    BY <1>1 DEF Write
  <2>2. /\ written' \in Seq(Committed) /\ Extends
        /\ \E n \in DOMAIN written' :
             written'[n].input = workers[w].input /\ written'[n].token = workers[w].token
    BY <1>a, <2>1, CommitExtends
  <2>3. PICK code \in Codes : Answered(w, code)
    BY <1>1 DEF Write
  <2> QED  BY <2>1, <2>2, <2>3, AnsweredInv
<1>2. CASE NoWrite(w)
  <2>1. workers[w].stage = "running" /\ UNCHANGED <<records, written, tokens, lapsed>>
    BY <1>2 DEF NoWrite
  <2>2. "error" \in Codes /\ Answered(w, "error")
    BY <1>2 DEF NoWrite, Codes
  <2> QED  BY <1>a, <2>1, <2>2, SameWritten, AnsweredInv
<1> QED  BY <1>1, <1>2, PanicInv DEF Handle

\* The owner stores its result, and nobody else does.
LEMMA PersistInv ==
    ASSUME ExecutionInv, NEW w \in Workers, Persist(w)
    PROVE  ExecutionInv'
<1>0. PICK q : q = workers[w]
  OBVIOUS
<1>a. /\ TypeOK /\ workers \in [Workers -> Worker] /\ records \in [Keys -> Record]
      /\ q \in Worker /\ WorkerInv(w) /\ ReplaysOriginal /\ ReplayMatchesRequest
  BY <1>0, InvParts, Types
<1>b. /\ q.stage = "answered" /\ workers' = [workers EXCEPT ![w] = IdleWorker]
      /\ UNCHANGED <<written, tokens, lapsed, given>>
  BY <1>0 DEF Persist, Set
<1>1. CASE UNCHANGED records
  <2>1. TypeOK'
    BY <1>a, <1>b, <1>1 DEF TypeOK, Worker
  <2> QED  BY <1>b, <1>1, <2>1, SameWritten, IdleOwnsNothing, Released
<1>2. CASE ~UNCHANGED records
  <2> DEFINE k == q.key
             r == [state |-> Verdict(q.response), owner |-> records[k].owner,
                   fingerprint |-> records[k].fingerprint, response |-> q.response]
  <2>1. Owns(q) /\ records' = [records EXCEPT ![k] = r]
    BY <1>0, <1>2 DEF Persist
  <2>2. k \in Keys /\ q.response \in Response /\ q.token \in Tokens
    BY <1>a, <1>b, WorkerCases
  <2>3. records[k].state = "processing" /\ records[k].owner = q.token /\ records[k] # Absent
    BY <2>1, AbsentState DEF Owns
  <2>4. Owning(q)
    BY <1>b, <2>2, TokenFacts DEF Owning
  <2>5. /\ records[k].fingerprint = idempotencyFingerprint(q.input)
        /\ q.token <= tokens /\ q.response.input = q.input /\ Backed(q.response, q.token)
        /\ \A v \in Workers \ {w} : Owning(workers[v]) => workers[v].token # q.token
        /\ \A g \in given : g.token = q.token => g.response = q.response
    BY <1>0, <1>a, <1>b, <2>2, <2>3, <2>4 DEF WorkerInv
  <2>6. /\ r \in Record /\ r # Absent /\ r.owner = q.token /\ r.state = Verdict(q.response)
        /\ r.state # "processing" /\ r.response = q.response
        /\ r.fingerprint = idempotencyFingerprint(q.response.input)
    <3>1. records[k].owner \in Tokens /\ records[k].fingerprint \in Fingerprints
      BY <1>a, <2>2, <2>3, RecordCases
    <3> QED  BY <2>2, <2>3, <2>5, <3>1 DEF Record, Absent, Verdict
  <2> HIDE DEF r
  <2>7. /\ \A j \in Keys : records'[j] = IF j = k THEN r ELSE records[j]
        /\ records' \in [Keys -> Record]
        /\ \A v \in Workers : workers'[v] = IF v = w THEN IdleWorker ELSE workers[v]
        /\ workers' \in [Workers -> Worker]
    BY <1>a, <1>b, <2>1, <2>6 DEF Worker
  <2>8. TypeOK'
    BY <1>a, <1>b, <2>7 DEF TypeOK
  <2>9. ASSUME NEW v \in Workers PROVE WorkerInv(v)'
    <3>1. CASE v = w
      BY <2>7, <3>1, IdleOwnsNothing DEF WorkerInv
    <3>2. CASE v # w
      <4>1. WorkerInv(v) /\ workers'[v] = workers[v]
        BY <2>7, <3>2, InvParts
      <4>2. \A u \in Workers \ {v} :
               Owning(workers[v]) /\ Owning(workers'[u]) => workers'[u].token # workers[v].token
        BY <2>7, <4>1, IdleOwnsNothing DEF WorkerInv
      <4>3. \A j \in Keys : Owning(workers[v]) /\ records'[j] # Absent
                              /\ records'[j].owner = workers[v].token =>
               /\ records'[j].state = "processing"
               /\ records'[j].fingerprint = idempotencyFingerprint(workers[v].input)
        BY <2>5, <2>6, <2>7, <3>2, <4>1 DEF WorkerInv
      <4> QED  BY <1>b, <4>1, <4>2, <4>3 DEF WorkerInv, Backed
    <3> QED  BY <3>1, <3>2
  <2>10. ASSUME NEW j \in Keys PROVE RecordInv(j)'
    <3>1. RecordInv(j) /\ RecordInv(k)
      BY <2>2, InvParts
    <3>2. CASE j = k
      <4>1. \A i \in Keys \ {k} : records'[i] # Absent => records'[i].owner # r.owner
        BY <2>3, <2>6, <2>7, <3>1 DEF RecordInv
      <4> QED  BY <1>b, <2>5, <2>6, <2>7, <3>2, <4>1 DEF RecordInv, Backed
    <3>3. CASE j # k
      <4>1. \A i \in Keys \ {j} : records[j] # Absent /\ records'[i] # Absent =>
               records'[i].owner # records[j].owner
        <5>1. \A i \in Keys \ {j} : records[j] # Absent /\ records[i] # Absent =>
                 records[i].owner # records[j].owner
          BY <3>1 DEF RecordInv
        <5>2. records'[k].owner = records[k].owner /\ records[k] # Absent /\ k \in Keys
          BY <2>2, <2>3, <2>6, <2>7
        <5>3. \A i \in Keys \ {k} : records'[i] = records[i]
          BY <2>7
        <5> HIDE DEF k
        <5> QED  BY <3>3, <5>1, <5>2, <5>3
      <4>2. records'[j] = records[j]
        BY <2>7, <3>3
      <4> QED  BY <1>b, <3>1, <4>1, <4>2 DEF RecordInv, Backed
    <3> QED  BY <3>2, <3>3
  <2>11. ASSUME NEW g \in given' PROVE GivenInv(g)'
    <3>1. GivenInv(g)
      BY <1>b, InvParts
    <3> QED  BY <1>b, <3>1 DEF GivenInv, Backed
  <2> QED
    BY <1>a, <1>b, <2>8, <2>9, <2>10, <2>11, InvPartsNext
       DEF ReplaysOriginal, ReplayMatchesRequest
<1> QED  BY <1>1, <1>2

-----------------------------------------------------------------------------
(* The theorems *)

LEMMA InitInv == Init => ExecutionInv
<1> SUFFICES ASSUME Init PROVE ExecutionInv
  OBVIOUS
<1>1. TypeOK
  <2>1. 0 \in 0 .. MaxTokens /\ << >> \in Seq(Committed)
    BY TokensAssumption
  <2> QED  BY <2>1 DEF Init, TypeOK, Record, Worker
<1>2. \A w \in Workers : WorkerInv(w)
  BY IdleOwnsNothing DEF Init, WorkerInv
<1>3. \A k \in Keys : RecordInv(k)
  BY DEF Init, RecordInv
<1>4. ReplaysOriginal /\ ReplayMatchesRequest /\ \A g \in given : GivenInv(g)
  BY DEF Init, ReplaysOriginal, ReplayMatchesRequest
<1> QED  BY <1>1, <1>2, <1>3, <1>4, InvParts

LEMMA NextInv == ExecutionInv /\ [Next]_vars => ExecutionInv'
<1> SUFFICES ASSUME ExecutionInv, [Next]_vars PROVE ExecutionInv'
  OBVIOUS
<1>1. CASE UNCHANGED vars
  <2>1. /\ records' = records /\ workers' = workers /\ written' = written
        /\ given' = given /\ tokens' = tokens /\ lapsed' = lapsed
    BY <1>1 DEF vars
  <2>2. TypeOK' /\ ReplaysOriginal' /\ ReplayMatchesRequest'
    BY <2>1, InvParts DEF TypeOK, ReplaysOriginal, ReplayMatchesRequest
  <2>3. ASSUME NEW w \in Workers PROVE WorkerInv(w)'
    BY <2>1, InvParts DEF WorkerInv, Backed
  <2>4. ASSUME NEW k \in Keys PROVE RecordInv(k)'
    BY <2>1, InvParts DEF RecordInv, Backed
  <2>5. ASSUME NEW g \in given' PROVE GivenInv(g)'
    BY <2>1, InvParts DEF GivenInv, Backed
  <2> QED  BY <2>2, <2>3, <2>4, <2>5, InvPartsNext
<1>2. ASSUME NEW w \in Workers, Request(w) PROVE ExecutionInv'
  BY <1>2, UnprotectedInv, AcquireInv, ReplayInv DEF Request
<1>3. ASSUME NEW w \in Workers, Handle(w) \/ Persist(w) PROVE ExecutionInv'
  BY <1>3, HandleInv, PersistInv
<1>4. ASSUME NEW k \in Keys, Expire(k) PROVE ExecutionInv'
  BY <1>4, ExpireInv
<1> QED  BY <1>1, <1>2, <1>3, <1>4 DEF Next

\* The inductive invariant holds: workers, records and answers of one execution agree.
THEOREM ExecutionInvariant == Spec => []ExecutionInv
<1> QED  BY InitInv, NextInv, PTL DEF Spec

\* All clients told of one execution are told the same.
THEOREM ReplayIsFaithful == Spec => []ReplaysOriginal
<1>1. ExecutionInv => ReplaysOriginal
  BY InvParts
<1> QED  BY <1>1, ExecutionInvariant, PTL

\* Nobody is given the result of another request.
THEOREM ReplayIsOwn == Spec => []ReplayMatchesRequest
<1>1. ExecutionInv => ReplayMatchesRequest
  BY InvParts
<1> QED  BY <1>1, ExecutionInvariant, PTL

\* A success that is told or stored was committed.
THEOREM SuccessIsReal == Spec => []SuccessIsCommitted
<1>1. ExecutionInv => SuccessIsCommitted
  <2> SUFFICES ASSUME ExecutionInv PROVE SuccessIsCommitted
    OBVIOUS
  <2>1. ASSUME NEW k \in Keys, records[k].state = "completed"
        PROVE  records[k].response.code = "ok" /\ Backed(records[k].response, records[k].owner)
    <3>1. RecordInv(k) /\ records[k] # Absent
      BY <2>1, InvParts, AbsentState
    <3> QED  BY <2>1, <3>1 DEF RecordInv, Verdict
  <2>2. \A g \in given : Backed(g.response, g.token)
    BY InvParts DEF GivenInv
  <2> QED  BY <2>1, <2>2 DEF SuccessIsCommitted
<1> QED  BY <1>1, ExecutionInvariant, PTL

\* Until it expires a record keeps its owner, its fingerprint and its result.
THEOREM RecordsAreHeld == Spec => HeldUntilExpired
<1> DEFINE Kept == \A k \in Keys :
          records[k] # Absent /\ records'[k] # Absent =>
              /\ records'[k].owner = records[k].owner
              /\ records'[k].fingerprint = records[k].fingerprint
              /\ records[k].state # "processing" => records'[k] = records[k]
<1>1. ExecutionInv /\ [Next]_vars => [Kept]_vars
  <2> SUFFICES ASSUME ExecutionInv, Next PROVE Kept
    OBVIOUS
  <2>0. records \in [Keys -> Record] /\ workers \in [Workers -> Worker]
    BY InvParts, Types
  <2>1. CASE UNCHANGED records
    BY <2>1
  <2>2. ASSUME NEW w \in Workers, NEW k \in Keys, NEW i \in Inputs, Acquire(w, k, i) PROVE Kept
    <3>1. records[k] = Absent /\ \A j \in Keys \ {k} : records'[j] = records[j]
      BY <2>0, <2>2 DEF Acquire, Acquirable
    <3> QED  BY <3>1
  <2>3. ASSUME NEW k \in Keys, Expire(k) PROVE Kept
    <3>1. records'[k] = Absent /\ \A j \in Keys \ {k} : records'[j] = records[j]
      BY <2>0, <2>3 DEF Expire
    <3> QED  BY <3>1
  <2>4. ASSUME NEW w \in Workers, Persist(w), ~UNCHANGED records PROVE Kept
    <3>0. PICK q : q = workers[w]
      OBVIOUS
    <3>1. q.key \in Keys
      BY <2>0, <2>4, <3>0, WorkerCases DEF Persist
    <3>2. /\ records[q.key].state = "processing"
          /\ records' = [records EXCEPT ![q.key] =
                 [state |-> Verdict(q.response), owner |-> records[q.key].owner,
                  fingerprint |-> records[q.key].fingerprint, response |-> q.response]]
      BY <2>4, <3>0 DEF Persist, Owns
    <3>3. /\ records'[q.key].owner = records[q.key].owner
          /\ records'[q.key].fingerprint = records[q.key].fingerprint
          /\ \A j \in Keys \ {q.key} : records'[j] = records[j]
      BY <2>0, <3>1, <3>2
    <3> QED  BY <3>2, <3>3
  <2>5. ASSUME NEW w \in Workers, Handle(w) PROVE UNCHANGED records
    BY <2>5 DEF Handle, Write, NoWrite, Panic
  <2>6. ASSUME NEW w \in Workers, NEW i \in Inputs,
               Unprotected(w, i) \/ \E k \in Keys : Replay(w, k, i)
        PROVE  UNCHANGED records
    BY <2>6 DEF Unprotected, Replay
  <2> HIDE DEF Kept
  <2> QED  BY <2>1, <2>2, <2>3, <2>4, <2>5, <2>6 DEF Next, Request
<1> QED  BY <1>1, ExecutionInvariant, PTL DEF Spec, HeldUntilExpired

-----------------------------------------------------------------------------
(* A key commits once *)

LEMMA OwnerFacts ==
    ASSUME NEW q \in Worker, Owning(q)
    PROVE  q.key \in Keys /\ q.token \in Tokens /\ q.stage \in {"running", "answered"}
BY DEF Worker, Owning, IdleWorker

LEMMA CommittedFacts ==
    ASSUME NEW c \in Committed, c.token # 0 \/ c.key # NoKey
    PROVE  c.key \in Keys /\ c.token \in Tokens
BY DEF Committed

LEMMA CommitParts ==
    CommitInv <=> (\A w \in Workers : HolderInv(w)) /\ (\A n \in DOMAIN written : WrittenInv(n))
BY DEF CommitInv

LEMMA CommitPartsNext ==
    CommitInv' <=> (\A w \in Workers : HolderInv(w)') /\ (\A n \in DOMAIN written' : WrittenInv(n)')
BY DEF CommitInv

\* What is known of the executions, by type and by the first invariant.
LEMMA ExecutionFacts ==
    ASSUME ExecutionInv
    PROVE  /\ \A w \in Workers : Owning(workers[w]) =>
                /\ workers[w].key \in Keys /\ workers[w].token \in Tokens
                /\ workers[w].token <= tokens
           /\ \A n \in DOMAIN written : written[n] \in Committed
           /\ tokens \in Nat
<1>1. workers \in [Workers -> Worker] /\ written \in Seq(Committed) /\ tokens \in Nat
  BY InvParts, Types
<1>2. ASSUME NEW w \in Workers, Owning(workers[w])
      PROVE  /\ workers[w].key \in Keys /\ workers[w].token \in Tokens
             /\ workers[w].token <= tokens
  <2>1. WorkerInv(w) /\ workers[w] \in Worker
    BY <1>1, InvParts
  <2> QED  BY <1>2, <2>1, OwnerFacts DEF WorkerInv
<1>3. \A n \in DOMAIN written : written[n] \in Committed
  BY <1>1
<1> QED  BY <1>1, <1>2, <1>3

\* An execution that held its key still did, or has lost it to time.
KeepsHeld == \A k \in Keys, t \in Tokens : t <= tokens /\ Held(k, t) => Held(k, t)'

\* A worker goes on with the execution it has, or ends it.
Continues(v) ==
    Owning(workers'[v]) =>
        /\ Owning(workers[v])
        /\ workers'[v].key = workers[v].key /\ workers'[v].token = workers[v].token
        /\ workers'[v].stage = "running" => workers[v].stage = "running"

LEMMA SameRecords ==
    ASSUME UNCHANGED <<records, lapsed>>
    PROVE  KeepsHeld
BY DEF KeepsHeld, Held

LEMMA SameWorkersContinue ==
    ASSUME UNCHANGED workers
    PROVE  \A v \in Workers : Continues(v)
BY DEF Continues

\* A worker that ends its execution, or answers.
LEMMA OneContinues ==
    ASSUME TypeOK, NEW w \in Workers, NEW q, workers' = [workers EXCEPT ![w] = q],
           \/ ~Owning(q)
           \/ /\ Owning(workers[w]) /\ q.stage = "answered"
              /\ q.key = workers[w].key /\ q.token = workers[w].token
    PROVE  \A v \in Workers : Continues(v)
<1>1. workers \in [Workers -> Worker]
  BY Types
<1>2. \A v \in Workers : workers'[v] = IF v = w THEN q ELSE workers[v]
  BY <1>1
<1> QED  BY <1>2 DEF Continues

LEMMA HolderContinues ==
    ASSUME ExecutionInv, CommitInv, KeepsHeld, NEW v \in Workers, Continues(v),
           workers'[v].stage = "running" =>
               \A n \in DOMAIN written' : n \in DOMAIN written /\ written'[n] = written[n]
    PROVE  HolderInv(v)'
<1> SUFFICES ASSUME Owning(workers'[v]) PROVE HolderInv(v)'
  BY DEF HolderInv
<1>0. PICK k, t : k = workers[v].key /\ t = workers[v].token
  OBVIOUS
<1>1. Owning(workers[v]) /\ HolderInv(v) /\ workers'[v].key = k /\ workers'[v].token = t
  BY <1>0, CommitParts DEF Continues
<1>2. Held(k, t)'
  BY <1>0, <1>1, ExecutionFacts DEF KeepsHeld, HolderInv
<1>3. workers'[v].stage = "running" => \A n \in DOMAIN written' : written'[n].token # t
  BY <1>0, <1>1 DEF Continues, HolderInv
<1> QED  BY <1>1, <1>2, <1>3 DEF HolderInv

LEMMA WrittenStays ==
    ASSUME ExecutionInv, CommitInv, KeepsHeld, tokens' \in Nat, tokens <= tokens',
           NEW n \in DOMAIN written, written'[n] = written[n],
           \A m \in DOMAIN written' \ {n} :
               (m \in DOMAIN written /\ written'[m] = written[m]) \/ written'[m].token # written[n].token
    PROVE  WrittenInv(n)'
<1>0. PICK c : c = written[n]
  OBVIOUS
<1> SUFFICES ASSUME c.token # 0 PROVE WrittenInv(n)'
  BY <1>0 DEF WrittenInv
<1>1. WrittenInv(n) /\ c \in Committed /\ tokens \in Nat
  BY <1>0, CommitParts, ExecutionFacts
<1>2. c.key \in Keys /\ c.token \in Tokens
  BY <1>1, CommittedFacts
<1>3. c.token <= tokens /\ Held(c.key, c.token)
  BY <1>0, <1>1 DEF WrittenInv
<1>4. PICK k, t : k = c.key /\ t = c.token
  OBVIOUS
<1>5. Held(k, t)'
  BY <1>2, <1>3, <1>4 DEF KeepsHeld
<1>6. c.token <= tokens'
  BY <1>1, <1>2, <1>3, TokenFacts
<1>7. \A m \in DOMAIN written' \ {n} : written'[m].token # c.token
  BY <1>0, <1>1 DEF WrittenInv
<1> QED  BY <1>0, <1>4, <1>5, <1>6, <1>7 DEF WrittenInv

\* A step that commits nothing.
LEMMA NothingCommitted ==
    ASSUME ExecutionInv, CommitInv, KeepsHeld, UNCHANGED <<written, tokens>>,
           \A v \in Workers : Continues(v)
    PROVE  CommitInv'
<1>1. ASSUME NEW v \in Workers PROVE HolderInv(v)'
  BY HolderContinues
<1>2. ASSUME NEW n \in DOMAIN written' PROVE WrittenInv(n)'
  <2>1. tokens' \in Nat /\ tokens <= tokens'
    BY ExecutionFacts
  <2> QED  BY <2>1, WrittenStays
<1> QED  BY <1>1, <1>2, CommitPartsNext

\* A step in which w commits, and is no longer running.
LEMMA OneCommitted ==
    ASSUME ExecutionInv, CommitInv, UNCHANGED <<records, lapsed, tokens>>,
           NEW w \in Workers, workers[w].stage = "running", Commit(workers[w]),
           \A v \in Workers : Continues(v), workers'[w].stage # "running",
           \A v \in Workers \ {w} : workers'[v] = workers[v]
    PROVE  CommitInv'
<1>0. PICK q, c : q = workers[w] /\ c = CommitOf(q)
  OBVIOUS
<1>a. TypeOK /\ q \in Worker /\ tokens \in Nat
  BY <1>0, InvParts, Types
<1>b. /\ c \in Committed /\ written' = Append(written, c) /\ q.stage = "running"
      /\ c.key = q.key /\ c.token = q.token
  BY <1>0, <1>a, CommitFacts DEF Commit, CommitOf
<1>c. PICK l : l = Len(written) + 1
  OBVIOUS
<1>d. /\ DOMAIN written' = DOMAIN written \cup {l} /\ l \notin DOMAIN written
      /\ \A n \in DOMAIN written : written'[n] = written[n]
      /\ written'[l] = c
  BY <1>a, <1>b, <1>c, MoreWritten
<1>e. KeepsHeld /\ tokens' \in Nat /\ tokens <= tokens'
  BY <1>a, SameRecords
<1>f. c.token # 0 => /\ Owning(q) /\ c.token <= tokens /\ Held(c.key, c.token)
                     /\ \A n \in DOMAIN written : written[n].token # c.token
  <2> SUFFICES ASSUME c.token # 0
               PROVE  /\ Owning(q) /\ c.token <= tokens /\ Held(c.key, c.token)
                      /\ \A n \in DOMAIN written : written[n].token # c.token
    OBVIOUS
  <2>1. Owning(q)
    BY <1>b DEF Owning
  <2>2. HolderInv(w) /\ q.token <= tokens
    BY <1>0, <2>1, CommitParts, ExecutionFacts
  <2> QED  BY <1>0, <1>b, <2>1, <2>2 DEF HolderInv
<1>1. ASSUME NEW v \in Workers PROVE HolderInv(v)'
  <2>1. CASE workers'[v].stage # "running"
    BY <1>e, <2>1, HolderContinues
  <2>2. CASE workers'[v].stage = "running"
    <3> SUFFICES ASSUME Owning(workers'[v]) PROVE HolderInv(v)'
      BY DEF HolderInv
    <3>1. v # w /\ workers'[v] = workers[v] /\ Owning(workers[v]) /\ workers[v].stage = "running"
      BY <2>2
    <3>2. HolderInv(v) /\ WorkerInv(v) /\ workers[v].token # 0
      BY <3>1, CommitParts, InvParts DEF Owning
    <3>3. \A n \in DOMAIN written : written[n].token # workers[v].token
      BY <3>1, <3>2 DEF HolderInv
    <3>4. c.token # workers[v].token
      BY <1>0, <1>b, <1>f, <3>1, <3>2 DEF WorkerInv
    <3>5. \A n \in DOMAIN written' : written'[n].token # workers[v].token
      BY <1>d, <3>3, <3>4
    <3>6. PICK k, t : k = workers[v].key /\ t = workers[v].token
      OBVIOUS
    <3>7. Held(k, t)'
      BY <1>e, <3>1, <3>2, <3>6, ExecutionFacts DEF HolderInv, KeepsHeld
    <3> QED  BY <3>1, <3>5, <3>6, <3>7 DEF HolderInv
  <2> QED  BY <2>1, <2>2
<1>2. ASSUME NEW n \in DOMAIN written PROVE WrittenInv(n)'
  <2>1. CASE c.token = written[n].token
    <3>1. c.token = 0
      BY <1>f, <2>1
    <3> QED  BY <1>d, <2>1, <3>1 DEF WrittenInv
  <2>2. CASE c.token # written[n].token
    <3>1. \A m \in DOMAIN written' \ {n} :
               (m \in DOMAIN written /\ written'[m] = written[m]) \/ written'[m].token # written[n].token
      BY <1>d, <2>2
    <3> QED  BY <1>d, <1>e, <3>1, WrittenStays
  <2> QED  BY <2>1, <2>2
<1>3. WrittenInv(l)'
  <2> SUFFICES ASSUME c.token # 0 PROVE WrittenInv(l)'
    BY <1>d DEF WrittenInv
  <2>1. PICK k, t : k = c.key /\ t = c.token
    OBVIOUS
  <2>2. k \in Keys /\ t \in Tokens
    BY <1>b, <2>1, CommittedFacts
  <2>3. Held(k, t)' /\ t <= tokens'
    BY <1>e, <1>f, <2>1, <2>2 DEF KeepsHeld
  <2>4. \A m \in DOMAIN written' \ {l} : written'[m].token # t
    BY <1>d, <1>f, <2>1
  <2> QED  BY <1>d, <2>1, <2>3, <2>4 DEF WrittenInv
<1> QED  BY <1>d, <1>1, <1>2, <1>3, CommitPartsNext

\* What Answered does to the workers.
LEMMA AnswererContinues ==
    ASSUME TypeOK, NEW w \in Workers, workers[w].stage = "running", NEW code, Answered(w, code)
    PROVE  /\ \A v \in Workers : Continues(v)
           /\ workers'[w].stage # "running"
           /\ \A v \in Workers \ {w} : workers'[v] = workers[v]
<1>0. PICK q : q = workers[w]
  OBVIOUS
<1>a. workers \in [Workers -> Worker] /\ q \in Worker /\ q.stage = "running"
  BY <1>0, Types
<1>1. CASE ~Protected(q)
  <2>1. workers' = [workers EXCEPT ![w] = IdleWorker]
    BY <1>0, <1>1 DEF Answered, Set
  <2>2. workers'[w].stage # "running" /\ \A v \in Workers \ {w} : workers'[v] = workers[v]
    BY <1>a, <2>1 DEF IdleWorker
  <2> QED  BY <2>1, <2>2, IdleOwnsNothing, OneContinues
<1>2. CASE Protected(q)
  <2> DEFINE p == [stage |-> "answered", key |-> q.key, input |-> q.input, token |-> q.token,
                   response |-> [input |-> q.input, code |-> code]]
  <2>1. workers' = [workers EXCEPT ![w] = p]
    BY <1>0, <1>2 DEF Answered, Set
  <2>2. p.stage = "answered" /\ p.key = q.key /\ p.token = q.token
    OBVIOUS
  <2> HIDE DEF p
  <2>3. workers'[w].stage # "running" /\ \A v \in Workers \ {w} : workers'[v] = workers[v]
    BY <1>a, <2>1, <2>2
  <2>4. Owning(q)
    BY <1>a, <1>2, WorkerCases, TokenFacts DEF Owning
  <2> QED  BY <1>0, <2>1, <2>2, <2>3, <2>4, OneContinues
<1> QED  BY <1>1, <1>2

LEMMA HandleCommits ==
    ASSUME ExecutionInv, CommitInv, NEW w \in Workers, Handle(w)
    PROVE  CommitInv'
<1>a. TypeOK /\ workers \in [Workers -> Worker]
  BY InvParts, Types
<1>1. CASE Write(w)
  <2>1. /\ workers[w].stage = "running" /\ Commit(workers[w])
        /\ UNCHANGED <<records, tokens, lapsed>>
    BY <1>1 DEF Write
  <2>2. PICK code \in Codes : Answered(w, code)
    BY <1>1 DEF Write
  <2> QED  BY <1>a, <2>1, <2>2, AnswererContinues, OneCommitted
<1>2. CASE NoWrite(w)
  <2>1. /\ workers[w].stage = "running" /\ Answered(w, "error")
        /\ UNCHANGED <<records, written, tokens, lapsed>>
    BY <1>2 DEF NoWrite
  <2> QED  BY <1>a, <2>1, AnswererContinues, SameRecords, NothingCommitted
<1>3. CASE Panic(w)
  <2>1. /\ workers' = [workers EXCEPT ![w] = IdleWorker]
        /\ UNCHANGED <<records, tokens, lapsed>>
    BY <1>3 DEF Panic, Set
  <2>2. \A v \in Workers : Continues(v)
    BY <1>a, <2>1, IdleOwnsNothing, OneContinues
  <2>3. CASE UNCHANGED written
    BY <2>1, <2>2, <2>3, SameRecords, NothingCommitted
  <2>4. CASE workers[w].stage = "running" /\ Commit(workers[w])
    <3>1. workers'[w].stage # "running" /\ \A v \in Workers \ {w} : workers'[v] = workers[v]
      BY <1>a, <2>1 DEF IdleWorker
    <3> QED  BY <2>1, <2>2, <2>4, <3>1, OneCommitted
  <2> QED  BY <1>3, <2>3, <2>4 DEF Panic
<1> QED  BY <1>1, <1>2, <1>3 DEF Handle

\* A record changes its state, not its owner.
LEMMA PersistCommits ==
    ASSUME ExecutionInv, CommitInv, NEW w \in Workers, Persist(w)
    PROVE  CommitInv'
<1>0. PICK q : q = workers[w]
  OBVIOUS
<1>a. TypeOK /\ records \in [Keys -> Record] /\ q \in Worker
  BY <1>0, InvParts, Types
<1>b. /\ q.stage = "answered" /\ workers' = [workers EXCEPT ![w] = IdleWorker]
      /\ UNCHANGED <<written, tokens, lapsed>>
  BY <1>0 DEF Persist, Set
<1>1. KeepsHeld
  <2>1. CASE UNCHANGED records
    BY <1>b, <2>1, SameRecords
  <2>2. CASE ~UNCHANGED records
    <3> DEFINE r == [state |-> Verdict(q.response), owner |-> records[q.key].owner,
                     fingerprint |-> records[q.key].fingerprint, response |-> q.response]
    <3>1. Owns(q) /\ records' = [records EXCEPT ![q.key] = r] /\ q.key \in Keys
      BY <1>0, <1>a, <1>b, <2>2, WorkerCases DEF Persist
    <3>2. r # Absent /\ r.owner = records[q.key].owner /\ records[q.key] # Absent
      BY <3>1, AbsentState DEF Owns, Verdict, Absent
    <3> HIDE DEF r
    <3>3. \A k \in Keys : /\ records'[k] # Absent <=> records[k] # Absent
                          /\ records[k] # Absent => records'[k].owner = records[k].owner
      BY <1>a, <3>1, <3>2
    <3> QED  BY <1>b, <3>3 DEF KeepsHeld, Held
  <2> QED  BY <2>1, <2>2
<1>2. \A v \in Workers : Continues(v)
  BY <1>a, <1>b, IdleOwnsNothing, OneContinues
<1> QED  BY <1>b, <1>1, <1>2, NothingCommitted

\* A record that expires has lost its execution.
LEMMA ExpireCommits ==
    ASSUME ExecutionInv, CommitInv, NEW k \in Keys, Expire(k)
    PROVE  CommitInv'
<1>a. /\ records \in [Keys -> Record] /\ records' = [records EXCEPT ![k] = Absent]
      /\ lapsed' = lapsed \cup {records[k].owner} /\ UNCHANGED <<workers, written, tokens>>
  BY InvParts, Types DEF Expire
<1>b. \A j \in Keys : records'[j] = IF j = k THEN Absent ELSE records[j]
  BY <1>a
<1>1. KeepsHeld
  BY <1>a, <1>b DEF KeepsHeld, Held
<1> QED  BY <1>a, <1>1, SameWorkersContinue, NothingCommitted

\* A key is acquired only when all earlier executions under it have lapsed.
LEMMA AcquireCommits ==
    ASSUME ExecutionInv, CommitInv, NEW w \in Workers, NEW k \in Keys, NEW i \in Inputs,
           Acquire(w, k, i)
    PROVE  CommitInv'
<1> DEFINE r == [state |-> "processing", owner |-> tokens + 1,
                 fingerprint |-> idempotencyFingerprint(i)]
           q == [stage |-> "running", key |-> k, input |-> i, token |-> tokens + 1]
<1>a. /\ TypeOK /\ records \in [Keys -> Record] /\ workers \in [Workers -> Worker]
      /\ tokens \in Nat
  BY InvParts, Types
<1>b. /\ records[k] = Absent /\ tokens' = tokens + 1 /\ records' = [records EXCEPT ![k] = r]
      /\ workers' = workers \/ workers' = [workers EXCEPT ![w] = q]
      /\ UNCHANGED <<written, lapsed>>
  BY DEF Acquire, Acquirable, Running, Set
<1>c. r # Absent /\ r.owner = tokens + 1
  BY DEF Absent
<1>d. q.key = k /\ q.token = tokens + 1 /\ q.stage = "running"
  OBVIOUS
<1> HIDE DEF r, q
<1>e. \A j \in Keys : records'[j] = IF j = k THEN r ELSE records[j]
  BY <1>a, <1>b
<1>f. tokens' \in Nat /\ tokens <= tokens'
  BY <1>a, <1>b
<1>1. KeepsHeld
  <2> SUFFICES ASSUME NEW j \in Keys, NEW t \in Tokens, t <= tokens, Held(j, t)
               PROVE  Held(j, t)'
    BY DEF KeepsHeld
  <2>1. CASE j # k
    BY <1>b, <1>e, <2>1 DEF Held
  <2>2. CASE j = k
    <3>1. t \in lapsed'
      BY <1>b, <2>2 DEF Held
    <3>2. t < r.owner
      BY <1>a, <1>c, TokenFacts
    <3> QED  BY <1>e, <2>2, <3>1, <3>2 DEF Held
  <2> QED  BY <2>1, <2>2
<1>2. ASSUME NEW n \in DOMAIN written' PROVE WrittenInv(n)'
  BY <1>b, <1>f, <1>1, WrittenStays
<1>3. ASSUME NEW v \in Workers PROVE HolderInv(v)'
  <2>1. CASE workers'[v] = workers[v]
    <3>1. Continues(v)
      BY <2>1 DEF Continues
    <3> QED  BY <1>b, <1>1, <3>1, HolderContinues
  <2>2. CASE workers'[v] = q
    <3>1. PICK t : t = tokens + 1
      OBVIOUS
    <3>2. Held(k, t)'
      BY <1>c, <1>e, <3>1 DEF Held
    <3>3. ASSUME NEW n \in DOMAIN written' PROVE written'[n].token # t
      <4>1. written[n] \in Committed /\ WrittenInv(n) /\ written'[n] = written[n]
        BY <1>b, CommitParts, ExecutionFacts
      <4>2. CASE written[n].token = 0
        BY <1>a, <3>1, <4>1, <4>2
      <4>3. CASE written[n].token # 0
        <5>1. written[n].token \in Nat
          BY <4>1, <4>3, CommittedFacts, TokenFacts
        <5>2. written[n].token <= tokens
          BY <4>1, <4>3 DEF WrittenInv
        <5> QED  BY <1>a, <3>1, <4>1, <5>1, <5>2
      <4> QED  BY <4>2, <4>3
    <3> QED  BY <1>d, <2>2, <3>1, <3>2, <3>3 DEF HolderInv
  <2>3. workers'[v] = workers[v] \/ workers'[v] = q
    BY <1>a, <1>b
  <2> QED  BY <2>1, <2>2, <2>3
<1> QED  BY <1>2, <1>3, CommitPartsNext

LEMMA UncommittedRequest ==
    ASSUME ExecutionInv, CommitInv, NEW w \in Workers, NEW i \in Inputs,
           Unprotected(w, i) \/ \E k \in Keys : Replay(w, k, i)
    PROVE  CommitInv'
<1>a. TypeOK
  BY InvParts
<1>1. CASE Unprotected(w, i)
  <2> DEFINE q == [stage |-> "running", key |-> NoKey, input |-> i, token |-> 0]
  <2>1. ~Owning(q)
    BY DEF Owning
  <2>2. workers' = [workers EXCEPT ![w] = q] /\ UNCHANGED <<records, written, tokens, lapsed>>
    BY <1>1 DEF Unprotected, Running, Set
  <2> HIDE DEF q
  <2> QED  BY <1>a, <2>1, <2>2, OneContinues, SameRecords, NothingCommitted
<1>2. CASE \E k \in Keys : Replay(w, k, i)
  <2>1. UNCHANGED <<records, workers, written, tokens, lapsed>>
    BY <1>2 DEF Replay
  <2> QED  BY <2>1, SameWorkersContinue, SameRecords, NothingCommitted
<1> QED  BY <1>1, <1>2

LEMMA NextCommits == ExecutionInv /\ CommitInv /\ [Next]_vars => CommitInv'
<1> SUFFICES ASSUME ExecutionInv, CommitInv, [Next]_vars PROVE CommitInv'
  OBVIOUS
<1>1. CASE UNCHANGED vars
  <2>1. UNCHANGED <<records, workers, written, tokens, lapsed>>
    BY <1>1 DEF vars
  <2> QED  BY <2>1, SameWorkersContinue, SameRecords, NothingCommitted
<1>2. ASSUME NEW w \in Workers, Request(w) PROVE CommitInv'
  BY <1>2, UncommittedRequest, AcquireCommits DEF Request
<1>3. ASSUME NEW w \in Workers, Handle(w) \/ Persist(w) PROVE CommitInv'
  BY <1>3, HandleCommits, PersistCommits
<1>4. ASSUME NEW k \in Keys, Expire(k) PROVE CommitInv'
  BY <1>4, ExpireCommits
<1> QED  BY <1>1, <1>2, <1>3, <1>4 DEF Next

\* The second inductive invariant: executions hold their key one after the other, and
\* each commits at most once.
THEOREM CommitInvariant == Spec => []CommitInv
<1>1. Init => CommitInv
  <2> SUFFICES ASSUME Init PROVE CommitInv
    OBVIOUS
  <2>1. \A w \in Workers : HolderInv(w)
    BY IdleOwnsNothing DEF Init, HolderInv
  <2>2. DOMAIN written = {}
    BY DEF Init
  <2> QED  BY <2>1, <2>2, CommitParts
<1> QED  BY <1>1, NextCommits, ExecutionInvariant, PTL DEF Spec

\* Of two writes committed under one key, the one begun first had lost its record:
\* until a key expires no retry commits again, whatever became of the first execution
\* and whatever version the request expects.
THEOREM KeyIsSpentOnce == Spec => []KeyCommitsOnce
<1>1. ExecutionInv /\ CommitInv => KeyCommitsOnce
  <2> SUFFICES ASSUME ExecutionInv, CommitInv, NEW m \in DOMAIN written,
                      NEW n \in DOMAIN written, m # n, written[m].key # NoKey,
                      written[m].key = written[n].key
               PROVE  /\ written[m].token # written[n].token
                      /\ written[m].token < written[n].token => written[m].token \in lapsed
    BY DEF KeyCommitsOnce
  <2>1. written[m] \in Committed /\ written[n] \in Committed /\ WrittenInv(m) /\ WrittenInv(n)
    BY CommitParts, ExecutionFacts
  <2>2. PICK k, s, t : k = written[m].key /\ s = written[m].token /\ t = written[n].token
    OBVIOUS
  <2>3. k \in Keys /\ s \in Nat /\ t \in Nat /\ s # 0 /\ t # 0
    BY <2>1, <2>2, CommittedFacts, TokenFacts
  <2>4. s # t /\ Held(k, s) /\ Held(k, t)
    BY <2>1, <2>2, <2>3 DEF WrittenInv
  <2>5. ASSUME s < t, s \notin lapsed PROVE FALSE
    <3>1. records[k] # Absent /\ records[k].owner = s
      BY <2>4, <2>5 DEF Held
    <3>2. t = s \/ t < s
      BY <2>4, <3>1 DEF Held
    <3> QED  BY <2>3, <2>5, <3>2
  <2> QED  BY <2>2, <2>4, <2>5
<1> QED  BY <1>1, ExecutionInvariant, CommitInvariant, PTL
=============================================================================
