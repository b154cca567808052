------------------------- MODULE RequestChainProofs -------------------------
(***************************************************************************)
(* Proofs about RequestChain: for any configuration, any requests, any     *)
(* finite number of them at once and any burst of the limits.              *)
(***************************************************************************)
EXTENDS RequestChain, FiniteSetTheorems, TLAPS

-----------------------------------------------------------------------------
(* The chains and the tables *)

\* The input is a request for a protected route or method.
IsApi(i) == i.transport = "grpc" \/ i.route \in ApiRoutes

\* What an input may be.
LEMMA InputKinds ==
    ASSUME settings \in Settings, NEW i \in Inputs[settings]
    PROVE  \/ i.transport = "grpc"
           \/ i.transport = "http" /\ i.route \in ApiRoutes
           \/ i.transport = "http" /\ i.route \notin ApiRoutes /\ i.route = "swagger"
           \/ i.transport = "http" /\ i.route \notin ApiRoutes /\ i.route = "pprof"
           \/ i.transport = "http" /\ i.route \notin ApiRoutes /\ i.route \in OpenRoutes
BY InputsAssumption DEF ApiRoutes, ConfigRoutes, WriteHandlers, ReadHandlers, OpenRoutes

\* The chain of each kind of input.
LEMMA Chains ==
    ASSUME NEW i
    PROVE  /\ i.transport = "grpc" => Chain(i) = <<"key", "auth", "authz", "idempotency", "handler">>
           /\ i.transport # "grpc" /\ i.route \in ApiRoutes =>
                Chain(i) = <<"key", "browser", "ip", "api", "auth", "authz", "user", "idempotency", "handler">>
           /\ i.transport # "grpc" /\ i.route = "swagger" => Chain(i) = <<"key", "browser", "jwt", "handler">>
           /\ i.transport # "grpc" /\ i.route = "pprof" => Chain(i) = <<"key", "browser", "pprof", "handler">>
           /\ i.transport # "grpc" /\ i.route \in OpenRoutes => Chain(i) = <<"key", "browser", "handler">>
<1>1. ASSUME i.transport # "grpc", i.route \in ApiRoutes 
      PROVE i.route \notin OpenRoutes /\ i.route # "swagger" /\ i.route # "pprof"
  BY <1>1 DEF ApiRoutes, ConfigRoutes, WriteHandlers, ReadHandlers, OpenRoutes
<1>2. i.route \in OpenRoutes => i.route # "swagger" /\ i.route # "pprof"
  BY DEF OpenRoutes
<1> QED BY <1>1, <1>2 DEF Chain

\* A chain names every check once and ends in its handler.
IsChain(seq) ==
    /\ Len(seq) \in Nat \ {0}
    /\ \A n \in 1 .. Len(seq) : n < Len(seq) <=> seq[n] # "handler"
    /\ \A m, n \in 1 .. Len(seq) : seq[m] = seq[n] => m = n

LEMMA GrpcChain == IsChain(<<"key", "auth", "authz", "idempotency", "handler">>)
<1> DEFINE s == <<"key", "auth", "authz", "idempotency", "handler">>
<1>1. Len(s) = 5 /\ \A n \in 1 .. 5 : n \in {1, 2, 3, 4, 5}
  OBVIOUS
<1>2. s[1] = "key" /\ s[2] = "auth" /\ s[3] = "authz" /\ s[4] = "idempotency" /\ s[5] = "handler"
  OBVIOUS
<1> HIDE DEF s
<1>3. IsChain(s)
  BY <1>1, <1>2 DEF IsChain
<1> QED BY <1>3 DEF s

LEMMA ApiChain == IsChain(<<"key", "browser", "ip", "api", "auth", "authz", "user", "idempotency", "handler">>)
<1> DEFINE s == <<"key", "browser", "ip", "api", "auth", "authz", "user", "idempotency", "handler">>
<1>1. Len(s) = 9 /\ \A n \in 1 .. 9 : n \in {1, 2, 3, 4, 5, 6, 7, 8, 9}
  OBVIOUS
<1>2. s[1] = "key" /\ s[2] = "browser" /\ s[3] = "ip" /\ s[4] = "api" /\ s[5] = "auth" /\ s[6] = "authz" /\ s[7] = "user" /\ s[8] = "idempotency" /\ s[9] = "handler"
  OBVIOUS
<1> HIDE DEF s
<1>3. IsChain(s)
  BY <1>1, <1>2 DEF IsChain
<1> QED BY <1>3 DEF s

LEMMA SwaggerChain == IsChain(<<"key", "browser", "jwt", "handler">>)
<1> DEFINE s == <<"key", "browser", "jwt", "handler">>
<1>1. Len(s) = 4 /\ \A n \in 1 .. 4 : n \in {1, 2, 3, 4}
  OBVIOUS
<1>2. s[1] = "key" /\ s[2] = "browser" /\ s[3] = "jwt" /\ s[4] = "handler"
  OBVIOUS
<1> HIDE DEF s
<1>3. IsChain(s)
  BY <1>1, <1>2 DEF IsChain
<1> QED BY <1>3 DEF s

LEMMA PprofChain == IsChain(<<"key", "browser", "pprof", "handler">>)
<1> DEFINE s == <<"key", "browser", "pprof", "handler">>
<1>1. Len(s) = 4 /\ \A n \in 1 .. 4 : n \in {1, 2, 3, 4}
  OBVIOUS
<1>2. s[1] = "key" /\ s[2] = "browser" /\ s[3] = "pprof" /\ s[4] = "handler"
  OBVIOUS
<1> HIDE DEF s
<1>3. IsChain(s)
  BY <1>1, <1>2 DEF IsChain
<1> QED BY <1>3 DEF s

LEMMA OpenChain == IsChain(<<"key", "browser", "handler">>)
<1> DEFINE s == <<"key", "browser", "handler">>
<1>1. Len(s) = 3 /\ \A n \in 1 .. 3 : n \in {1, 2, 3}
  OBVIOUS
<1>2. s[1] = "key" /\ s[2] = "browser" /\ s[3] = "handler"
  OBVIOUS
<1> HIDE DEF s
<1>3. IsChain(s)
  BY <1>1, <1>2 DEF IsChain
<1> QED BY <1>3 DEF s

LEMMA InputsHaveChains ==
    ASSUME settings \in Settings, NEW i \in Inputs[settings]
    PROVE  IsChain(Chain(i))
BY InputKinds, Chains, GrpcChain, ApiChain, SwaggerChain, PprofChain, OpenChain

\* The checks that come before idempotent execution and the handler of a protected
\* route or method.
LEMMA ChecksBeforeResult ==
    ASSUME settings \in Settings, NEW i \in Inputs[settings],
           NEW n \in 1 .. Len(Chain(i)), Chain(i)[n] \in {"idempotency", "handler"}, IsApi(i)
    PROVE  /\ \E m \in 1 .. n - 1 : Chain(i)[m] = "auth"
           /\ \E m \in 1 .. n - 1 : Chain(i)[m] = "authz"
           /\ i.transport = "http" => /\ \E m \in 1 .. n - 1 : Chain(i)[m] = "ip"
                                     /\ \E m \in 1 .. n - 1 : Chain(i)[m] = "api"
<1>1. CASE i.transport = "grpc"
  <2>1. Chain(i) = <<"key", "auth", "authz", "idempotency", "handler">>
    BY <1>1, Chains
  <2>2. n \in {4, 5} /\ Chain(i)[2] = "auth" /\ Chain(i)[3] = "authz"
    <3>1. n \in {1, 2, 3, 4, 5}
      BY <2>1
    <3>2. Chain(i)[1] = "key" /\ Chain(i)[2] = "auth" /\ Chain(i)[3] = "authz"
      BY <2>1
    <3> QED BY <3>1, <3>2
  <2>3. 2 \in 1 .. n - 1 /\ 3 \in 1 .. n - 1
    BY <2>2
  <2> QED BY <1>1, <2>2, <2>3
<1>2. CASE i.transport # "grpc"
  <2>1. Chain(i) = <<"key", "browser", "ip", "api", "auth", "authz", "user", "idempotency", "handler">>
    BY <1>2, Chains DEF IsApi
  <2>2. /\ Chain(i)[1] = "key" /\ Chain(i)[2] = "browser" /\ Chain(i)[3] = "ip"
        /\ Chain(i)[4] = "api" /\ Chain(i)[5] = "auth" /\ Chain(i)[6] = "authz"
        /\ Chain(i)[7] = "user"
    BY <2>1
  <2>3. n \in {8, 9}
    <3>1. n \in {1, 2, 3, 4, 5, 6, 7, 8, 9}
      BY <2>1
    <3> QED BY <2>2, <3>1
  <2>4. 3 \in 1 .. n - 1 /\ 4 \in 1 .. n - 1 /\ 5 \in 1 .. n - 1 /\ 6 \in 1 .. n - 1
    BY <2>3
  <2> QED BY <2>2, <2>4
<1> QED BY <1>1, <1>2

\* Only protected routes of the HTTP server are limited, and only protected
\* routes and methods are authorized.
LEMMA LimitedRoutes ==
    ASSUME settings \in Settings, NEW i \in Inputs[settings], NEW n \in 1 .. Len(Chain(i))
    PROVE  /\ Chain(i)[n] \in {"ip", "api"} => i.transport = "http" /\ i.route \in ApiRoutes
           /\ Chain(i)[n] = "authz" => IsApi(i)
<1>1. CASE i.transport = "grpc"
  <2>1. Chain(i) = <<"key", "auth", "authz", "idempotency", "handler">>
    BY <1>1, Chains
  <2>2. n \in {1, 2, 3, 4, 5}
    BY <2>1
  <2> QED BY <1>1, <2>1, <2>2 DEF IsApi
<1>2. CASE i.transport = "http" /\ i.route \in ApiRoutes
  BY <1>2 DEF IsApi
<1>3. CASE i.transport = "http" /\ i.route = "swagger"
  <2>1. Chain(i) = <<"key", "browser", "jwt", "handler">>
    BY <1>3, Chains
  <2>2. n \in {1, 2, 3, 4}
    BY <2>1
  <2> QED BY <2>1, <2>2
<1>4. CASE i.transport = "http" /\ i.route = "pprof"
  <2>1. Chain(i) = <<"key", "browser", "pprof", "handler">>
    BY <1>4, Chains
  <2>2. n \in {1, 2, 3, 4}
    BY <2>1
  <2> QED BY <2>1, <2>2
<1>5. CASE i.transport = "http" /\ i.route \in OpenRoutes
  <2>1. Chain(i) = <<"key", "browser", "handler">>
    BY <1>5, Chains
  <2>2. n \in {1, 2, 3}
    BY <2>1
  <2> QED BY <2>1, <2>2
<1> QED BY <1>1, <1>2, <1>3, <1>4, <1>5, InputKinds

\* The authorizer is asked for the very action that the method performs: the two
\* requirement tables agree with the handlers.
LEMMA RequirementIsAction ==
    ASSUME settings \in Settings, settings.authorization, NEW i \in Inputs[settings]
    PROVE  /\ IsApi(i) => Requirement(i) = ActionOf(Method(i))
           /\ ~IsApi(i) => ActionOf(Method(i)) = Nothing
<1>1. CASE i.transport = "grpc"
  BY <1>1 DEF Requirement, configGRPCRequirement, ActionOf, Method, IsApi
<1>2. CASE i.transport = "http" /\ i.route \in ApiRoutes
  BY <1>2 DEF Requirement, configHTTPRequirement, ActionOf, Method, IsApi, ApiRoutes, ConfigRoutes, WriteHandlers, ReadHandlers, Nothing
<1>3. CASE i.transport = "http" /\ i.route \notin ApiRoutes
  <2>1. i.route \in {"swagger", "pprof", "live", "ready", "metrics"}
    BY <1>3, InputKinds DEF OpenRoutes
  <2> QED BY <1>3, <2>1 DEF Method, ActionOf, IsApi, ApiRoutes, ConfigRoutes, WriteHandlers, ReadHandlers
<1> QED BY <1>1, <1>2, <1>3, InputKinds

-----------------------------------------------------------------------------
(* One request *)

\* Going on to the next check adds the one just passed.
LEMMA BeyondNext ==
    ASSUME NEW q, NEW p, q.at \in Nat \ {0}, p.at = q.at + 1, p.input = q.input, NEW stage
    PROVE  Beyond(p, stage) <=> Beyond(q, stage) \/ Chain(q.input)[q.at] = stage
<1>1. p.at - 1 = q.at
  OBVIOUS
<1>2. \A n : n \in 1 .. q.at <=> n \in 1 .. q.at - 1 \/ n = q.at
  OBVIOUS
<1> QED BY <1>1, <1>2 DEF Beyond

LEMMA BeyondSame ==
    ASSUME NEW q, NEW p, p.at = q.at, p.input = q.input, NEW stage
    PROVE  Beyond(p, stage) <=> Beyond(q, stage)
BY DEF Beyond

\* Each check occurs once in a chain.
LEMMA NotYetBeyond ==
    ASSUME settings \in Settings, NEW q \in Request, RequestOK(q)
    PROVE  ~Beyond(q, Chain(q.input)[q.at])
<1>1. q.input \in Inputs[settings] /\ q.at \in Nat \ {0}
  BY DEF Request
<1>2. IsChain(Chain(q.input))
  BY <1>1, InputsHaveChains
<1>3. q.at <= Len(Chain(q.input))
  BY DEF RequestOK
<1>4. Len(Chain(q.input)) \in Nat
  BY <1>2 DEF IsChain
<1>5. \A n \in 1 .. q.at - 1 : n \in 1 .. Len(Chain(q.input)) /\ n # q.at
  BY <1>1, <1>3, <1>4
<1>6. q.at \in 1 .. Len(Chain(q.input))
  BY <1>1, <1>3, <1>4
<1> QED BY <1>2, <1>5, <1>6 DEF IsChain, Beyond

\* A request that runs is whole, and is in its chain.
LEMMA RunningRequest ==
    ASSUME ChainInv, NEW r \in Slots, Running(r)
    PROVE  /\ requests[r] \in Request /\ RequestOK(requests[r])
           /\ requests[r].answer = NoAnswer /\ requests[r].method = Nothing
           /\ requests[r].input \in Inputs[settings]
           /\ requests[r].at \in 1 .. Len(Chain(requests[r].input))
<1>1. requests[r].at > 0 /\ requests[r].answer = NoAnswer
  BY DEF Running
<1>2. requests[r] \in {Free} \cup Request /\ RequestOK(requests[r])
  BY <1>1 DEF ChainInv
<1>3. requests[r] # Free
  BY <1>1 DEF Free
<1>4. requests[r] \in Request
  BY <1>2, <1>3
<1>5. requests[r].input \in Inputs[settings] /\ requests[r].at \in Nat \ {0}
  BY <1>4 DEF Request
<1>6. Len(Chain(requests[r].input)) \in Nat
  BY <1>5, InputsHaveChains DEF IsChain, ChainInv
<1> QED BY <1>1, <1>2, <1>4, <1>5, <1>6 DEF RequestOK

\* Nothing in the invariant of a request depends on other requests.
LEMMA SettingsKept ==
    ASSUME settings' = settings
    PROVE  /\ Request' = Request
           /\ \A q : RequestOK(q)' <=> RequestOK(q)
<1>1. Request' = Request
  BY DEF Request, Requirement, Method
<1>2. \A q : RequestOK(q)' <=> RequestOK(q)
  BY DEF RequestOK, Beyond, Authenticated, Requirement
<1> QED BY <1>1, <1>2

LEMMA ReplaceKeeps ==
    ASSUME ChainInv, NEW r \in Slots, NEW q \in Request, RequestOK(q),
           settings' = settings, requests' = [requests EXCEPT ![r] = q]
    PROVE  ChainInv'
<1>1. requests' \in [Slots -> {Free} \cup Request']
  BY SettingsKept DEF ChainInv
<1>2. \A s \in Slots : requests'[s].at > 0 => RequestOK(requests'[s])
  BY DEF ChainInv
<1>3. \A s \in Slots : requests'[s].at > 0 => RequestOK(requests[s])'
  BY <1>2, SettingsKept DEF RequestOK, Beyond, Authenticated, Requirement
<1> QED BY <1>1, <1>3 DEF ChainInv

\* The request that has passed a check with this subject and this grant, and the
\* one that has ended with this answer.
Moved(q, subject, granted) ==
    [at |-> q.at + 1, input |-> q.input, subject |-> subject, granted |-> granted,
     method |-> q.method, answer |-> q.answer]

Ended(q, method, answer) ==
    [at |-> q.at, input |-> q.input, subject |-> q.subject, granted |-> q.granted,
     method |-> method, answer |-> answer]

Proven(q, subject) ==
    LET c == q.input.credential
    IN  \/ VerifyPSK(c) /\ subject = "psk"
        \/ VerifyBearer(c) /\ subject = c.id

\* Passing a check keeps the invariant if authentication was earned, and the
\* grant is what authorization asked for.
LEMMA MovedKeeps ==
    ASSUME ChainInv, NEW r \in Slots, Running(r), settings' = settings,
           NEW subject, NEW granted,
           Chain(requests[r].input)[requests[r].at] # "handler",
           Chain(requests[r].input)[requests[r].at] = "auth" => Authenticated(requests[r].input),
           Chain(requests[r].input)[requests[r].at] = "authz" =>
               granted = Requirement(requests[r].input),
           Chain(requests[r].input)[requests[r].at] # "authz" => granted = requests[r].granted,
           subject = requests[r].subject \/ Proven(requests[r], subject),
           requests' = [requests EXCEPT ![r] = Moved(requests[r], subject, granted)]
    PROVE  ChainInv'
<1> DEFINE q == requests[r]
           p == Moved(q, subject, granted)
<1>1. /\ q \in Request /\ RequestOK(q) /\ q.answer = NoAnswer /\ q.method = Nothing
      /\ q.input \in Inputs[settings] /\ q.at \in 1 .. Len(Chain(q.input))
  BY RunningRequest
<1>2. /\ p.at = q.at + 1 /\ p.input = q.input /\ p.subject = subject /\ p.granted = granted
      /\ p.method = q.method /\ p.answer = q.answer
  BY DEF Moved
<1>3. q.at < Len(Chain(q.input)) /\ Len(Chain(q.input)) \in Nat
  BY <1>1, InputsHaveChains DEF IsChain, ChainInv
<1>4. \A stage : Beyond(p, stage) <=> Beyond(q, stage) \/ Chain(q.input)[q.at] = stage
  <2>1. q.at \in Nat \ {0}
    BY <1>1 DEF Request
  <2> QED BY <1>2, <2>1, BeyondNext
<1>5. p \in Request
  <2>1. subject \in {Nobody, "psk"} \cup {i.credential.id : i \in Inputs[settings]}
    BY <1>1 DEF Request, Proven
  <2>2. granted \in {Nothing} \cup {Requirement(i) : i \in Inputs[settings]}
    BY <1>1 DEF Request
  <2>3. q.at + 1 \in Nat \ {0}
    BY <1>1 DEF Request
  <2> QED BY <1>1, <2>1, <2>2, <2>3 DEF Request, Moved
<1>6. RequestOK(p)
  <2>1. p.at <= Len(Chain(p.input))
    BY <1>1, <1>2, <1>3
  <2>2. Beyond(p, "auth") => Authenticated(p.input)
    BY <1>1, <1>2, <1>4 DEF RequestOK
  <2>3. p.granted = IF Beyond(p, "authz") THEN Requirement(p.input) ELSE Nothing
    BY <1>1, <1>2, <1>4 DEF RequestOK
  <2>4. p.method = Nothing
    BY <1>1, <1>2
  <2>5. p.subject # Nobody => Proven(p, p.subject)
    BY <1>1, <1>2 DEF RequestOK, Proven
  <2> QED BY <2>1, <2>2, <2>3, <2>4, <2>5 DEF RequestOK, Proven
<1> QED BY <1>5, <1>6, ReplaceKeeps

\* Ending a request keeps the invariant; only its handler, or a replay of what the
\* handler did, names a method.
LEMMA EndedKeeps ==
    ASSUME ChainInv, NEW r \in Slots, Running(r), settings' = settings,
           NEW method, NEW answer \in Errors,
           \/ method = Nothing
           \/ /\ method = Method(requests[r].input) /\ answer # NoAnswer
              /\ Chain(requests[r].input)[requests[r].at] \in {"idempotency", "handler"},
           requests' = [requests EXCEPT ![r] = Ended(requests[r], method, answer)]
    PROVE  ChainInv'
<1> DEFINE q == requests[r]
           p == Ended(q, method, answer)
<1>1. q \in Request /\ RequestOK(q) /\ q.input \in Inputs[settings]
  BY RunningRequest
<1>2. /\ p.at = q.at /\ p.input = q.input /\ p.subject = q.subject /\ p.granted = q.granted
      /\ p.method = method /\ p.answer = answer
  BY DEF Ended
<1>3. \A stage : Beyond(p, stage) <=> Beyond(q, stage)
  BY <1>2, BeyondSame
<1>4. p \in Request
  <2>1. method \in {Nothing} \cup {Method(i) : i \in Inputs[settings]}
    BY <1>1
  <2> QED BY <1>1, <2>1 DEF Request, Ended
<1>5. RequestOK(p)
  BY <1>1, <1>2, <1>3 DEF RequestOK
<1> QED BY <1>4, <1>5, ReplaceKeeps

\* The updates of the actions, as those two.
LEMMA RecordUpdates ==
    ASSUME NEW q \in Request, NEW subject, NEW granted, NEW answer
    PROVE  /\ [q EXCEPT !.at = @ + 1] = Moved(q, q.subject, q.granted)
           /\ [q EXCEPT !.at = @ + 1, !.subject = subject] = Moved(q, subject, q.granted)
           /\ [q EXCEPT !.at = @ + 1, !.granted = granted] = Moved(q, q.subject, granted)
           /\ [q EXCEPT !.answer = answer] = Ended(q, q.method, answer)
<1>1. [q EXCEPT !.at = @ + 1] = Moved(q, q.subject, q.granted)
  BY DEF Request, Moved
<1>2. [q EXCEPT !.at = @ + 1, !.subject = subject] = Moved(q, subject, q.granted)
  <2>1. [Moved(q, q.subject, q.granted) EXCEPT !.subject = subject] = Moved(q, subject, q.granted)
    BY DEF Moved
  <2> QED BY <1>1, <2>1, Zenon
<1>3. [q EXCEPT !.at = @ + 1, !.granted = granted] = Moved(q, q.subject, granted)
  <2>1. [Moved(q, q.subject, q.granted) EXCEPT !.granted = granted] = Moved(q, q.subject, granted)
    BY DEF Moved
  <2> QED BY <1>1, <2>1, Zenon
<1>4. [q EXCEPT !.answer = answer] = Ended(q, q.method, answer)
  BY DEF Request, Ended
<1> QED BY <1>1, <1>2, <1>3, <1>4

LEMMA HandlerUpdate ==
    ASSUME NEW q \in Request, NEW method, NEW answer
    PROVE  [q EXCEPT !.method = method, !.answer = answer] = Ended(q, method, answer)
<1>1. [q EXCEPT !.method = method] = Ended(q, method, q.answer)
  BY DEF Request, Ended
<1>2. [Ended(q, method, q.answer) EXCEPT !.answer = answer] = Ended(q, method, answer)
  BY DEF Ended
<1> QED BY <1>1, <1>2, Zenon

LEMMA Updates ==
    ASSUME ChainInv, NEW r \in Slots, Running(r)
    PROVE  /\ Pass(r) => requests' = [requests EXCEPT ![r] =
                  Moved(requests[r], requests[r].subject, requests[r].granted)]
           /\ \A subject : PassAs(r, subject) => requests' = [requests EXCEPT ![r] =
                  Moved(requests[r], subject, requests[r].granted)]
           /\ \A error : Fail(r, error) => requests' = [requests EXCEPT ![r] =
                  Ended(requests[r], Nothing, error)]
<1>1. requests[r] \in Request /\ requests[r].method = Nothing
  BY RunningRequest
<1>3. Pass(r) => requests' = [requests EXCEPT ![r] =
                  Moved(requests[r], requests[r].subject, requests[r].granted)]
  <2>1. [requests[r] EXCEPT !.at = @ + 1] = Moved(requests[r], requests[r].subject, requests[r].granted)
    BY <1>1, RecordUpdates
  <2>2. Pass(r) => requests' = [requests EXCEPT ![r] = [requests[r] EXCEPT !.at = @ + 1]]
    BY DEF Pass
  <2> QED BY <2>1, <2>2
<1>4. ASSUME NEW subject, PassAs(r, subject)
      PROVE  requests' = [requests EXCEPT ![r] = Moved(requests[r], subject, requests[r].granted)]
  <2>1. [requests[r] EXCEPT !.at = @ + 1, !.subject = subject]
           = Moved(requests[r], subject, requests[r].granted)
    BY <1>1, RecordUpdates
  <2>2. requests \in [Slots -> {Free} \cup Request]
    BY DEF ChainInv
  <2>3. requests' = [requests EXCEPT ![r] = [requests[r] EXCEPT !.at = @ + 1, !.subject = subject]]
    BY <1>4, <2>2 DEF PassAs
  <2> QED BY <2>1, <2>3
<1>5. ASSUME NEW error, Fail(r, error)
      PROVE  requests' = [requests EXCEPT ![r] = Ended(requests[r], Nothing, error)]
  <2>1. [requests[r] EXCEPT !.answer = error] = Ended(requests[r], Nothing, error)
    BY <1>1, RecordUpdates
  <2> QED BY <1>5, <2>1 DEF Fail
<1> QED BY <1>3, <1>4, <1>5

-----------------------------------------------------------------------------
(* Every step of a request passes a check, refuses the request or gives it the *)
(* result of its method                                                       *)

Stage(r) == Chain(requests[r].input)[requests[r].at]

Moves(r) ==
    /\ Running(r) /\ Stage(r) # "handler"
    /\ Stage(r) = "auth" => Authenticated(requests[r].input)
    /\ \E subject, granted :
          /\ Stage(r) = "authz" => granted = Requirement(requests[r].input)
          /\ Stage(r) # "authz" => granted = requests[r].granted
          /\ subject = requests[r].subject \/ Proven(requests[r], subject)
          /\ requests' = [requests EXCEPT ![r] = Moved(requests[r], subject, granted)]

Refused(r) ==
    /\ Running(r)
    /\ \E error \in Errors :
          requests' = [requests EXCEPT ![r] = Ended(requests[r], Nothing, error)]

Answered(r) ==
    /\ Running(r) /\ Stage(r) \in {"idempotency", "handler"}
    /\ \E answer \in Errors \ {NoAnswer} :
          requests' = [requests EXCEPT ![r] =
                         Ended(requests[r], Method(requests[r].input), answer)]

LEMMA PassMoves ==
    ASSUME ChainInv, NEW r \in Slots, Running(r), Pass(r), Stage(r) # "handler",
           Stage(r) = "auth" => Authenticated(requests[r].input),
           Stage(r) = "authz" => Requirement(requests[r].input) = Nothing
    PROVE  Moves(r)
<1>1. requests' = [requests EXCEPT ![r] =
                     Moved(requests[r], requests[r].subject, requests[r].granted)]
  BY Updates
<1>2. Stage(r) = "authz" => requests[r].granted = Requirement(requests[r].input)
  <2>1. requests[r] \in Request /\ RequestOK(requests[r])
    BY RunningRequest
  <2>2. Stage(r) = "authz" => ~Beyond(requests[r], "authz")
    BY <2>1, NotYetBeyond DEF Stage, ChainInv
  <2> QED BY <2>1, <2>2 DEF RequestOK
<1> QED BY <1>1, <1>2 DEF Moves

LEMMA PassAsMoves ==
    ASSUME ChainInv, NEW r \in Slots, Running(r), NEW subject, PassAs(r, subject),
           Stage(r) \notin {"handler", "authz"}, Proven(requests[r], subject),
           Stage(r) = "auth" => Authenticated(requests[r].input)
    PROVE  Moves(r)
<1>1. requests' = [requests EXCEPT ![r] = Moved(requests[r], subject, requests[r].granted)]
  BY Updates
<1> QED BY <1>1 DEF Moves

LEMMA FailRefuses ==
    ASSUME ChainInv, NEW r \in Slots, Running(r), NEW error \in Errors, Fail(r, error)
    PROVE  Refused(r)
BY Updates DEF Refused

LEMMA FirstChecks ==
    ASSUME ChainInv, NEW r \in Slots, IdempotencyKey(r) \/ Browser(r)
    PROVE  /\ Moves(r) \/ Refused(r)
           /\ Stage(r) \notin {"ip", "api"} /\ UNCHANGED <<settings, quota, executed>>
<1>1. Running(r) /\ Stage(r) \in {"key", "browser"}
  BY DEF IdempotencyKey, Browser, At, Stage
<1>2. Pass(r) \/ \E error \in {"invalid", "forbidden", "preflight", "media_type"} : Fail(r, error)
  BY DEF IdempotencyKey, Browser
<1>3. CASE Pass(r)
  BY <1>1, <1>3, PassMoves DEF IdempotencyKey, Browser
<1>4. CASE \E error \in {"invalid", "forbidden", "preflight", "media_type"} : Fail(r, error)
  BY <1>1, <1>4, FailRefuses DEF Errors, IdempotencyKey, Browser
<1> QED BY <1>2, <1>3, <1>4

\* Authentication passes a request only with what its route asks for, whichever
\* transport it came by.
LEMMA AuthenticateForm ==
    ASSUME ChainInv, NEW r \in Slots, Authenticate(r)
    PROVE  /\ Moves(r) \/ Refused(r)
           /\ Stage(r) \notin {"ip", "api"} /\ UNCHANGED <<settings, quota, executed>>
<1> DEFINE i == requests[r].input
           c == i.credential
<1>1. Running(r) /\ Stage(r) = "auth" /\ UNCHANGED <<settings, quota, executed>>
  BY DEF Authenticate, At, Stage
<1>2. \/ Fail(r, "unauthorized")
      \/ Pass(r) /\ Authenticated(i)
      \/ PassAs(r, "psk") /\ VerifyPSK(c) /\ Authenticated(i)
      \/ PassAs(r, c.id) /\ VerifyBearer(c) /\ Authenticated(i)
  BY DEF Authenticate, Authentication, authenticateGRPC, Authenticated
<1>3. CASE Fail(r, "unauthorized")
  BY <1>1, <1>3, FailRefuses DEF Errors
<1>4. CASE Pass(r) /\ Authenticated(i)
  BY <1>1, <1>4, PassMoves
<1>5. CASE PassAs(r, "psk") /\ VerifyPSK(c) /\ Authenticated(i)
  BY <1>1, <1>5, PassAsMoves DEF Proven
<1>6. CASE PassAs(r, c.id) /\ VerifyBearer(c) /\ Authenticated(i)
  BY <1>1, <1>6, PassAsMoves DEF Proven
<1> QED BY <1>2, <1>3, <1>4, <1>5, <1>6

LEMMA ToolsForm ==
    ASSUME ChainInv, NEW r \in Slots, SwaggerJWT(r) \/ pprofAuth(r)
    PROVE  /\ Moves(r) \/ Refused(r)
           /\ Stage(r) \notin {"ip", "api"} /\ UNCHANGED <<settings, quota, executed>>
<1> DEFINE c == requests[r].input.credential
<1>1. Running(r) /\ Stage(r) \in {"jwt", "pprof"} /\ UNCHANGED <<settings, quota, executed>>
  BY DEF SwaggerJWT, pprofAuth, At, Stage
<1>2. \/ Fail(r, "unauthorized")
      \/ Pass(r)
      \/ PassAs(r, c.id) /\ VerifyBearer(c)
  BY DEF SwaggerJWT, pprofAuth
<1>3. CASE Fail(r, "unauthorized")
  BY <1>1, <1>3, FailRefuses DEF Errors
<1>4. CASE Pass(r)
  BY <1>1, <1>4, PassMoves
<1>5. CASE PassAs(r, c.id) /\ VerifyBearer(c)
  BY <1>1, <1>5, PassAsMoves DEF Proven
<1> QED BY <1>2, <1>3, <1>4, <1>5

\* Authorization passes a request with the grant it needs.
LEMMA AuthorizeForm ==
    ASSUME ChainInv, NEW r \in Slots, Authorize(r)
    PROVE  /\ Moves(r) \/ Refused(r)
           /\ Stage(r) \notin {"ip", "api"} /\ UNCHANGED <<settings, quota, executed>>
<1> DEFINE needed == Requirement(requests[r].input)
<1>1. Running(r) /\ Stage(r) = "authz" /\ UNCHANGED <<settings, quota, executed>>
  BY DEF Authorize, At, Stage
<1>2. \/ needed = Nothing /\ Pass(r)
      \/ Fail(r, "forbidden") \/ Fail(r, "unavailable")
      \/ requests' = [requests EXCEPT ![r].at = @ + 1, ![r].granted = needed]
  BY DEF Authorize
<1>3. CASE needed = Nothing /\ Pass(r)
  BY <1>1, <1>3, PassMoves
<1>4. CASE Fail(r, "forbidden") \/ Fail(r, "unavailable")
  BY <1>1, <1>4, FailRefuses DEF Errors
<1>5. CASE requests' = [requests EXCEPT ![r].at = @ + 1, ![r].granted = needed]
  <2>1. requests[r] \in Request
    BY <1>1, RunningRequest
  <2>2. requests' = [requests EXCEPT ![r] = Moved(requests[r], requests[r].subject, needed)]
    BY <1>5, <2>1, RecordUpdates
  <2> QED BY <1>1, <2>2 DEF Moves
<1> QED BY <1>2, <1>3, <1>4, <1>5

\* A limit passes or refuses a request.
LEMMA RateLimitForm ==
    ASSUME ChainInv, NEW r \in Slots, NEW dimension \in {"ip", "api", "user"},
           RateLimit(r, dimension)
    PROVE  /\ Moves(r) \/ Refused(r)
           /\ Stage(r) = dimension /\ UNCHANGED <<settings, executed>>
<1>1. Running(r) /\ Stage(r) = dimension /\ UNCHANGED <<settings, executed>>
  BY DEF RateLimit, At, Stage
<1>2. Pass(r) \/ Fail(r, "unavailable") \/ Fail(r, "too_many")
  BY DEF RateLimit
<1>3. CASE Pass(r)
  BY <1>1, <1>3, PassMoves
<1>4. CASE Fail(r, "unavailable") \/ Fail(r, "too_many")
  BY <1>1, <1>4, FailRefuses DEF Errors
<1> QED BY <1>1, <1>2, <1>3, <1>4

LEMMA BindFailsForm ==
    ASSUME ChainInv, NEW r \in Slots, BindFails(r)
    PROVE  Refused(r) /\ UNCHANGED <<settings, quota, executed>>
<1>1. Running(r) /\ Fail(r, "invalid") /\ UNCHANGED <<settings, quota, executed>>
  BY DEF BindFails, At
<1> QED BY <1>1, FailRefuses DEF Errors

\* The result of a method names the method of the request and answers.
LEMMA AnswerForm ==
    ASSUME ChainInv, NEW r \in Slots, Running(r), Stage(r) \in {"idempotency", "handler"},
           \E answer \in Outcomes(requests[r].input) : Answer(r, answer)
    PROVE  Answered(r)
<1> DEFINE i == requests[r].input
<1>1. PICK answer \in Outcomes(i) :
         requests' = [requests EXCEPT ![r].method = Method(i), ![r].answer = answer]
  BY DEF Answer
<1>2. answer \in Errors \ {NoAnswer}
  <2>1. answer \in Answers \cup {"ok", "unavailable"}
    BY DEF Outcomes
  <2>2. answer # NoAnswer
    BY <2>1, AnswersAssumption DEF NoAnswer
  <2> QED BY <2>1, <2>2 DEF Errors
<1>3. requests[r] \in Request
  BY RunningRequest
<1>4. requests' = [requests EXCEPT ![r] = Ended(requests[r], Method(i), answer)]
  <2>1. [requests[r] EXCEPT !.method = Method(i), !.answer = answer]
          = Ended(requests[r], Method(i), answer)
    BY <1>3, HandlerUpdate, Zenon
  <2> QED BY <1>1, <2>1, Zenon
<1> QED BY <1>2, <1>4 DEF Answered

\* Idempotent execution passes a request on, refuses it or replays a result.
LEMMA IdempotencyForm ==
    ASSUME ChainInv, NEW r \in Slots, IdempotencyExecution(r)
    PROVE  /\ Moves(r) \/ Refused(r) \/ Answered(r)
           /\ Stage(r) = "idempotency" /\ UNCHANGED <<settings, quota, executed>>
<1>1. Running(r) /\ Stage(r) = "idempotency" /\ UNCHANGED <<settings, quota, executed>>
  BY DEF IdempotencyExecution, At, Stage
<1>2. \/ Pass(r)
      \/ \E error \in {"invalid", "unavailable", "in_progress", "conflict"} : Fail(r, error)
      \/ \E answer \in Outcomes(requests[r].input) : Answer(r, answer)
  BY DEF IdempotencyExecution
<1>3. CASE Pass(r)
  BY <1>1, <1>3, PassMoves
<1>4. CASE \E error \in {"invalid", "unavailable", "in_progress", "conflict"} : Fail(r, error)
  BY <1>1, <1>4, FailRefuses DEF Errors
<1>5. CASE \E answer \in Outcomes(requests[r].input) : Answer(r, answer)
  BY <1>1, <1>5, AnswerForm
<1> QED BY <1>1, <1>2, <1>3, <1>4, <1>5

LEMMA HandleForm ==
    ASSUME ChainInv, NEW r \in Slots, Handle(r)
    PROVE  Answered(r) /\ Stage(r) = "handler" /\ UNCHANGED <<settings, quota>>
<1>1. Running(r) /\ Stage(r) = "handler" /\ UNCHANGED <<settings, quota>>
  BY DEF Handle, At, Stage
<1>2. \E answer \in Outcomes(requests[r].input) : Answer(r, answer)
  BY DEF Handle
<1> QED BY <1>1, <1>2, AnswerForm

-----------------------------------------------------------------------------
(* The invariant of requests *)

LEMMA ChainInit == Init => ChainInv
BY DEF Init, ChainInv, Free

LEMMA ArriveKeeps ==
    ASSUME ChainInv, NEW r \in Slots, NEW i \in Inputs[settings], Arrive(r, i)
    PROVE  ChainInv'
<1> DEFINE q == [at |-> 1, input |-> i, subject |-> Nobody, granted |-> Nothing,
                 method |-> Nothing, answer |-> NoAnswer]
<1>1. requests' = [requests EXCEPT ![r] = q] /\ settings' = settings
  BY DEF Arrive
<1>2. q \in Request
  BY DEF Request
<1>3. \A stage : ~Beyond(q, stage)
  BY DEF Beyond
<1>4. 1 <= Len(Chain(i))
  BY InputsHaveChains DEF IsChain, ChainInv
<1>5. RequestOK(q)
  BY <1>3, <1>4 DEF RequestOK
<1> HIDE DEF q
<1> QED BY <1>1, <1>2, <1>5, ReplaceKeeps

LEMMA ChainStep == ChainInv /\ [Next]_vars => ChainInv'
<1> SUFFICES ASSUME ChainInv, [Next]_vars PROVE ChainInv'
  OBVIOUS
<1>1. ASSUME NEW r \in Slots, Moves(r), settings' = settings PROVE ChainInv'
  BY <1>1, MovedKeeps DEF Moves, Stage
<1>2. ASSUME NEW r \in Slots, Refused(r), settings' = settings PROVE ChainInv'
  BY <1>2, EndedKeeps DEF Refused
<1>3. ASSUME NEW r \in Slots, NEW i \in Inputs[settings], Arrive(r, i) PROVE ChainInv'
  BY <1>3, ArriveKeeps
<1>4. ASSUME NEW r \in Slots, IdempotencyKey(r) \/ Browser(r) PROVE ChainInv'
  BY <1>1, <1>2, <1>4, FirstChecks
<1>5. ASSUME NEW r \in Slots, NEW d \in {"ip", "api", "user"}, RateLimit(r, d) PROVE ChainInv'
  BY <1>1, <1>2, <1>5, RateLimitForm
<1>6. ASSUME NEW r \in Slots, Authenticate(r) PROVE ChainInv'
  BY <1>1, <1>2, <1>6, AuthenticateForm
<1>7. ASSUME NEW r \in Slots, SwaggerJWT(r) \/ pprofAuth(r) PROVE ChainInv'
  BY <1>1, <1>2, <1>7, ToolsForm
<1>8. ASSUME NEW r \in Slots, Authorize(r) PROVE ChainInv'
  BY <1>1, <1>2, <1>8, AuthorizeForm
<1>9. ASSUME NEW r \in Slots, BindFails(r) PROVE ChainInv'
  BY <1>2, <1>9, BindFailsForm
<1>10. ASSUME NEW r \in Slots, Answered(r), settings' = settings PROVE ChainInv'
  BY <1>10, EndedKeeps DEF Answered, Stage
<1>11. ASSUME NEW r \in Slots, IdempotencyExecution(r) PROVE ChainInv'
  BY <1>1, <1>2, <1>10, <1>11, IdempotencyForm
<1>12. ASSUME NEW r \in Slots, Handle(r) PROVE ChainInv'
  BY <1>10, <1>12, HandleForm
<1>13. CASE UNCHANGED vars
  <2>1. settings' = settings /\ requests' = requests
    BY <1>13 DEF vars
  <2> QED BY <2>1, SettingsKept
          DEF ChainInv, RequestOK, Beyond, Authenticated, Requirement
<1> QED BY <1>3, <1>4, <1>5, <1>6, <1>7, <1>8, <1>9, <1>11, <1>12, <1>13 DEF Next

\* A request that stands at some place of its chain has passed every check before
\* it, with the subject and the grant that these checks gave it: for any inputs,
\* settings and interleaving (the order of middleware in NewServer of both
\* transports, Abort and the early returns of interceptors).
THEOREM ChainInvariant == Spec => []ChainInv
BY ChainInit, ChainStep, PTL DEF Spec

\* The result of a service method, run or replayed, goes only to a caller that
\* presented what the settings ask of its route, and that was granted the very action
\* the method performs: for every configuration, any number of concurrent requests
\* and both transports (Authentication, authenticateGRPC, Authorization, the
\* requirement tables, and idempotent execution behind them).
THEOREM MethodsAreAdmitted == Spec => []HandledIsAdmitted
<1>1. ChainInv => HandledIsAdmitted
  <2> SUFFICES ASSUME ChainInv, NEW r \in Slots, requests[r].at > 0, requests[r].method # Nothing
               PROVE  LET q == requests[r]
                          c == q.input.credential
                          psk == settings.pskEnabled /\ q.input.route \in settings.psk
                          isApi == q.input.transport = "grpc" \/ q.input.route \in ApiRoutes
                      IN  /\ isApi /\ psk => c.scheme = "psk" /\ c.valid
                          /\ isApi /\ ~psk /\ q.input.route \notin settings.skip =>
                               c.scheme = "bearer" /\ c.valid
                          /\ settings.authorization => q.granted = ActionOf(q.method)
    BY DEF HandledIsAdmitted
  <2> DEFINE q == requests[r]
  <2>1. q \in Request /\ RequestOK(q)
    BY DEF ChainInv, Free
  <2>2. q.input \in Inputs[settings] /\ q.at \in Nat \ {0} /\ settings \in Settings
    BY <2>1 DEF Request, ChainInv
  <2>3. /\ q.method = Method(q.input) /\ Chain(q.input)[q.at] \in {"idempotency", "handler"}
        /\ q.at <= Len(Chain(q.input))
    BY <2>1 DEF RequestOK
  <2>4. q.at \in 1 .. Len(Chain(q.input))
    BY <2>2, <2>3, InputsHaveChains DEF IsChain
  <2>5. CASE IsApi(q.input)
    <3>1. Beyond(q, "auth") /\ Beyond(q, "authz")
      BY <2>2, <2>3, <2>4, <2>5, ChecksBeforeResult DEF Beyond
    <3>2. Authenticated(q.input) /\ q.granted = Requirement(q.input)
      BY <2>1, <3>1 DEF RequestOK
    <3>3. settings.authorization => q.granted = ActionOf(q.method)
      BY <2>2, <2>3, <2>5, <3>2, RequirementIsAction
    <3> QED BY <3>2, <3>3 DEF Authenticated, VerifyPSK, VerifyBearer
  <2>6. CASE ~IsApi(q.input)
    <3>1. ~Beyond(q, "authz")
      <4>1. \A n \in 1 .. q.at - 1 : n \in 1 .. Len(Chain(q.input))
        BY <2>4
      <4> QED BY <2>2, <2>6, <4>1, LimitedRoutes DEF Beyond
    <3>2. q.granted = Nothing
      BY <2>1, <3>1 DEF RequestOK
    <3>3. settings.authorization => q.granted = ActionOf(q.method)
      BY <2>2, <2>3, <2>6, <3>2, RequirementIsAction
    <3> QED BY <2>6, <3>3 DEF IsApi
  <2> QED BY <2>5, <2>6
<1> QED BY <1>1, ChainInvariant, PTL

-----------------------------------------------------------------------------
(* The limits *)

\* The limits are on, and refuse when Redis fails.
Strict == settings.limiter /\ ~settings.failOpen

\* The request still may reach its handler, and the limit d has counted it.
Charged(q, d) ==
    /\ q.at > 0 /\ q.answer = NoAnswer
    /\ q.input.transport = "http" /\ q.input.route \in ApiRoutes
    /\ \/ d = <<"ip", q.input.ip>> /\ Beyond(q, "ip")
       \/ d = <<"api", q.input.route>> /\ Beyond(q, "api")

One(condition) == IF condition THEN 1 ELSE 0

LEMMA CountPlus ==
    ASSUME NEW f, NEW d, NEW e
    PROVE  Count(Plus(f, d), e) = Count(f, e) + (IF e = d THEN 1 ELSE 0)
BY DEF Count, Plus

LEMMA InFlightIsCharged ==
    \A d : InFlight(d) = {r \in Slots : Charged(requests[r], d)}
BY DEF InFlight, Charged, Running

\* A step of one request changes the number in flight by that request.
LEMMA InFlightStep ==
    ASSUME NEW r \in Slots, NEW p, NEW d, DOMAIN requests = Slots,
           requests' = [requests EXCEPT ![r] = p]
    PROVE  /\ Cardinality(InFlight(d)) \in Nat /\ Cardinality(InFlight(d)') \in Nat
           /\ Cardinality(InFlight(d)') + One(Charged(requests[r], d))
                = Cardinality(InFlight(d)) + One(Charged(p, d))
<1> DEFINE S == InFlight(d)
           T == InFlight(d)'
<1>1. S = {x \in Slots : Charged(requests[x], d)}
  BY InFlightIsCharged
<1>2. T = {x \in Slots : Charged(requests'[x], d)}
  BY DEF InFlight, Charged, Running, Beyond
<1>3. \A x \in Slots : requests'[x] = IF x = r THEN p ELSE requests[x]
  OBVIOUS
<1>4. /\ r \in S <=> Charged(requests[r], d)
      /\ r \in T <=> Charged(p, d)
      /\ \A x \in Slots \ {r} : x \in S <=> x \in T
      /\ S \subseteq Slots /\ T \subseteq Slots
  BY <1>1, <1>2, <1>3
<1>5. IsFiniteSet(S) /\ IsFiniteSet(T)
  BY <1>4, SlotsAssumption, FS_Subset
<1>6. Cardinality(S) \in Nat /\ Cardinality(T) \in Nat
  BY <1>5, FS_CardinalityType
<1> HIDE DEF S, T
<1>7. CASE Charged(requests[r], d) /\ Charged(p, d)
  <2>1. S = T
    BY <1>4, <1>7
  <2> QED BY <1>6, <1>7, <2>1 DEF One, S, T
<1>8. CASE Charged(requests[r], d) /\ ~Charged(p, d)
  <2>1. T = S \ {r} /\ r \in S
    BY <1>4, <1>8
  <2>2. Cardinality(T) = Cardinality(S) - 1
    BY <1>5, <2>1, FS_RemoveElement
  <2> QED BY <1>6, <1>8, <2>2 DEF One, S, T
<1>9. CASE ~Charged(requests[r], d) /\ Charged(p, d)
  <2>1. T = S \cup {r} /\ r \notin S
    BY <1>4, <1>9
  <2>2. Cardinality(T) = Cardinality(S) + 1
    BY <1>5, <2>1, FS_AddElement
  <2> QED BY <1>6, <1>9, <2>2 DEF One, S, T
<1>10. CASE ~Charged(requests[r], d) /\ ~Charged(p, d)
  <2>1. S = T
    BY <1>4, <1>10
  <2> QED BY <1>6, <1>10, <2>1 DEF One, S, T
<1> QED BY <1>7, <1>8, <1>9, <1>10

\* What the counters may do when request r becomes p.
CountersStep(r, p) ==
    /\ \A d \in DOMAIN quota' : quota'[d] \in 1 .. Burst
    /\ DOMAIN executed' \subseteq Limits
    /\ \A d \in DOMAIN executed' : executed'[d] \in Nat
    /\ Strict =>
         \A d \in Limits :
            Count(executed', d) + One(Charged(p, d)) + Count(quota, d)
              <= Count(executed, d) + One(Charged(requests[r], d)) + Count(quota', d)
    /\ ~Strict => executed' = executed

LEMMA LimitsStep ==
    ASSUME ChainInv, LimitsInv, NEW r \in Slots, NEW p, settings' = settings,
           requests' = [requests EXCEPT ![r] = p], CountersStep(r, p)
    PROVE  LimitsInv'
<1>1. Limits' = Limits /\ Strict' = Strict
  BY DEF Limits, Strict
<1>2. ASSUME Strict, NEW d \in Limits
      PROVE  Count(executed', d) + Cardinality(InFlight(d)') <= Count(quota', d)
  <2>1. /\ Cardinality(InFlight(d)) \in Nat /\ Cardinality(InFlight(d)') \in Nat
        /\ Cardinality(InFlight(d)') + One(Charged(requests[r], d))
             = Cardinality(InFlight(d)) + One(Charged(p, d))
    BY InFlightStep DEF ChainInv
  <2>2. /\ Count(executed, d) \in Nat /\ Count(executed', d) \in Nat
        /\ Count(quota, d) \in Nat /\ Count(quota', d) \in Nat
    BY BurstAssumption DEF Count, LimitsInv, CountersStep
  <2>3. One(Charged(p, d)) \in Nat /\ One(Charged(requests[r], d)) \in Nat
    BY DEF One
  <2>4. Count(executed, d) + Cardinality(InFlight(d)) <= Count(quota, d)
    BY <1>2 DEF LimitsInv, Strict
  <2>5. Count(executed', d) + One(Charged(p, d)) + Count(quota, d)
              <= Count(executed, d) + One(Charged(requests[r], d)) + Count(quota', d)
    BY <1>2 DEF CountersStep
  <2> QED BY <2>1, <2>2, <2>3, <2>4, <2>5
<1>3. ~Strict => executed' = << >>
  BY DEF LimitsInv, CountersStep, Strict
<1>4. /\ \A d \in DOMAIN quota' : quota'[d] \in 1 .. Burst
      /\ DOMAIN executed' \subseteq Limits
      /\ \A d \in DOMAIN executed' : executed'[d] \in Nat
  BY DEF CountersStep
<1>5. ASSUME Strict, NEW d \in Limits
      PROVE  (Count(executed, d) + Cardinality(InFlight(d)) <= Count(quota, d))'
  BY <1>2, <1>5 DEF Count, InFlight, Running, Beyond
<1> QED BY <1>1, <1>3, <1>4, <1>5 DEF LimitsInv, Strict

\* Passing a check charges the limit whose check it was, and no other.
LEMMA MoveCharges ==
    ASSUME ChainInv, NEW r \in Slots, Running(r), NEW subject, NEW granted, NEW d
    PROVE  Charged(Moved(requests[r], subject, granted), d) <=>
              \/ Charged(requests[r], d)
              \/ Stage(r) = "ip" /\ d = <<"ip", requests[r].input.ip>>
              \/ Stage(r) = "api" /\ d = <<"api", requests[r].input.route>>
<1> DEFINE q == requests[r]
           p == Moved(q, subject, granted)
<1>1. /\ q.at \in Nat \ {0} /\ q.answer = NoAnswer /\ q.input \in Inputs[settings]
      /\ q.at \in 1 .. Len(Chain(q.input)) /\ settings \in Settings
  BY RunningRequest DEF Request, ChainInv
<1>2. p.at = q.at + 1 /\ p.input = q.input /\ p.answer = q.answer
  BY DEF Moved
<1>3. \A stage : Beyond(p, stage) <=> Beyond(q, stage) \/ Stage(r) = stage
  BY <1>1, <1>2, BeyondNext DEF Stage
<1>4. Stage(r) \in {"ip", "api"} => q.input.transport = "http" /\ q.input.route \in ApiRoutes
  BY <1>1, LimitedRoutes DEF Stage
<1>5. q.at > 0 /\ p.at > 0
  BY <1>1, <1>2
<1> HIDE DEF p
<1>6. Charged(p, d) <=>
              \/ Charged(q, d)
              \/ Stage(r) = "ip" /\ d = <<"ip", q.input.ip>>
              \/ Stage(r) = "api" /\ d = <<"api", q.input.route>>
  BY <1>1, <1>2, <1>3, <1>4, <1>5 DEF Charged
<1> QED BY <1>6 DEF p

\* A request that has ended is charged no more.
LEMMA EndedUncharged ==
    ASSUME NEW q, NEW method, NEW answer, answer # NoAnswer, NEW d
    PROVE  ~Charged(Ended(q, method, answer), d)
BY DEF Charged, Ended

LEMMA ErrorsAnswer == NoAnswer \notin Errors
BY AnswersAssumption DEF Errors, NoAnswer

\* What the counters hold.
LEMMA CountsAreNat ==
    ASSUME LimitsInv, NEW d
    PROVE  Count(executed, d) \in Nat /\ Count(quota, d) \in Nat
BY BurstAssumption DEF LimitsInv, Count

\* A step that leaves the counters alone and charges no limit.
LEMMA CountersKept ==
    ASSUME LimitsInv, NEW r \in Slots, NEW p, UNCHANGED <<quota, executed>>,
           Strict => \A d \in Limits : Charged(p, d) => Charged(requests[r], d)
    PROVE  CountersStep(r, p)
<1>1. ASSUME Strict, NEW d \in Limits
      PROVE  Count(executed', d) + One(Charged(p, d)) + Count(quota, d)
              <= Count(executed, d) + One(Charged(requests[r], d)) + Count(quota', d)
  <2>1. Count(executed, d) \in Nat /\ Count(quota, d) \in Nat
    BY CountsAreNat
  <2>2. /\ One(Charged(p, d)) \in {0, 1} /\ One(Charged(requests[r], d)) \in {0, 1}
        /\ One(Charged(p, d)) <= One(Charged(requests[r], d))
    BY <1>1 DEF One
  <2>3. Count(executed', d) = Count(executed, d) /\ Count(quota', d) = Count(quota, d)
    OBVIOUS
  <2> QED BY <2>1, <2>2, <2>3
<1> QED BY <1>1 DEF CountersStep, LimitsInv, Strict

LEMMA ArriveLimits ==
    ASSUME ChainInv, LimitsInv, NEW r \in Slots, NEW i \in Inputs[settings], Arrive(r, i)
    PROVE  LimitsInv'
<1> DEFINE q == [at |-> 1, input |-> i, subject |-> Nobody, granted |-> Nothing,
                 method |-> Nothing, answer |-> NoAnswer]
<1>1. requests' = [requests EXCEPT ![r] = q] /\ UNCHANGED <<settings, quota, executed>>
  BY DEF Arrive
<1>2. \A d : ~Charged(q, d)
  BY DEF Charged, Beyond
<1> HIDE DEF q
<1> QED BY <1>1, <1>2, CountersKept, LimitsStep

LEMMA RefusedLimits ==
    ASSUME ChainInv, LimitsInv, NEW r \in Slots, Refused(r), UNCHANGED <<settings, quota, executed>>
    PROVE  LimitsInv'
<1>1. PICK error \in Errors : requests' = [requests EXCEPT ![r] = Ended(requests[r], Nothing, error)]
  BY DEF Refused
<1>2. \A d : ~Charged(Ended(requests[r], Nothing, error), d)
  BY ErrorsAnswer, EndedUncharged
<1> QED BY <1>1, <1>2, CountersKept, LimitsStep

LEMMA AnsweredLimits ==
    ASSUME ChainInv, LimitsInv, NEW r \in Slots, Answered(r), UNCHANGED <<settings, quota, executed>>
    PROVE  LimitsInv'
<1> DEFINE q == requests[r]
<1>1. PICK answer \in Errors \ {NoAnswer} :
         requests' = [requests EXCEPT ![r] = Ended(q, Method(q.input), answer)]
  BY DEF Answered
<1>2. PICK p : p = Ended(q, Method(q.input), answer)
  OBVIOUS
<1>3. requests' = [requests EXCEPT ![r] = p] /\ \A d : ~Charged(p, d)
  BY <1>1, <1>2, EndedUncharged
<1> QED BY <1>3, CountersKept, LimitsStep

LEMMA MovesLimits ==
    ASSUME ChainInv, LimitsInv, NEW r \in Slots, Moves(r), Strict => Stage(r) \notin {"ip", "api"},
           UNCHANGED <<settings, quota, executed>>
    PROVE  LimitsInv'
<1>1. PICK subject, granted :
         requests' = [requests EXCEPT ![r] = Moved(requests[r], subject, granted)]
  BY DEF Moves
<1>2. Strict => \A d : Charged(Moved(requests[r], subject, granted), d) => Charged(requests[r], d)
  BY MoveCharges DEF Moves
<1> QED BY <1>1, <1>2, CountersKept, LimitsStep

\* A limit that counts a request has room for it, and charges it.
LEMMA RateLimitLimits ==
    ASSUME ChainInv, LimitsInv, NEW r \in Slots, NEW dimension \in {"ip", "api", "user"},
           RateLimit(r, dimension)
    PROVE  LimitsInv'
<1> DEFINE i == requests[r].input
           d == <<dimension, RateKey(r, dimension)>>
<1>1. /\ Moves(r) \/ Refused(r)
      /\ Running(r) /\ Stage(r) = dimension /\ settings' = settings /\ executed' = executed
  BY RateLimitForm DEF RateLimit, At
<1>3. dimension \in {"ip", "api"} => d[2] # Nobody
  <2>1. /\ requests[r] \in Request /\ i \in Inputs[settings] /\ settings \in Settings
        /\ requests[r].at \in 1 .. Len(Chain(i))
    BY <1>1, RunningRequest DEF ChainInv
  <2>2. dimension \in {"ip", "api"} => i.transport = "http" /\ i.route \in ApiRoutes
    BY <1>1, <2>1, LimitedRoutes DEF Stage
  <2>3. dimension = "ip" => i.ip # Nobody
    BY <2>1, <2>2, InputsAssumption
  <2>4. dimension = "api" => i.route # Nobody
    BY <2>2 DEF ApiRoutes, ConfigRoutes, WriteHandlers, ReadHandlers, Nobody
  <2> QED BY <2>3, <2>4 DEF RateKey
<1>4. CASE UNCHANGED quota /\ Refused(r)
  BY <1>1, <1>4, RefusedLimits
<1>5. CASE UNCHANGED quota /\ Moves(r) /\ (Strict => dimension = "user")
  BY <1>1, <1>5, MovesLimits
<1>6. CASE /\ settings.limiter /\ d[2] # Nobody /\ ~Exhausted(Count(quota, d))
           /\ Pass(r) /\ quota' = Plus(quota, d)
  <2> DEFINE p == Moved(requests[r], requests[r].subject, requests[r].granted)
  <2>1. requests' = [requests EXCEPT ![r] = p]
    BY <1>1, <1>6, Updates
  <2>2. \A e : Count(quota', e) = Count(quota, e) + (IF e = d THEN 1 ELSE 0)
    BY <1>6, CountPlus
  <2>3. \A e \in DOMAIN quota' : quota'[e] \in 1 .. Burst
    <3>1. ASSUME NEW e \in DOMAIN quota' PROVE quota'[e] \in 1 .. Burst
      <4>1. quota'[e] = Count(quota, e) + (IF e = d THEN 1 ELSE 0)
        BY <2>2, <3>1 DEF Count
      <4>2. CASE e = d
        <5>1. Count(quota, d) < Burst /\ Count(quota, d) \in Nat
          BY <1>6, CountsAreNat, BurstAssumption DEF Exhausted
        <5> QED BY <4>1, <4>2, <5>1, BurstAssumption
      <4>3. CASE e # d
        <5>1. e \in DOMAIN quota
          BY <1>6, <3>1, <4>3 DEF Plus
        <5>2. quota[e] \in 1 .. Burst
          BY <5>1 DEF LimitsInv
        <5> QED BY <4>1, <4>3, <5>1, <5>2 DEF Count
      <4> QED BY <4>2, <4>3
    <3> QED BY <3>1
  <2>4. ASSUME NEW e \in Limits
        PROVE  Count(executed', e) + One(Charged(p, e)) + Count(quota, e)
                 <= Count(executed, e) + One(Charged(requests[r], e)) + Count(quota', e)
    <3>1. Charged(p, e) => Charged(requests[r], e) \/ e = d
      BY <1>1, MoveCharges DEF RateKey
    <3>2. Count(executed, e) \in Nat /\ Count(quota, e) \in Nat
      BY CountsAreNat
    <3>3. /\ One(Charged(p, e)) \in {0, 1} /\ One(Charged(requests[r], e)) \in {0, 1}
          /\ One(Charged(p, e)) <= One(Charged(requests[r], e)) + (IF e = d THEN 1 ELSE 0)
      BY <3>1 DEF One
    <3>4. Count(executed', e) = Count(executed, e)
      BY <1>1
    <3>5. Count(quota', e) = Count(quota, e) + (IF e = d THEN 1 ELSE 0)
      BY <2>2
    <3> HIDE DEF d, p
    <3> QED BY <3>2, <3>3, <3>4, <3>5
  <2> HIDE DEF d, p
  <2>5. CountersStep(r, p)
    BY <1>1, <2>3, <2>4 DEF CountersStep, LimitsInv
  <2> QED BY <1>1, <2>1, <2>5, LimitsStep
<1>7. \/ UNCHANGED quota /\ Fail(r, "unavailable")
      \/ UNCHANGED quota /\ Fail(r, "too_many")
      \/ UNCHANGED quota /\ Pass(r) /\ (~settings.limiter \/ d[2] = Nobody \/ settings.failOpen)
      \/ /\ settings.limiter /\ d[2] # Nobody /\ ~Exhausted(Count(quota, d))
         /\ Pass(r) /\ quota' = Plus(quota, d)
  BY DEF RateLimit
<1>8. CASE UNCHANGED quota /\ (Fail(r, "unavailable") \/ Fail(r, "too_many"))
  BY <1>1, <1>4, <1>8, FailRefuses DEF Errors
<1>9. CASE UNCHANGED quota /\ Pass(r) /\ (~settings.limiter \/ d[2] = Nobody \/ settings.failOpen)
  <2>1. Moves(r)
    BY <1>1, <1>9, PassMoves
  <2>2. Strict => dimension = "user"
    BY <1>3, <1>9 DEF Strict
  <2> QED BY <1>5, <1>9, <2>1, <2>2
<1> QED BY <1>6, <1>7, <1>8, <1>9

\* The handler's request leaves the limits that charged it, and both are told.
LEMMA HandleLimits ==
    ASSUME ChainInv, LimitsInv, NEW r \in Slots, Handle(r)
    PROVE  LimitsInv'
<1> DEFINE q == requests[r]
           i == q.input
           d == <<"ip", i.ip>>
           a == <<"api", i.route>>
<1>1. Running(r) /\ Stage(r) = "handler" /\ settings' = settings /\ quota' = quota
  BY HandleForm DEF Answered
<1>2. PICK answer \in Errors \ {NoAnswer} :
         requests' = [requests EXCEPT ![r] = Ended(q, Method(i), answer)]
  BY HandleForm DEF Answered
<1>3. PICK p : p = Ended(q, Method(i), answer)
  OBVIOUS
<1>4. requests' = [requests EXCEPT ![r] = p] /\ \A e : ~Charged(p, e)
  BY <1>2, <1>3, EndedUncharged
<1>5. CASE ~(Strict /\ i.transport = "http" /\ i.route \in ApiRoutes)
  <2>1. executed' = executed
    BY <1>5 DEF Handle, Strict
  <2> QED BY <1>1, <1>4, <2>1, CountersKept, LimitsStep
<1>6. CASE Strict /\ i.transport = "http" /\ i.route \in ApiRoutes
  <2>1. executed' = Plus(Plus(executed, d), a)
    BY <1>6 DEF Handle, Strict
  <2>2. \A e : Count(executed', e) = Count(executed, e) + (IF e = d THEN 1 ELSE 0)
                                                        + (IF e = a THEN 1 ELSE 0)
    BY <2>1, CountPlus
  <2>3. /\ q \in Request /\ q.answer = NoAnswer /\ q.at \in 1 .. Len(Chain(i)) /\ i \in Inputs[settings]
        /\ settings \in Settings
    BY <1>1, RunningRequest DEF ChainInv
  <2>4. Beyond(q, "ip") /\ Beyond(q, "api")
    BY <1>1, <1>6, <2>3, ChecksBeforeResult DEF Stage, IsApi, Beyond
  <2>5. Charged(q, d) /\ Charged(q, a)
    BY <1>1, <1>6, <2>3, <2>4 DEF Charged, Running
  <2>6. d \in Limits /\ a \in Limits
    BY <2>3 DEF Limits
  <2>7. d # a
    OBVIOUS
  <2> HIDE DEF d, a
  <2>8. DOMAIN executed' \subseteq Limits
    BY <2>1, <2>6 DEF Plus, LimitsInv
  <2>9. \A e \in DOMAIN executed' : executed'[e] \in Nat
    <3>1. \A e \in DOMAIN executed' : executed'[e] = Count(executed', e)
      BY DEF Count
    <3>2. \A e : Count(executed, e) \in Nat
      BY CountsAreNat
    <3> QED BY <2>2, <3>1, <3>2
  <2>10. ASSUME NEW e \in Limits
         PROVE  Count(executed', e) + One(Charged(p, e)) + Count(quota, e)
                  <= Count(executed, e) + One(Charged(q, e)) + Count(quota', e)
    <3>1. Count(executed, e) \in Nat /\ Count(quota, e) \in Nat
      BY CountsAreNat
    <3>2. One(Charged(p, e)) = 0
      BY <1>4 DEF One
    <3>3. One(Charged(q, e)) \in {0, 1} /\ (e = d \/ e = a => One(Charged(q, e)) = 1)
      BY <2>5 DEF One
    <3>4. Count(quota', e) = Count(quota, e)
      BY <1>1
    <3>5. Count(executed', e) <= Count(executed, e) + One(Charged(q, e))
      BY <2>2, <2>7, <3>1, <3>3
    <3>6. Count(executed', e) \in Nat
      BY <2>2, <3>1
    <3> QED BY <3>1, <3>2, <3>3, <3>4, <3>5, <3>6
  <2>11. CountersStep(r, p)
    BY <1>1, <1>6, <2>8, <2>9, <2>10 DEF CountersStep, LimitsInv
  <2> QED BY <1>1, <1>4, <2>11, LimitsStep
<1> QED BY <1>5, <1>6

LEMMA LimitsInit == Init => LimitsInv
<1> SUFFICES ASSUME Init PROVE LimitsInv
  OBVIOUS
<1>1. quota = << >> /\ executed = << >> /\ requests = [r \in Slots |-> Free]
  BY DEF Init
<1>2. ASSUME NEW d PROVE InFlight(d) = {}
  BY <1>1 DEF InFlight, Running, Free
<1>3. \A d : Cardinality(InFlight(d)) = 0
  BY <1>2, FS_EmptySet
<1>4. \A d : Count(executed, d) = 0 /\ Count(quota, d) = 0
  BY <1>1 DEF Count
<1>5. DOMAIN quota = {} /\ DOMAIN executed = {}
  BY <1>1
<1> QED BY <1>1, <1>3, <1>4, <1>5 DEF LimitsInv

LEMMA LimitsNext == ChainInv /\ LimitsInv /\ [Next]_vars => LimitsInv'
<1> SUFFICES ASSUME ChainInv, LimitsInv, [Next]_vars PROVE LimitsInv'
  OBVIOUS
<1>1. ASSUME NEW r \in Slots, Moves(r) \/ Refused(r), Stage(r) \notin {"ip", "api"},
             UNCHANGED <<settings, quota, executed>>
      PROVE  LimitsInv'
  BY <1>1, MovesLimits, RefusedLimits
<1>2. ASSUME NEW r \in Slots, NEW i \in Inputs[settings], Arrive(r, i) PROVE LimitsInv'
  BY <1>2, ArriveLimits
<1>3. ASSUME NEW r \in Slots, IdempotencyKey(r) \/ Browser(r) PROVE LimitsInv'
  BY <1>1, <1>3, FirstChecks
<1>4. ASSUME NEW r \in Slots, NEW d \in {"ip", "api", "user"}, RateLimit(r, d) PROVE LimitsInv'
  BY <1>4, RateLimitLimits
<1>5. ASSUME NEW r \in Slots, Authenticate(r) PROVE LimitsInv'
  BY <1>1, <1>5, AuthenticateForm
<1>6. ASSUME NEW r \in Slots, SwaggerJWT(r) \/ pprofAuth(r) PROVE LimitsInv'
  BY <1>1, <1>6, ToolsForm
<1>7. ASSUME NEW r \in Slots, Authorize(r) PROVE LimitsInv'
  BY <1>1, <1>7, AuthorizeForm
<1>8. ASSUME NEW r \in Slots, BindFails(r) PROVE LimitsInv'
  BY <1>8, BindFailsForm, RefusedLimits
<1>9. ASSUME NEW r \in Slots, Handle(r) PROVE LimitsInv'
  BY <1>9, HandleLimits
<1>10. ASSUME NEW r \in Slots, IdempotencyExecution(r) PROVE LimitsInv'
  BY <1>1, <1>10, IdempotencyForm, AnsweredLimits
<1>11. CASE UNCHANGED vars
  <2>1. settings' = settings /\ quota' = quota /\ requests' = requests /\ executed' = executed
    BY <1>11 DEF vars
  <2>2. Limits' = Limits
    BY <2>1 DEF Limits
  <2>3. \A d : InFlight(d)' = InFlight(d)
    BY <2>1 DEF InFlight, Running, Beyond
  <2>4. \A d : /\ (Count(executed, d) + Cardinality(InFlight(d)))'
                   = Count(executed, d) + Cardinality(InFlight(d))
              /\ Count(quota, d)' = Count(quota, d)
    BY <2>1, <2>3 DEF Count
  <2> QED BY <2>1, <2>2, <2>4 DEF LimitsInv
<1> QED BY <1>2, <1>3, <1>4, <1>5, <1>6, <1>7, <1>8, <1>9, <1>10, <1>11 DEF Next

\* Whatever a limit let through, handled or still on its way, it has counted
\* (RateLimit, Handle).
THEOREM LimitsInvariant == Spec => []LimitsInv
BY LimitsInit, LimitsNext, ChainInvariant, PTL DEF Spec

\* With the limits on and fail_open off, no more requests of one address or to one
\* route reach a handler than the burst, for any burst and however many requests
\* are between the limit and the handler at once (RateLimit, Allow).
THEOREM LimitsBoundExecution == Spec => []LimitsHold
<1>1. ChainInv /\ LimitsInv => LimitsHold
  <2> SUFFICES ASSUME ChainInv, LimitsInv, NEW d \in DOMAIN executed
               PROVE  executed[d] <= Burst
    BY DEF LimitsHold
  <2>1. settings.limiter /\ ~settings.failOpen
    BY DEF LimitsInv
  <2>2. d \in Limits
    BY DEF LimitsInv
  <2>3. Count(executed, d) + Cardinality(InFlight(d)) <= Count(quota, d)
    BY <2>1, <2>2 DEF LimitsInv
  <2>4. IsFiniteSet(InFlight(d))
    BY SlotsAssumption, FS_Subset DEF InFlight
  <2>5. Cardinality(InFlight(d)) \in Nat
    BY <2>4, FS_CardinalityType
  <2>6. Count(quota, d) \in Nat /\ Count(quota, d) <= Burst
    BY BurstAssumption DEF LimitsInv, Count
  <2>7. Count(executed, d) = executed[d] /\ executed[d] \in Nat
    BY DEF Count, LimitsInv
  <2> QED BY <2>3, <2>5, <2>6, <2>7, BurstAssumption
<1> QED BY <1>1, LimitsInvariant, ChainInvariant, PTL

\* Only a request that proved to be a user's is counted against that user.
LEMMA UserCharge ==
    ASSUME ChainInv, LimitsInv, NEW r \in Slots, NEW dimension \in {"ip", "api", "user"},
           RateLimit(r, dimension), NEW d \in DOMAIN quota', d[1] = "user", Count(quota', d) > Count(quota, d)
    PROVE  /\ At(r, "user") /\ requests[r].input.credential.valid
           /\ d[2] = IF requests[r].input.credential.scheme = "psk" THEN "psk"
                     ELSE requests[r].input.credential.id
<1> DEFINE q == requests[r]
           e == <<dimension, RateKey(r, dimension)>>
<1>1. Running(r) /\ At(r, dimension)
  BY DEF RateLimit, At
<1>2. q \in Request /\ RequestOK(q)
  BY <1>1, RunningRequest
<1>3. Count(quota, d) \in Nat /\ quota' # quota
  BY CountsAreNat
<1>4. quota' = Plus(quota, e) /\ e[2] # Nobody
  BY <1>3 DEF RateLimit
<1>5. d = e
  <2>1. Count(quota', d) = Count(quota, d) + (IF d = e THEN 1 ELSE 0)
    BY <1>4, CountPlus
  <2> HIDE DEF e
  <2> QED BY <1>3, <2>1
<1>6. dimension = "user" /\ d[2] = q.subject /\ q.subject # Nobody
  BY <1>4, <1>5 DEF RateKey
<1>7. Proven(q, q.subject)
  BY <1>2, <1>6 DEF RequestOK, Proven
<1> QED BY <1>1, <1>6, <1>7 DEF Proven, VerifyPSK, VerifyBearer

LEMMA UserQuotaStep ==
    ASSUME ChainInv, LimitsInv, [Next]_vars,
           NEW d \in DOMAIN quota', d[1] = "user", Count(quota', d) > Count(quota, d)
    PROVE  \E r \in Slots :
              LET c == requests[r].input.credential IN
              /\ At(r, "user")
              /\ c.valid
              /\ d[2] = (IF c.scheme = "psk" THEN "psk" ELSE c.id)
<1>1. Count(quota, d) \in Nat /\ quota' # quota
  BY CountsAreNat
<1>2. ASSUME NEW r \in Slots PROVE ~ \E i \in Inputs[settings] : Arrive(r, i)
  BY <1>1 DEF Arrive
<1>3. PICK r \in Slots, dimension \in {"ip", "api", "user"} : RateLimit(r, dimension)
  BY <1>1, <1>2 DEF Next, vars, IdempotencyKey, Browser, Authenticate, SwaggerJWT, pprofAuth,
                    Authorize, IdempotencyExecution, BindFails, Handle
<1> QED BY <1>3, UserCharge

\* A user's limit is charged only by requests that presented that user's valid
\* credential, for every configuration and every mix of requests (RateLimit after
\* Authentication).
THEOREM UsersSpendTheirOwn == Spec => UserQuotaIsOwn
<1> DEFINE Own == \A d \in DOMAIN quota' :
          d[1] = "user" /\ Count(quota', d) > Count(quota, d) =>
              \E r \in Slots :
                 LET c == requests[r].input.credential IN
                 /\ At(r, "user")
                 /\ c.valid
                 /\ d[2] = (IF c.scheme = "psk" THEN "psk" ELSE c.id)
<1>1. ChainInv /\ LimitsInv /\ [Next]_vars => [Own]_vars
  BY UserQuotaStep
<1>2. Spec => [](ChainInv /\ LimitsInv)
  BY LimitsInvariant, ChainInvariant, PTL
<1>3. Spec => [][Own]_vars
  BY <1>1, <1>2, PTL DEF Spec
<1> QED BY <1>3 DEF UserQuotaIsOwn
=============================================================================
