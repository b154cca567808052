---------------------------- MODULE RequestChain ----------------------------
(***************************************************************************)
(* The chains that a request passes before a service method is called:     *)
(* the middleware of internal/transport/http and the unary interceptors    *)
(* of internal/transport/grpc, with authentication (internal/auth), the    *)
(* remote authorizer (internal/authorization) and the rate limits in Redis *)
(* (internal/ratelimit).                                                   *)
(*                                                                         *)
(* Requests run concurrently and share the limits.  What the service       *)
(* method does is the subject of DynamicConfig, Resolution and Listing;    *)
(* what becomes of an idempotency key between requests is the subject of   *)
(* Idempotency, here its last check before the handler may end in every    *)
(* way it can.                                                             *)
(***************************************************************************)
EXTENDS Integers, Sequences, FiniteSets

CONSTANTS
    Slots,        \* concurrent requests
    Settings,     \* the configurations of the process
    Inputs,       \* the requests its clients send, by configuration
    Answers,      \* what service methods, or a panic in them, end in
    Burst         \* requests a limit lets through, here within one period

ASSUME BurstAssumption == Burst \in Nat \ {0}
ASSUME SlotsAssumption == IsFiniteSet(Slots)

VARIABLES
    settings,
    quota,        \* Redis: what each limit has counted: <<dimension, key>>
    requests,
    executed      \* history: requests that reached a handler, by limit, while
                  \* the limits are on and do not fail open

vars == <<settings, quota, requests, executed>>

-----------------------------------------------------------------------------
(* Routes, methods and what they require *)

\* The service method behind each route (NewServer, and the handlers).
WriteHandlers ==
    [r \in {"entries/put-draft", "entries/publish", "entries/submit",
            "entries/approve", "entries/reject", "entries/rollback"} |->
       CASE r = "entries/put-draft" -> "PutDraft"
         [] r = "entries/publish"   -> "Publish"
         [] r = "entries/submit"    -> "SubmitForApproval"
         [] r = "entries/approve"   -> "Approve"
         [] r = "entries/reject"    -> "Reject"
         [] r = "entries/rollback"  -> "Rollback"]

ReadHandlers ==
    [r \in {"entries/get", "resolve", "entries/list"} |->
       CASE r = "entries/get"  -> "Get"
         [] r = "resolve"      -> "Resolve"
         [] r = "entries/list" -> "List"]

ConfigRoutes == DOMAIN WriteHandlers \cup DOMAIN ReadHandlers

ApiRoutes == ConfigRoutes \cup {"version", "me"}

OpenRoutes == {"live", "ready", "metrics"}

Nothing == "nothing"

\* The action on config.entry that a route requires.
configHTTPRequirement(route) ==
    CASE route \in {"entries/get", "resolve"} -> "read"
      [] route = "entries/put-draft" -> "update"
      [] route = "entries/submit"    -> "submit"
      [] route = "entries/approve"   -> "approve"
      [] route = "entries/reject"    -> "reject"
      [] route = "entries/publish"   -> "publish"
      [] route = "entries/rollback"  -> "rollback"
      [] route = "entries/list"      -> "list"
      [] OTHER -> Nothing

\* gRPC methods are the service methods by name.
configGRPCRequirement(method) ==
    CASE method \in {"Get", "Resolve"} -> "read"
      [] method = "PutDraft"          -> "update"
      [] method = "SubmitForApproval" -> "submit"
      [] method = "Approve"           -> "approve"
      [] method = "Reject"            -> "reject"
      [] method = "Publish"           -> "publish"
      [] method = "Rollback"          -> "rollback"
      [] method = "List"              -> "list"
      [] OTHER -> Nothing

Method(i) ==
    IF i.transport = "grpc" THEN i.route
    ELSE IF i.route \in DOMAIN WriteHandlers THEN WriteHandlers[i.route]
    ELSE IF i.route \in DOMAIN ReadHandlers THEN ReadHandlers[i.route]
    ELSE i.route

Requirement(i) ==
    IF ~settings.authorization THEN Nothing
    ELSE IF i.transport = "grpc" THEN configGRPCRequirement(i.route)
    ELSE configHTTPRequirement(i.route)

-----------------------------------------------------------------------------
(* Answers *)

NoAnswer == "no_answer"
Nobody == "nobody"

\* The HTTP server has no other routes than these (a request for another is
\* answered by the router), and every request comes from an address.
ASSUME InputsAssumption ==
    \A s \in Settings : \A i \in Inputs[s] :
        \/ i.transport = "grpc"
        \/ /\ i.transport = "http" /\ i.ip # Nobody
           /\ i.route \in ApiRoutes \cup {"swagger", "pprof"} \cup OpenRoutes

ASSUME AnswersAssumption == NoAnswer \notin Answers

-----------------------------------------------------------------------------
(* The chains *)

\* The checks before the handler, in the order in which they are installed
\* (NewServer of each transport).
Chain(i) ==
    IF i.transport = "grpc" THEN <<"key", "auth", "authz", "idempotency", "handler">>
    ELSE CASE i.route \in ApiRoutes  -> <<"key", "browser", "ip", "api", "auth",
                                          "authz", "user", "idempotency", "handler">>
           [] i.route = "swagger"    -> <<"key", "browser", "jwt", "handler">>
           [] i.route = "pprof"      -> <<"key", "browser", "pprof", "handler">>
           [] i.route \in OpenRoutes -> <<"key", "browser", "handler">>

Free == [at |-> 0]

Init ==
    /\ settings \in Settings
    /\ quota = << >>
    /\ requests = [r \in Slots |-> Free]
    /\ executed = << >>

Running(r) == requests[r].at > 0 /\ requests[r].answer = NoAnswer

At(r, stage) == Running(r) /\ Chain(requests[r].input)[requests[r].at] = stage

\* c.Next()
Pass(r) == requests' = [requests EXCEPT ![r].at = @ + 1]

\* Fail and c.Abort, or the error of an interceptor.
Fail(r, error) ==
    requests' = [requests EXCEPT ![r].answer = error]

\* How often a limit has counted; limits are made when they are first used.
Count(f, d) == IF d \in DOMAIN f THEN f[d] ELSE 0

Plus(f, d) == [e \in DOMAIN f \cup {d} |-> Count(f, e) + (IF e = d THEN 1 ELSE 0)]

\* A request arrives, and gets its request id and the active profile.
Arrive(r, i) ==
    /\ ~Running(r)
    /\ requests' = [requests EXCEPT ![r] =
                      [at |-> 1, input |-> i, subject |-> Nobody,
                       granted |-> Nothing, method |-> Nothing,
                       answer |-> NoAnswer]]
    /\ UNCHANGED <<settings, quota, executed>>

\* IdempotencyKey, idempotencyInterceptor
IdempotencyKey(r) ==
    /\ At(r, "key")
    /\ IF requests[r].input.key = "bad" THEN Fail(r, "invalid") ELSE Pass(r)
    /\ UNCHANGED <<settings, quota, executed>>

\* CORS and RequireJSON
Browser(r) ==
    /\ At(r, "browser")
    /\ LET i == requests[r].input
           cors == settings.cors /\ i.origin # "none"
       IN  IF cors /\ i.origin = "foreign" THEN Fail(r, "forbidden")
           ELSE IF cors /\ i.preflight THEN Fail(r, "preflight")
           ELSE IF i.body = "not_json" THEN Fail(r, "media_type")
           ELSE Pass(r)
    /\ UNCHANGED <<settings, quota, executed>>

FaultyRateKey(r, dimension) ==
    CASE dimension = "ip"   -> requests[r].input.ip
      [] dimension = "api"  -> requests[r].input.route
      [] dimension = "user" -> requests[r].input.credential.id

\* The key of a limit; the user limit has none for a request without subject.
RateKey(r, dimension) ==
    CASE dimension = "ip"   -> requests[r].input.ip
      [] dimension = "api"  -> requests[r].input.route
      [] dimension = "user" -> requests[r].subject

FaultyExhausted(used) == used > Burst

\* Allow: nothing is left.
Exhausted(used) == used >= Burst

\* RateLimit.  Redis counts atomically, and may fail.
RateLimit(r, dimension) ==
    /\ At(r, dimension)
    /\ LET d == <<dimension, RateKey(r, dimension)>> IN
       \/ /\ ~settings.limiter \/ d[2] = Nobody
          /\ Pass(r)
          /\ UNCHANGED quota
       \/ /\ settings.limiter /\ d[2] # Nobody
          /\ IF settings.failOpen THEN Pass(r) ELSE Fail(r, "unavailable")
          /\ UNCHANGED quota
       \/ /\ settings.limiter /\ d[2] # Nobody
          /\ IF Exhausted(Count(quota, d))
             THEN Fail(r, "too_many") /\ UNCHANGED quota
             ELSE Pass(r) /\ quota' = Plus(quota, d)
    /\ UNCHANGED <<settings, executed>>

\* VerifyPSK
VerifyPSK(c) == c.scheme = "psk" /\ c.valid

\* JWT and Verify: the token is a bearer token, signed and not expired.
VerifyBearer(c) == c.scheme = "bearer" /\ c.valid

PassAs(r, subject) ==
    requests' = [requests EXCEPT ![r].at = @ + 1, ![r].subject = subject]

FaultyAuthentication(r) ==
    LET i == requests[r].input IN
    IF i.route \in settings.skip THEN Pass(r)
    ELSE IF settings.pskEnabled /\ i.route \in settings.psk
    THEN IF VerifyPSK(i.credential) THEN PassAs(r, "psk")
                                    ELSE Fail(r, "unauthorized")
    ELSE IF VerifyBearer(i.credential) THEN PassAs(r, i.credential.id)
                                       ELSE Fail(r, "unauthorized")

\* HTTP: routes with a pre-shared key come before routes without authentication.
Authentication(r) ==
    LET i == requests[r].input IN
    IF settings.pskEnabled /\ i.route \in settings.psk
    THEN IF VerifyPSK(i.credential) THEN PassAs(r, "psk")
                                    ELSE Fail(r, "unauthorized")
    ELSE IF i.route \in settings.skip THEN Pass(r)
    ELSE IF VerifyBearer(i.credential) THEN PassAs(r, i.credential.id)
                                       ELSE Fail(r, "unauthorized")

\* gRPC: the same decisions over the metadata of the call.
authenticateGRPC(r) ==
    LET i == requests[r].input IN
    IF settings.pskEnabled /\ i.route \in settings.psk
    THEN IF i.credential.scheme # "none" /\ VerifyPSK(i.credential)
         THEN PassAs(r, "psk") ELSE Fail(r, "unauthorized")
    ELSE IF i.route \in settings.skip THEN Pass(r)
    ELSE IF i.credential.scheme = "none" THEN Fail(r, "unauthorized")
    ELSE IF VerifyBearer(i.credential) THEN PassAs(r, i.credential.id)
         ELSE Fail(r, "unauthorized")

Authenticate(r) ==
    /\ At(r, "auth")
    /\ IF requests[r].input.transport = "http" THEN Authentication(r)
                                               ELSE authenticateGRPC(r)
    /\ UNCHANGED <<settings, quota, executed>>

\* Swagger asks for a bearer token if swagger.require_auth.
SwaggerJWT(r) ==
    /\ At(r, "jwt")
    /\ LET c == requests[r].input.credential IN
       IF ~settings.swaggerAuth THEN Pass(r)
       ELSE IF VerifyBearer(c) THEN PassAs(r, c.id) ELSE Fail(r, "unauthorized")
    /\ UNCHANGED <<settings, quota, executed>>

\* pprof has a bearer token of its own.
pprofAuth(r) ==
    /\ At(r, "pprof")
    /\ LET c == requests[r].input.credential IN
       IF c.scheme = "pprof" /\ c.valid THEN Pass(r) ELSE Fail(r, "unauthorized")
    /\ UNCHANGED <<settings, quota, executed>>

\* Authorization, and the interceptor of the platform library: a remote
\* decision, which is never positive without a principal.
Authorize(r) ==
    /\ At(r, "authz")
    /\ LET needed == Requirement(requests[r].input) IN
       \/ needed = Nothing /\ Pass(r)
       \/ /\ needed # Nothing
          /\ Fail(r, "forbidden") \/ Fail(r, "unavailable")
       \/ /\ needed # Nothing /\ requests[r].subject # Nobody
          /\ requests' = [requests EXCEPT ![r].at = @ + 1, ![r].granted = needed]
    /\ UNCHANGED <<settings, quota, executed>>

\* The body does not parse: ShouldBindJSON, or no entry in PutDraftRequest.  Only
\* the handlers of service methods read it.
Unreadable(i) ==
    /\ i.body = "unreadable"
    /\ Method(i) \notin OpenRoutes \cup {"version", "me", "swagger", "pprof"}

\* How a handler may end: readiness may be missing, the other routes beside
\* those of the service methods only report.
Outcomes(i) ==
    IF i.transport = "grpc" \/ i.route \in ConfigRoutes THEN Answers
    ELSE IF i.route = "ready" THEN {"ok", "unavailable"} ELSE {"ok"}

\* The caller gets the result of the method behind its request.
Answer(r, answer) ==
    requests' = [requests EXCEPT
        ![r].method = Method(requests[r].input), ![r].answer = answer]

\* The manager is enabled, the route or method configured, and a key is sent.
Protected(i) == i.key = "valid" /\ i.route \in settings.idempotent

\* IdempotencyExecution, and the interceptor of the platform library behind
\* authorization.  A protected request goes on if it acquires its key.  It is refused
\* if its body cannot be read, Redis is away, its key is in progress or belongs to
\* another request; or it gets the result stored for its key, a refusal of the body
\* included.  What is stored, and for whom, is decided in Idempotency.
IdempotencyExecution(r) ==
    /\ At(r, "idempotency")
    /\ LET i == requests[r].input IN
       \/ Pass(r)
       \/ /\ Protected(i)
          /\ \E error \in {"invalid", "unavailable", "in_progress", "conflict"} : Fail(r, error)
       \/ /\ Protected(i) /\ ~Unreadable(i)
          /\ \E answer \in Outcomes(i) : Answer(r, answer)
    /\ UNCHANGED <<settings, quota, executed>>

BindFails(r) ==
    /\ At(r, "handler")
    /\ Unreadable(requests[r].input)
    /\ Fail(r, "invalid")
    /\ UNCHANGED <<settings, quota, executed>>

\* The handler calls the service method and writes its answer; Recovery and
\* recoveryInterceptor make a panic an internal error.  All paths have written
\* when Timeout looks, so its own answer is never sent.
Handle(r) ==
    /\ At(r, "handler")
    /\ ~Unreadable(requests[r].input)
    /\ LET i == requests[r].input IN
       /\ \E answer \in Outcomes(i) : Answer(r, answer)
       /\ executed' = IF /\ i.transport = "http" /\ i.route \in ApiRoutes
                         /\ settings.limiter /\ ~settings.failOpen
                      THEN Plus(Plus(executed, <<"ip", i.ip>>), <<"api", i.route>>)
                      ELSE executed
    /\ UNCHANGED <<settings, quota>>

Next ==
    \E r \in Slots :
        \/ \E i \in Inputs[settings] : Arrive(r, i)
        \/ IdempotencyKey(r) \/ Browser(r)
        \/ \E d \in {"ip", "api", "user"} : RateLimit(r, d)
        \/ Authenticate(r) \/ SwaggerJWT(r) \/ pprofAuth(r) \/ Authorize(r)
        \/ IdempotencyExecution(r) \/ BindFails(r) \/ Handle(r)

Spec == Init /\ [][Next]_vars

-----------------------------------------------------------------------------
(* Properties *)

\* The type invariant: a request is in its chain, its subject comes from its
\* credential, nothing is granted to nobody, and no limit has counted more than its burst.
TypeOK ==
    /\ settings \in Settings
    /\ \A d \in DOMAIN quota : quota[d] \in 1 .. Burst
    /\ \A r \in Slots :
         requests[r].at > 0 =>
            /\ requests[r].input \in Inputs[settings]
            /\ requests[r].at <= Len(Chain(requests[r].input))
            /\ requests[r].subject \in {Nobody, "psk", requests[r].input.credential.id}
            /\ requests[r].answer = NoAnswer \/ requests[r].granted = Nothing
                 \/ requests[r].subject # Nobody

\* The action that each service method performs on an entry.
ActionOf(method) ==
    CASE method \in {"Get", "Resolve"} -> "read"
      [] method = "PutDraft" -> "update"
      [] method = "SubmitForApproval" -> "submit"
      [] method = "List" -> "list"
      [] method = "Approve" -> "approve"
      [] method = "Reject" -> "reject"
      [] method = "Publish" -> "publish"
      [] method = "Rollback" -> "rollback"
      [] OTHER -> Nothing

\* A caller gets the result of a service method, whether it runs now or is replayed
\* for the caller's key, only if the configuration admits the caller: with the
\* pre-shared key where one is configured, which takes precedence over bypass,
\* else with a valid token unless bypassed; and, if authorization is on, only if
\* the authorizer granted the very action that the method performs.  For both
\* transports (Authentication, authenticateGRPC, Authorization, the two requirement
\* tables, the routes, and idempotent execution after all of them).
HandledIsAdmitted ==
    \A r \in Slots :
        requests[r].at > 0 /\ requests[r].method # Nothing =>
            LET q == requests[r]
                c == q.input.credential
                psk == settings.pskEnabled /\ q.input.route \in settings.psk
                isApi == q.input.transport = "grpc" \/ q.input.route \in ApiRoutes
            IN  /\ isApi /\ psk => c.scheme = "psk" /\ c.valid
                /\ isApi /\ ~psk /\ q.input.route \notin settings.skip =>
                     c.scheme = "bearer" /\ c.valid
                /\ settings.authorization => q.granted = ActionOf(q.method)

\* With limits on and fail_open off, no more requests from one address or to one
\* route reach a handler than the limit allows, however they overlap and whatever
\* Redis does (RateLimit, Allow).
LimitsHold ==
    \A d \in DOMAIN executed : executed[d] <= Burst

\* A user's limit is charged only by requests with that user's valid credential:
\* nobody uses up the quota of another (RateLimit after Authentication).
UserQuotaIsOwn ==
    [][\A d \in DOMAIN quota' :
          d[1] = "user" /\ Count(quota', d) > Count(quota, d) =>
              \E r \in Slots :
                 LET c == requests[r].input.credential IN
                 /\ At(r, "user")
                 /\ c.valid
                 /\ d[2] = (IF c.scheme = "psk" THEN "psk" ELSE c.id)]_vars

-----------------------------------------------------------------------------
(* The inductive invariant behind the properties *)

\* The errors that requests end in.
Errors ==
    {"ok", "preflight", "invalid", "unauthorized", "forbidden", "media_type",
     "too_many", "unavailable", "in_progress", "conflict"} \cup Answers

\* A request in a slot.
Request ==
    [at : Nat \ {0}, input : Inputs[settings],
     subject : {Nobody, "psk"} \cup {i.credential.id : i \in Inputs[settings]},
     granted : {Nothing} \cup {Requirement(i) : i \in Inputs[settings]},
     method : {Nothing} \cup {Method(i) : i \in Inputs[settings]},
     answer : {NoAnswer} \cup Errors]

\* The request has passed the check.
Beyond(q, stage) == \E n \in 1 .. q.at - 1 : Chain(q.input)[n] = stage

\* The caller presented what the route or method asks for.
Authenticated(i) ==
    LET psk == settings.pskEnabled /\ i.route \in settings.psk
    IN  /\ psk => VerifyPSK(i.credential)
        /\ ~psk /\ i.route \notin settings.skip => VerifyBearer(i.credential)

\* What a request carries follows from the checks it has passed.
RequestOK(q) ==
    /\ q.at <= Len(Chain(q.input))
    /\ Beyond(q, "auth") => Authenticated(q.input)
    /\ q.granted = IF Beyond(q, "authz") THEN Requirement(q.input) ELSE Nothing
    /\ q.method # Nothing => /\ q.method = Method(q.input) /\ q.answer # NoAnswer
                            /\ Chain(q.input)[q.at] \in {"idempotency", "handler"}
    /\ q.subject # Nobody =>
          LET c == q.input.credential
          IN  \/ VerifyPSK(c) /\ q.subject = "psk"
              \/ VerifyBearer(c) /\ q.subject = c.id

ChainInv ==
    /\ settings \in Settings
    /\ requests \in [Slots -> {Free} \cup Request]
    /\ \A r \in Slots : requests[r].at > 0 => RequestOK(requests[r])

\* The limits that bound executions; those of users are not among them.
Limits == UNION {{<<"ip", i.ip>>, <<"api", i.route>>} : i \in Inputs[settings]}

\* The requests that a limit has let through and that have not been handled.
InFlight(d) ==
    {r \in Slots :
        /\ Running(r)
        /\ requests[r].input.transport = "http" /\ requests[r].input.route \in ApiRoutes
        /\ \/ d = <<"ip", requests[r].input.ip>> /\ Beyond(requests[r], "ip")
           \/ d = <<"api", requests[r].input.route>> /\ Beyond(requests[r], "api")}

\* Every request that was handled, or still may be, has been counted by its limits.
LimitsInv ==
    /\ \A d \in DOMAIN quota : quota[d] \in 1 .. Burst
    /\ DOMAIN executed \subseteq Limits
    /\ \A d \in DOMAIN executed : executed[d] \in Nat
    /\ settings.limiter /\ ~settings.failOpen =>
         \A d \in Limits : Count(executed, d) + Cardinality(InFlight(d)) <= Count(quota, d)
    /\ ~(settings.limiter /\ ~settings.failOpen) => executed = << >>
=============================================================================
