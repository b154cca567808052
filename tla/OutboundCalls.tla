--------------------------- MODULE OutboundCalls ---------------------------
(***************************************************************************)
(* Calls of one outbound client: internal/outbound/http.go, or the         *)
(* interceptor chain of internal/grpcclient/client.go.  In both the retry  *)
(* loop runs inside a circuit breaker that the concurrent calls share.     *)
(*                                                                         *)
(* The breaker is gobreaker (external): it trips after FailureThreshold    *)
(* consecutive failures, lets one call through after its timeout, and      *)
(* ignores the outcome of a call that was admitted before its last change  *)
(* of state.  `counted' holds the calls whose outcome still counts.        *)
(***************************************************************************)
EXTENDS Integers

CONSTANTS
    Calls,            \* concurrent callers
    MaxAttempts,      \* retry.max_attempts
    FailureThreshold  \* breaker.failure_threshold

ASSUME LimitsAssumption ==
    MaxAttempts \in Nat \ {0} /\ FailureThreshold \in Nat \ {0}

VARIABLES
    protocol,     \* "http" or "grpc"
    breaker,      \* state, consecutive failures, calls that count
    calls,        \* the calls
    bodies,       \* open response bodies: <<call, attempt>>
    streak        \* history: failed calls in a row since the breaker's last
                  \* change of state, as their callers saw them, up to
                  \* FailureThreshold

vars == <<protocol, breaker, calls, bodies, streak>>

\* What a caller asks for.  `safe' is a method that may be repeated; `key' is an
\* idempotency key in the context.
Requests == [safe : BOOLEAN, key : BOOLEAN]

\* A context that ended during backoff is told from one that ended in the call.
Results == {"response", "busy", "failed", "canceled", "deadline",
            "canceled_waiting", "deadline_waiting", "bad_path", "rejected"}

Outcomes ==
    {"response", "busy", "canceled", "deadline"}
        \cup (IF protocol = "http" THEN {"failed"} ELSE {})

Breaker == [state : {"none", "closed", "open", "half-open"},
            failures : 0 .. FailureThreshold - 1, counted : SUBSET Calls]

Call == [stage : {"sending", "waiting", "settling", "done"}, request : Requests,
         attempt : 0 .. MaxAttempts, result : Results]

NoRequest == [safe |-> FALSE, key |-> FALSE]

NewCall == [stage |-> "done", request |-> NoRequest, attempt |-> 0,
            result |-> "rejected"]

Init ==
    /\ protocol \in {"http", "grpc"}
    /\ \E state \in {"none", "closed"} :
          breaker = [state |-> state, failures |-> 0, counted |-> {}]
    /\ calls = [c \in Calls |-> NewCall]
    /\ bodies = {}
    /\ streak = 0

-----------------------------------------------------------------------------
(* The breaker *)

\* Execute lets a call through.
Admits ==
    \/ breaker.state \in {"none", "closed"}
    \/ breaker.state = "half-open" /\ breaker.counted = {}

\* A change of state: the calls in flight no longer count.
In(state) == [state |-> state, failures |-> 0, counted |-> {}]

OpenTimeout ==
    /\ breaker.state = "open"
    /\ breaker' = In("half-open")
    /\ streak' = 0
    /\ UNCHANGED <<protocol, calls, bodies>>

FaultyFailure(result) == result \in {"failed", "deadline", "deadline_waiting", "bad_path"}

\* The errors that the breaker counts.  For HTTP, a response with a retryable
\* status is made an error by execute, and only cancellation is excluded.  For
\* gRPC, waitRetry returns the error of the context itself, whose code is
\* Unknown, and which therefore is excluded.
Failure(result) ==
    IF protocol = "http"
    THEN result \in {"busy", "failed", "deadline", "deadline_waiting", "bad_path"}
    ELSE result \in {"busy", "deadline"}

\* A gRPC call that succeeds has the code OK, which IsExcluded excludes; the
\* breaker may or may not ask IsExcluded about a call without an error.
Successes(result) ==
    IF result # "response" THEN {FALSE}
    ELSE IF protocol = "http" THEN {TRUE} ELSE BOOLEAN

\* The breaker after a call that counts.
Tallied(c, failure, success) ==
    IF breaker.state = "none" THEN breaker
    ELSE IF failure THEN
        IF breaker.state = "half-open" \/ breaker.failures + 1 >= FailureThreshold
        THEN In("open")
        ELSE [breaker EXCEPT !.failures = @ + 1, !.counted = @ \ {c}]
    ELSE IF success THEN
        IF breaker.state = "half-open" THEN In("closed")
        ELSE [breaker EXCEPT !.failures = 0, !.counted = @ \ {c}]
    ELSE [breaker EXCEPT !.counted = @ \ {c}]

-----------------------------------------------------------------------------
(* The retry loop *)

FaultyRetryable(request) == TRUE

\* retryableMethod, retryGRPCMethod
Retryable(request) == request.safe \/ request.key

\* maxAttempts
Attempts(request) == IF Retryable(request) THEN MaxAttempts ELSE 1

\* The call starts; the caller has closed the body of its previous one.
Begin(c, request) ==
    /\ calls[c].stage = "done"
    /\ Admits
    /\ calls' = [calls EXCEPT ![c] =
                    [stage |-> "sending", request |-> request, attempt |-> 1,
                     result |-> "rejected"]]
    /\ breaker' = IF breaker.state = "none" THEN breaker
                  ELSE [breaker EXCEPT !.counted = @ \cup {c}]
    /\ bodies' = {b \in bodies : b[1] # c}
    /\ UNCHANGED <<protocol, streak>>

\* The breaker is open, or its one trial call is in flight.
Rejected(c) ==
    /\ calls[c].stage = "done"
    /\ ~Admits
    /\ calls' = [calls EXCEPT ![c] = NewCall]
    /\ bodies' = {b \in bodies : b[1] # c}
    /\ UNCHANGED <<protocol, breaker, streak>>

\* HTTP: the path is not relative, which doWithRetry finds out inside the breaker.
BadPath(c) ==
    /\ protocol = "http"
    /\ calls[c].stage = "sending" /\ calls[c].attempt = 1
    /\ calls' = [calls EXCEPT ![c] = [stage |-> "settling", request |-> @.request,
                                      attempt |-> 0, result |-> "bad_path"]]
    /\ UNCHANGED <<protocol, breaker, bodies, streak>>

\* The loop ends with the outcome of this attempt.  HTTP repeats after any error
\* and after a retryable status; a context that is done ends the backoff at once.
Final(call, outcome) ==
    \/ outcome = "response"
    \/ call.attempt = Attempts(call.request)
    \/ outcome \in {"canceled", "deadline"}

FaultyOpened(c, outcome) ==
    IF protocol = "http" /\ outcome \in {"response", "busy"}
    THEN {<<c, calls[c].attempt>>}
    ELSE {}

\* The body that is still open after the attempt: doWithRetry drains and closes
\* the body of a response it will not return.
Opened(c, outcome) ==
    IF /\ protocol = "http"
       /\ outcome \in {"response", "busy"}
       /\ Final(calls[c], outcome)
    THEN {<<c, calls[c].attempt>>}
    ELSE {}

\* client.Do, or the invoker: the request is sent and something comes back.
Send(c) ==
    /\ calls[c].stage = "sending"
    /\ \E outcome \in Outcomes :
          /\ bodies' = bodies \cup Opened(c, outcome)
          /\ calls' = [calls EXCEPT ![c] =
                IF Final(@, outcome)
                THEN [@ EXCEPT !.stage = "settling", !.result = outcome]
                ELSE [@ EXCEPT !.stage = "waiting"]]
    /\ UNCHANGED <<protocol, breaker, streak>>

\* waitBackoff, waitRetry: the timer fires.
Retry(c) ==
    /\ calls[c].stage = "waiting"
    /\ calls' = [calls EXCEPT ![c].stage = "sending",
                              ![c].attempt = @ + 1]
    /\ UNCHANGED <<protocol, breaker, bodies, streak>>

\* waitBackoff, waitRetry: the context is done first.
ContextDone(c) ==
    /\ calls[c].stage = "waiting"
    /\ \E result \in {"canceled_waiting", "deadline_waiting"} :
          calls' = [calls EXCEPT ![c].stage = "settling", ![c].result = result]
    /\ UNCHANGED <<protocol, breaker, bodies, streak>>

\* Execute tallies the outcome, and Do returns it: a response with a retryable
\* status is taken out of the error it was wrapped in.
Return(c) ==
    /\ calls[c].stage = "settling"
    /\ calls' = [calls EXCEPT ![c].stage = "done", ![c].request = NoRequest]
    /\ LET result == calls[c].result IN
       IF c \in breaker.counted
       THEN \E success \in Successes(result) :
              /\ breaker' = Tallied(c, Failure(result), success)
              /\ streak' =
                   IF breaker'.state # breaker.state \/ success THEN 0
                   ELSE IF \/ result \in {"response", "canceled", "canceled_waiting"}
                           \/ streak = FailureThreshold
                        THEN streak ELSE streak + 1
       ELSE UNCHANGED <<breaker, streak>>
    /\ UNCHANGED <<protocol, bodies>>

-----------------------------------------------------------------------------
Next ==
    \/ OpenTimeout
    \/ \E c \in Calls :
          \/ \E request \in Requests : Begin(c, request)
          \/ Rejected(c) \/ BadPath(c) \/ Send(c) \/ Retry(c)
          \/ ContextDone(c) \/ Return(c)

Spec == Init /\ [][Next]_vars

-----------------------------------------------------------------------------
(* Properties *)

\* The type invariant.  An attempt is never beyond the policy of its call, and
\* the breaker trips before its count reaches the threshold.
TypeOK ==
    /\ protocol \in {"http", "grpc"}
    /\ breaker \in Breaker
    /\ calls \in [Calls -> Call]
    /\ bodies \subseteq Calls \X (1 .. MaxAttempts)
    /\ streak \in 0 .. FailureThreshold

\* A request that may not be repeated, and has no idempotency key, is sent at
\* most once, whatever its outcome and whatever other calls do to the breaker
\* (maxAttempts of doWithRetry, retryInterceptor).
UnsafeSentOnce ==
    \A c \in Calls :
        calls[c].stage # "done" /\ ~calls[c].request.safe /\ ~calls[c].request.key =>
            calls[c].attempt <= 1

\* No response body leaks and none is closed under its reader: the open bodies
\* are the ones that returned calls gave to their callers, or are about to give,
\* also when the breaker saw the response as an error (doWithRetry, execute).
BodiesAreReturned ==
    bodies = {<<c, calls[c].attempt>> :
                c \in {d \in Calls :
                         /\ protocol = "http"
                         /\ calls[d].stage \in {"settling", "done"}
                         /\ calls[d].result \in {"response", "busy"}}}

\* While the breaker is closed, fewer calls in a row than its threshold have
\* failed in the eyes of their callers: a retryable status counts, though the
\* caller gets it as a response, and so does a deadline that ends the backoff.
\* For HTTP only, where IsExcluded excludes nothing but cancellation.
FailuresTrip ==
    protocol = "http" /\ breaker.state = "closed" => streak < FailureThreshold

\* A call that is sent or waits has attempts left as its policy says, and only a
\* call that was let through settles (doWithRetry, retryInterceptor).
CallStages ==
    \A c \in Calls :
        /\ calls[c].stage \in {"sending", "waiting"} => calls[c].attempt > 0
        /\ calls[c].stage # "done" => calls[c].attempt <= Attempts(calls[c].request)
        /\ calls[c].stage = "waiting" => calls[c].attempt < Attempts(calls[c].request)
        /\ calls[c].stage = "settling" => calls[c].result # "rejected"

\* No call counts while there is no breaker or it is open, and for HTTP the
\* breaker has counted every failure that callers saw (Execute of the breaker).
BreakerCounts ==
    /\ breaker.state \in {"none", "open"} => breaker.counted = {}
    /\ protocol = "http" => streak <= breaker.failures

\* The inductive invariant behind the properties.
CallsInv == TypeOK /\ BodiesAreReturned /\ CallStages /\ BreakerCounts
=============================================================================
