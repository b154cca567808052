------------------------ MODULE OutboundCallsProofs ------------------------
(***************************************************************************)
(* Proofs about OutboundCalls: for any set of callers, any retry policy    *)
(* and any threshold of the breaker.                                       *)
(***************************************************************************)
EXTENDS OutboundCalls, TLAPS

\* No call makes more attempts than the policy allows (maxAttempts).
LEMMA AttemptsBounded ==
    ASSUME NEW r \in Requests
    PROVE  /\ Attempts(r) \in 1 .. MaxAttempts
           /\ ~r.safe /\ ~r.key => Attempts(r) = 1
BY LimitsAssumption DEF Attempts, Retryable, Requests

\* No call is in progress at first and the breaker has counted nothing.
LEMMA CallsInit == Init => CallsInv
<1> SUFFICES ASSUME Init PROVE CallsInv
  OBVIOUS
<1>1. TypeOK
  BY LimitsAssumption DEF Init, TypeOK, NewCall, NoRequest, Requests, Results, Call, Breaker
<1>2. BodiesAreReturned
  BY DEF Init, BodiesAreReturned, NewCall
<1>3. CallStages
  BY DEF Init, CallStages, NewCall
<1>4. BreakerCounts
  BY DEF Init, BreakerCounts
<1> QED BY <1>1, <1>2, <1>3, <1>4 DEF CallsInv

\* The timeout of an open breaker changes no call.
LEMMA OpenTimeoutKeeps ==
    ASSUME CallsInv, OpenTimeout PROVE CallsInv'
<1>1. TypeOK'
  BY LimitsAssumption DEF CallsInv, OpenTimeout, TypeOK, In, Breaker
<1>2. BodiesAreReturned'
  BY DEF CallsInv, OpenTimeout, BodiesAreReturned
<1>3. CallStages'
  BY DEF CallsInv, OpenTimeout, CallStages
<1>4. BreakerCounts'
  BY DEF OpenTimeout, BreakerCounts, In
<1> QED BY <1>1, <1>2, <1>3, <1>4 DEF CallsInv

\* A call that starts, or is rejected, gives up the body of the call before it.
LEMMA BeginKeeps ==
    ASSUME CallsInv, NEW c \in Calls, NEW request \in Requests, Begin(c, request)
    PROVE  CallsInv'
<1>1. TypeOK'
  <2>1. [stage |-> "sending", request |-> request, attempt |-> 1, result |-> "rejected"] \in Call
    BY LimitsAssumption DEF Call, Results
  <2>2. calls' \in [Calls -> Call]
    BY <2>1 DEF CallsInv, Begin, TypeOK
  <2>3. breaker' \in Breaker
    BY DEF CallsInv, Begin, TypeOK, Breaker
  <2> QED BY <2>2, <2>3 DEF CallsInv, Begin, TypeOK
<1>2. BodiesAreReturned'
  BY DEF CallsInv, Begin, BodiesAreReturned, TypeOK
<1>3. CallStages'
  BY AttemptsBounded DEF CallsInv, Begin, CallStages, TypeOK
<1>4. BreakerCounts'
  BY DEF CallsInv, Begin, BreakerCounts, Admits, TypeOK, Breaker
<1> QED BY <1>1, <1>2, <1>3, <1>4 DEF CallsInv

LEMMA RejectedKeeps ==
    ASSUME CallsInv, NEW c \in Calls, Rejected(c) PROVE CallsInv'
<1>1. TypeOK'
  <2>1. NewCall \in Call
    BY LimitsAssumption DEF Call, NewCall, NoRequest, Requests, Results
  <2> QED BY <2>1 DEF CallsInv, Rejected, TypeOK
<1>2. BodiesAreReturned'
  BY DEF CallsInv, Rejected, BodiesAreReturned, TypeOK, NewCall
<1>3. CallStages'
  BY DEF CallsInv, Rejected, CallStages, TypeOK, NewCall
<1>4. BreakerCounts'
  BY DEF CallsInv, Rejected, BreakerCounts
<1> QED BY <1>1, <1>2, <1>3, <1>4 DEF CallsInv

\* A request with a bad path is never sent: it leaves no body.
LEMMA BadPathKeeps ==
    ASSUME CallsInv, NEW c \in Calls, BadPath(c) PROVE CallsInv'
<1>0. calls' = [calls EXCEPT ![c] = [stage |-> "settling", request |-> calls[c].request,
                                     attempt |-> 0, result |-> "bad_path"]]
  BY DEF BadPath
<1>1. TypeOK'
  <2>1. [stage |-> "settling", request |-> calls[c].request, attempt |-> 0,
         result |-> "bad_path"] \in Call
    BY LimitsAssumption DEF CallsInv, TypeOK, Call, Results
  <2>2. calls' \in [Calls -> Call]
    BY <1>0, <2>1 DEF CallsInv, TypeOK
  <2> QED BY <2>2 DEF CallsInv, BadPath, TypeOK
<1>2. BodiesAreReturned'
  BY DEF CallsInv, BadPath, BodiesAreReturned, TypeOK, Call
<1>3. CallStages'
  <2>1. Attempts(calls[c].request) \in Nat
    BY AttemptsBounded, LimitsAssumption DEF CallsInv, TypeOK, Call
  <2> QED BY <2>1 DEF CallsInv, BadPath, CallStages, TypeOK, Call
<1>4. BreakerCounts'
  BY DEF CallsInv, BadPath, BreakerCounts
<1> QED BY <1>1, <1>2, <1>3, <1>4 DEF CallsInv

\* An attempt leaves its body open exactly when the loop ends with its response,
\* and a call that goes on waiting has an attempt left.
LEMMA SendKeeps ==
    ASSUME CallsInv, NEW c \in Calls, Send(c) PROVE CallsInv'
<1>1. PICK outcome \in Outcomes :
         /\ bodies' = bodies \cup Opened(c, outcome)
         /\ calls' = [calls EXCEPT ![c] =
                IF Final(@, outcome)
                THEN [@ EXCEPT !.stage = "settling", !.result = outcome]
                ELSE [@ EXCEPT !.stage = "waiting"]]
  BY DEF Send
<1>2. UNCHANGED <<protocol, breaker, streak>> /\ calls[c].stage = "sending"
  BY DEF Send
<1>3. outcome \in Results /\ outcome # "rejected"
  BY <1>1 DEF Outcomes, Results
<1>4. calls[c].request \in Requests /\ calls[c].attempt \in 1 .. MaxAttempts
  BY <1>2, LimitsAssumption DEF CallsInv, CallStages, TypeOK, Call
<1>5. TypeOK'
  <2>1. calls' \in [Calls -> Call]
    BY <1>1, <1>3 DEF CallsInv, TypeOK, Call
  <2>2. bodies' \subseteq Calls \X (1 .. MaxAttempts)
    BY <1>1, <1>4 DEF CallsInv, TypeOK, Opened
  <2> QED BY <1>2, <2>1, <2>2 DEF CallsInv, TypeOK
<1>6. BodiesAreReturned'
  <2>1. CASE Final(calls[c], outcome)
    BY <1>1, <1>2, <1>3, <2>1 DEF CallsInv, TypeOK, BodiesAreReturned, Opened
  <2>2. CASE ~Final(calls[c], outcome)
    BY <1>1, <1>2, <2>2 DEF CallsInv, TypeOK, BodiesAreReturned, Opened
  <2> QED BY <2>1, <2>2
<1>7. CallStages'
  <2>1. ~Final(calls[c], outcome) => calls[c].attempt < Attempts(calls[c].request)
    BY <1>2, <1>4, AttemptsBounded DEF CallsInv, CallStages, Final
  <2> QED BY <1>1, <1>2, <1>3, <2>1 DEF CallsInv, TypeOK, CallStages
<1>8. BreakerCounts'
  BY <1>2 DEF CallsInv, BreakerCounts
<1> QED BY <1>5, <1>6, <1>7, <1>8 DEF CallsInv

\* The next attempt is within the policy.
LEMMA RetryKeeps ==
    ASSUME CallsInv, NEW c \in Calls, Retry(c) PROVE CallsInv'
<1>1. calls[c].request \in Requests /\ calls[c].attempt + 1 \in 1 .. MaxAttempts
  BY AttemptsBounded, LimitsAssumption DEF CallsInv, CallStages, TypeOK, Retry, Call
<1>2. TypeOK'
  BY <1>1 DEF CallsInv, Retry, TypeOK, Call
<1>3. BodiesAreReturned'
  BY DEF CallsInv, Retry, BodiesAreReturned, TypeOK
<1>4. CallStages'
  BY <1>1, AttemptsBounded, LimitsAssumption DEF CallsInv, Retry, CallStages, TypeOK, Call
<1>5. BreakerCounts'
  BY DEF CallsInv, Retry, BreakerCounts
<1> QED BY <1>2, <1>3, <1>4, <1>5 DEF CallsInv

\* A context that ends during backoff leaves no body behind.
LEMMA ContextDoneKeeps ==
    ASSUME CallsInv, NEW c \in Calls, ContextDone(c) PROVE CallsInv'
<1>1. PICK result \in {"canceled_waiting", "deadline_waiting"} :
         calls' = [calls EXCEPT ![c].stage = "settling", ![c].result = result]
  BY DEF ContextDone
<1>2. UNCHANGED <<protocol, breaker, bodies, streak>> /\ calls[c].stage = "waiting"
  BY DEF ContextDone
<1>3. TypeOK'
  BY <1>1, <1>2 DEF CallsInv, TypeOK, Results, Call
<1>4. BodiesAreReturned'
  BY <1>1, <1>2 DEF CallsInv, BodiesAreReturned, TypeOK, Call
<1>5. CallStages'
  BY <1>1, <1>2 DEF CallsInv, CallStages, TypeOK, Call
<1>6. BreakerCounts'
  BY <1>2 DEF CallsInv, BreakerCounts
<1> QED BY <1>3, <1>4, <1>5, <1>6 DEF CallsInv

\* The tally of a call that counts: the breaker counts a failure whenever the
\* caller of an HTTP client sees one.
LEMMA ReturnKeeps ==
    ASSUME CallsInv, NEW c \in Calls, Return(c) PROVE CallsInv'
<1>1. /\ calls[c].stage = "settling" /\ UNCHANGED <<protocol, bodies>>
      /\ calls' = [calls EXCEPT ![c].stage = "done", ![c].request = NoRequest]
  BY DEF Return
<1>2. /\ breaker' \in Breaker
      /\ streak' \in 0 .. FailureThreshold
      /\ BreakerCounts'
  <2>1. CASE c \notin breaker.counted
    BY <1>1, <2>1 DEF CallsInv, TypeOK, BreakerCounts, Return
  <2>2. CASE c \in breaker.counted
    <3> DEFINE result == calls[c].result
    <3> DEFINE seen == IF \/ result \in {"response", "canceled", "canceled_waiting"}
                          \/ streak = FailureThreshold
                       THEN streak ELSE streak + 1
               succeeds == /\ breaker' = Tallied(c, Failure(result), TRUE)
                           /\ streak' = 0 /\ result = "response"
               other == /\ breaker' = Tallied(c, Failure(result), FALSE)
                        /\ streak' = IF breaker'.state # breaker.state THEN 0 ELSE seen
    <3>1. succeeds \/ other
      BY <2>2 DEF Return, Successes
    <3>2. /\ breaker.state \in {"closed", "half-open"} /\ breaker \in Breaker
          /\ streak \in 0 .. FailureThreshold /\ protocol \in {"http", "grpc"}
          /\ protocol = "http" => streak <= breaker.failures
      BY <2>2 DEF CallsInv, TypeOK, BreakerCounts, Breaker
    <3>3. CASE succeeds
      <4>1. ~Failure(result)
        BY <3>3 DEF Failure
      <4>2. \E left \in SUBSET Calls :
               breaker' = [state |-> "closed", failures |-> 0, counted |-> left]
        BY <3>2, <3>3, <4>1 DEF Tallied, In, Breaker
      <4>3. breaker' \in Breaker /\ breaker'.state = "closed" /\ breaker'.failures = 0
        BY <4>2, LimitsAssumption DEF Breaker
      <4>4. streak' = 0
        BY <3>3
      <4> QED BY <1>1, <4>3, <4>4, LimitsAssumption DEF BreakerCounts
    <3>4. CASE other /\ ~Failure(result)
      <4>1. /\ breaker' \in Breaker
            /\ breaker'.state = breaker.state /\ breaker'.failures = breaker.failures
        BY <3>2, <3>4 DEF Tallied, Breaker
      <4>2. protocol = "http" => result \in {"response", "canceled", "canceled_waiting"}
        BY <1>1, <3>4 DEF CallsInv, TypeOK, CallStages, Call, Results, Failure
      <4>3. /\ protocol = "http" => streak' = streak
            /\ streak' \in 0 .. FailureThreshold
        BY <3>2, <3>4, <4>1, <4>2, LimitsAssumption
      <4> QED BY <1>1, <3>2, <4>1, <4>3 DEF BreakerCounts
    <3>5. CASE other /\ Failure(result) /\ (breaker.state = "half-open" \/ breaker.failures + 1 >= FailureThreshold)
      <4>1. breaker' = In("open")
        BY <3>2, <3>5 DEF Tallied
      <4>2. streak' = 0
        <5>1. breaker'.state # breaker.state
          BY <3>2, <4>1 DEF In
        <5>2. streak' = IF breaker'.state # breaker.state THEN 0 ELSE seen
          BY <3>5
        <5> QED BY <5>1, <5>2
      <4> QED BY <1>1, <4>1, <4>2, LimitsAssumption DEF In, Breaker, BreakerCounts
    <3>6. CASE other /\ Failure(result) /\ ~(breaker.state = "half-open" \/ breaker.failures + 1 >= FailureThreshold)
      <4>1. breaker' = [state |-> "closed", failures |-> breaker.failures + 1,
                        counted |-> breaker.counted \ {c}]
        BY <3>2, <3>6 DEF Tallied, Breaker
      <4>2. streak' \in {streak, streak + 1} /\ streak' \in 0 .. FailureThreshold
        <5>0. breaker.state # "half-open"
          BY <3>6
        <5>1. breaker'.state = breaker.state
          BY <3>2, <4>1, <5>0
        <5>2. streak' = IF breaker'.state # breaker.state THEN 0 ELSE seen
          BY <3>6
        <5> QED BY <3>2, <5>1, <5>2, LimitsAssumption
      <4>3. breaker.failures + 1 \in 0 .. FailureThreshold - 1 /\ breaker.counted \in SUBSET Calls
        BY <3>2, <3>6, LimitsAssumption DEF Breaker
      <4> QED BY <1>1, <3>2, <4>1, <4>2, <4>3 DEF Breaker, BreakerCounts
    <3> QED BY <3>1, <3>3, <3>4, <3>5, <3>6
  <2> QED BY <2>1, <2>2
<1>3. TypeOK'
  <2>1. [calls[c] EXCEPT !.stage = "done", !.request = NoRequest] \in Call
    BY DEF CallsInv, TypeOK, Call, NoRequest, Requests
  <2> QED BY <1>1, <1>2, <2>1 DEF CallsInv, TypeOK
<1>4. BodiesAreReturned'
  BY <1>1 DEF CallsInv, TypeOK, BodiesAreReturned
<1>5. CallStages'
  BY <1>1 DEF CallsInv, TypeOK, CallStages
<1> QED BY <1>2, <1>3, <1>4, <1>5 DEF CallsInv

\* Every step keeps the invariant.
LEMMA CallsStep == CallsInv /\ [Next]_vars => CallsInv'
<1> SUFFICES ASSUME CallsInv, [Next]_vars PROVE CallsInv'
  OBVIOUS
<1>1. CASE OpenTimeout
  BY <1>1, OpenTimeoutKeeps
<1>2. ASSUME NEW c \in Calls, NEW request \in Requests, Begin(c, request) PROVE CallsInv'
  BY <1>2, BeginKeeps
<1>3. ASSUME NEW c \in Calls,
             Rejected(c) \/ BadPath(c) \/ Send(c) \/ Retry(c) \/ ContextDone(c) \/ Return(c)
      PROVE  CallsInv'
  BY <1>3, RejectedKeeps, BadPathKeeps, SendKeeps, RetryKeeps, ContextDoneKeeps, ReturnKeeps
<1>4. CASE UNCHANGED vars
  BY <1>4 DEF vars, CallsInv, TypeOK, BodiesAreReturned, CallStages, BreakerCounts
<1> QED BY <1>1, <1>2, <1>3, <1>4 DEF Next

\* The inductive invariant holds.
THEOREM CallsInvariant == Spec => []CallsInv
BY CallsInit, CallsStep, PTL DEF Spec

\* The client's state keeps its type: an attempt is never beyond max_attempts and
\* the breaker trips before its count reaches the threshold.
THEOREM CallsTyped == Spec => []TypeOK
<1>1. CallsInv => TypeOK
  BY DEF CallsInv
<1> QED BY <1>1, CallsInvariant, PTL

\* For any retry policy and any number of concurrent calls, a request that may not
\* be repeated and has no idempotency key is sent at most once (retryableMethod,
\* retryGRPCMethod, maxAttempts).
THEOREM UnsafeRequestsSentOnce == Spec => []UnsafeSentOnce
<1>1. CallsInv => UnsafeSentOnce
  BY AttemptsBounded DEF CallsInv, TypeOK, CallStages, UnsafeSentOnce, Call, Breaker
<1> QED BY <1>1, CallsInvariant, PTL

\* Exactly the bodies that callers were given, or are about to be given, are open,
\* whatever the retries and the breaker did (doWithRetry, execute).
THEOREM NoBodyLeaks == Spec => []BodiesAreReturned
<1>1. CallsInv => BodiesAreReturned
  BY DEF CallsInv
<1> QED BY <1>1, CallsInvariant, PTL

\* A closed breaker of an HTTP client has not let a threshold of consecutive
\* failures pass, for any threshold (ReadyToTrip, IsExcluded, execute).
THEOREM FailuresTripTheBreaker == Spec => []FailuresTrip
<1>1. CallsInv => FailuresTrip
  BY LimitsAssumption DEF CallsInv, TypeOK, BreakerCounts, FailuresTrip, Call, Breaker
<1> QED BY <1>1, CallsInvariant, PTL
=============================================================================
