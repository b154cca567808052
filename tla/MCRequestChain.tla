--------------------------- MODULE MCRequestChain ---------------------------
(* Instances of RequestChain for TLC. *)
EXTENDS RequestChain, TLC

Symmetric == Permutations(Slots)

Credential(scheme, id, valid) == [scheme |-> scheme, id |-> id, valid |-> valid]

NoCredential == Credential("none", Nobody, FALSE)
Bearers == {Credential("bearer", u, v) : u \in {"ann"}, v \in BOOLEAN}
PreShared == {Credential("psk", Nobody, v) : v \in BOOLEAN}

Ask(transport, route, credential) ==
    [transport |-> transport, route |-> route, credential |-> credential,
     key |-> "none", origin |-> "none", preflight |-> FALSE, body |-> "json",
     ip |-> "ip1"]

\* Every way to present oneself, to one protected method and one that is not, with
\* an idempotency key.
PolicyInputs ==
    {[Ask(t[1], t[2], c) EXCEPT !.key = "valid"] :
        t \in {<<"http", "entries/approve">>, <<"http", "entries/reject">>,
               <<"grpc", "Approve">>, <<"http", "version">>},
        c \in {NoCredential} \cup Bearers \cup PreShared}

Approval == {"entries/approve", "Approve"}

Setting(psk, skip) ==
    [psk |-> psk, skip |-> skip, pskEnabled |-> psk # {}, authorization |-> TRUE,
     limiter |-> FALSE, failOpen |-> FALSE, cors |-> TRUE, swaggerAuth |-> TRUE,
     idempotent |-> Approval]

PolicySettings ==
    {Setting({}, {}), Setting(Approval, {}), Setting(Approval, Approval \cup {"version"}),
     [Setting({}, Approval) EXCEPT !.authorization = FALSE],
     [Setting(Approval, Approval) EXCEPT !.authorization = FALSE],
     [Setting(Approval, Approval) EXCEPT !.pskEnabled = FALSE]}

\* Callers from two addresses, one with an invalid token, to two routes.
LimitInputs ==
    {Ask("http", "version", c) : c \in Bearers}
    \cup {[Ask("http", "version", Credential("bearer", "ann", TRUE)) EXCEPT !.ip = "ip2"],
          [Ask("http", "me", Credential("bearer", "bob", TRUE)) EXCEPT !.key = "valid"]}

LimitSettings ==
    {[Setting({}, {}) EXCEPT !.limiter = TRUE],
     [Setting({}, {}) EXCEPT !.limiter = TRUE, !.failOpen = TRUE],
     [Setting({}, {"version"}) EXCEPT !.limiter = TRUE, !.idempotent = {"me"}]}

\* Every route, method and early refusal.
RouteInputs ==
    LET user == Credential("bearer", "ann", TRUE)
        base == Ask("http", "entries/submit", user)
    IN  {Ask("http", r, user) : r \in ConfigRoutes}
        \cup {Ask("http", r, NoCredential) : r \in OpenRoutes}
        \cup {Ask("grpc", m, user) :
                m \in {"Get", "PutDraft", "SubmitForApproval", "Approve", "Reject",
                       "Publish", "Rollback", "Resolve", "List"}}
        \cup {Ask("http", r, c) : r \in {"swagger", "pprof"},
                c \in {user, Credential("pprof", Nobody, TRUE)}}
        \cup {[base EXCEPT !.key = "bad"], [base EXCEPT !.origin = "foreign"],
              [base EXCEPT !.origin = "allowed"],
              [base EXCEPT !.origin = "allowed", !.preflight = TRUE],
              [base EXCEPT !.body = "not_json"], [base EXCEPT !.body = "unreadable"],
              [base EXCEPT !.body = "unreadable", !.key = "valid"],
              [Ask("grpc", "PutDraft", user) EXCEPT !.body = "unreadable", !.key = "valid"]}

AllAnswers ==
    {"ok", "invalid", "forbidden", "not_found", "conflict", "stale",
     "unavailable", "internal"}

RouteSettings ==
    {[Setting({}, {}) EXCEPT !.swaggerAuth = FALSE,
                             !.idempotent = DOMAIN WriteHandlers \cup {"PutDraft"}],
     [Setting({}, {}) EXCEPT !.cors = FALSE]}

AllSettings == PolicySettings \cup LimitSettings \cup RouteSettings

\* Each configuration with the requests that tell it apart.
InputsBySettings ==
    [s \in AllSettings |-> IF s \in PolicySettings THEN PolicyInputs
                           ELSE IF s \in LimitSettings THEN LimitInputs
                           ELSE RouteInputs]
=============================================================================
