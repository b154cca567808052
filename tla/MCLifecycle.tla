---------------------------- MODULE MCLifecycle ----------------------------
\* Instances of Lifecycle: a production deployment and an edit of its settings.
EXTENDS Lifecycle, TLC

Upstream(target, auth, tls, cert, key) ==
    [target |-> target, timeout |-> 1, auth |-> auth, token |-> auth, tls |-> tls,
     cert |-> cert, key |-> key, retry |-> TRUE, breaker |-> TRUE]

Plain == Upstream("absolute", "", FALSE, "", "")
Secure == Upstream("absolute", "bearer", TRUE, "file", "file")

MCBaseFile ==
    [outbound_application |-> {Plain}, idempotency_patterns |-> {"api", "method"}]

MCProduction ==
    [app_env |-> "production", swagger_auth |-> TRUE, grpc_reflection |-> FALSE,
     grpc_tls |-> TRUE, database_enabled |-> TRUE, redis_enabled |-> TRUE,
     migration_auto_up |-> TRUE, rate_limit_enabled |-> TRUE,
     idempotency_enabled |-> TRUE, authorization_enabled |-> TRUE,
     outbound_application |-> {Secure}, outbound_authorization |-> {Secure}]

MCProfileFiles == [production |-> MCProduction, test |-> <<>>]

\* What the platform injects, in an image made for production or for tests.
MCEnvironments ==
    {[grpc_tls_files |-> "given", database_dsn |-> "given", migration_url |-> "given",
      auth_jwks |-> "given", app_env |-> profile] : profile \in {"production", "test"}}

\* The keys whose checks depend on other keys or on what is built.
MCValues ==
    [app_env |-> {"production", "test", "../production"},
     grpc_reflection |-> {TRUE}, grpc_tls |-> {FALSE}, swagger_auth |-> {FALSE},
     grpc_tls_files |-> {""},
     database_enabled |-> BOOLEAN, database_type |-> {"kingbase", "sqlite"},
     migration_auto_up |-> {FALSE}, redis_enabled |-> {FALSE},
     rate_limit_enabled |-> BOOLEAN, idempotency_enabled |-> BOOLEAN,
     authorization_enabled |-> {FALSE}, event_bus_enabled |-> {TRUE}, cron_enabled |-> {FALSE},
     outbound_authorization |-> {{}, {Plain}},
     outbound_application |-> {{}, {Upstream("absolute", "psk", FALSE, "", "")},
                               {Upstream("absolute", "", TRUE, "file", "")}},
     outbound_http |-> {{Secure}, {Upstream("relative", "", FALSE, "", "")},
                        {Upstream("absolute", "", FALSE, "file", "")}}]

\* These and the keys that are checked on their own.
MCAllValues ==
    MCValues @@
    [http_address |-> {""}, timeouts |-> {"zero"}, cors_enabled |-> {TRUE},
     cors_origins |-> {{"origin"}}, grpc_enabled |-> {FALSE}, grpc_address |-> {""},
     database_name |-> {"other"}, redis_address |-> {""}, rate_limit_rules |-> {"zero"},
     tracing_enabled |-> {TRUE}, tracing_endpoint |-> {""}, pprof_enabled |-> {TRUE},
     pprof_token |-> {32}, jwt_secret |-> {31, 32}, auth_client |-> {"given"},
     auth_skip |-> {{"other"}}, psk_enabled |-> {TRUE}, psk_key |-> {31, 32},
     psk_patterns |-> {{"api"}, {"other"}}, idempotency_patterns |-> {{}},
     idempotency_ttl |-> {"zero"},
     event_bus_settings |-> {"zero"}, event_bus_max_age |-> {2},
     event_bus_retention |-> {2}]

=============================================================================
