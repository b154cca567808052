--------------------------- MODULE ServiceConfig ---------------------------
\* How a process gets its settings (internal/config/config.go) and what the
\* constructors of internal/app then make of them. Settings come in layers:
\* defaults, the base file, the file of the active profile, the environment.
\* A layer is a record with some of the keys. Operators edit the layers; a
\* process reads them once, when it starts. What a process does once it is
\* built is the subject of Lifecycle, which extends this module.
EXTENDS Naturals, FiniteSets

CONSTANTS
    Values,          \* the values an operator may give to each key
    Flags,           \* values of the -env flag; "" is no flag
    BaseFile,        \* config.yaml at first
    ProfileFiles,    \* config-{profile}.yaml at first, by profile
    Environments,    \* APP_ variables a process may find at first
    MaxEdits         \* bound on the edits of an operator

ASSUME MaxEditsAssumption == MaxEdits \in Nat
ASSUME FlagsAssumption == "" \in Flags

VARIABLES
    base, profiles, environ,    \* the layers
    flag,                       \* the -env flag of the next process
    edits,                      \* edits made
    process                     \* the process of this instance

configVars == <<base, profiles, environ, flag, edits, process>>

Keys == DOMAIN Values

\* What every setting is when no layer has it. Texts are kept as given or
\* empty, durations and limits as positive or not, lists of patterns as the
\* kinds of patterns in them, an upstream as a set of at most one.
setDefaults ==
    [app_env |-> "development", http_address |-> "given", timeouts |-> "positive",
     cors_enabled |-> FALSE, cors_origins |-> {},
     grpc_enabled |-> TRUE, cron_enabled |-> TRUE, grpc_address |-> "given", grpc_reflection |-> TRUE,
     grpc_tls |-> FALSE, grpc_tls_files |-> "",
     database_enabled |-> FALSE, database_name |-> "identifier",
     database_type |-> "postgres", database_dsn |-> "",
     migration_auto_up |-> FALSE, migration_url |-> "",
     redis_enabled |-> FALSE, redis_address |-> "given",
     rate_limit_enabled |-> FALSE, rate_limit_rules |-> "positive",
     tracing_enabled |-> FALSE, tracing_endpoint |-> "given",
     pprof_enabled |-> FALSE, pprof_token |-> 0,
     swagger_enabled |-> TRUE, swagger_auth |-> FALSE,
     jwt_secret |-> 0, auth_client |-> "", auth_jwks |-> "",
     auth_skip |-> {"api", "method"},
     psk_enabled |-> FALSE, psk_key |-> 0, psk_patterns |-> {},
     authorization_enabled |-> FALSE,
     idempotency_enabled |-> FALSE, idempotency_patterns |-> {},
     idempotency_ttl |-> "positive",
     event_bus_enabled |-> FALSE, event_bus_settings |-> "positive",
     event_bus_max_age |-> 1, event_bus_retention |-> 1,
     outbound_http |-> {}, outbound_application |-> {},
     outbound_authorization |-> {}]

\* The settings that name an upstream.
Upstreams == {"outbound_http", "outbound_application", "outbound_authorization"}

-----------------------------------------------------------------------------
\* Loading.

\* A layer over another: its keys, and those only the other has.  viper merges maps
\* field by field; here each setting is one key, and an upstream, of which a layer may
\* set single fields, is taken as a whole.
Over(upper, lower) ==
    [k \in DOMAIN upper \cup DOMAIN lower |-> IF k \in DOMAIN upper THEN upper[k] ELSE lower[k]]

\* A layer with the key set.
With(layer, k, v) == Over([x \in {k} |-> v], layer)

\* strings.ToLower and TrimSpace have been applied; the pattern of a profile
\* name leaves out anything that is not a plain word.
validProfile(profile) == profile \notin {"", "../production"}

\* What is known of app.env before a profile file is read.
ActiveProfile ==
    IF flag # "" THEN flag ELSE Over(environ, Over(base, setDefaults)).app_env

FaultyLayered(profile) ==
    LET file == IF profile \in DOMAIN profiles THEN profiles[profile] ELSE <<>>
    IN Over(environ, Over(file, Over(base, setDefaults)))

\* The value of every setting: the environment over the profile file over
\* the base file over the defaults, with app.env set to the profile.
Layered(profile) ==
    LET file == IF profile \in DOMAIN profiles THEN profiles[profile] ELSE <<>>
    IN Over([app_env |-> profile], Over(environ, Over(file, Over(base, setDefaults))))

\* The checks on the servers.
ValidServers(c) ==
    /\ c.http_address # "" /\ c.timeouts = "positive"
    /\ c.grpc_enabled => c.grpc_address # ""
    /\ c.grpc_tls => c.grpc_tls_files # ""
    /\ c.cors_enabled => c.cors_origins # {}
    /\ c.tracing_enabled => c.tracing_endpoint # ""
    /\ c.pprof_enabled => c.pprof_token >= 32

\* The checks made for production only.
ValidProduction(c) ==
    c.app_env = "production" =>
        /\ c.grpc_enabled => c.grpc_tls
        /\ ~c.grpc_reflection
        /\ c.swagger_enabled => c.swagger_auth
        /\ c.auth_jwks # ""
        /\ c.authorization_enabled

isDBType(type) == type \in {"mysql", "postgres", "kingbase"}

\* The checks on database, migration and Redis, and on what needs them.
ValidStores(c) ==
    /\ c.database_name = "identifier"
    /\ c.database_enabled => c.database_dsn # "" /\ isDBType(c.database_type)
    /\ c.database_enabled => c.outbound_application # {}
    /\ c.migration_auto_up => c.database_enabled /\ c.migration_url # ""
    /\ c.redis_enabled => c.redis_address # ""
    /\ c.rate_limit_enabled => c.redis_enabled /\ c.rate_limit_rules = "positive"

\* The checks on authentication and authorization. Patterns are below /api/
\* for HTTP and of the form /service/method for gRPC.
ValidAccess(c) ==
    /\ c.authorization_enabled => c.outbound_authorization # {}
    /\ c.auth_client # "" => c.jwt_secret >= 32
    /\ c.auth_skip \cup c.psk_patterns \subseteq {"api", "method"}
    /\ c.psk_enabled => c.psk_key >= 32 /\ c.psk_patterns # {}

FaultyValidIdempotency(c) ==
    /\ c.idempotency_patterns \subseteq {"api", "method"}
    /\ c.idempotency_enabled => c.idempotency_patterns # {} /\ c.idempotency_ttl = "positive"

\* The checks on idempotent execution.
ValidIdempotency(c) ==
    /\ c.idempotency_patterns \subseteq {"api", "method"}
    /\ c.idempotency_enabled =>
           c.redis_enabled /\ c.idempotency_patterns # {} /\ c.idempotency_ttl = "positive"

\* The checks on the event bus. Nothing here asks for a database.
ValidEventBus(c) ==
    c.event_bus_enabled => /\ c.event_bus_settings = "positive"
                           /\ c.event_bus_retention >= c.event_bus_max_age

\* The checks on one upstream.
validateClientPolicy(u) ==
    /\ u.auth \in {"", "bearer", "psk"}
    /\ u.auth # "" => u.token # "" /\ u.tls
    /\ u.retry /\ u.breaker
    /\ u.tls => (u.cert = "" <=> u.key = "")

ValidUpstream(u) == u.target # "" /\ u.timeout > 0 /\ validateClientPolicy(u)

Validate(c) ==
    /\ ValidServers(c) /\ ValidProduction(c) /\ ValidStores(c)
    /\ ValidAccess(c) /\ ValidIdempotency(c) /\ ValidEventBus(c)
    /\ \A n \in Upstreams : \A u \in c[n] : ValidUpstream(u)

-----------------------------------------------------------------------------
\* The process.

\* The state of a process that has not read anything.
Down == [stage |-> "down", cfg |-> setDefaults, profile |-> "", stores |-> {},
         clients |-> {}]

ConfigInit ==
    /\ base = BaseFile
    /\ profiles = ProfileFiles
    /\ environ \in Environments
    /\ flag \in Flags
    /\ edits = 0
    /\ process = Down

\* Nothing is read again by a process that has loaded: an edit during its
\* life is one before the next process loads.
Edit(layers) ==
    process.stage = "down" /\ edits < MaxEdits /\ edits' = edits + 1 /\ layers

\* An operator gives a key a value in the base file, a profile file or the
\* environment, or passes another profile to the next process.
SetBase ==
    \E k \in Keys : \E v \in Values[k] :
        /\ Edit(base' = With(base, k, v) /\ base' # base)
        /\ UNCHANGED <<profiles, environ, flag, process>>

SetProfile ==
    \E p \in DOMAIN profiles, k \in Keys : \E v \in Values[k] :
        /\ Edit(profiles' = [profiles EXCEPT ![p] = With(@, k, v)] /\ profiles' # profiles)
        /\ UNCHANGED <<base, environ, flag, process>>

SetEnvironment ==
    \E k \in Keys : \E v \in Values[k] :
        /\ Edit(environ' = With(environ, k, v) /\ environ' # environ)
        /\ UNCHANGED <<base, profiles, flag, process>>

SetFlag ==
    \E f \in Flags \ {flag} :
        /\ Edit(flag' = f)
        /\ UNCHANGED <<base, profiles, environ, process>>

Become(p) == process' = p /\ UNCHANGED <<base, profiles, environ, flag, edits>>

\* The process ends before it serves: the environment, or its settings, do not
\* let a constructor succeed. Every constructor may fail.
Fails == Become([process EXCEPT !.stage = "failed", !.stores = {}, !.clients = {}])

\* LoadWithProfile: a bad profile name or a check that fails ends the process.
Load ==
    /\ process.stage = "down"
    /\ IF validProfile(ActiveProfile) /\ Validate(Layered(ActiveProfile))
       THEN Become([process EXCEPT !.stage = "stores", !.profile = ActiveProfile,
                                   !.cfg = Layered(ActiveProfile)])
       ELSE Fails

\* The database types that have a driver.
driverName(type) ==
    CASE type = "mysql" -> "mysql"
      [] type \in {"postgres", "kingbase"} -> "pgx"
      [] OTHER -> ""

\* What the migration, newDatabase and newRedis ask of the settings.
StoresAcceptable(c) ==
    /\ c.migration_auto_up => c.migration_url # ""
    /\ c.database_enabled => driverName(c.database_type) # ""

\* newDatabase and newRedis: nothing is made for a disabled store.
OpenStores ==
    /\ process.stage = "stores"
    /\ \/ /\ StoresAcceptable(process.cfg)
          /\ Become([process EXCEPT !.stage = "clients",
                 !.stores = {s \in {"database", "redis"} :
                                IF s = "database" THEN process.cfg.database_enabled
                                                  ELSE process.cfg.redis_enabled}])
       \/ Fails

\* The clients NewRegistry has still to make: those of HTTP come first, the
\* order among the others is that of a Go map.
Pending(p) ==
    LET left == {n \in Upstreams : p.cfg[n] # {}} \ p.clients
    IN IF "outbound_http" \in left THEN {"outbound_http"} ELSE left

\* NewHTTPClient on its settings. A client certificate is loaded whether TLS
\* is enabled or not.
HTTPAcceptable(u) ==
    /\ u.auth # "" => u.tls
    /\ u.target = "absolute"
    /\ u.cert # "" => u.key # ""

\* Dial on its settings.
GRPCAcceptable(u) ==
    /\ u.target # "" /\ u.timeout > 0
    /\ u.tls => (u.cert = "" <=> u.key = "")
    /\ u.auth \in {"bearer", "psk"} /\ u.token # "" => u.tls

Acceptable(n, u) == IF n = "outbound_http" THEN HTTPAcceptable(u) ELSE GRPCAcceptable(u)

\* NewRegistry makes one more client, or closes those it has made and fails.
NewClient ==
    /\ process.stage = "clients"
    /\ \E n \in Pending(process) : \E u \in process.cfg[n] :
           \/ Acceptable(n, u) /\ Become([process EXCEPT !.clients = @ \cup {n}])
           \/ Fails

\* newApplicationVerifier and the servers: with a database the verifier needs
\* the connection to the application service; the gRPC server its files.
ServersAcceptable(p) ==
    /\ p.cfg.database_enabled => "outbound_application" \in p.clients
    /\ p.cfg.grpc_tls => p.cfg.grpc_tls_files # ""

\* The last constructors.
NewServers ==
    /\ process.stage = "clients" /\ Pending(process) = {}
    /\ \/ ServersAcceptable(process) /\ Become([process EXCEPT !.stage = "built"])
       \/ Fails
=============================================================================
