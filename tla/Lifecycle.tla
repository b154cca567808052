----------------------------- MODULE Lifecycle -----------------------------
(***************************************************************************)
(* One process from its settings to its exit: the construction of          *)
(* ServiceConfig, then the hooks that the components append to the fx      *)
(* lifecycle (internal/app and the packages it wires), and the work that   *)
(* servers, dispatcher and scheduler do meanwhile.                         *)
(*                                                                         *)
(* fx is external: it constructs what the invocations need, in order; runs *)
(* the start hooks in the order of construction, and the stop hooks of     *)
(* what was started in reverse, on a signal or when a start hook fails; it *)
(* runs no further stop hook once the context of the stop is done.         *)
(***************************************************************************)
EXTENDS ServiceConfig, Integers, Sequences

CONSTANT MaxWork      \* bound: requests, calls or runs of a kind at a time

ASSUME MaxWorkAssumption == MaxWork \in Nat

VARIABLES
    started,      \* how many of Components have been started
    closed,       \* components that have been stopped
    work,         \* work in progress, by the component that accepts it
    draining,     \* whether the hook of the last started component is waiting
    expired       \* whether the context of the stop is done

lifeVars == <<started, closed, work, draining, expired>>

vars == <<configVars, lifeVars>>

-----------------------------------------------------------------------------
(* Components *)

\* The order in which the invocations of New construct the components.  Startup
\* migration is an invocation and not a component: it has no hooks.
Components ==
    <<"logger", "migration", "database", "tracing", "redis", "events", "registry",
      "scheduler", "verifier", "grpc", "http">>

\* Components that take on work once they are started.
Workers == {"events", "scheduler", "grpc", "http"}

\* What the work of a component uses: the dispatcher reads the outbox, a job
\* takes a Redis lock, a request may use anything.
Uses ==
    [w \in Workers |->
        CASE w = "events"    -> {"logger", "database"}
          [] w = "scheduler" -> {"logger", "redis"}
          [] OTHER -> {"logger", "database", "tracing", "redis", "registry", "verifier"}]

\* The workers whose start hooks start nothing.
Disabled ==
    {w \in Workers :
        CASE w = "events"    -> ~process.cfg.event_bus_enabled
          [] w = "scheduler" -> ~process.cfg.cron_enabled
          [] w = "grpc"      -> ~process.cfg.grpc_enabled
          [] OTHER -> FALSE}

Fresh ==
    /\ started' = 0 /\ closed' = {} /\ work' = [w \in Workers |-> 0]
    /\ draining' = FALSE /\ expired' = FALSE

Init ==
    /\ ConfigInit
    /\ started = 0 /\ closed = {} /\ work = [w \in Workers |-> 0]
    /\ draining = FALSE /\ expired = FALSE

Stage(stage) == Become([process EXCEPT !.stage = stage])

-----------------------------------------------------------------------------
(* Start *)

BeginStart ==
    /\ process.stage = "built"
    /\ Stage("starting")
    /\ UNCHANGED lifeVars

\* configEventRuntime.start asks for the outbox of the database.
StartPossible(c) ==
    c = "events" /\ c \notin Disabled => "database" \in process.stores

StartHook ==
    /\ process.stage = "starting"
    /\ started < Len(Components)
    /\ StartPossible(Components[started + 1])
    /\ started' = started + 1
    /\ UNCHANGED <<configVars, closed, work, draining, expired>>

\* A listener cannot be opened, the bus is not reached or there is no outbox:
\* what was started is stopped.
StartFails ==
    /\ process.stage = "starting"
    /\ started < Len(Components)
    /\ Components[started + 1] \in {"events", "grpc", "http"} \ Disabled
    /\ Stage("stopping")
    /\ UNCHANGED lifeVars

Started ==
    /\ process.stage = "starting"
    /\ started = Len(Components)
    /\ Stage("running")
    /\ UNCHANGED lifeVars

-----------------------------------------------------------------------------
(* Work *)

Index(c) == CHOOSE i \in 1 .. Len(Components) : Components[i] = c

\* A component takes on work from its start to the beginning of its stop.
Accepts(w) ==
    /\ w \notin Disabled
    /\ started >= Index(w)
    /\ w \notin closed
    /\ ~(draining /\ Components[started] = w)

Arrive(w) ==
    /\ process.stage \in {"starting", "running", "stopping"}
    /\ Accepts(w)
    /\ work[w] < MaxWork
    /\ work' = [work EXCEPT ![w] = @ + 1]
    /\ UNCHANGED <<configVars, started, closed, draining, expired>>

Complete(w) ==
    /\ process.stage \in {"starting", "running", "stopping"}
    /\ work[w] > 0
    /\ work' = [work EXCEPT ![w] = @ - 1]
    /\ UNCHANGED <<configVars, started, closed, draining, expired>>

-----------------------------------------------------------------------------
(* Stop *)

\* SIGINT or SIGTERM.
Signal ==
    /\ process.stage = "running"
    /\ Stage("stopping")
    /\ UNCHANGED lifeVars

FaultyLast == Components[1 + Len(Components) - started]

\* The component whose stop hook is next.
Last == Components[started]

\* A closer is closed: logger, pool, clients, registry, verifier.
CloseHook ==
    /\ process.stage = "stopping" /\ ~expired
    /\ started > 0
    /\ Last \notin Workers
    /\ closed' = closed \cup {Last}
    /\ started' = started - 1
    /\ UNCHANGED <<configVars, work, draining, expired>>

\* Shutdown, GracefulStop, runner.Stop, or the cancellation of the dispatcher:
\* no more work is taken on.
BeginDrain ==
    /\ process.stage = "stopping" /\ ~expired
    /\ started > 0
    /\ Last \in Workers
    /\ ~draining
    /\ draining' = TRUE
    /\ UNCHANGED <<configVars, started, closed, work, expired>>

\* What Shutdown, GracefulStop, the context of runner.Stop and wg.Wait wait for.
Drained(w) == work[w] = 0

DrainHook ==
    /\ process.stage = "stopping" /\ ~expired
    /\ draining
    /\ Drained(Last)
    /\ closed' = closed \cup {Last}
    /\ started' = started - 1
    /\ draining' = FALSE
    /\ UNCHANGED <<configVars, work, expired>>

FaultyExpire ==
    /\ process.stage = "stopping"
    /\ ~expired
    /\ ~draining
    /\ expired' = TRUE
    /\ UNCHANGED <<configVars, started, closed, work, draining>>

\* app.shutdown_timeout is over, also while a hook waits.
Expire ==
    /\ process.stage = "stopping"
    /\ ~expired
    /\ expired' = TRUE
    /\ UNCHANGED <<configVars, started, closed, work, draining>>

\* The stop is complete, or its context is done.
MayExit == started = 0 \/ expired

Exit ==
    /\ process.stage = "stopping"
    /\ MayExit
    /\ Stage("exited")
    /\ UNCHANGED lifeVars

\* A process that has ended is started again.
Restart ==
    /\ process.stage \in {"exited", "failed"}
    /\ Become(Down)
    /\ Fresh

-----------------------------------------------------------------------------
Next ==
    \/ SetBase /\ UNCHANGED lifeVars
    \/ SetProfile /\ UNCHANGED lifeVars
    \/ SetEnvironment /\ UNCHANGED lifeVars
    \/ SetFlag /\ UNCHANGED lifeVars
    \/ Load /\ UNCHANGED lifeVars
    \/ OpenStores /\ UNCHANGED lifeVars
    \/ NewClient /\ UNCHANGED lifeVars
    \/ NewServers /\ UNCHANGED lifeVars
    \/ BeginStart \/ StartHook \/ StartFails \/ Started
    \/ Signal \/ CloseHook \/ BeginDrain \/ DrainHook \/ Expire \/ Exit \/ Restart
    \/ \E w \in Workers : Arrive(w) \/ Complete(w)

Spec == Init /\ [][Next]_vars

\* The timer of the stop runs, and fx returns from a stop that is complete.
FairSpec == Spec /\ WF_vars(Expire) /\ WF_vars(Exit)

-----------------------------------------------------------------------------
(* Properties *)

\* Whichever layers the settings come from, a process that starts to serve under
\* the profile production has what Validate asks of production: the settings
\* that are checked are those of the profile that was selected, and they are
\* the ones the servers are built from (LoadWithProfile, Validate).
ProductionIsGuarded ==
    process.stage \in {"starting", "running"} /\ process.profile = "production" =>
        /\ process.cfg.grpc_enabled => process.cfg.grpc_tls
        /\ ~process.cfg.grpc_reflection
        /\ process.cfg.swagger_enabled => process.cfg.swagger_auth
        /\ process.cfg.authorization_enabled /\ process.cfg.auth_jwks # ""

\* What is switched on has what it works with whenever a request can come:
\* newRedis and authorization.New hand out nil instead of failing, so a limiter,
\* an idempotency manager or an authorizer without a client would be found out
\* only by requests, and the dispatcher without an outbox only by its start hook.
\* Validate and that hook keep it from happening, for every mix of layers.
EnabledIsBacked ==
    \A w \in Workers : work[w] > 0 =>
        /\ process.cfg.rate_limit_enabled \/ process.cfg.idempotency_enabled
               => "redis" \in process.stores
        /\ process.cfg.authorization_enabled => "outbound_authorization" \in process.clients
        /\ process.cfg.database_enabled => "outbound_application" \in process.clients
        /\ process.cfg.event_bus_enabled => "database" \in process.stores

\* Nothing in progress meets a component that has been closed under it: a stop
\* hook waits for its own work, the order of hooks puts users before what they
\* use, and a hook that ran out of time is the last one (New and the stop hooks).
InUseIsOpen ==
    \A w \in Workers :
        process.stage # "exited" /\ work[w] > 0 => Uses[w] \cap closed = {}

\* A process that was told to stop exits, though requests may never end: the
\* stop has a timeout (fx.StopTimeout in New).
StopEnds == (process.stage = "stopping") ~> (process.stage = "exited")

-----------------------------------------------------------------------------
(* The inductive invariant behind the safety properties *)

\* What construction has established by each stage: what was checked is what the
\* process runs with, and it has the stores and the clients its settings ask for.
BuiltAsChecked ==
    /\ process.stage \notin {"down", "failed"} =>
         Validate(process.cfg) /\ process.cfg.app_env = process.profile
    /\ process.stage \notin {"down", "failed", "stores"} =>
         /\ process.cfg.database_enabled => "database" \in process.stores
         /\ process.cfg.redis_enabled => "redis" \in process.stores
    /\ process.stage \notin {"down", "failed", "stores", "clients"} =>
         Pending(process) = {}

\* What is closed comes after everything that is started, work is only in what is
\* started, and a hook that waits is that of a worker.
StoppedInOrder ==
    /\ started \in 0 .. Len(Components)
    /\ work \in [Workers -> Nat]
    /\ \A c \in closed : \E i \in 1 .. Len(Components) : i > started /\ c = Components[i]
    /\ \A w \in Workers : work[w] > 0 => started >= Index(w)
    /\ draining => started > 0 /\ Last \in Workers
    /\ process.stage \notin {"stopping", "exited"} => closed = {} /\ ~draining
    /\ process.stage \in {"down", "stores", "clients", "built", "failed"} => started = 0
    /\ started >= Index("events") /\ process.cfg.event_bus_enabled =>
         "database" \in process.stores

LifecycleInv ==
    /\ process = [stage |-> process.stage, cfg |-> process.cfg, profile |-> process.profile,
                  stores |-> process.stores, clients |-> process.clients]
    /\ BuiltAsChecked
    /\ StoppedInOrder
=============================================================================
