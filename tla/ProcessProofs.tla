--------------------------- MODULE ProcessProofs ---------------------------
(***************************************************************************)
(* What a process does besides serving: its construction, start and stop   *)
(* (Lifecycle), its startup migration (Migration) and its scheduled job    *)
(* (ScheduledJob), for any settings and any number of processes.           *)
(***************************************************************************)
EXTENDS Migration, ScheduledJob, Lifecycle, TLAPS

-----------------------------------------------------------------------------
(* Lifecycle: the order of the components *)

LEMMA ComponentsList ==
    /\ Len(Components) = 11
    /\ Components[1] = "logger" /\ Components[2] = "migration" /\ Components[3] = "database"
    /\ Components[4] = "tracing" /\ Components[5] = "redis" /\ Components[6] = "events"
    /\ Components[7] = "registry" /\ Components[8] = "scheduler" /\ Components[9] = "verifier"
    /\ Components[10] = "grpc" /\ Components[11] = "http"
BY DEF Components

LEMMA ComponentsDiffer ==
    ASSUME NEW i \in 1 .. 11, NEW j \in 1 .. 11, Components[i] = Components[j]
    PROVE  i = j
BY ComponentsList

LEMMA IndexOf ==
    ASSUME NEW n \in 1 .. 11
    PROVE  Index(Components[n]) = n
<1>1. \E i \in 1 .. Len(Components) : Components[i] = Components[n]
  BY ComponentsList
<1>2. /\ Index(Components[n]) \in 1 .. Len(Components)
      /\ Components[Index(Components[n])] = Components[n]
  BY <1>1 DEF Index
<1>3. Index(Components[n]) \in 1 .. 11
  BY <1>2, ComponentsList
<1> QED BY <1>2, <1>3, ComponentsDiffer

LEMMA WorkerIndexes ==
    /\ Index("events") = 6 /\ Index("scheduler") = 8 /\ Index("grpc") = 10 /\ Index("http") = 11
    /\ \A w \in Workers : /\ Index(w) \in 6 .. 11
                          /\ Components[Index(w)] = w
<1>1. Index(Components[6]) = 6 /\ Index(Components[8]) = 8
  BY IndexOf
<1>2. Index(Components[10]) = 10 /\ Index(Components[11]) = 11
  BY IndexOf
<1>3. Index("events") = 6 /\ Index("scheduler") = 8 /\ Index("grpc") = 10 /\ Index("http") = 11
  BY <1>1, <1>2, ComponentsList
<1> QED BY <1>3, ComponentsList DEF Workers

\* What a worker uses is constructed before it.
LEMMA UsedBefore ==
    ASSUME NEW w \in Workers, NEW i \in 1 .. 11, Components[i] \in Uses[w]
    PROVE  i < Index(w)
<1>1. Uses["events"] = {"logger", "database"} /\ Uses["scheduler"] = {"logger", "redis"}
  BY DEF Uses, Workers
<1>2. \A v \in {"grpc", "http"} :
         Uses[v] = {"logger", "database", "tracing", "redis", "registry", "verifier"}
  BY DEF Uses, Workers
<1>3. CASE w = "events"
  BY <1>1, <1>3, WorkerIndexes, ComponentsList
<1>4. CASE w = "scheduler"
  BY <1>1, <1>4, WorkerIndexes, ComponentsList
<1>5. CASE w \in {"grpc", "http"}
  <2>1. i <= 9
    BY <1>2, <1>5, ComponentsList
  <2> QED BY <1>5, <2>1, WorkerIndexes
<1> QED BY <1>3, <1>4, <1>5 DEF Workers

-----------------------------------------------------------------------------
(* Lifecycle: the steps of construction *)

\* A process with five fields.
Process(st, c, pr, s, cl) ==
    [stage |-> st, cfg |-> c, profile |-> pr, stores |-> s, clients |-> cl]

LEMMA UpdateStage ==
    ASSUME NEW p, NEW a, NEW b, NEW c, NEW d, NEW e, p = Process(a, b, c, d, e), NEW st
    PROVE  [p EXCEPT !.stage = st] = Process(st, b, c, d, e)
BY DEF Process

LEMMA UpdateClients ==
    ASSUME NEW p, NEW a, NEW b, NEW c, NEW d, NEW e, p = Process(a, b, c, d, e), NEW cl
    PROVE  [p EXCEPT !.clients = cl] = Process(a, b, c, d, cl)
BY DEF Process

LEMMA ProcessFields ==
    ASSUME NEW a, NEW b, NEW c, NEW d, NEW e
    PROVE  /\ Process(a, b, c, d, e).stage = a /\ Process(a, b, c, d, e).cfg = b
           /\ Process(a, b, c, d, e).profile = c /\ Process(a, b, c, d, e).stores = d
           /\ Process(a, b, c, d, e).clients = e
BY DEF Process

LEMMA ProcessShape ==
    ASSUME LifecycleInv
    PROVE  process = Process(process.stage, process.cfg, process.profile, process.stores,
                             process.clients)
BY DEF LifecycleInv, Process

\* What each update makes of the process.
LEMMA Makes ==
    ASSUME LifecycleInv
    PROVE  /\ \A st : Stage(st) => process' =
                Process(st, process.cfg, process.profile, process.stores, process.clients)
           /\ Fails => process' = Process("failed", process.cfg, process.profile, {}, {})
<1>1. PICK a, b, c, d, e : process = Process(a, b, c, d, e)
  BY ProcessShape
<1>2. b = process.cfg /\ c = process.profile /\ d = process.stores /\ e = process.clients
  BY <1>1, ProcessFields
<1>3. ASSUME NEW st, Stage(st) PROVE process' = Process(st, b, c, d, e)
  <2>1. [process EXCEPT !.stage = st] = Process(st, b, c, d, e)
    BY <1>1, UpdateStage
  <2> QED BY <1>3, <2>1 DEF Stage, Become
<1>4. ASSUME Fails PROVE process' = Process("failed", b, c, {}, {})
  <2>1. [process EXCEPT !.stage = "failed", !.stores = {}, !.clients = {}]
           = Process("failed", b, c, {}, {})
    <3>1. [process EXCEPT !.stage = "failed"] = Process("failed", b, c, d, e)
      BY <1>1 DEF Process
    <3>2. [Process("failed", b, c, d, e) EXCEPT !.stores = {}] = Process("failed", b, c, {}, e)
      BY DEF Process
    <3>3. [Process("failed", b, c, {}, e) EXCEPT !.clients = {}] = Process("failed", b, c, {}, {})
      BY DEF Process
    <3> QED BY <3>1, <3>2, <3>3, Zenon
  <2> QED BY <1>4, <2>1 DEF Fails, Become
<1> QED BY <1>2, <1>3, <1>4

\* The settings of a profile name it.
LEMMA LayeredNamesProfile ==
    ASSUME NEW profile
    PROVE  Layered(profile).app_env = profile
BY DEF Layered, Over

\* Construction starts and stops nothing.
LEMMA ConstructionKeeps ==
    ASSUME StoppedInOrder, process.stage \in {"down", "stores", "clients"},
           process'.stage \in {"stores", "clients", "built", "failed"}, UNCHANGED lifeVars
    PROVE  StoppedInOrder'
<1>1. /\ started' = started /\ closed' = closed /\ work' = work /\ draining' = draining
      /\ started = 0 /\ closed = {} /\ ~draining
  BY DEF lifeVars, StoppedInOrder
<1>2. \A w \in Workers : ~(work[w] > 0)
  BY <1>1, WorkerIndexes DEF StoppedInOrder
<1>3. ~(started' >= Index("events"))
  BY <1>1, WorkerIndexes
<1> QED BY <1>1, <1>2, <1>3 DEF StoppedInOrder

\* What is made of the process in each step of construction.
LEMMA LoadKeeps ==
    ASSUME LifecycleInv, Load, UNCHANGED lifeVars
    PROVE  LifecycleInv'
<1> DEFINE prof == ActiveProfile
           good == Process("stores", Layered(prof), prof, process.stores, process.clients)
           bad == Process("failed", process.cfg, process.profile, {}, {})
<1>1. (process' = good /\ Validate(Layered(prof))) \/ process' = bad
  <2>1. [process EXCEPT !.stage = "stores", !.profile = prof, !.cfg = Layered(prof)] = good
    <3>1. PICK a, b, c, d, e : process = Process(a, b, c, d, e)
      BY ProcessShape
    <3>2. d = process.stores /\ e = process.clients
      BY <3>1, ProcessFields
    <3> HIDE DEF prof
    <3>3. [process EXCEPT !.stage = "stores", !.profile = prof, !.cfg = Layered(prof)]
             = Process("stores", Layered(prof), prof, d, e)
      <4> DEFINE g == Layered(prof)
      <4> HIDE DEF g
      <4>1. [process EXCEPT !.stage = "stores"] = Process("stores", b, c, d, e)
        BY <3>1 DEF Process
      <4>2. [Process("stores", b, c, d, e) EXCEPT !.profile = prof] = Process("stores", b, prof, d, e)
        BY DEF Process
      <4>3. [Process("stores", b, prof, d, e) EXCEPT !.cfg = g] = Process("stores", g, prof, d, e)
        BY DEF Process
      <4>4. [process EXCEPT !.stage = "stores", !.profile = prof, !.cfg = g]
               = Process("stores", g, prof, d, e)
        BY <4>1, <4>2, <4>3, Zenon
      <4> QED BY <4>4 DEF g
    <3> QED BY <3>2, <3>3
  <2>2. Fails => process' = bad
    BY Makes
  <2> HIDE DEF prof, good, bad
  <2> QED BY <2>1, <2>2 DEF Load, Become, prof
<1>2. process'.stage \in {"stores", "failed"}
  BY <1>1, ProcessFields
<1>3. StoppedInOrder'
  BY <1>2, ConstructionKeeps DEF LifecycleInv, Load
<1>4. CASE process' = good /\ Validate(Layered(prof))
  <2>1. process'.stage = "stores" /\ process'.cfg = Layered(prof) /\ process'.profile = prof
    BY <1>4, ProcessFields
  <2>2. Layered(prof).app_env = prof
    BY LayeredNamesProfile
  <2>3. BuiltAsChecked'
    BY <1>4, <2>1, <2>2 DEF BuiltAsChecked
  <2> QED BY <1>3, <1>4, <2>3, ProcessFields DEF LifecycleInv, Process
<1>5. CASE process' = bad
  <2>1. process'.stage = "failed"
    BY <1>5, ProcessFields
  <2>2. BuiltAsChecked'
    BY <2>1 DEF BuiltAsChecked
  <2> QED BY <1>3, <1>5, <2>2, ProcessFields DEF LifecycleInv, Process
<1> QED BY <1>1, <1>4, <1>5

\* A constructor that fails.
LEMMA FailKeeps ==
    ASSUME LifecycleInv, process.stage \in {"stores", "clients"}, Fails, UNCHANGED lifeVars
    PROVE  LifecycleInv'
<1>1. process' = Process("failed", process.cfg, process.profile, {}, {})
  BY Makes
<1>2. process'.stage = "failed"
  BY <1>1, ProcessFields
<1>3. StoppedInOrder'
  BY <1>2, ConstructionKeeps DEF LifecycleInv
<1>4. BuiltAsChecked'
  BY <1>2 DEF BuiltAsChecked
<1> QED BY <1>1, <1>3, <1>4, ProcessFields DEF LifecycleInv, Process

LEMMA OpenStoresKeeps ==
    ASSUME LifecycleInv, OpenStores, UNCHANGED lifeVars
    PROVE  LifecycleInv'
<1> DEFINE s == {x \in {"database", "redis"} :
                    IF x = "database" THEN process.cfg.database_enabled
                                      ELSE process.cfg.redis_enabled}
<1>1. CASE Fails
  BY <1>1, FailKeeps DEF OpenStores
<1>2. CASE Become([process EXCEPT !.stage = "clients", !.stores = s])
  <2>1. PICK a, b, c, d, e : process = Process(a, b, c, d, e)
    BY ProcessShape
  <2>2. b = process.cfg /\ c = process.profile /\ d = process.stores /\ e = process.clients
    BY <2>1, ProcessFields
  <2>3. /\ process.cfg.database_enabled => "database" \in s
        /\ process.cfg.redis_enabled => "redis" \in s
    OBVIOUS
  <2> HIDE DEF s
  <2>4. process' = Process("clients", b, c, s, e)
    <3>1. [process EXCEPT !.stage = "clients"] = Process("clients", b, c, d, e)
      BY <2>1 DEF Process
    <3>2. [Process("clients", b, c, d, e) EXCEPT !.stores = s] = Process("clients", b, c, s, e)
      BY DEF Process
    <3>3. [process EXCEPT !.stage = "clients", !.stores = s] = Process("clients", b, c, s, e)
      BY <3>1, <3>2, Zenon
    <3> QED BY <1>2, <3>3 DEF Become
  <2>5. /\ process'.stage = "clients" /\ process'.cfg = process.cfg
        /\ process'.profile = process.profile /\ process'.stores = s
    BY <2>2, <2>4, ProcessFields
  <2>6. process.stage = "stores"
    BY DEF OpenStores
  <2>7. StoppedInOrder'
    BY <2>5, <2>6, ConstructionKeeps DEF LifecycleInv
  <2>8. BuiltAsChecked'
    BY <2>3, <2>5, <2>6 DEF BuiltAsChecked, LifecycleInv
  <2> QED BY <2>4, <2>7, <2>8, ProcessFields DEF LifecycleInv, Process
<1> QED BY <1>1, <1>2 DEF OpenStores

LEMMA NewClientKeeps ==
    ASSUME LifecycleInv, NewClient, UNCHANGED lifeVars
    PROVE  LifecycleInv'
<1>1. CASE Fails
  BY <1>1, FailKeeps DEF NewClient
<1>2. ASSUME NEW n, Become([process EXCEPT !.clients = @ \cup {n}])
      PROVE  LifecycleInv'
  <2>1. PICK a, b, c, d, e : process = Process(a, b, c, d, e)
    BY ProcessShape
  <2>2. /\ a = process.stage /\ b = process.cfg /\ c = process.profile /\ d = process.stores
        /\ e = process.clients
    BY <2>1, ProcessFields
  <2> DEFINE cl == process.clients \cup {n}
  <2>3. process' = [process EXCEPT !.clients = cl]
    BY <1>2 DEF Become
  <2> HIDE DEF cl
  <2>4. process' = Process(a, b, c, d, cl)
    BY <2>1, <2>3, UpdateClients
  <2>5. /\ process'.stage = "clients" /\ process'.cfg = process.cfg
        /\ process'.profile = process.profile /\ process'.stores = process.stores
    BY <2>2, <2>4, ProcessFields DEF NewClient
  <2>6. process.stage = "clients"
    BY DEF NewClient
  <2>7. StoppedInOrder'
    BY <2>5, <2>6, ConstructionKeeps DEF LifecycleInv
  <2>8. BuiltAsChecked'
    BY <2>5, <2>6 DEF BuiltAsChecked, LifecycleInv
  <2> QED BY <2>4, <2>7, <2>8, ProcessFields DEF LifecycleInv, Process
<1> QED BY <1>1, <1>2 DEF NewClient

\* Steps that only change the stage of the process.
LEMMA SamePending ==
    ASSUME NEW p, NEW q, p.cfg = q.cfg, p.clients = q.clients
    PROVE  Pending(p) = Pending(q)
BY DEF Pending

LEMMA NewServersKeeps ==
    ASSUME LifecycleInv, NewServers, UNCHANGED lifeVars
    PROVE  LifecycleInv'
<1>1. CASE Fails
  BY <1>1, FailKeeps DEF NewServers
<1>2. CASE Become([process EXCEPT !.stage = "built"])
  <2>1. process' = Process("built", process.cfg, process.profile, process.stores, process.clients)
    BY <1>2, Makes DEF Stage
  <2>2. /\ process'.stage = "built" /\ process'.cfg = process.cfg
        /\ process'.profile = process.profile /\ process'.stores = process.stores
        /\ process'.clients = process.clients
    BY <2>1, ProcessFields
  <2>3. process.stage = "clients" /\ Pending(process) = {}
    BY DEF NewServers
  <2>4. Pending(process') = {}
    BY <2>2, <2>3, SamePending
  <2>5. StoppedInOrder'
    BY <2>2, <2>3, ConstructionKeeps DEF LifecycleInv
  <2>6. BuiltAsChecked'
    BY <2>2, <2>3, <2>4 DEF BuiltAsChecked, LifecycleInv
  <2> QED BY <2>1, <2>2, <2>5, <2>6 DEF LifecycleInv, Process
<1> QED BY <1>1, <1>2 DEF NewServers

LEMMA StageKeeps ==
    ASSUME LifecycleInv, NEW st \in {"starting", "running", "stopping", "exited"},
           process.stage \in {"built", "starting", "running", "stopping"},
           process.stage = "stopping" => st = "exited",
           Stage(st), UNCHANGED lifeVars
    PROVE  LifecycleInv'
<1>1. process' = Process(st, process.cfg, process.profile, process.stores, process.clients)
  BY Makes
<1>2. /\ process'.stage = st /\ process'.cfg = process.cfg
      /\ process'.profile = process.profile /\ process'.stores = process.stores
      /\ process'.clients = process.clients
  BY <1>1, ProcessFields
<1>3. Pending(process') = Pending(process)
  BY <1>2, SamePending
<1>4. BuiltAsChecked'
  BY <1>2, <1>3 DEF BuiltAsChecked, LifecycleInv
<1>5. started' = started /\ closed' = closed /\ work' = work /\ draining' = draining
  BY DEF lifeVars
<1>6. StoppedInOrder'
  BY <1>2, <1>5 DEF StoppedInOrder, LifecycleInv, Last
<1> QED BY <1>1, <1>2, <1>4, <1>6 DEF LifecycleInv, Process

-----------------------------------------------------------------------------
(* Lifecycle: hooks and work *)

\* Steps that leave the process as it is.
LEMMA SameProcess ==
    ASSUME LifecycleInv, process' = process, StoppedInOrder'
    PROVE  LifecycleInv'
BY DEF LifecycleInv, BuiltAsChecked

LEMMA SameConfig ==
    ASSUME UNCHANGED configVars
    PROVE  process' = process
BY DEF configVars

LEMMA SettingsKeep ==
    ASSUME LifecycleInv, SetBase \/ SetProfile \/ SetEnvironment \/ SetFlag, UNCHANGED lifeVars
    PROVE  LifecycleInv'
<1>1. process' = process
  BY DEF SetBase, SetProfile, SetEnvironment, SetFlag
<1>2. started' = started /\ closed' = closed /\ work' = work /\ draining' = draining
  BY DEF lifeVars
<1>3. StoppedInOrder'
  BY <1>1, <1>2 DEF LifecycleInv, StoppedInOrder, Last
<1> QED BY <1>1, <1>3, SameProcess

\* The dispatcher is started with an outbox or not at all.
LEMMA StartHookKeeps ==
    ASSUME LifecycleInv, StartHook
    PROVE  LifecycleInv'
<1>1. /\ process' = process /\ started' = started + 1 /\ closed' = closed /\ work' = work
      /\ draining' = draining /\ process.stage = "starting" /\ started < 11
  BY SameConfig, ComponentsList DEF StartHook
<1>2. /\ started \in 0 .. 11 /\ closed = {} /\ ~draining /\ work \in [Workers -> Nat]
      /\ \A w \in Workers : work[w] > 0 => started >= Index(w)
      /\ started >= 6 /\ process.cfg.event_bus_enabled => "database" \in process.stores
  BY <1>1, ComponentsList, WorkerIndexes DEF LifecycleInv, StoppedInOrder
<1>3. started + 1 \in 0 .. 11
  BY <1>1, <1>2
<1>4. \A w \in Workers : work[w] > 0 => started + 1 >= Index(w)
  BY <1>2, WorkerIndexes
<1>5. started + 1 >= 6 /\ process.cfg.event_bus_enabled => "database" \in process.stores
  <2>1. CASE started + 1 = 6
    <3>1. process.cfg.event_bus_enabled => "events" \notin Disabled
      BY DEF Disabled
    <3>2. StartPossible("events")
      BY <2>1, ComponentsList DEF StartHook
    <3> QED BY <3>1, <3>2 DEF StartPossible
  <2>2. CASE started + 1 # 6
    <3>1. started + 1 >= 6 => started >= 6
      BY <1>2, <2>2
    <3> QED BY <1>2, <3>1
  <2> QED BY <2>1, <2>2
<1>6. StoppedInOrder'
  BY <1>1, <1>2, <1>3, <1>4, <1>5, ComponentsList, WorkerIndexes DEF StoppedInOrder
<1> QED BY <1>1, <1>6, SameProcess

LEMMA ArriveKeeps ==
    ASSUME LifecycleInv, NEW w \in Workers, Arrive(w)
    PROVE  LifecycleInv'
<1>1. /\ process' = process /\ started' = started /\ closed' = closed /\ draining' = draining
      /\ work' = [work EXCEPT ![w] = @ + 1] /\ started >= Index(w)
  BY SameConfig DEF Arrive, Accepts
<1>2. work \in [Workers -> Nat]
  BY DEF LifecycleInv, StoppedInOrder
<1>3. work' \in [Workers -> Nat] /\ \A v \in Workers : v # w => work'[v] = work[v]
  BY <1>1, <1>2
<1>4. \A v \in Workers : work'[v] > 0 => started' >= Index(v)
  BY <1>1, <1>3 DEF LifecycleInv, StoppedInOrder
<1>5. StoppedInOrder'
  BY <1>1, <1>3, <1>4 DEF LifecycleInv, StoppedInOrder, Last
<1> QED BY <1>1, <1>5, SameProcess

LEMMA CompleteKeeps ==
    ASSUME LifecycleInv, NEW w \in Workers, Complete(w)
    PROVE  LifecycleInv'
<1>1. /\ process' = process /\ started' = started /\ closed' = closed /\ draining' = draining
      /\ work' = [work EXCEPT ![w] = @ - 1] /\ work[w] > 0
  BY SameConfig DEF Complete
<1>2. work \in [Workers -> Nat]
  BY DEF LifecycleInv, StoppedInOrder
<1>3. work' \in [Workers -> Nat] /\ \A v \in Workers : v # w => work'[v] = work[v]
  BY <1>1, <1>2
<1>4. \A v \in Workers : work'[v] > 0 => started' >= Index(v)
  BY <1>1, <1>3 DEF LifecycleInv, StoppedInOrder
<1>5. StoppedInOrder'
  BY <1>1, <1>3, <1>4 DEF LifecycleInv, StoppedInOrder, Last
<1> QED BY <1>1, <1>5, SameProcess

\* A hook that returns closes the last component that is started, whose work, if
\* it takes on any, is done.
LEMMA HookReturns ==
    ASSUME LifecycleInv, started > 0, process.stage = "stopping", process' = process,
           started' = started - 1, closed' = closed \cup {Last}, work' = work, ~draining',
           Last \in Workers => work[Last] = 0
    PROVE  LifecycleInv'
<1>1. /\ started \in 1 .. 11 /\ work \in [Workers -> Nat]
      /\ \A c \in closed : \E i \in 1 .. 11 : i > started /\ c = Components[i]
      /\ \A w \in Workers : work[w] > 0 => started >= Index(w)
      /\ started >= 6 /\ process.cfg.event_bus_enabled => "database" \in process.stores
  BY ComponentsList, WorkerIndexes DEF LifecycleInv, StoppedInOrder
<1>2. started' \in 0 .. 11
  BY <1>1
<1>3. \A c \in closed' : \E i \in 1 .. 11 : i > started' /\ c = Components[i]
  <2>1. ASSUME NEW c \in closed PROVE \E i \in 1 .. 11 : i > started' /\ c = Components[i]
    BY <1>1
  <2>2. started \in 1 .. 11 /\ started > started' /\ Last = Components[started]
    BY <1>1 DEF Last
  <2> QED BY <2>1, <2>2
<1>4. ASSUME NEW w \in Workers, work'[w] > 0 PROVE started' >= Index(w)
  <2>1. started >= Index(w) /\ Index(w) \in 6 .. 11 /\ Components[Index(w)] = w
    BY <1>1, <1>4, WorkerIndexes
  <2>2. Index(w) # started
    BY <1>4, <2>1 DEF Last
  <2> QED BY <1>1, <2>1, <2>2
<1>5. started' >= 6 /\ process.cfg.event_bus_enabled => "database" \in process.stores
  BY <1>1
<1>6. StoppedInOrder'
  BY <1>1, <1>2, <1>3, <1>4, <1>5, ComponentsList, WorkerIndexes DEF StoppedInOrder
<1> QED BY <1>6, SameProcess

LEMMA CloseHookKeeps ==
    ASSUME LifecycleInv, CloseHook
    PROVE  LifecycleInv'
<1>1. process' = process
  BY SameConfig DEF CloseHook
<1>2. ~draining /\ draining' = draining
  BY DEF CloseHook, LifecycleInv, StoppedInOrder
<1> QED BY <1>1, <1>2, HookReturns DEF CloseHook

LEMMA DrainHookKeeps ==
    ASSUME LifecycleInv, DrainHook
    PROVE  LifecycleInv'
<1>1. process' = process
  BY SameConfig DEF DrainHook
<1>2. started > 0
  BY DEF DrainHook, LifecycleInv, StoppedInOrder
<1> QED BY <1>1, <1>2, HookReturns DEF DrainHook, Drained

LEMMA BeginDrainKeeps ==
    ASSUME LifecycleInv, BeginDrain
    PROVE  LifecycleInv'
<1>1. /\ process' = process /\ started' = started /\ closed' = closed /\ work' = work
      /\ process.stage = "stopping" /\ started > 0 /\ Last \in Workers
  BY SameConfig DEF BeginDrain
<1>2. StoppedInOrder'
  BY <1>1 DEF LifecycleInv, StoppedInOrder, Last
<1> QED BY <1>1, <1>2, SameProcess

LEMMA ExpireKeeps ==
    ASSUME LifecycleInv, Expire
    PROVE  LifecycleInv'
<1>1. /\ process' = process /\ started' = started /\ closed' = closed /\ work' = work
      /\ draining' = draining
  BY SameConfig DEF Expire
<1>2. StoppedInOrder'
  BY <1>1 DEF LifecycleInv, StoppedInOrder, Last
<1> QED BY <1>1, <1>2, SameProcess

\* A process that has read nothing.
LEMMA DownIsSafe ==
    /\ Down = [stage |-> Down.stage, cfg |-> Down.cfg, profile |-> Down.profile,
               stores |-> Down.stores, clients |-> Down.clients]
    /\ Down.stage = "down"
BY DEF Down

LEMMA RestartKeeps ==
    ASSUME Restart
    PROVE  LifecycleInv'
<1>1. /\ process' = Down /\ started' = 0 /\ closed' = {} /\ ~draining'
      /\ work' = [w \in Workers |-> 0]
  BY DEF Restart, Become, Fresh
<1>2. process'.stage = "down"
  BY <1>1, DownIsSafe
<1>3. BuiltAsChecked'
  BY <1>2 DEF BuiltAsChecked
<1>4. ~(started' >= Index("events")) /\ started' \in 0 .. Len(Components)
  BY <1>1, WorkerIndexes, ComponentsList
<1>5. StoppedInOrder'
  BY <1>1, <1>2, <1>4 DEF StoppedInOrder
<1> QED BY <1>1, <1>3, <1>5, DownIsSafe DEF LifecycleInv

LEMMA LifecycleInit == Init => LifecycleInv
<1> SUFFICES ASSUME Init PROVE LifecycleInv
  OBVIOUS
<1>1. /\ process = Down /\ started = 0 /\ closed = {} /\ ~draining
      /\ work = [w \in Workers |-> 0]
  BY DEF Init, ConfigInit
<1>2. process.stage = "down"
  BY <1>1, DownIsSafe
<1>3. BuiltAsChecked
  BY <1>2 DEF BuiltAsChecked
<1>4. ~(started >= Index("events")) /\ started \in 0 .. Len(Components)
  BY <1>1, WorkerIndexes, ComponentsList
<1>5. StoppedInOrder
  BY <1>1, <1>2, <1>4 DEF StoppedInOrder
<1> QED BY <1>1, <1>3, <1>5, DownIsSafe DEF LifecycleInv

LEMMA LifecycleStep == LifecycleInv /\ [Next]_vars => LifecycleInv'
<1> SUFFICES ASSUME LifecycleInv, [Next]_vars PROVE LifecycleInv'
  OBVIOUS
<1>1. CASE (SetBase \/ SetProfile \/ SetEnvironment \/ SetFlag) /\ UNCHANGED lifeVars
  BY <1>1, SettingsKeep
<1>2. CASE (Load \/ OpenStores \/ NewClient \/ NewServers) /\ UNCHANGED lifeVars
  BY <1>2, LoadKeeps, OpenStoresKeeps, NewClientKeeps, NewServersKeeps
<1>3. CASE BeginStart
  BY <1>3, StageKeeps DEF BeginStart
<1>4. CASE StartHook
  BY <1>4, StartHookKeeps
<1>5. CASE StartFails
  BY <1>5, StageKeeps DEF StartFails
<1>6. CASE Started
  BY <1>6, StageKeeps DEF Started
<1>7. CASE Signal
  BY <1>7, StageKeeps DEF Signal
<1>8. CASE CloseHook \/ BeginDrain \/ DrainHook \/ Expire
  BY <1>8, CloseHookKeeps, BeginDrainKeeps, DrainHookKeeps, ExpireKeeps
<1>9. CASE Exit
  BY <1>9, StageKeeps DEF Exit
<1>10. CASE Restart
  BY <1>10, RestartKeeps
<1>11. ASSUME NEW w \in Workers, Arrive(w) \/ Complete(w) PROVE LifecycleInv'
  BY <1>11, ArriveKeeps, CompleteKeeps
<1>12. CASE UNCHANGED vars
  <2>1. /\ process' = process /\ started' = started /\ closed' = closed /\ work' = work
        /\ draining' = draining
    BY <1>12, SameConfig DEF vars, lifeVars
  <2>2. StoppedInOrder'
    BY <2>1 DEF LifecycleInv, StoppedInOrder, Last
  <2> QED BY <2>1, <2>2, SameProcess
<1> QED
  BY <1>1, <1>2, <1>3, <1>4, <1>5, <1>6, <1>7, <1>8, <1>9, <1>10, <1>11, <1>12 DEF Next

\* Whatever the settings, edits, failures and signals: a process runs with what
\* was checked and built, stops what it started in reverse, and has work only in
\* what is started (LoadWithProfile, the constructors and hooks of New).
THEOREM LifecycleInvariant == Spec => []LifecycleInv
BY LifecycleInit, LifecycleStep, PTL DEF Spec

\* A process that serves under the profile production passed the checks made for
\* production, whichever layers the settings came from (LoadWithProfile sets
\* app.env before Validate).
THEOREM ProductionIsChecked == Spec => []ProductionIsGuarded
<1>1. LifecycleInv => ProductionIsGuarded
  <2> SUFFICES ASSUME LifecycleInv, process.stage \in {"starting", "running"},
                      process.profile = "production"
               PROVE  /\ process.cfg.grpc_enabled => process.cfg.grpc_tls
                      /\ ~process.cfg.grpc_reflection
                      /\ process.cfg.swagger_enabled => process.cfg.swagger_auth
                      /\ process.cfg.authorization_enabled /\ process.cfg.auth_jwks # ""
    BY DEF ProductionIsGuarded
  <2>1. Validate(process.cfg) /\ process.cfg.app_env = "production"
    BY DEF LifecycleInv, BuiltAsChecked
  <2>2. ValidProduction(process.cfg)
    BY <2>1 DEF Validate
  <2> QED BY <2>1, <2>2 DEF ValidProduction
<1> QED BY <1>1, LifecycleInvariant, PTL

\* Work is only in progress in a process that has what its settings switch on
\* (Validate, newRedis, NewRegistry and the start hook of the dispatcher).
THEOREM WorkIsBacked == Spec => []EnabledIsBacked
<1>1. LifecycleInv => EnabledIsBacked
  <2> SUFFICES ASSUME LifecycleInv, NEW w \in Workers, work[w] > 0
               PROVE  /\ process.cfg.rate_limit_enabled \/ process.cfg.idempotency_enabled
                             => "redis" \in process.stores
                      /\ process.cfg.authorization_enabled
                             => "outbound_authorization" \in process.clients
                      /\ process.cfg.database_enabled
                             => "outbound_application" \in process.clients
                      /\ process.cfg.event_bus_enabled => "database" \in process.stores
    BY DEF EnabledIsBacked
  <2>1. started >= Index(w) /\ Index(w) \in 6 .. 11 /\ started \in 0 .. 11
    BY WorkerIndexes, ComponentsList DEF LifecycleInv, StoppedInOrder
  <2>2. started >= 6
    BY <2>1
  <2>3. process.cfg.event_bus_enabled => "database" \in process.stores
    BY <2>2, WorkerIndexes DEF LifecycleInv, StoppedInOrder
  <2>4. process.stage \notin {"down", "stores", "clients", "built", "failed"}
    BY <2>1, <2>2 DEF LifecycleInv, StoppedInOrder
  <2>5. /\ Validate(process.cfg) /\ Pending(process) = {}
        /\ process.cfg.redis_enabled => "redis" \in process.stores
    BY <2>4 DEF LifecycleInv, BuiltAsChecked
  <2>6. ValidStores(process.cfg) /\ ValidAccess(process.cfg) /\ ValidIdempotency(process.cfg)
    BY <2>5 DEF Validate
  <2>7. process.cfg.rate_limit_enabled \/ process.cfg.idempotency_enabled
           => "redis" \in process.stores
    BY <2>5, <2>6 DEF ValidStores, ValidIdempotency
  <2>8. /\ process.cfg["outbound_authorization"] # {} => "outbound_authorization" \in process.clients
        /\ process.cfg["outbound_application"] # {} => "outbound_application" \in process.clients
    BY <2>5 DEF Pending, Upstreams
  <2>9. /\ process.cfg.authorization_enabled => process.cfg["outbound_authorization"] # {}
        /\ process.cfg.database_enabled => process.cfg["outbound_application"] # {}
    BY <2>6 DEF ValidStores, ValidAccess
  <2> QED BY <2>3, <2>7, <2>8, <2>9
<1> QED BY <1>1, LifecycleInvariant, PTL

\* No work in progress ever meets a component that was closed under it, in any
\* order of starts, failures, signals, hooks and the end of the stop's time (the
\* order of construction in New and the stop hooks).
THEOREM NothingInUseIsClosed == Spec => []InUseIsOpen
<1>1. LifecycleInv => InUseIsOpen
  <2> SUFFICES ASSUME LifecycleInv, NEW w \in Workers, work[w] > 0,
                      NEW c \in closed, c \in Uses[w]
               PROVE  FALSE
    BY DEF InUseIsOpen
  <2>1. PICK i \in 1 .. 11 : i > started /\ c = Components[i]
    BY ComponentsList DEF LifecycleInv, StoppedInOrder
  <2>2. started >= Index(w) /\ Index(w) \in 6 .. 11 /\ started \in 0 .. 11
    BY WorkerIndexes, ComponentsList DEF LifecycleInv, StoppedInOrder
  <2>3. i < Index(w)
    BY <2>1, UsedBefore
  <2> QED BY <2>1, <2>2, <2>3
<1> QED BY <1>1, LifecycleInvariant, PTL

-----------------------------------------------------------------------------
(* Migration: concurrent starts migrate one at a time and the version table
   tells the truth, for any number of processes and migrations *)

\* The part of the invariant about one process.
Fits(p) ==
    /\ InMigration(p) => migrationLock = p
    /\ procs[p].stage \in {"looking", "creating"} => schemaLock = p
    /\ At(p, "creating") => procs[p].saw = schema
    /\ At(p, "marked") => dirty
    /\ At(p, "ran") => dirty /\ content = version
    /\ procs[p].stage # "off" => procs[p].goal \in Goals
    /\ Goals = {"up"} /\ At(p, "done") => content = Latest /\ ~dirty

LEMMA MigrationParts ==
    MigrationInv <=> MigrationTypeOK /\ VersionIsContent /\ \A p \in Processes : Fits(p)
BY DEF MigrationInv, Fits, StartedIsMigrated

LEMMA MigrationPartsNext ==
    MigrationInv' <=> MigrationTypeOK' /\ VersionIsContent' /\ \A p \in Processes : Fits(p)'
BY DEF MigrationInv, Fits, StartedIsMigrated

LEMMA MigrationInitInv == MigrationInit => MigrationInv
<1> SUFFICES ASSUME MigrationInit PROVE MigrationInv
  OBVIOUS
<1>1. MigrationTypeOK
  <2>1. [stage |-> "off", goal |-> "up", saw |-> FALSE]
            \in [stage : MigrationStages, goal : {"up", "down"}, saw : BOOLEAN]
    BY DEF MigrationStages
  <2>2. procs \in [Processes -> [stage : MigrationStages, goal : {"up", "down"}, saw : BOOLEAN]]
    BY <2>1 DEF MigrationInit
  <2>3. version \in 0 .. Latest /\ content \in 0 .. Latest
    BY LatestAssumption DEF MigrationInit
  <2>4. schema \in BOOLEAN /\ dirty \in BOOLEAN
    BY DEF MigrationInit
  <2>5. schemaLock \in Processes \cup {Nobody} /\ migrationLock \in Processes \cup {Nobody}
    BY DEF MigrationInit
  <2> QED  BY <2>2, <2>3, <2>4, <2>5 DEF MigrationTypeOK
<1>2. VersionIsContent
  BY DEF MigrationInit, VersionIsContent
<1>3. \A p \in Processes : Fits(p)
  BY DEF MigrationInit, Fits, At, InMigration
<1> QED  BY <1>1, <1>2, <1>3, MigrationParts

\* Any step of p: the types stay, and other processes keep their stage.
ProcessStep(p) ==
    \/ \E goal \in Goals : Begin(p, goal)
    \/ Step(p) \/ Abort(p) \/ Leave(p)

LEMMA FollowingType ==
    ASSUME MigrationTypeOK, NEW p \in Processes
    PROVE  Following(p) \in 0 .. Latest /\ Following(p) \in {version - 1, version, version + 1}
BY LatestAssumption DEF MigrationTypeOK, Following

LEMMA ProcsType ==
    ASSUME MigrationTypeOK, NEW p \in Processes, ProcessStep(p)
    PROVE  /\ procs' \in [Processes -> [stage : MigrationStages, goal : {"up", "down"}, saw : BOOLEAN]]
           /\ \A q \in Processes \ {p} : procs'[q] = procs[q]
<1> DEFINE Proc == [stage : MigrationStages, goal : {"up", "down"}, saw : BOOLEAN]
<1>a. procs \in [Processes -> Proc] /\ schema \in BOOLEAN
  BY DEF MigrationTypeOK
<1>b. \A st \in MigrationStages : [procs[p] EXCEPT !.stage = st] \in Proc
  BY <1>a
<1>c. ASSUME NEW st \in MigrationStages, Go(p, st)
      PROVE  procs' \in [Processes -> Proc] /\ \A q \in Processes \ {p} : procs'[q] = procs[q]
  BY <1>a, <1>b, <1>c DEF Go
<1>1. ASSUME NEW goal \in Goals, Begin(p, goal)
      PROVE  procs' \in [Processes -> Proc] /\ \A q \in Processes \ {p} : procs'[q] = procs[q]
  <2>1. [stage |-> IF CreateSchema THEN "schema" ELSE "waiting", goal |-> goal, saw |-> FALSE] \in Proc
    BY <1>1, GoalsAssumption DEF MigrationStages
  <2> QED  BY <1>1, <1>a, <2>1 DEF Begin
<1>2. CASE LookForSchema(p)
  <2>1. [[procs[p] EXCEPT !.stage = "creating"] EXCEPT !.saw = schema] \in Proc
    BY <1>a DEF MigrationStages
  <2> QED  BY <1>2, <1>a, <2>1 DEF LookForSchema
<1>3. ASSUME Step(p) \/ Abort(p) \/ Leave(p), ~LookForSchema(p)
      PROVE  \E st \in MigrationStages : Go(p, st)
  BY <1>3 DEF Step, Abort, Leave, LockSchema, CommitSchema, Lock, LockTimeout, Refuse,
              Finish, MarkDirty, RunStatements, MarkClean, Outcome, MigrationStages
<1> QED  BY <1>1, <1>2, <1>3, <1>c DEF ProcessStep

LEMMA StepTypes ==
    ASSUME MigrationTypeOK, NEW p \in Processes, ProcessStep(p)
    PROVE  MigrationTypeOK'
<1>1. procs' \in [Processes -> [stage : MigrationStages, goal : {"up", "down"}, saw : BOOLEAN]]
  BY ProcsType
<1>2. CASE \E goal \in Goals : Begin(p, goal)
  BY <1>1, <1>2 DEF MigrationTypeOK, Begin, Tables
<1>3. CASE Step(p)
  BY <1>1, <1>3, FollowingType DEF MigrationTypeOK, Step, LockSchema, LookForSchema, CommitSchema,
     Lock, LockTimeout, Refuse, Finish, MarkDirty, RunStatements, MarkClean, Mark,
     SchemaUnlocked, Unlocked, Tables
<1>4. CASE Abort(p)
  BY <1>1, <1>4 DEF MigrationTypeOK, Abort, SchemaUnlocked, Unlocked
<1>5. CASE Leave(p)
  BY <1>1, <1>5 DEF MigrationTypeOK, Leave, Tables
<1> QED  BY <1>2, <1>3, <1>4, <1>5 DEF ProcessStep

\* The version table is written only between a mark and its removal, by the
\* process that holds the lock.
LEMMA StepVersion ==
    ASSUME MigrationTypeOK, VersionIsContent, NEW p \in Processes, Fits(p), ProcessStep(p)
    PROVE  VersionIsContent'
<1> USE DEF VersionIsContent
<1>a. version \in Nat /\ content \in Nat /\ dirty \in BOOLEAN
  BY DEF MigrationTypeOK
<1>1. CASE UNCHANGED Tables
  BY <1>1 DEF Tables
<1>2. CASE MarkDirty(p)
  BY <1>2, <1>a, FollowingType DEF MarkDirty, Mark, Refuses
<1>3. CASE RunStatements(p)
  BY <1>3, <1>a DEF RunStatements
<1>4. CASE MarkClean(p)
  BY <1>4, <1>a DEF MarkClean, Fits
<1>5. CASE Abort(p)
  BY <1>5, <1>a DEF Abort, Fits
<1>6. ASSUME ~MarkDirty(p), ~RunStatements(p), ~MarkClean(p), ~Abort(p)
      PROVE  UNCHANGED Tables
  BY <1>6 DEF ProcessStep, Step, Begin, Leave, LockSchema, LookForSchema, CommitSchema, Lock,
              LockTimeout, Refuse, Finish
<1> QED  BY <1>1, <1>2, <1>3, <1>4, <1>5, <1>6

\* The process that makes the step.
LEMMA SelfFits ==
    ASSUME MigrationTypeOK, VersionIsContent, NEW p \in Processes, Fits(p), ProcessStep(p)
    PROVE  Fits(p)'
<1>a. procs \in [Processes -> [stage : MigrationStages, goal : {"up", "down"}, saw : BOOLEAN]]
  BY DEF MigrationTypeOK
<1>b. ASSUME NEW st, Go(p, st)
      PROVE  procs'[p].stage = st /\ procs'[p].goal = procs[p].goal /\ procs'[p].saw = procs[p].saw
  BY <1>a, <1>b DEF Go
<1> USE DEF At, InMigration
<1>1. CASE \E goal \in Goals : Begin(p, goal)
  <2>1. procs'[p].stage \in {"schema", "waiting"} /\ procs'[p].goal \in Goals
    BY <1>1, <1>a DEF Begin
  <2> QED  BY <2>1 DEF Fits
<1>2. CASE LockSchema(p)
  BY <1>2, <1>b DEF LockSchema, Fits
<1>3. CASE LookForSchema(p)
  <2>1. procs'[p].stage = "creating" /\ procs'[p].saw = schema /\ procs'[p].goal = procs[p].goal
    BY <1>3, <1>a DEF LookForSchema
  <2> QED  BY <1>3, <2>1 DEF LookForSchema, Fits
<1>4. CASE CommitSchema(p)
  <2>1. procs'[p].stage \in {"failed", "waiting"} /\ procs'[p].goal = procs[p].goal
    BY <1>4, <1>a DEF CommitSchema, Go
  <2> QED  BY <1>4, <2>1 DEF CommitSchema, Fits
<1>5. CASE Lock(p)
  BY <1>5, <1>b DEF Lock, Fits
<1>6. CASE LockTimeout(p)
  BY <1>6, <1>b DEF LockTimeout, Outcome, Fits
<1>7. CASE Refuse(p)
  BY <1>7, <1>b DEF Refuse, Outcome, Fits
<1>8. CASE Finish(p)
  <2>1. procs'[p].stage \in {"done", "failed"} /\ procs'[p].goal = procs[p].goal
    BY <1>8, <1>b DEF Finish, Outcome
  <2>2. Goals = {"up"} => version = Latest
    BY <1>8, LatestAssumption DEF Finish, Following, Fits, MigrationTypeOK
  <2> QED  BY <1>8, <2>1, <2>2 DEF Finish, Refuses, Fits, VersionIsContent, Tables
<1>9. CASE MarkDirty(p)
  <2>1. procs'[p].stage = "marked" /\ procs'[p].goal = procs[p].goal
    BY <1>9, <1>b DEF MarkDirty
  <2> QED  BY <1>9, <2>1 DEF MarkDirty, Mark, Fits
<1>10. CASE RunStatements(p)
  <2>1. procs'[p].stage = "ran" /\ procs'[p].goal = procs[p].goal
    BY <1>10, <1>b DEF RunStatements
  <2> QED  BY <1>10, <2>1 DEF RunStatements, Fits
<1>11. CASE MarkClean(p)
  <2>1. procs'[p].stage = "reading" /\ procs'[p].goal = procs[p].goal
    BY <1>11, <1>b DEF MarkClean
  <2> QED  BY <1>11, <2>1 DEF MarkClean, Fits
<1>12. CASE Abort(p)
  <2>1. procs'[p].stage = "failed" /\ procs'[p].goal = procs[p].goal
    BY <1>12, <1>b DEF Abort
  <2> QED  BY <1>12, <2>1 DEF Abort, Fits
<1>13. CASE Leave(p)
  <2>1. procs'[p].stage = "off" /\ procs'[p].goal = procs[p].goal
    BY <1>13, <1>b DEF Leave
  <2> QED  BY <1>13, <2>1 DEF Leave, Fits
<1> QED
  BY <1>1, <1>2, <1>3, <1>4, <1>5, <1>6, <1>7, <1>8, <1>9, <1>10, <1>11, <1>12, <1>13
     DEF ProcessStep, Step

\* Whoever else is in the migration holds the lock, so p is not; and who has
\* finished found nothing left to do, so there is nothing for p either.
LEMMA OthersFit ==
    ASSUME MigrationTypeOK, VersionIsContent, NEW p \in Processes, Fits(p), ProcessStep(p),
           NEW q \in Processes, q # p, Fits(q)
    PROVE  Fits(q)'
<1>a. procs'[q] = procs[q]
  BY ProcsType
<1>b. p # Nobody /\ q # Nobody
  BY NobodyAssumption
<1> USE DEF At, InMigration
<1>1. procs[q].stage \in {"reading", "marked", "ran"} => migrationLock' = q /\ UNCHANGED Tables
  BY <1>b DEF ProcessStep, Step, Fits, Begin, Abort, Leave, LockSchema, LookForSchema,
     CommitSchema, Lock, LockFree, LockTimeout, Refuse, Finish, MarkDirty, RunStatements,
     MarkClean, Unlocked, Tables
<1>2. procs[q].stage \in {"looking", "creating"} => schemaLock' = q /\ schema' = schema
  BY <1>b DEF ProcessStep, Step, Fits, Begin, Abort, Leave, LockSchema, SchemaLockFree,
     LookForSchema, CommitSchema, Lock, LockTimeout, Refuse, Finish, MarkDirty,
     RunStatements, MarkClean, SchemaUnlocked, Tables
<1>3. Goals = {"up"} /\ procs[q].stage = "done" => UNCHANGED Tables
  <2> SUFFICES ASSUME Goals = {"up"}, procs[q].stage = "done" PROVE UNCHANGED Tables
    OBVIOUS
  <2>1. version = Latest /\ content = Latest /\ ~dirty
    BY DEF Fits, VersionIsContent
  <2>2. ~MarkDirty(p)
    BY <2>1, LatestAssumption DEF MarkDirty, Following, Fits
  <2>3. procs[p].stage \notin {"marked", "ran"}
    BY <2>1 DEF Fits
  <2>4. ~RunStatements(p) /\ ~MarkClean(p)
    BY <2>3 DEF RunStatements, MarkClean
  <2>5. Abort(p) => UNCHANGED Tables
    BY <2>3 DEF Abort, Tables
  <2>6. \/ \E goal \in Goals : Begin(p, goal)
        \/ LockSchema(p) \/ LookForSchema(p) \/ CommitSchema(p)
        \/ Lock(p) \/ LockTimeout(p) \/ Refuse(p) \/ Finish(p)
        \/ Abort(p) \/ Leave(p)
    BY <2>2, <2>4 DEF ProcessStep, Step
  <2>7. (\E goal \in Goals : Begin(p, goal)) \/ LockSchema(p) \/ LookForSchema(p) \/ CommitSchema(p)
           => UNCHANGED Tables
    BY DEF Begin, LockSchema, LookForSchema, CommitSchema
  <2>8. Lock(p) \/ LockTimeout(p) \/ Refuse(p) \/ Finish(p) \/ Leave(p) => UNCHANGED Tables
    BY DEF Lock, LockTimeout, Refuse, Finish, Leave
  <2> QED  BY <2>5, <2>6, <2>7, <2>8
<1> QED  BY <1>a, <1>1, <1>2, <1>3 DEF Fits, Tables

LEMMA MigrationStepInv == MigrationInv /\ [MigrationNext]_migrationVars => MigrationInv'
<1> SUFFICES ASSUME MigrationInv, [MigrationNext]_migrationVars PROVE MigrationInv'
  OBVIOUS
<1>a. MigrationTypeOK /\ VersionIsContent /\ \A p \in Processes : Fits(p)
  BY MigrationParts
<1>1. ASSUME NEW p \in Processes, ProcessStep(p) PROVE MigrationInv'
  <2>1. MigrationTypeOK' /\ VersionIsContent'
    BY <1>1, <1>a, StepTypes, StepVersion
  <2>2. \A q \in Processes : Fits(q)'
    BY <1>1, <1>a, SelfFits, OthersFit
  <2> QED  BY <2>1, <2>2, MigrationPartsNext
<1>2. CASE UNCHANGED migrationVars
  BY <1>2 DEF migrationVars, MigrationInv, MigrationTypeOK, VersionIsContent, StartedIsMigrated, InMigration, At
<1> QED  BY <1>1, <1>2 DEF MigrationNext, ProcessStep

\* The inductive invariant holds.
THEOREM MigrationInvariant == MigrationSpec => []MigrationInv
<1> QED  BY MigrationInitInv, MigrationStepInv, PTL DEF MigrationSpec

\* At most one process is in the migration (m.Up under the advisory lock).
THEOREM MigratorsExclude == MigrationSpec => []OneMigrator
<1>1. MigrationInv => OneMigrator
  BY DEF MigrationInv, OneMigrator
<1> QED  BY <1>1, MigrationInvariant, PTL

\* The version table agrees with what has taken effect, crash or no crash.
THEOREM VersionTableIsTrue == MigrationSpec => []VersionIsContent
<1>1. MigrationInv => VersionIsContent
  BY DEF MigrationInv
<1> QED  BY <1>1, MigrationInvariant, PTL

\* Creating the schema never races (createSchema under its advisory lock).
THEOREM SchemaCreationIsSafe == MigrationSpec => []SchemaSeenIsCurrent
<1>1. MigrationInv => SchemaSeenIsCurrent
  BY DEF MigrationInv, SchemaSeenIsCurrent
<1> QED  BY <1>1, MigrationInvariant, PTL

\* Who reports success has the latest schema (Run of internal/migration).
THEOREM SuccessIsMigrated == MigrationSpec => []StartedIsMigrated
<1>1. MigrationInv => StartedIsMigrated
  BY DEF MigrationInv
<1> QED  BY <1>1, MigrationInvariant, PTL

\* A dirty version without a process at work on it stays as it is.
THEOREM InterruptedIsKept == MigrationSpec => DirtyIsKept
<1>1. ASSUME [MigrationNext]_migrationVars
      PROVE  [dirty /\ (\A p \in Processes : procs[p].stage \notin {"marked", "ran"})
                => UNCHANGED Tables]_migrationVars
  <2> SUFFICES ASSUME dirty, \A p \in Processes : procs[p].stage \notin {"marked", "ran"},
                      MigrationNext
               PROVE  UNCHANGED Tables
    BY <1>1
  <2>1. PICK p \in Processes : ProcessStep(p)
    BY DEF MigrationNext, ProcessStep
  <2> QED
    BY <2>1 DEF ProcessStep, Step, Begin, Abort, Leave, LockSchema, LookForSchema, CommitSchema,
       Lock, LockTimeout, Refuse, Finish, MarkDirty, RunStatements, MarkClean, Refuses,
       Tables, At
<1> QED  BY <1>1, PTL DEF MigrationSpec, DirtyIsKept

-----------------------------------------------------------------------------
(* ScheduledJob: the job runs on one replica at a time, for any number of
   replicas and any times with JobTimeout < LockTTL *)

\* The steps of one replica.
ReplicaStep(r) ==
    \/ Start(r) \/ Fire(r) \/ Stop(r) \/ StopReturns(r)
    \/ StopGivesUp(r) \/ StartAgain(r) \/ Crash(r)
    \/ TryLock(r) \/ TryLockTaken(r) \/ TryLockFails(r)
    \/ Acquired(r) \/ AcquiredUnheard(r)
    \/ Extend(r) \/ Return(r) \/ Unlock(r) \/ UnlockFails(r)

Job == [stage : JobStages, left : 0 .. JobTimeout]

\* The part of the invariant about one replica.
Covered(r) ==
    /\ locker =>
         /\ jobs[r].stage = "running" => lock.owner = r /\ jobs[r].left < lock.left
         /\ jobs[r].stage = "granted" /\ jobs[r].left > 0 =>
              lock.owner = r /\ jobs[r].left < lock.left
    /\ ~locker => jobs[r].stage \in {"idle", "running"}
    /\ runners[r] = "stopped" => jobs[r].stage = "idle"

LEMMA JobParts == LockInv <=> JobTypeOK /\ \A r \in Replicas : Covered(r)
BY DEF LockInv, Covered, StoppedIsDrained, JobTypeOK

LEMMA JobPartsNext == LockInv' <=> JobTypeOK' /\ \A r \in Replicas : Covered(r)'
BY DEF LockInv, Covered, StoppedIsDrained, JobTypeOK

LEMMA JobInitInv == JobInit => LockInv
<1> SUFFICES ASSUME JobInit PROVE LockInv
  OBVIOUS
<1>1. JobTypeOK
  BY TimesAssumption, OwnersAssumption DEF JobInit, JobTypeOK, Free, Idle, JobStages
<1>2. \A r \in Replicas : Covered(r)
  BY DEF JobInit, Covered, Idle
<1> QED  BY <1>1, <1>2, JobParts

\* A step of r leaves the other replicas' jobs and runners alone, keeps the
\* types, and does to the key only what its owner may do.
Local(r) ==
    /\ locker' = locker
    /\ jobs' \in [Replicas -> Job]
    /\ runners' \in [Replicas -> {"off", "on", "stopping", "stopped"}]
    /\ \A s \in Replicas \ {r} : jobs'[s] = jobs[s] /\ runners'[s] = runners[s]
    /\ lock' = lock \/ lock.owner \in {r, NoOwner}
    /\ lock' \in {lock, Free, Held(r), [lock EXCEPT !.owner = Orphan]}
    /\ lock' = [lock EXCEPT !.owner = Orphan] => lock' = lock \/ lock.owner = r

LEMMA LocalSteps ==
    ASSUME JobTypeOK, NEW r \in Replicas, ReplicaStep(r)
    PROVE  Local(r)
<1> USE TimesAssumption, OwnersAssumption
<1>a. jobs \in [Replicas -> Job] /\ runners \in [Replicas -> {"off", "on", "stopping", "stopped"}]
  BY DEF JobTypeOK, Job
<1>b. JobTimeout \in 0 .. JobTimeout /\ 0 \in 0 .. JobTimeout
  OBVIOUS
<1>c. Idle \in Job
  BY <1>b DEF Job, Idle, JobStages
<1>d. \A st \in JobStages : [jobs[r] EXCEPT !.stage = st] \in Job
  BY <1>a DEF Job
<1>e. \A st \in JobStages : [stage |-> st, left |-> JobTimeout] \in Job
  BY <1>b DEF Job
<1>1. CASE Start(r)
  BY <1>1, <1>a DEF Start, Local
<1>2. CASE Fire(r)
  BY <1>2, <1>a, <1>e DEF Fire, Local, JobStages
<1>3. CASE Stop(r)
  BY <1>3, <1>a DEF Stop, Local
<1>4. CASE StopReturns(r)
  BY <1>4, <1>a DEF StopReturns, Local
<1>5. CASE StopGivesUp(r)
  BY <1>5, <1>a, <1>c DEF StopGivesUp, Local, End
<1>6. CASE StartAgain(r)
  BY <1>6, <1>a DEF StartAgain, Local
<1>7. CASE Crash(r)
  BY <1>7, <1>a, <1>c DEF Crash, Local, End
<1>8. CASE TryLock(r)
  BY <1>8, <1>a, <1>d DEF TryLock, Local, Move, Absent, Held, JobStages
<1>9. CASE TryLockTaken(r)
  BY <1>9, <1>a, <1>c DEF TryLockTaken, Local, End
<1>10. CASE TryLockFails(r)
  BY <1>10, <1>a, <1>c DEF TryLockFails, Local, End
<1>11. CASE Acquired(r)
  BY <1>11, <1>a, <1>d DEF Acquired, Local, Move, JobStages
<1>12. CASE AcquiredUnheard(r)
  BY <1>12, <1>a, <1>c DEF AcquiredUnheard, Local, End
<1>13. CASE Extend(r)
  <2>1. [jobs[r] EXCEPT !.left = JobTimeout] \in Job
    BY <1>a, <1>b DEF Job
  <2> QED  BY <1>13, <1>a, <1>d, <2>1 DEF Extend, Local, Move, Owned, JobStages
<1>14. CASE Return(r)
  BY <1>14, <1>a, <1>c, <1>d DEF Return, Local, Move, End, JobStages
<1>15. CASE Unlock(r)
  BY <1>15, <1>a, <1>c DEF Unlock, Local, End, Owned
<1>16. CASE UnlockFails(r)
  BY <1>16, <1>a, <1>c DEF UnlockFails, Local, End
<1> QED
  BY <1>1, <1>2, <1>3, <1>4, <1>5, <1>6, <1>7, <1>8, <1>9, <1>10, <1>11, <1>12,
     <1>13, <1>14, <1>15, <1>16 DEF ReplicaStep

LEMMA LocalTypes ==
    ASSUME JobTypeOK, NEW r \in Replicas, Local(r)
    PROVE  JobTypeOK'
<1> USE TimesAssumption, OwnersAssumption
<1> DEFINE Key == [owner : Replicas \cup {NoOwner, Orphan}, left : 0 .. LockTTL]
<1>1. lock \in Key /\ (lock.owner = NoOwner <=> lock.left = 0)
  BY DEF JobTypeOK
<1>2. Free \in Key /\ Free.owner = NoOwner /\ Free.left = 0
  BY DEF Free
<1>3. Held(r) \in Key /\ Held(r).owner # NoOwner /\ Held(r).left # 0
  BY DEF Held
<1>4. lock.owner = r =>
        /\ [lock EXCEPT !.owner = Orphan] \in Key
        /\ [lock EXCEPT !.owner = Orphan].owner # NoOwner
        /\ [lock EXCEPT !.owner = Orphan].left # 0
  BY <1>1 DEF Orphan, NoOwner
<1>5. lock' \in Key /\ (lock'.owner = NoOwner <=> lock'.left = 0)
  BY <1>1, <1>2, <1>3, <1>4 DEF Local
<1> QED  BY <1>5 DEF Local, JobTypeOK, Job

\* The key of another replica is not touched: its job stays covered.
LEMMA OthersCovered ==
    ASSUME JobTypeOK, NEW r \in Replicas, Local(r), NEW s \in Replicas, s # r, Covered(s)
    PROVE  Covered(s)'
<1>1. lock.owner = s => lock' = lock
  BY OwnersAssumption DEF Local
<1>2. locker' = locker /\ jobs'[s] = jobs[s] /\ runners'[s] = runners[s]
  BY DEF Local
<1> QED  BY <1>1, <1>2 DEF Covered

\* The job that makes the step stays covered: the key is set when it asks for
\* it, and its context is then shorter than the key.
LEMMA SelfCovered ==
    ASSUME JobTypeOK, NEW r \in Replicas, ReplicaStep(r), Covered(r)
    PROVE  Covered(r)'
<1> USE TimesAssumption, OwnersAssumption
<1>a. jobs \in [Replicas -> Job] /\ runners \in [Replicas -> {"off", "on", "stopping", "stopped"}]
  BY DEF JobTypeOK, Job
<1>b. jobs[r].left \in 0 .. JobTimeout /\ jobs[r].left < LockTTL
  BY <1>a DEF Job
<1>c. Idle.stage = "idle"
  BY DEF Idle
<1>d. Held(r).owner = r /\ Held(r).left = LockTTL
  BY DEF Held
<1>1. CASE Start(r)
  BY <1>1, <1>a DEF Start, Covered
<1>2. CASE Fire(r)
  <2>1. jobs'[r].stage = (IF locker THEN "trying" ELSE "running") /\ runners'[r] = "on"
    BY <1>2, <1>a DEF Fire
  <2>2. /\ locker' = locker /\ runners'[r] # "stopped"
        /\ locker => jobs'[r].stage = "trying"
        /\ ~locker => jobs'[r].stage = "running"
    BY <1>2, <2>1 DEF Fire
  <2> QED  BY <2>2 DEF Covered
<1>3. CASE Stop(r)
  BY <1>3, <1>a DEF Stop, Covered
<1>4. CASE StopReturns(r)
  BY <1>4, <1>a DEF StopReturns, Covered, JobDone
<1>5. CASE StopGivesUp(r)
  BY <1>5, <1>a, <1>c DEF StopGivesUp, Covered, End
<1>6. CASE StartAgain(r)
  BY <1>6, <1>a DEF StartAgain, Covered
<1>7. CASE Crash(r)
  BY <1>7, <1>a, <1>c DEF Crash, Covered, End
<1>8. CASE TryLock(r)
  <2>1. jobs'[r].stage = "granted" /\ jobs'[r].left = jobs[r].left
    BY <1>8, <1>a DEF TryLock, Move, Job
  <2> QED  BY <1>8, <1>b, <1>d, <2>1 DEF TryLock, Covered
<1>9. CASE TryLockTaken(r)
  BY <1>9, <1>a, <1>c DEF TryLockTaken, Covered, End
<1>10. CASE TryLockFails(r)
  BY <1>10, <1>a, <1>c DEF TryLockFails, Covered, End
<1>11. CASE Acquired(r)
  <2>1. jobs'[r].stage = "running" /\ jobs'[r].left = jobs[r].left
    BY <1>11, <1>a DEF Acquired, Move, Job
  <2> QED  BY <1>11, <2>1 DEF Acquired, Covered, InTime
<1>12. CASE AcquiredUnheard(r)
  BY <1>12, <1>a, <1>c DEF AcquiredUnheard, Covered, End
<1>13. CASE Extend(r)
  <2>1. \/ jobs'[r].stage = "unlocking"
        \/ lock' = Held(r) /\ jobs'[r].stage = "running" /\ jobs'[r].left = JobTimeout
    BY <1>13, <1>a DEF Extend, Move, Job
  <2> QED  BY <1>13, <1>d, <2>1 DEF Extend, Covered
<1>14. CASE Return(r)
  <2>1. jobs'[r].stage = IF locker THEN "unlocking" ELSE "idle"
    BY <1>14, <1>a, <1>c DEF Return, Move, End, Job
  <2> QED  BY <1>14, <2>1 DEF Return, Covered
<1>15. CASE Unlock(r)
  BY <1>15, <1>a, <1>c DEF Unlock, Covered, End
<1>16. CASE UnlockFails(r)
  BY <1>16, <1>a, <1>c DEF UnlockFails, Covered, End
<1> QED
  BY <1>1, <1>2, <1>3, <1>4, <1>5, <1>6, <1>7, <1>8, <1>9, <1>10, <1>11, <1>12,
     <1>13, <1>14, <1>15, <1>16 DEF ReplicaStep

\* Time takes from the key what it takes from the job, and a job that has no
\* time left holds time back.
LEMMA TickInv ==
    ASSUME LockInv, Tick
    PROVE  LockInv'
<1> USE TimesAssumption, OwnersAssumption
<1>a. JobTypeOK /\ \A r \in Replicas : Covered(r)
  BY JobParts
<1>b. /\ lock.left \in Nat /\ lock.left <= LockTTL
      /\ lock.owner = NoOwner <=> lock.left = 0
      /\ lock = [owner |-> lock.owner, left |-> lock.left]
  BY <1>a DEF JobTypeOK
<1>c. \A r \in Replicas : jobs[r].stage \in JobStages /\ jobs[r].left \in 0 .. JobTimeout
  BY <1>a DEF JobTypeOK
<1>d. \/ lock.left = 1 /\ lock'.owner = NoOwner /\ lock'.left = 0
      \/ /\ lock.left # 1 /\ lock'.owner = lock.owner
         /\ lock'.left = IF lock.left > 0 THEN lock.left - 1 ELSE 0
  BY <1>b DEF Tick, Expired, Free
<1>e. \A r \in Replicas :
        /\ jobs'[r].stage = jobs[r].stage
        /\ jobs'[r].left = IF jobs[r].left > 0 THEN jobs[r].left - 1 ELSE 0
  BY <1>a DEF Tick, JobTypeOK
<1>1. JobTypeOK'
  <2>1. lock' \in [owner : Replicas \cup {NoOwner, Orphan}, left : 0 .. LockTTL]
    BY <1>a, <1>b DEF Tick, JobTypeOK, Expired, Free
  <2>2. (lock'.owner = NoOwner) <=> (lock'.left = 0)
    BY <1>b, <1>d
  <2>3. jobs' \in [Replicas -> [stage : JobStages, left : 0 .. JobTimeout]]
    <3>1. ASSUME NEW r \in Replicas
          PROVE  [jobs[r] EXCEPT !.left = IF @ > 0 THEN @ - 1 ELSE 0]
                     \in [stage : JobStages, left : 0 .. JobTimeout]
      <4>1. jobs[r] \in [stage : JobStages, left : 0 .. JobTimeout]
        BY <1>a DEF JobTypeOK
      <4>2. (IF jobs[r].left > 0 THEN jobs[r].left - 1 ELSE 0) \in 0 .. JobTimeout
        BY <1>c
      <4> QED  BY <4>1, <4>2
    <3> QED  BY <3>1 DEF Tick
  <2> QED  BY <1>a, <2>1, <2>2, <2>3 DEF Tick, JobTypeOK
<1>2. ASSUME NEW r \in Replicas PROVE Covered(r)'
  <2>1. Covered(r)
    BY <1>a
  <2>2. jobs[r].stage = "running" => jobs[r].left > 0
    BY DEF Tick, InTime
  <2>3. locker' = locker /\ runners' = runners
    BY DEF Tick
  <2>4. jobs[r].left < lock.left /\ jobs[r].left > 0 =>
            lock'.owner = lock.owner /\ jobs'[r].left < lock'.left
    BY <1>b, <1>c, <1>d, <1>e
  <2> QED  BY <2>1, <2>2, <2>3, <2>4, <1>c, <1>e DEF Covered
<1> QED  BY <1>1, <1>2, JobPartsNext

LEMMA JobStepInv == LockInv /\ [JobNext]_jobVars => LockInv'
<1> SUFFICES ASSUME LockInv, [JobNext]_jobVars PROVE LockInv'
  OBVIOUS
<1>a. JobTypeOK /\ \A r \in Replicas : Covered(r)
  BY JobParts
<1>1. CASE Tick
  BY <1>1, TickInv
<1>2. ASSUME NEW r \in Replicas, ReplicaStep(r) PROVE LockInv'
  <2>1. Local(r) /\ JobTypeOK'
    BY <1>2, <1>a, LocalSteps, LocalTypes
  <2>2. \A s \in Replicas : Covered(s)'
    BY <1>2, <1>a, <2>1, OthersCovered, SelfCovered
  <2> QED  BY <2>1, <2>2, JobPartsNext
<1>3. CASE UNCHANGED jobVars
  BY <1>3 DEF jobVars, LockInv, JobTypeOK, StoppedIsDrained
<1> QED  BY <1>1, <1>2, <1>3 DEF JobNext, ReplicaStep

\* The inductive invariant holds: a lock that is granted or in use is the
\* caller's own and outlives the caller's context.
THEOREM LockInvariant == JobSpec => []LockInv
<1> QED  BY JobInitInv, JobStepInv, PTL DEF JobSpec

\* A running job holds the key for longer than it runs (runSample under
\* TryLock, Extend and Unlock), whatever other replicas do.
THEOREM JobHoldsLock == JobSpec => []HeldWhileRunning
<1>1. LockInv => HeldWhileRunning
  BY DEF LockInv, HeldWhileRunning
<1> QED  BY <1>1, LockInvariant, PTL

\* The job never runs on two replicas at a time.
THEOREM JobsExclude == JobSpec => []MutualExclusion
<1>1. LockInv => MutualExclusion
  BY DEF LockInv, MutualExclusion
<1> QED  BY <1>1, LockInvariant, PTL

\* A runner that was reported stopped has no job (OnStop of scheduler.New).
THEOREM StopDrains == JobSpec => []StoppedIsDrained
<1>1. LockInv => StoppedIsDrained
  BY DEF LockInv
<1> QED  BY <1>1, LockInvariant, PTL
=============================================================================
