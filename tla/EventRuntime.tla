---------------------------- MODULE EventRuntime ----------------------------
(***************************************************************************)
(* The event runtime of internal/app/eventbus.go on several replicas: its  *)
(* start and stop, the goroutine that dispatches the outbox to the stream, *)
(* and the goroutine that deletes old published events.                    *)
(*                                                                         *)
(* The dispatcher, the cleaner, the outbox store and the bus are library   *)
(* types.  They are modelled from how the runtime uses and configures them *)
(* (batch size, lease, retry delay, retention, duplicate window, max age)  *)
(* and from the columns of config_outbox_events.                           *)
(*                                                                         *)
(* Time passes in ticks; only remaining waits and ages are kept.           *)
(***************************************************************************)
EXTENDS Integers, FiniteSets

CONSTANTS
    Events,         \* events that requests commit to the outbox
    Replicas,       \* processes
    BatchSize,      \* DispatchBatchSize
    Lease,          \* DispatchLease: how long a claim hides a row
    RetryDelay,     \* DispatchRetryDelay
    DuplicateWindow,\* how long the stream remembers an event's id
    MaxAge,         \* how long the stream keeps a message
    Retention,      \* PublishedRetention: how long a published row is kept
    MaxStops        \* bound on stops and crashes

\* What Config.Validate demands of an enabled event bus.
ASSUME ValidatedAssumption ==
    /\ BatchSize \in Nat \ {0} /\ Lease \in Nat \ {0} /\ RetryDelay \in Nat \ {0}
    /\ DuplicateWindow \in Nat \ {0} /\ MaxAge \in Nat \ {0}
    /\ Retention \in Nat /\ Retention >= MaxAge
    /\ MaxStops \in Nat

VARIABLES
    rows,           \* config_outbox_events: state, ticks until available, ticks
                    \* since published_at
    stream,         \* per event: copies received, ticks since the first one (up
                    \* to MaxAge), ticks the duplicate window stays closed
    runtimes,       \* configEventRuntime of each replica
    stops           \* stops and crashes so far

vars == <<rows, stream, runtimes, stops>>

Min(a, b) == IF a < b THEN a ELSE b

\* bus: the NATS connection.  A goroutine is "none" before start, then "idle" in
\* its select, "busy" in RunOnce, and "done".  claimed: rows of the batch that are
\* not finished; acked: those the stream has acknowledged and that are not marked.
New == [phase |-> "new", bus |-> "none", dispatcher |-> "none", cleaner |-> "none",
        claimed |-> {}, acked |-> {}]

Init ==
    /\ rows = [e \in Events |-> [state |-> "absent", wait |-> 0, age |-> 0]]
    /\ stream = [e \in Events |-> [copies |-> 0, age |-> 0, window |-> 0]]
    /\ runtimes = [r \in Replicas |-> New]
    /\ stops = 0

-----------------------------------------------------------------------------
(* The outbox and the clock *)

\* A transaction of the configuration service commits an event (AddOutbox).
Commit(e) ==
    /\ rows[e].state = "absent"
    /\ rows' = [rows EXCEPT ![e].state = "pending"]
    /\ UNCHANGED <<stream, runtimes, stops>>

\* A wait comes to its end and stays there.
Countdown(n) == IF n > 0 THEN n - 1 ELSE 0

Tick ==
    /\ rows' = [e \in Events |->
           [rows[e] EXCEPT
              !.wait = Countdown(@),
              !.age = IF rows[e].state = "published" THEN Min(@ + 1, Retention) ELSE @]]
    /\ stream' = [e \in Events |->
           [stream[e] EXCEPT
              !.age = IF stream[e].copies > 0 THEN Min(@ + 1, MaxAge) ELSE @,
              !.window = Countdown(@)]]
    /\ UNCHANGED <<runtimes, stops>>

-----------------------------------------------------------------------------
(* start and stop *)

\* start succeeds: the bus is connected and both goroutines run; each begins with
\* a RunOnce, which "idle" may enter at once.
Start(r) ==
    /\ runtimes[r].phase = "new"
    /\ runtimes' = [runtimes EXCEPT ![r] =
           [New EXCEPT !.phase = "running", !.bus = "open",
                       !.dispatcher = "idle", !.cleaner = "idle"]]
    /\ UNCHANGED <<rows, stream, stops>>

\* No store or no connection: no bus.  No dispatcher or cleaner: the bus is closed
\* again, no goroutine was started.
StartFails(r) ==
    /\ runtimes[r].phase = "new"
    /\ \E bus \in {"none", "closed"} :
         runtimes' = [runtimes EXCEPT ![r] = [New EXCEPT !.phase = "failed", !.bus = bus]]
    /\ UNCHANGED <<rows, stream, stops>>

\* stop cancels the goroutines' context ...
Stop(r) ==
    /\ runtimes[r].phase = "running" /\ stops < MaxStops
    /\ runtimes' = [runtimes EXCEPT ![r].phase = "stopping"]
    /\ stops' = stops + 1
    /\ UNCHANGED <<rows, stream>>

\* wg.Wait()
Waited(runtime) == runtime.dispatcher = "done" /\ runtime.cleaner = "done"

\* ... waits for them, whatever its own context says, and closes the bus.
StopReturns(r) ==
    /\ runtimes[r].phase = "stopping" /\ Waited(runtimes[r])
    /\ runtimes' = [runtimes EXCEPT ![r].phase = "stopped", ![r].bus = "closed"]
    /\ UNCHANGED <<rows, stream, stops>>

\* The process dies, at any point after start.
Crash(r) ==
    /\ runtimes[r].phase \in {"running", "stopping"} /\ stops < MaxStops
    /\ runtimes' = [runtimes EXCEPT ![r] = [New EXCEPT !.phase = "failed"]]
    /\ stops' = stops + 1
    /\ UNCHANGED <<rows, stream>>

\* The orchestrator starts a new process.
Restart(r) ==
    /\ runtimes[r].phase \in {"failed", "stopped"}
    /\ runtimes' = [runtimes EXCEPT ![r] = New]
    /\ UNCHANGED <<rows, stream, stops>>

-----------------------------------------------------------------------------
(* The dispatching goroutine *)

Cancelled(r) == runtimes[r].phase # "running"

Claimable(row) == row.state = "pending" /\ row.wait = 0

FaultyLeased(row) == [row EXCEPT !.wait = Lease, !.state = "published"]

Leased(row) == [row EXCEPT !.wait = Lease]

\* RunOnce claims a batch of due rows.
Claim(r) ==
    /\ runtimes[r].dispatcher = "idle" /\ ~Cancelled(r)
    /\ \E batch \in SUBSET {e \in Events : Claimable(rows[e])} :
         /\ batch # {} /\ Cardinality(batch) <= BatchSize
         /\ runtimes' = [runtimes EXCEPT ![r].dispatcher = "busy", ![r].claimed = batch]
         /\ rows' = [e \in Events |-> IF e \in batch THEN Leased(rows[e]) ELSE rows[e]]
    /\ UNCHANGED <<stream, stops>>

\* The stream drops an event whose id it remembers.  Copies beyond two are alike.
Received(s) ==
    IF s.window > 0 THEN s
    ELSE [s EXCEPT !.copies = Min(@ + 1, 2), !.window = DuplicateWindow]

\* Publishing is acknowledged.
Publish(r, e) ==
    /\ e \in runtimes[r].claimed \ runtimes[r].acked
    /\ stream' = [stream EXCEPT ![e] = Received(@)]
    /\ runtimes' = [runtimes EXCEPT ![r].acked = @ \cup {e}]
    /\ UNCHANGED <<rows, stops>>

\* The row is put back for RetryDelay, unless another replica has marked it.
PutBack(row) == IF row.state = "pending" THEN [row EXCEPT !.wait = RetryDelay] ELSE row

\* Publishing fails, or succeeds and the acknowledgement is lost or late.
PublishFails(r, e) ==
    /\ e \in runtimes[r].claimed \ runtimes[r].acked
    /\ \/ UNCHANGED stream
       \/ stream' = [stream EXCEPT ![e] = Received(@)]
    /\ rows' = [rows EXCEPT ![e] = PutBack(@)]
    /\ runtimes' = [runtimes EXCEPT ![r].claimed = @ \ {e}]
    /\ UNCHANGED stops

Finish(r, e) ==
    runtimes' = [runtimes EXCEPT ![r].claimed = @ \ {e}, ![r].acked = @ \ {e}]

\* The acknowledged row is marked published, once.
Mark(r, e) ==
    /\ e \in runtimes[r].acked
    /\ rows' = [rows EXCEPT ![e] =
           IF @.state = "pending" THEN [state |-> "published", wait |-> 0, age |-> 0] ELSE @]
    /\ Finish(r, e)
    /\ UNCHANGED <<stream, stops>>

\* The database refuses the mark: the row stays pending until its lease ends.
MarkFails(r, e) ==
    /\ e \in runtimes[r].acked
    /\ Finish(r, e)
    /\ UNCHANGED <<rows, stream, stops>>

FaultyAfterRunOnce(err) == IF err THEN "done" ELSE "idle"

\* An error of RunOnce is logged and the loop goes on.
AfterRunOnce(err) == "idle"

\* RunOnce returns: the batch is finished, or its context has been cancelled.
RunOnceReturns(r) ==
    /\ runtimes[r].dispatcher = "busy"
    /\ runtimes[r].claimed = {} \/ Cancelled(r)
    /\ \E err \in BOOLEAN :
         runtimes' = [runtimes EXCEPT ![r].dispatcher = AfterRunOnce(err),
                                      ![r].claimed = {}, ![r].acked = {}]
    /\ UNCHANGED <<rows, stream, stops>>

FaultyDone(r) == FALSE

\* case <-runCtx.Done()
Done(r) == Cancelled(r)

DispatcherExits(r) ==
    /\ runtimes[r].dispatcher = "idle" /\ Done(r)
    /\ runtimes' = [runtimes EXCEPT ![r].dispatcher = "done"]
    /\ UNCHANGED <<rows, stream, stops>>

-----------------------------------------------------------------------------
(* The cleaning goroutine *)

FaultyCleanable(row) == row.state = "published" /\ row.age >= Min(Lease, Retention)

\* The cleaner of the platform library deletes what has been published for longer
\* than the retention it is given.
Cleanable(row) == row.state = "published" /\ row.age >= Retention

\* RunOnce deletes a batch of old published rows, in one statement; or fails.
Clean(r) ==
    /\ runtimes[r].cleaner = "idle" /\ ~Cancelled(r)
    /\ \/ /\ \E batch \in SUBSET {e \in Events : Cleanable(rows[e])} :
               /\ batch # {}
               /\ rows' = [e \in Events |->
                      IF e \in batch THEN [rows[e] EXCEPT !.state = "deleted"] ELSE rows[e]]
          /\ runtimes' = [runtimes EXCEPT ![r].cleaner = AfterRunOnce(FALSE)]
       \/ /\ runtimes' = [runtimes EXCEPT ![r].cleaner = AfterRunOnce(TRUE)]
          /\ UNCHANGED rows
    /\ UNCHANGED <<stream, stops>>

CleanerExits(r) ==
    /\ runtimes[r].cleaner = "idle" /\ Done(r)
    /\ runtimes' = [runtimes EXCEPT ![r].cleaner = "done"]
    /\ UNCHANGED <<rows, stream, stops>>

-----------------------------------------------------------------------------

Dispatch(r, e) == Publish(r, e) \/ PublishFails(r, e) \/ Mark(r, e) \/ MarkFails(r, e)

Runtime(r) ==
    \/ Start(r) \/ StartFails(r) \/ Stop(r) \/ StopReturns(r) \/ Crash(r) \/ Restart(r)
    \/ Claim(r) \/ RunOnceReturns(r) \/ DispatcherExits(r) \/ Clean(r) \/ CleanerExits(r)

Next ==
    \/ \E e \in Events : Commit(e)
    \/ Tick
    \/ \E r \in Replicas : Runtime(r)
    \/ \E r \in Replicas, e \in Events : Dispatch(r, e)

Deletes(r) == Clean(r) /\ rows' # rows

\* Time passes, the tickers fire and the goroutines run; RunOnce returns once its
\* batch is through or its context is cancelled; a process that is down is started
\* again.  Strong fairness where the environment may fail: a start, a publication,
\* a mark and a cleaning that are possible again and again succeed in the end.
Fairness ==
    /\ WF_vars(Tick)
    /\ \A r \in Replicas :
         /\ WF_vars(Restart(r)) /\ WF_vars(StopReturns(r))
         /\ WF_vars(RunOnceReturns(r)) /\ WF_vars(DispatcherExits(r)) /\ WF_vars(CleanerExits(r))
         /\ SF_vars(Start(r)) /\ SF_vars(Claim(r)) /\ SF_vars(Deletes(r))
         /\ \A e \in Events : SF_vars(Publish(r, e)) /\ SF_vars(Mark(r, e))

Spec == Init /\ [][Next]_vars

FairSpec == Spec /\ Fairness

-----------------------------------------------------------------------------
(* Properties *)

RowStates == {"absent", "pending", "published", "deleted"}
Phases == {"new", "running", "stopping", "stopped", "failed"}

\* The type invariant.
TypeOK ==
    /\ rows \in [Events -> [state : RowStates, wait : Nat, age : Nat]]
    /\ stream \in [Events -> [copies : 0 .. 2, age : 0 .. MaxAge, window : Nat]]
    /\ runtimes \in [Replicas -> [phase : Phases, bus : {"none", "open", "closed"},
            dispatcher : {"none", "idle", "busy", "done"},
            cleaner : {"none", "idle", "done"},
            claimed : SUBSET Events, acked : SUBSET Events]]
    /\ stops \in Nat

\* An event is only marked published, and only deleted, when the stream has
\* received it, through crashes, lost acknowledgements, expired leases and
\* replicas that work on the same rows (dispatch and clean-up loops of start).
NoEventLost ==
    \A e \in Events :
        rows[e].state \in {"published", "deleted"} => stream[e].copies > 0

\* A row is deleted only when the stream has kept the message for its whole
\* MaxAge: until then it can be found in the table, because published_retention
\* is at least max_age and is counted from the mark.
DeletedAfterStream ==
    \A e \in Events : rows[e].state = "deleted" => stream[e].age = MaxAge

\* No goroutine works on a bus that is closed, in stop and in a failed start: stop
\* closes it only after both goroutines have ended.
NoUseAfterClose ==
    \A r \in Replicas :
        runtimes[r].dispatcher \in {"idle", "busy"} \/ runtimes[r].cleaner = "idle" =>
            runtimes[r].bus = "open"

\* A goroutine holds claims only inside RunOnce, and no event counts as
\* acknowledged that the stream has not received.
ClaimsAreBacked ==
    \A r \in Replicas :
        /\ runtimes[r].acked \subseteq runtimes[r].claimed
        /\ runtimes[r].claimed # {} => runtimes[r].dispatcher = "busy"
        /\ \A e \in runtimes[r].acked : stream[e].copies > 0

\* The inductive invariant.  A row is claimed only after it was committed; and the
\* stream has kept an event for at least as long as its row has been published, and
\* remembers only ids of events it has.
EventInv ==
    /\ TypeOK
    /\ \A r \in Replicas :
         /\ runtimes[r].dispatcher \in {"idle", "busy"} \/ runtimes[r].cleaner = "idle" =>
              runtimes[r].bus = "open"
         /\ runtimes[r].acked \subseteq runtimes[r].claimed
         /\ runtimes[r].claimed # {} => runtimes[r].dispatcher = "busy"
         /\ \A e \in runtimes[r].acked : stream[e].copies > 0
         /\ \A e \in runtimes[r].claimed : rows[e].state # "absent"
    /\ \A e \in Events :
         /\ stream[e].window > 0 => stream[e].copies > 0
         /\ rows[e].state \in {"published", "deleted"} => stream[e].copies > 0
         /\ rows[e].state = "published" =>
              stream[e].age = MaxAge \/ rows[e].age <= stream[e].age
         /\ rows[e].state = "deleted" => stream[e].age = MaxAge

\* The outbox implements at-least-once delivery.
Delivery == INSTANCE EventDelivery WITH
    committed <- {e \in Events : rows[e].state # "absent"},
    delivered <- {e \in Events : stream[e].copies > 0},
    forgotten <- {e \in Events : rows[e].state = "deleted"}

\* Every committed event reaches the stream, nothing else does, and a row is only
\* forgotten after that: the abstract EventDelivery with its liveness, through
\* stops, crashes and lost acknowledgements.
ImplementsDelivery == Delivery!Spec

\* The safety part of it, for which no fairness is needed.
ImplementsDeliverySafety == Delivery!Safety

\* A published row is deleted in the end: the table does not grow for ever.
EventuallyCleaned ==
    \A e \in Events : rows[e].state = "published" ~> rows[e].state = "deleted"

\* stop returns, although it waits for the goroutines without a deadline, if
\* RunOnce returns when its context is cancelled.
StopTerminates ==
    \A r \in Replicas : runtimes[r].phase = "stopping" ~> runtimes[r].phase # "stopping"
=============================================================================
