---------------------------- MODULE ScheduledJob ----------------------------
(***************************************************************************)
(* The cron job of internal/scheduler under the Redis lock of              *)
(* internal/cache/redis.go, on several replicas.                           *)
(*                                                                         *)
(* Time is counted in ticks.  The lock is a Redis key with a time to live  *)
(* and the owner's token; redsync (external) sets it only if it is absent, *)
(* and extends or deletes it only if the token is its own.  A command and  *)
(* its reply are separate steps, so a lock may be granted to a caller who  *)
(* never hears of it: the key is then an orphan until it expires.          *)
(***************************************************************************)
EXTENDS Integers

CONSTANTS
    Replicas,
    LockTTL,      \* ticks the key lives: a minute
    JobTimeout    \* ticks a job may take from its call of TryLock: 30 s; for a
                  \* job that extends its lock, the time up to Until

ASSUME TimesAssumption ==
    /\ LockTTL \in Nat
    /\ JobTimeout \in Nat
    /\ JobTimeout < LockTTL

NoOwner == "no owner"
Orphan == "orphan"

ASSUME OwnersAssumption == NoOwner \notin Replicas /\ Orphan \notin Replicas

VARIABLES
    locker,       \* whether Redis, and so a Locker, is configured
    lock,         \* the Redis key
    jobs,         \* the job of each replica, and the ticks left to its context
    runners       \* the cron runner of each replica

jobVars == <<locker, lock, jobs, runners>>

JobStages == {"idle", "trying", "granted", "running", "unlocking"}

Free == [owner |-> NoOwner, left |-> 0]

Idle == [stage |-> "idle", left |-> 0]

\* The key as the command of an owner leaves it.
Held(r) == [owner |-> r, left |-> LockTTL]

Move(r, stage) == jobs' = [jobs EXCEPT ![r].stage = stage]

End(r) == jobs' = [jobs EXCEPT ![r] = Idle]

JobInit ==
    /\ locker \in BOOLEAN
    /\ lock = Free
    /\ jobs = [r \in Replicas |-> Idle]
    /\ runners = [r \in Replicas |-> "off"]

-----------------------------------------------------------------------------
(* The runner *)

\* OnStart with cron.enabled.
Start(r) ==
    /\ runners[r] = "off"
    /\ runners' = [runners EXCEPT ![r] = "on"]
    /\ UNCHANGED <<locker, lock, jobs>>

\* The schedule fires.  SkipIfStillRunning: a tick of the schedule that finds
\* the previous run unfinished does nothing.
Fire(r) ==
    /\ runners[r] = "on"
    /\ jobs[r].stage = "idle"
    /\ jobs' = [jobs EXCEPT ![r] =
                    [stage |-> IF locker THEN "trying" ELSE "running",
                     left |-> JobTimeout]]
    /\ UNCHANGED <<locker, lock, runners>>

\* OnStop: runner.Stop lets no further run begin.
Stop(r) ==
    /\ runners[r] = "on"
    /\ runners' = [runners EXCEPT ![r] = "stopping"]
    /\ UNCHANGED <<locker, lock, jobs>>

\* The context that runner.Stop returns is done.
JobDone(r) == jobs[r].stage = "idle"

StopReturns(r) ==
    /\ runners[r] = "stopping"
    /\ JobDone(r)
    /\ runners' = [runners EXCEPT ![r] = "stopped"]
    /\ UNCHANGED <<locker, lock, jobs>>

\* The context of OnStop is done first; the process exits with the job.
StopGivesUp(r) ==
    /\ runners[r] = "stopping"
    /\ ~JobDone(r)
    /\ runners' = [runners EXCEPT ![r] = "off"]
    /\ End(r)
    /\ lock' = IF lock.owner = r THEN [lock EXCEPT !.owner = Orphan] ELSE lock
    /\ UNCHANGED locker

\* A stopped process is started again.
StartAgain(r) ==
    /\ runners[r] = "stopped"
    /\ runners' = [runners EXCEPT ![r] = "off"]
    /\ UNCHANGED <<locker, lock, jobs>>

\* The process dies; what it holds in Redis stays.
Crash(r) ==
    /\ runners[r] \in {"on", "stopping"}
    /\ runners' = [runners EXCEPT ![r] = "off"]
    /\ End(r)
    /\ lock' = IF lock.owner = r THEN [lock EXCEPT !.owner = Orphan] ELSE lock
    /\ UNCHANGED locker

-----------------------------------------------------------------------------
(* runSample *)

FaultyAbsent == TRUE

\* SET ... NX
Absent == lock.owner = NoOwner

\* TryLock: the command reaches Redis and takes the key.
TryLock(r) ==
    /\ jobs[r].stage = "trying"
    /\ Absent
    /\ lock' = Held(r)
    /\ Move(r, "granted")
    /\ UNCHANGED <<locker, runners>>

\* TryLock: contention.  The run is skipped.
TryLockTaken(r) ==
    /\ jobs[r].stage = "trying"
    /\ ~Absent
    /\ End(r)
    /\ UNCHANGED <<locker, lock, runners>>

\* TryLock fails: Redis is not reached, or the context is done.
TryLockFails(r) ==
    /\ jobs[r].stage = "trying"
    /\ End(r)
    /\ UNCHANGED <<locker, lock, runners>>

\* The context of the job is not done.
InTime(r) == jobs[r].left > 0

\* TryLock returns the lock, and the job runs.
Acquired(r) ==
    /\ jobs[r].stage = "granted"
    /\ InTime(r)
    /\ Move(r, "running")
    /\ UNCHANGED <<locker, lock, runners>>

\* The reply is lost or late: TryLock returns an error.  redsync tries to
\* delete the key again, which may fail as well.
AcquiredUnheard(r) ==
    /\ jobs[r].stage = "granted"
    /\ End(r)
    /\ \/ lock' = IF lock.owner = r THEN Free ELSE lock
       \/ lock' = IF lock.owner = r THEN [lock EXCEPT !.owner = Orphan] ELSE lock
    /\ UNCHANGED <<locker, runners>>

\* The token in Redis is the caller's.
Owned(r) == lock.owner = r

\* Extend, for jobs that outlive their lock; on failure the job stops.  The sample job
\* does not call it, so a behaviour with it is one more than the service has.
Extend(r) ==
    /\ locker
    /\ jobs[r].stage = "running"
    /\ \/ /\ Owned(r)
          /\ lock' = Held(r)
          /\ jobs' = [jobs EXCEPT ![r].left = JobTimeout]
       \/ /\ Move(r, "unlocking")
          /\ UNCHANGED lock
    /\ UNCHANGED <<locker, runners>>

\* The job returns or panics; the deferred Unlock is next.
Return(r) ==
    /\ jobs[r].stage = "running"
    /\ IF locker THEN Move(r, "unlocking") ELSE End(r)
    /\ UNCHANGED <<locker, lock, runners>>

\* Unlock, which may be slow: the key may have expired, or be another's.
Unlock(r) ==
    /\ jobs[r].stage = "unlocking"
    /\ lock' = IF Owned(r) THEN Free ELSE lock
    /\ End(r)
    /\ UNCHANGED <<locker, runners>>

\* Unlock fails, and the error is logged.
UnlockFails(r) ==
    /\ jobs[r].stage = "unlocking"
    /\ lock' = IF lock.owner = r THEN [lock EXCEPT !.owner = Orphan] ELSE lock
    /\ End(r)
    /\ UNCHANGED <<locker, runners>>

-----------------------------------------------------------------------------
(* Time *)

FaultyExpired == lock.left = 1 /\ lock.owner # Orphan

\* The key is in its last tick.
Expired == lock.left = 1

\* A job that runs does so within its context; a tick never finds one beyond it.
Tick ==
    /\ \A r \in Replicas : jobs[r].stage = "running" => InTime(r)
    /\ lock' = IF Expired THEN Free
               ELSE [lock EXCEPT !.left = IF @ > 0 THEN @ - 1 ELSE 0]
    /\ jobs' = [r \in Replicas |->
                  [jobs[r] EXCEPT !.left = IF @ > 0 THEN @ - 1 ELSE 0]]
    /\ UNCHANGED <<locker, runners>>

-----------------------------------------------------------------------------
JobNext ==
    \/ Tick
    \/ \E r \in Replicas :
          \/ Start(r) \/ Fire(r) \/ Stop(r) \/ StopReturns(r)
          \/ StopGivesUp(r) \/ StartAgain(r) \/ Crash(r)
          \/ TryLock(r) \/ TryLockTaken(r) \/ TryLockFails(r)
          \/ Acquired(r) \/ AcquiredUnheard(r)
          \/ Extend(r) \/ Return(r) \/ Unlock(r) \/ UnlockFails(r)

JobSpec == JobInit /\ [][JobNext]_jobVars

\* Time passes, jobs return, and calls to Redis end, at the latest with their
\* context.
FairJobSpec ==
    /\ JobSpec
    /\ WF_jobVars(Tick)
    /\ \A r \in Replicas :
         /\ WF_jobVars(Return(r))
         /\ WF_jobVars(AcquiredUnheard(r))
         /\ WF_jobVars(TryLockFails(r))
         /\ WF_jobVars(UnlockFails(r))

-----------------------------------------------------------------------------
(* Properties *)

\* The type invariant.  In particular the key is absent exactly when it has no
\* time to live, and a stopped runner is not restarted under a job.
JobTypeOK ==
    /\ locker \in BOOLEAN
    /\ lock \in [owner : Replicas \cup {NoOwner, Orphan}, left : 0 .. LockTTL]
    /\ (lock.owner = NoOwner) <=> (lock.left = 0)
    /\ jobs \in [Replicas -> [stage : JobStages, left : 0 .. JobTimeout]]
    /\ runners \in [Replicas -> {"off", "on", "stopping", "stopped"}]

\* Two replicas never run the job at the same time, though locks expire by
\* themselves, replies are lost, processes die and unlocks come late
\* (runSample, TryLock, Extend, Unlock).
MutualExclusion ==
    locker =>
        \A r, s \in Replicas :
            jobs[r].stage = "running" /\ jobs[s].stage = "running" => r = s

\* A running job holds the key, and the key outlives the job's context: a
\* neighbour's late Unlock does not delete it (Lock.Unlock compares tokens), and
\* the 30 seconds of the job are less than the minute of the key.
HeldWhileRunning ==
    locker =>
        \A r \in Replicas :
            jobs[r].stage = "running" =>
                lock.owner = r /\ jobs[r].left < lock.left

\* A runner whose stop was reported clean has no job left, so what is closed
\* after it is not in use by one (OnStop of scheduler.New).
StoppedIsDrained ==
    \A r \in Replicas : runners[r] = "stopped" => jobs[r].stage = "idle"

\* A key whose owner died, or never heard that it was granted, does not keep the
\* job from running for ever (newMutex sets an expiry).
OrphanExpires == (lock.owner = Orphan) ~> (lock.owner # Orphan)

\* The inductive invariant: also a lock just granted outlives the context of
\* the caller, who has not heard of it yet.
LockInv ==
    /\ JobTypeOK
    /\ locker =>
         \A r \in Replicas :
            /\ jobs[r].stage = "running" =>
                 lock.owner = r /\ jobs[r].left < lock.left
            /\ jobs[r].stage = "granted" /\ jobs[r].left > 0 =>
                 lock.owner = r /\ jobs[r].left < lock.left
    /\ ~locker => \A r \in Replicas : jobs[r].stage \in {"idle", "running"}
    /\ StoppedIsDrained
=============================================================================
