------------------------- MODULE EventRuntimeProofs -------------------------
(***************************************************************************)
(* The outbox loses no event and implements EventDelivery, for any number  *)
(* of events and replicas and any validated settings.                      *)
(***************************************************************************)
EXTENDS EventRuntime, TLAPS

Row == [state : RowStates, wait : Nat, age : Nat]
StreamEntry == [copies : 0 .. 2, age : 0 .. MaxAge, window : Nat]
RuntimeState ==
    [phase : Phases, bus : {"none", "open", "closed"},
     dispatcher : {"none", "idle", "busy", "done"},
     cleaner : {"none", "idle", "done"},
     claimed : SUBSET Events, acked : SUBSET Events]

\* The invariant of one replica, and of one event.
RuntimeOK(r) ==
    /\ runtimes[r].dispatcher \in {"idle", "busy"} \/ runtimes[r].cleaner = "idle" =>
         runtimes[r].bus = "open"
    /\ runtimes[r].acked \subseteq runtimes[r].claimed
    /\ runtimes[r].claimed # {} => runtimes[r].dispatcher = "busy"
    /\ \A e \in runtimes[r].acked : stream[e].copies > 0
    /\ \A e \in runtimes[r].claimed : rows[e].state # "absent"

EventOK(e) ==
    /\ stream[e].window > 0 => stream[e].copies > 0
    /\ rows[e].state \in {"published", "deleted"} => stream[e].copies > 0
    /\ rows[e].state = "published" => stream[e].age = MaxAge \/ rows[e].age <= stream[e].age
    /\ rows[e].state = "deleted" => stream[e].age = MaxAge

LEMMA InvParts ==
    EventInv <=> /\ TypeOK
                 /\ \A r \in Replicas : RuntimeOK(r)
                 /\ \A e \in Events : EventOK(e)
BY DEF EventInv, RuntimeOK, EventOK

LEMMA InvPartsNext ==
    EventInv' <=> /\ TypeOK'
                  /\ \A r \in Replicas : RuntimeOK(r)'
                  /\ \A e \in Events : EventOK(e)'
BY DEF EventInv, RuntimeOK, EventOK

LEMMA TypeParts ==
    TypeOK <=> /\ rows \in [Events -> Row] /\ stream \in [Events -> StreamEntry]
               /\ runtimes \in [Replicas -> RuntimeState] /\ stops \in Nat
BY DEF TypeOK, Row, StreamEntry, RuntimeState

LEMMA TypePartsNext ==
    TypeOK' <=> /\ rows' \in [Events -> Row] /\ stream' \in [Events -> StreamEntry]
                /\ runtimes' \in [Replicas -> RuntimeState] /\ stops' \in Nat
BY DEF TypeOK, Row, StreamEntry, RuntimeState

LEMMA NewType == New \in RuntimeState
BY DEF New, RuntimeState, Phases

LEMMA InitInv == Init => EventInv
<1> SUFFICES ASSUME Init PROVE EventInv
  OBVIOUS
<1>1. rows \in [Events -> Row]
  BY DEF Init, Row, RowStates
<1>2. stream \in [Events -> StreamEntry]
  BY ValidatedAssumption DEF Init, StreamEntry
<1>3. runtimes \in [Replicas -> RuntimeState] /\ stops \in Nat
  BY NewType DEF Init
<1>4. \A r \in Replicas : RuntimeOK(r)
  BY DEF Init, New, RuntimeOK
<1>5. \A e \in Events : EventOK(e)
  BY DEF Init, EventOK
<1> QED  BY <1>1, <1>2, <1>3, <1>4, <1>5, InvParts, TypeParts

\* What the stream has received stays received, and no row is uncommitted.
Grows ==
    \A e \in Events : /\ stream[e].copies > 0 => stream'[e].copies > 0
                      /\ rows[e].state # "absent" => rows'[e].state # "absent"

LEMMA OthersOK ==
    ASSUME TypeOK, Grows, NEW r \in Replicas, runtimes'[r] = runtimes[r], RuntimeOK(r)
    PROVE  RuntimeOK(r)'
<1>1. runtimes[r].claimed \subseteq Events /\ runtimes[r].acked \subseteq Events
  BY TypeParts DEF RuntimeState
<1> QED  BY <1>1 DEF RuntimeOK, Grows

\* A step that changes one runtime and neither rows nor stream.
LEMMA RuntimeStep ==
    ASSUME EventInv, NEW r \in Replicas, NEW rt \in RuntimeState,
           runtimes' = [runtimes EXCEPT ![r] = rt],
           rows' = rows, stream' = stream, stops' \in Nat, RuntimeOK(r)'
    PROVE  EventInv'
<1>a. TypeOK /\ (\A q \in Replicas : RuntimeOK(q)) /\ \A e \in Events : EventOK(e)
  BY InvParts
<1>1. TypeOK'
  BY <1>a, TypeParts, TypePartsNext
<1>2. \A q \in Replicas \ {r} : runtimes'[q] = runtimes[q]
  BY <1>a, TypeParts
<1>3. Grows
  BY DEF Grows
<1>4. \A q \in Replicas : RuntimeOK(q)'
  BY <1>a, <1>2, <1>3, OthersOK
<1>5. \A e \in Events : EventOK(e)'
  BY <1>a DEF EventOK
<1> QED  BY <1>1, <1>4, <1>5, InvPartsNext

LEMMA LifecycleInv ==
    ASSUME EventInv, NEW r \in Replicas,
           \/ Start(r) \/ StartFails(r) \/ Stop(r) \/ StopReturns(r) \/ Crash(r)
           \/ Restart(r) \/ RunOnceReturns(r) \/ DispatcherExits(r) \/ CleanerExits(r)
    PROVE  EventInv'
<1>a. TypeOK /\ (\A q \in Replicas : RuntimeOK(q)) /\ stops \in Nat
  BY InvParts, TypeParts
<1>b. PICK q \in RuntimeState : q = runtimes[r]
  BY <1>a, TypeParts
<1>c. RuntimeOK(r)
  BY <1>a
<1>d. runtimes \in [Replicas -> RuntimeState]
  BY <1>a, TypeParts
<1>1. CASE Start(r)
  <2> DEFINE rt == [New EXCEPT !.phase = "running", !.bus = "open",
                               !.dispatcher = "idle", !.cleaner = "idle"]
  <2>1. rt \in RuntimeState /\ rt.bus = "open" /\ rt.claimed = {} /\ rt.acked = {}
    BY NewType DEF New, RuntimeState, Phases
  <2>2. runtimes' = [runtimes EXCEPT ![r] = rt] /\ runtimes'[r] = rt
    BY <1>1, <1>d DEF Start
  <2>3. RuntimeOK(r)'
    BY <2>1, <2>2 DEF RuntimeOK
  <2> HIDE DEF rt
  <2> QED  BY <1>1, <1>a, <2>1, <2>2, <2>3, RuntimeStep DEF Start
<1>2. CASE StartFails(r)
  <2>1. PICK bus \in {"none", "closed"} :
            runtimes' = [runtimes EXCEPT ![r] = [New EXCEPT !.phase = "failed", !.bus = bus]]
    BY <1>2 DEF StartFails
  <2> DEFINE rt == [New EXCEPT !.phase = "failed", !.bus = bus]
  <2>2. /\ rt \in RuntimeState /\ rt.claimed = {} /\ rt.acked = {}
        /\ rt.dispatcher = "none" /\ rt.cleaner = "none"
    BY NewType DEF New, RuntimeState, Phases
  <2>3. RuntimeOK(r)'
    BY <1>d, <2>1, <2>2 DEF RuntimeOK
  <2>4. runtimes' = [runtimes EXCEPT ![r] = rt]
    BY <2>1
  <2>5. rows' = rows /\ stream' = stream /\ stops' \in Nat
    BY <1>2, <1>a DEF StartFails
  <2> HIDE DEF rt
  <2> QED  BY <2>2, <2>3, <2>4, <2>5, RuntimeStep
<1>3. CASE Stop(r)
  <2> DEFINE rt == [q EXCEPT !.phase = "stopping"]
  <2>1. rt \in RuntimeState
    BY DEF RuntimeState, Phases
  <2>2. runtimes' = [runtimes EXCEPT ![r] = rt]
    BY <1>3, <1>b, <1>d DEF Stop
  <2>3. RuntimeOK(r)'
    BY <1>3, <1>b, <1>c, <1>d, <2>2 DEF RuntimeOK, Stop, RuntimeState
  <2>4. rows' = rows /\ stream' = stream /\ stops' \in Nat
    BY <1>3, <1>a DEF Stop
  <2> HIDE DEF rt
  <2> QED  BY <2>1, <2>2, <2>3, <2>4, RuntimeStep
<1>4. CASE StopReturns(r)
  <2> DEFINE rt == [q EXCEPT !.phase = "stopped", !.bus = "closed"]
  <2>1. rt \in RuntimeState
    BY DEF RuntimeState, Phases
  <2>2. runtimes' = [runtimes EXCEPT ![r] = rt]
    BY <1>4, <1>b, <1>d DEF StopReturns
  <2>3. RuntimeOK(r)'
    BY <1>4, <1>b, <1>c, <1>d, <2>2 DEF RuntimeOK, StopReturns, Waited, RuntimeState
  <2> HIDE DEF rt
  <2> QED  BY <1>4, <1>a, <2>1, <2>2, <2>3, RuntimeStep DEF StopReturns
<1>5. CASE Crash(r) \/ Restart(r)
  <2>1. PICK phase \in {"new", "failed"} :
            runtimes' = [runtimes EXCEPT ![r] = [New EXCEPT !.phase = phase]]
    <3>1. New = [New EXCEPT !.phase = "new"]
      BY DEF New
    <3> QED  BY <1>5, <3>1 DEF Crash, Restart
  <2> DEFINE rt == [New EXCEPT !.phase = phase]
  <2>2. /\ rt \in RuntimeState /\ rt.claimed = {} /\ rt.acked = {}
        /\ rt.dispatcher = "none" /\ rt.cleaner = "none"
    BY NewType DEF New, RuntimeState, Phases
  <2>3. RuntimeOK(r)'
    BY <1>d, <2>1, <2>2 DEF RuntimeOK
  <2>4. runtimes' = [runtimes EXCEPT ![r] = rt]
    BY <2>1
  <2>5. rows' = rows /\ stream' = stream /\ stops' \in Nat
    BY <1>5, <1>a DEF Crash, Restart
  <2> HIDE DEF rt
  <2> QED  BY <2>2, <2>3, <2>4, <2>5, RuntimeStep
<1>6. CASE RunOnceReturns(r)
  <2> DEFINE rt == [q EXCEPT !.dispatcher = "idle", !.claimed = {}, !.acked = {}]
  <2>1. rt \in RuntimeState
    BY DEF RuntimeState
  <2>2. runtimes' = [runtimes EXCEPT ![r] = rt]
    BY <1>6, <1>b, <1>d DEF RunOnceReturns, AfterRunOnce
  <2>3. RuntimeOK(r)'
    BY <1>6, <1>b, <1>c, <1>d, <2>2 DEF RuntimeOK, RunOnceReturns, RuntimeState
  <2> HIDE DEF rt
  <2> QED  BY <1>6, <1>a, <2>1, <2>2, <2>3, RuntimeStep DEF RunOnceReturns
<1>7. CASE DispatcherExits(r)
  <2> DEFINE rt == [q EXCEPT !.dispatcher = "done"]
  <2>1. rt \in RuntimeState
    BY DEF RuntimeState
  <2>2. runtimes' = [runtimes EXCEPT ![r] = rt]
    BY <1>7, <1>b, <1>d DEF DispatcherExits
  <2>3. RuntimeOK(r)'
    BY <1>7, <1>b, <1>c, <1>d, <2>2 DEF RuntimeOK, DispatcherExits, RuntimeState
  <2> HIDE DEF rt
  <2> QED  BY <1>7, <1>a, <2>1, <2>2, <2>3, RuntimeStep DEF DispatcherExits
<1>8. CASE CleanerExits(r)
  <2> DEFINE rt == [q EXCEPT !.cleaner = "done"]
  <2>1. rt \in RuntimeState
    BY DEF RuntimeState
  <2>2. runtimes' = [runtimes EXCEPT ![r] = rt]
    BY <1>8, <1>b, <1>d DEF CleanerExits
  <2>3. RuntimeOK(r)'
    BY <1>8, <1>b, <1>c, <1>d, <2>2 DEF RuntimeOK, CleanerExits, RuntimeState
  <2> HIDE DEF rt
  <2> QED  BY <1>8, <1>a, <2>1, <2>2, <2>3, RuntimeStep DEF CleanerExits
<1> QED  BY <1>1, <1>2, <1>3, <1>4, <1>5, <1>6, <1>7, <1>8

\* A step that changes rows and stream, and at most one runtime: what is left to
\* show is that each event, and that runtime, are as they should be.
LEMMA EventStep ==
    ASSUME EventInv, TypeOK', Grows, stops' = stops,
           NEW r \in Replicas, \A q \in Replicas \ {r} : runtimes'[q] = runtimes[q],
           RuntimeOK(r)', \A e \in Events : EventOK(e)'
    PROVE  EventInv'
<1>a. TypeOK /\ \A q \in Replicas : RuntimeOK(q)
  BY InvParts
<1>1. \A q \in Replicas : RuntimeOK(q)'
  BY <1>a, OthersOK
<1> QED  BY <1>1, InvPartsNext

LEMMA CommitInv ==
    ASSUME EventInv, NEW e \in Events, Commit(e)
    PROVE  EventInv'
<1>a. TypeOK /\ (\A q \in Replicas : RuntimeOK(q)) /\ \A f \in Events : EventOK(f)
  BY InvParts
<1>b. rows \in [Events -> Row] /\ rows' = [rows EXCEPT ![e] = [rows[e] EXCEPT !.state = "pending"]]
  BY <1>a, TypeParts DEF Commit
<1>c. [rows[e] EXCEPT !.state = "pending"] \in Row
  BY <1>b DEF Row, RowStates
<1>1. TypeOK'
  BY <1>a, <1>b, <1>c, TypeParts, TypePartsNext DEF Commit
<1>2. rows'[e].state = "pending" /\ \A f \in Events \ {e} : rows'[f] = rows[f]
  BY <1>b DEF Row
<1>3. Grows
  BY <1>2 DEF Grows, Commit
<1>4. \A f \in Events : EventOK(f)'
  BY <1>a, <1>2 DEF EventOK, Commit
<1>5. \A q \in Replicas : RuntimeOK(q)'
  BY <1>a, <1>3, OthersOK DEF Commit
<1> QED  BY <1>1, <1>4, <1>5, InvPartsNext

\* The clock: the age of the stream's copy goes on with the age of the row.
LEMMA TickInv ==
    ASSUME EventInv, Tick
    PROVE  EventInv'
<1> USE ValidatedAssumption
<1>a. TypeOK /\ (\A q \in Replicas : RuntimeOK(q)) /\ \A e \in Events : EventOK(e)
  BY InvParts
<1>b. rows \in [Events -> Row] /\ stream \in [Events -> StreamEntry]
  BY <1>a, TypeParts
<1>1. ASSUME NEW e \in Events
      PROVE  /\ rows'[e] \in Row /\ stream'[e] \in StreamEntry
             /\ rows'[e].state = rows[e].state /\ stream'[e].copies = stream[e].copies
             /\ EventOK(e)'
  <2>1. /\ rows[e] \in Row /\ rows[e].wait \in Nat /\ rows[e].age \in Nat
        /\ stream[e] \in StreamEntry /\ stream[e].window \in Nat
        /\ stream[e].age \in 0 .. MaxAge /\ stream[e].copies \in 0 .. 2
    BY <1>b DEF Row, StreamEntry
  <2>2. rows'[e] = [rows[e] EXCEPT
              !.wait = Countdown(@),
              !.age = IF rows[e].state = "published" THEN Min(@ + 1, Retention) ELSE @]
    BY DEF Tick
  <2>3. stream'[e] = [stream[e] EXCEPT
              !.age = IF stream[e].copies > 0 THEN Min(@ + 1, MaxAge) ELSE @,
              !.window = Countdown(@)]
    BY DEF Tick
  <2>4. Countdown(rows[e].wait) \in Nat /\ Countdown(stream[e].window) \in Nat
    BY <2>1 DEF Countdown
  <2>5. /\ (IF rows[e].state = "published" THEN Min(rows[e].age + 1, Retention) ELSE rows[e].age) \in Nat
        /\ (IF stream[e].copies > 0 THEN Min(stream[e].age + 1, MaxAge) ELSE stream[e].age) \in 0 .. MaxAge
    BY <2>1 DEF Min
  <2>6. /\ rows'[e] \in Row /\ rows'[e].state = rows[e].state
        /\ rows'[e].age = IF rows[e].state = "published" THEN Min(rows[e].age + 1, Retention) ELSE rows[e].age
    BY <2>1, <2>2, <2>4, <2>5 DEF Row
  <2>7. /\ stream'[e] \in StreamEntry /\ stream'[e].copies = stream[e].copies
        /\ stream'[e].window = Countdown(stream[e].window)
        /\ stream'[e].age = IF stream[e].copies > 0 THEN Min(stream[e].age + 1, MaxAge) ELSE stream[e].age
    BY <2>1, <2>3, <2>4, <2>5 DEF StreamEntry
  <2>8. EventOK(e)
    BY <1>a
  <2>9. EventOK(e)'
    BY <2>1, <2>6, <2>7, <2>8 DEF EventOK, Min, Countdown
  <2> QED  BY <2>6, <2>7, <2>9
<1>2. rows' \in [Events -> Row] /\ stream' \in [Events -> StreamEntry]
  <2>1. rows' = [e \in Events |-> rows'[e]] /\ stream' = [e \in Events |-> stream'[e]]
    BY DEF Tick
  <2> QED  BY <1>1, <2>1
<1>3. TypeOK'
  BY <1>a, <1>2, TypeParts, TypePartsNext DEF Tick
<1>4. Grows
  BY <1>1 DEF Grows
<1>5. \A q \in Replicas : RuntimeOK(q)'
  BY <1>a, <1>4, OthersOK DEF Tick
<1> QED  BY <1>1, <1>3, <1>5, InvPartsNext

\* A claim hides a row and changes nothing else about it.
LEMMA ClaimInv ==
    ASSUME EventInv, NEW r \in Replicas, Claim(r)
    PROVE  EventInv'
<1> USE ValidatedAssumption
<1>a. TypeOK /\ (\A q \in Replicas : RuntimeOK(q)) /\ \A e \in Events : EventOK(e)
  BY InvParts
<1>b. rows \in [Events -> Row] /\ runtimes \in [Replicas -> RuntimeState]
  BY <1>a, TypeParts
<1>1. PICK batch \in SUBSET {e \in Events : Claimable(rows[e])} :
         /\ runtimes' = [runtimes EXCEPT ![r].dispatcher = "busy", ![r].claimed = batch]
         /\ rows' = [e \in Events |-> IF e \in batch THEN Leased(rows[e]) ELSE rows[e]]
  BY DEF Claim
<1>2. \A e \in Events : /\ rows'[e] \in Row /\ rows'[e].state = rows[e].state
                        /\ rows'[e].age = rows[e].age
  <2> SUFFICES ASSUME NEW e \in Events
               PROVE  /\ rows'[e] \in Row /\ rows'[e].state = rows[e].state
                      /\ rows'[e].age = rows[e].age
    OBVIOUS
  <2>1. rows[e] \in Row
    BY <1>b
  <2>2. /\ Leased(rows[e]) \in Row /\ Leased(rows[e]).state = rows[e].state
        /\ Leased(rows[e]).age = rows[e].age
    BY <2>1 DEF Leased, Row
  <2> QED  BY <1>1, <2>1, <2>2
<1>c. PICK q \in RuntimeState : q = runtimes[r]
  BY <1>b
<1> DEFINE rt == [q EXCEPT !.dispatcher = "busy", !.claimed = batch]
<1>3. rt \in RuntimeState /\ rt.claimed = batch /\ rt.dispatcher = "busy"
      /\ rt.bus = q.bus /\ rt.acked = q.acked
  BY DEF RuntimeState
<1>4. runtimes' = [runtimes EXCEPT ![r] = rt]
  BY <1>1, <1>b, <1>c
<1> HIDE DEF rt
<1>5. TypeOK'
  <2>1. rows' \in [Events -> Row]
    BY <1>1, <1>2
  <2> QED  BY <1>a, <1>b, <1>3, <1>4, <2>1, TypeParts, TypePartsNext DEF Claim
<1>6. Grows
  BY <1>2 DEF Grows, Claim
<1>7. RuntimeOK(r)'
  <2>1. q.dispatcher = "idle" /\ q.bus = "open" /\ q.claimed = {} /\ q.acked = {}
    BY <1>a, <1>c DEF Claim, RuntimeOK
  <2>2. \A e \in batch : rows'[e].state # "absent"
    BY <1>1, <1>2 DEF Claimable
  <2>3. runtimes'[r] = rt
    BY <1>b, <1>4
  <2> QED  BY <1>3, <2>1, <2>2, <2>3 DEF RuntimeOK
<1>8. \A e \in Events : EventOK(e)'
  BY <1>a, <1>2 DEF EventOK, Claim
<1>9. \A p \in Replicas \ {r} : runtimes'[p] = runtimes[p]
  BY <1>b, <1>4
<1> QED  BY <1>5, <1>6, <1>7, <1>8, <1>9, EventStep DEF Claim

\* What the stream makes of an event: it has a copy afterwards, and an event
\* it has had before keeps its age.
LEMMA ReceivedType ==
    ASSUME NEW s \in StreamEntry
    PROVE  Received(s) \in StreamEntry /\ Received(s).age = s.age
           /\ (s.window > 0 \/ Received(s).copies > 0) /\ (s.copies > 0 => Received(s).copies > 0)
<1>1. s.copies \in 0 .. 2 /\ Min(s.copies + 1, 2) \in 0 .. 2 /\ Min(s.copies + 1, 2) > 0
  BY DEF StreamEntry, Min
<1> QED  BY <1>1, ValidatedAssumption DEF StreamEntry, Received

\* A copy reaches the stream: rows are as before, or one is put back.
LEMMA DeliveryStep ==
    ASSUME EventInv, NEW r \in Replicas, NEW e \in Events, NEW rt \in RuntimeState,
           NEW row \in Row, NEW s \in {stream[e], Received(stream[e])},
           runtimes' = [runtimes EXCEPT ![r] = rt],
           rows' = [rows EXCEPT ![e] = row], stream' = [stream EXCEPT ![e] = s],
           stops' = stops,
           row.state = rows[e].state, row.age = rows[e].age,
           RuntimeOK(r)'
    PROVE  EventInv'
<1>a. TypeOK /\ (\A q \in Replicas : RuntimeOK(q)) /\ \A f \in Events : EventOK(f)
  BY InvParts
<1>b. /\ rows \in [Events -> Row] /\ stream \in [Events -> StreamEntry]
      /\ runtimes \in [Replicas -> RuntimeState] /\ stops \in Nat
  BY <1>a, TypeParts
<1>c. EventOK(e) /\ stream[e] \in StreamEntry
  BY <1>a, <1>b
<1>1. /\ s \in StreamEntry /\ s.age = stream[e].age
      /\ stream[e].copies > 0 => s.copies > 0
      /\ s.window > 0 => s.copies > 0
  BY <1>c, ReceivedType DEF EventOK
<1>2. TypeOK'
  BY <1>b, <1>1, TypePartsNext
<1>3. /\ rows'[e] = row /\ stream'[e] = s
      /\ \A f \in Events \ {e} : rows'[f] = rows[f] /\ stream'[f] = stream[f]
      /\ \A q \in Replicas \ {r} : runtimes'[q] = runtimes[q]
  BY <1>b
<1>4. Grows
  BY <1>1, <1>3 DEF Grows
<1>5. \A f \in Events : EventOK(f)'
  BY <1>a, <1>1, <1>3 DEF EventOK
<1> QED  BY <1>2, <1>3, <1>4, <1>5, EventStep

LEMMA PublishInv ==
    ASSUME EventInv, NEW r \in Replicas, NEW e \in Events, Publish(r, e)
    PROVE  EventInv'
<1>a. TypeOK /\ (\A q \in Replicas : RuntimeOK(q)) /\ \A f \in Events : EventOK(f)
  BY InvParts
<1>b. /\ rows \in [Events -> Row] /\ stream \in [Events -> StreamEntry]
      /\ runtimes \in [Replicas -> RuntimeState] /\ rows[e] \in Row /\ stream[e] \in StreamEntry
  BY <1>a, TypeParts
<1>c. PICK q \in RuntimeState : q = runtimes[r]
  BY <1>b
<1> DEFINE rt == [q EXCEPT !.acked = @ \cup {e}]
<1>1. /\ rt \in RuntimeState /\ rt.acked = q.acked \cup {e} /\ rt.claimed = q.claimed
      /\ rt.dispatcher = q.dispatcher /\ rt.cleaner = q.cleaner /\ rt.bus = q.bus
  BY DEF RuntimeState
<1>2. runtimes' = [runtimes EXCEPT ![r] = rt] /\ runtimes'[r] = rt
  BY <1>b, <1>c DEF Publish
<1>3. /\ stream' = [stream EXCEPT ![e] = Received(stream[e])]
      /\ rows' = [rows EXCEPT ![e] = rows[e]] /\ rows' = rows /\ stops' = stops
  BY <1>b DEF Publish
<1>4. Received(stream[e]).copies > 0
  BY <1>a, <1>b, ReceivedType DEF EventOK
<1> HIDE DEF rt
<1>5. RuntimeOK(r)'
  <2>1. RuntimeOK(r) /\ e \in q.claimed /\ q.claimed \subseteq Events
    BY <1>a, <1>c DEF Publish, RuntimeState
  <2>2. \A f \in rt.acked : stream'[f].copies > 0
    BY <1>b, <1>c, <1>1, <1>3, <1>4, <2>1 DEF RuntimeOK
  <2> QED  BY <1>c, <1>1, <1>2, <1>3, <2>1, <2>2 DEF RuntimeOK
<1> QED  BY <1>b, <1>1, <1>2, <1>3, <1>5, DeliveryStep

LEMMA PublishFailsInv ==
    ASSUME EventInv, NEW r \in Replicas, NEW e \in Events, PublishFails(r, e)
    PROVE  EventInv'
<1>a. TypeOK /\ (\A q \in Replicas : RuntimeOK(q)) /\ \A f \in Events : EventOK(f)
  BY InvParts
<1>b. /\ rows \in [Events -> Row] /\ stream \in [Events -> StreamEntry]
      /\ runtimes \in [Replicas -> RuntimeState] /\ rows[e] \in Row /\ stream[e] \in StreamEntry
  BY <1>a, TypeParts
<1>c. PICK q \in RuntimeState : q = runtimes[r]
  BY <1>b
<1> DEFINE rt == [q EXCEPT !.claimed = @ \ {e}]
<1>1. /\ rt \in RuntimeState /\ rt.acked = q.acked /\ rt.claimed = q.claimed \ {e}
      /\ rt.dispatcher = q.dispatcher /\ rt.cleaner = q.cleaner /\ rt.bus = q.bus
  BY DEF RuntimeState
<1>2. runtimes' = [runtimes EXCEPT ![r] = rt] /\ runtimes'[r] = rt
  BY <1>b, <1>c DEF PublishFails
<1>3. PICK s \in {stream[e], Received(stream[e])} : stream' = [stream EXCEPT ![e] = s]
  BY <1>b DEF PublishFails
<1>4. /\ PutBack(rows[e]) \in Row /\ PutBack(rows[e]).state = rows[e].state
      /\ PutBack(rows[e]).age = rows[e].age
  BY <1>b, ValidatedAssumption DEF PutBack, Row
<1>5. rows' = [rows EXCEPT ![e] = PutBack(rows[e])] /\ stops' = stops
  BY DEF PublishFails
<1> HIDE DEF rt
<1>6. RuntimeOK(r)'
  <2>1. RuntimeOK(r) /\ e \notin q.acked /\ q.claimed \subseteq Events
    BY <1>a, <1>c DEF PublishFails, RuntimeState
  <2>2. \A f \in Events : rows'[f].state = rows[f].state
    BY <1>b, <1>4, <1>5
  <2>3. \A f \in Events \ {e} : stream'[f] = stream[f]
    BY <1>b, <1>3
  <2> QED  BY <1>c, <1>1, <1>2, <2>1, <2>2, <2>3 DEF RuntimeOK
<1> QED  BY <1>1, <1>2, <1>3, <1>4, <1>5, <1>6, DeliveryStep

\* The dispatcher is through with an event, and has marked its row or not.
LEMMA FinishRuntime ==
    ASSUME EventInv, NEW r \in Replicas, NEW e \in Events, Finish(r, e), Grows
    PROVE  /\ runtimes' \in [Replicas -> RuntimeState]
           /\ \A q \in Replicas \ {r} : runtimes'[q] = runtimes[q]
           /\ RuntimeOK(r)'
<1>a. TypeOK /\ RuntimeOK(r) /\ runtimes \in [Replicas -> RuntimeState]
  BY InvParts, TypeParts
<1>b. PICK q \in RuntimeState : q = runtimes[r]
  BY <1>a
<1> DEFINE rt == [q EXCEPT !.claimed = @ \ {e}, !.acked = @ \ {e}]
<1>1. /\ rt \in RuntimeState /\ rt.acked = q.acked \ {e} /\ rt.claimed = q.claimed \ {e}
      /\ rt.dispatcher = q.dispatcher /\ rt.cleaner = q.cleaner /\ rt.bus = q.bus
  BY DEF RuntimeState
<1>2. runtimes' = [runtimes EXCEPT ![r] = rt] /\ runtimes'[r] = rt
  BY <1>a, <1>b DEF Finish
<1>3. q.claimed \subseteq Events /\ q.acked \subseteq Events
  BY DEF RuntimeState
<1> HIDE DEF rt
<1>4. RuntimeOK(r)'
  BY <1>a, <1>b, <1>1, <1>2, <1>3 DEF RuntimeOK, Grows
<1> QED  BY <1>a, <1>1, <1>2, <1>4

LEMMA MarkInv ==
    ASSUME EventInv, NEW r \in Replicas, NEW e \in Events, Mark(r, e)
    PROVE  EventInv'
<1>a. TypeOK /\ (\A q \in Replicas : RuntimeOK(q)) /\ \A f \in Events : EventOK(f)
  BY InvParts
<1>b. /\ rows \in [Events -> Row] /\ stream \in [Events -> StreamEntry]
      /\ rows[e] \in Row /\ stream[e].age \in Nat
  BY <1>a, TypeParts DEF StreamEntry
<1> DEFINE row == IF rows[e].state = "pending" THEN [state |-> "published", wait |-> 0, age |-> 0]
                  ELSE rows[e]
<1>1. /\ row \in Row
      /\ \/ row = rows[e]
         \/ row.state = "published" /\ row.age = 0
  BY <1>b DEF Row, RowStates
<1>2. rows' = [rows EXCEPT ![e] = row]
  BY DEF Mark
<1> HIDE DEF row
<1>3. rows' \in [Events -> Row] /\ rows'[e] = row /\ \A f \in Events \ {e} : rows'[f] = rows[f]
  BY <1>b, <1>1, <1>2
<1>4. Grows
  BY <1>1, <1>3 DEF Grows, Mark
<1>5. /\ runtimes' \in [Replicas -> RuntimeState]
      /\ \A q \in Replicas \ {r} : runtimes'[q] = runtimes[q]
      /\ RuntimeOK(r)'
  BY <1>4, FinishRuntime DEF Mark
<1>6. stream[e].copies > 0
  BY <1>a DEF Mark, RuntimeOK
<1>7. \A f \in Events : EventOK(f)'
  BY <1>a, <1>b, <1>1, <1>3, <1>6 DEF EventOK, Mark
<1>8. TypeOK'
  BY <1>a, <1>3, <1>5, TypeParts, TypePartsNext DEF Mark
<1> QED  BY <1>4, <1>5, <1>7, <1>8, EventStep DEF Mark

LEMMA MarkFailsInv ==
    ASSUME EventInv, NEW r \in Replicas, NEW e \in Events, MarkFails(r, e)
    PROVE  EventInv'
<1>a. TypeOK /\ (\A q \in Replicas : RuntimeOK(q)) /\ \A f \in Events : EventOK(f)
  BY InvParts
<1>1. Grows
  BY DEF Grows, MarkFails
<1>2. /\ runtimes' \in [Replicas -> RuntimeState]
      /\ \A q \in Replicas \ {r} : runtimes'[q] = runtimes[q]
      /\ RuntimeOK(r)'
  BY <1>1, FinishRuntime DEF MarkFails
<1>3. \A f \in Events : EventOK(f)'
  BY <1>a DEF EventOK, MarkFails
<1>4. TypeOK'
  BY <1>a, <1>2, TypeParts, TypePartsNext DEF MarkFails
<1> QED  BY <1>1, <1>2, <1>3, <1>4, EventStep DEF MarkFails

\* A row that is deleted has been published for Retention, so the stream has
\* had the event for MaxAge.
LEMMA CleanInv ==
    ASSUME EventInv, NEW r \in Replicas, Clean(r)
    PROVE  EventInv'
<1> USE ValidatedAssumption
<1>a. TypeOK /\ (\A q \in Replicas : RuntimeOK(q)) /\ \A f \in Events : EventOK(f)
  BY InvParts
<1>b. /\ rows \in [Events -> Row] /\ stream \in [Events -> StreamEntry]
      /\ runtimes \in [Replicas -> RuntimeState]
  BY <1>a, TypeParts
<1>c. PICK q \in RuntimeState : q = runtimes[r]
  BY <1>b
<1>1. PICK batch \in SUBSET {e \in Events : Cleanable(rows[e])} :
        rows' = [e \in Events |-> IF e \in batch THEN [rows[e] EXCEPT !.state = "deleted"] ELSE rows[e]]
  <2>1. CASE rows' = rows
    <3> WITNESS {} \in SUBSET {e \in Events : Cleanable(rows[e])}
    <3> QED  BY <1>b, <2>1
  <2> QED  BY <2>1 DEF Clean
<1>2. ASSUME NEW e \in Events
      PROVE  rows'[e] \in Row /\ EventOK(e)' /\ (rows[e].state # "absent" => rows'[e].state # "absent")
  <2>1. CASE e \notin batch
    BY <1>a, <1>b, <1>1, <2>1 DEF EventOK, Clean
  <2>2. CASE e \in batch
    <3>1. rows[e] \in Row /\ rows[e].age \in Nat /\ stream[e].age \in 0 .. MaxAge
      BY <1>b DEF Row, StreamEntry
    <3>2. rows'[e] \in Row /\ rows'[e].state = "deleted"
      BY <1>1, <2>2, <3>1 DEF Row, RowStates
    <3>3. Cleanable(rows[e]) /\ EventOK(e) /\ stream' = stream
      BY <1>a, <1>1, <2>2 DEF Clean
    <3>4. stream[e].age = MaxAge
      BY <3>1, <3>3 DEF Cleanable, EventOK
    <3>5. stream[e].copies > 0
      BY <3>3 DEF EventOK, Cleanable
    <3>6. EventOK(e)'
      BY <3>2, <3>3, <3>4, <3>5 DEF EventOK
    <3> QED  BY <3>2, <3>6
  <2> QED  BY <2>1, <2>2
<1> DEFINE rt == [q EXCEPT !.cleaner = "idle"]
<1>3. /\ rt \in RuntimeState /\ rt.acked = q.acked /\ rt.claimed = q.claimed
      /\ rt.dispatcher = q.dispatcher /\ rt.cleaner = "idle" /\ rt.bus = q.bus
  BY DEF RuntimeState
<1>4. runtimes' = [runtimes EXCEPT ![r] = rt] /\ runtimes'[r] = rt
  BY <1>b, <1>c DEF Clean, AfterRunOnce
<1> HIDE DEF rt
<1>5. Grows
  BY <1>2 DEF Grows, Clean
<1>6. RuntimeOK(r)'
  <2>1. RuntimeOK(r) /\ q.cleaner = "idle" /\ q.claimed \subseteq Events /\ q.acked \subseteq Events
    BY <1>a, <1>c DEF Clean, RuntimeState
  <2> QED  BY <1>c, <1>3, <1>4, <1>5, <2>1 DEF RuntimeOK, Grows
<1>7. rows' \in [Events -> Row]
  BY <1>1, <1>2
<1>8. TypeOK'
  BY <1>a, <1>b, <1>3, <1>4, <1>7, TypeParts, TypePartsNext DEF Clean
<1>9. \A p \in Replicas \ {r} : runtimes'[p] = runtimes[p]
  BY <1>b, <1>4
<1> QED  BY <1>2, <1>5, <1>6, <1>8, <1>9, EventStep DEF Clean

LEMMA NextInv == EventInv /\ [Next]_vars => EventInv'
<1> SUFFICES ASSUME EventInv, [Next]_vars PROVE EventInv'
  OBVIOUS
<1>1. CASE UNCHANGED vars
  BY <1>1 DEF vars, EventInv, TypeOK
<1>2. CASE (\E e \in Events : Commit(e)) \/ Tick
  BY <1>2, CommitInv, TickInv
<1>3. ASSUME NEW r \in Replicas, Runtime(r) PROVE EventInv'
  BY <1>3, LifecycleInv, ClaimInv, CleanInv DEF Runtime
<1>4. ASSUME NEW r \in Replicas, NEW e \in Events, Dispatch(r, e) PROVE EventInv'
  BY <1>4, PublishInv, PublishFailsInv, MarkInv, MarkFailsInv DEF Dispatch
<1> QED  BY <1>1, <1>2, <1>3, <1>4 DEF Next

\* The inductive invariant holds.
THEOREM EventInvariant == Spec => []EventInv
<1> QED  BY InitInv, NextInv, PTL DEF Spec

\* No event is marked published or deleted that the stream has not received.
THEOREM EventsAreNotLost == Spec => []NoEventLost
<1>1. EventInv => NoEventLost
  BY DEF EventInv, NoEventLost
<1> QED  BY <1>1, EventInvariant, PTL

\* A row outlives the stream's copy: published_retention is at least max_age.
THEOREM RowsOutliveStream == Spec => []DeletedAfterStream
<1>1. EventInv => DeletedAfterStream
  BY DEF EventInv, DeletedAfterStream
<1> QED  BY <1>1, EventInvariant, PTL

\* The goroutines use the bus only while it is open (stop waits for both).
THEOREM BusIsOpen == Spec => []NoUseAfterClose
<1>1. EventInv => NoUseAfterClose
  BY DEF EventInv, NoUseAfterClose
<1> QED  BY <1>1, EventInvariant, PTL

\* What a dispatcher counts as acknowledged has been received.
THEOREM AcknowledgedIsReceived == Spec => []ClaimsAreBacked
<1>1. EventInv => ClaimsAreBacked
  BY DEF EventInv, ClaimsAreBacked
<1> QED  BY <1>1, EventInvariant, PTL

-----------------------------------------------------------------------------
\* The refinement.  Each step commits, delivers or forgets, or is a stutter.

Committed == {e \in Events : rows[e].state # "absent"}
Delivered == {e \in Events : stream[e].copies > 0}
Forgotten == {e \in Events : rows[e].state = "deleted"}

\* A step that changes none of the three sets.
Silent ==
    \A e \in Events : /\ rows'[e].state = rows[e].state
                         \/ {rows[e].state, rows'[e].state} \subseteq {"pending", "published"}
                      /\ stream'[e].copies > 0 <=> stream[e].copies > 0

LEMMA SilentSteps ==
    ASSUME Silent
    PROVE  Committed' = Committed /\ Delivered' = Delivered /\ Forgotten' = Forgotten
BY DEF Silent, Committed, Delivered, Forgotten

LEMMA RefinementStep ==
    ASSUME EventInv, EventInv', [Next]_vars
    PROVE  \/ Committed' = Committed /\ Delivered' = Delivered /\ Forgotten' = Forgotten
           \/ \E e \in Events : /\ e \notin Committed /\ Committed' = Committed \cup {e}
                                /\ Delivered' = Delivered /\ Forgotten' = Forgotten
           \/ \E e \in Committed \ Delivered :
                  /\ Delivered' = Delivered \cup {e}
                  /\ Committed' = Committed /\ Forgotten' = Forgotten
           \/ \E batch \in SUBSET (Delivered \ Forgotten) :
                  /\ Forgotten' = Forgotten \cup batch
                  /\ Committed' = Committed /\ Delivered' = Delivered
<1>a. TypeOK /\ (\A q \in Replicas : RuntimeOK(q)) /\ \A f \in Events : EventOK(f)
  BY InvParts
<1>b. /\ rows \in [Events -> Row] /\ stream \in [Events -> StreamEntry]
      /\ runtimes \in [Replicas -> RuntimeState]
  BY <1>a, TypeParts
<1>1. CASE UNCHANGED <<rows, stream>>
  BY <1>1, SilentSteps DEF Silent
<1>2. ASSUME NEW e \in Events, Commit(e)
      PROVE  /\ e \notin Committed /\ Committed' = Committed \cup {e}
             /\ Delivered' = Delivered /\ Forgotten' = Forgotten
  <2>1. /\ rows[e].state = "absent" /\ rows'[e].state = "pending" /\ stream' = stream
        /\ \A f \in Events \ {e} : rows'[f] = rows[f]
    BY <1>2, <1>b DEF Commit, Row
  <2> QED  BY <2>1 DEF Committed, Delivered, Forgotten
<1>3. CASE Tick
  <2>1. ASSUME NEW e \in Events
        PROVE  rows'[e].state = rows[e].state /\ stream'[e].copies = stream[e].copies
    <3>1. rows[e] \in Row /\ stream[e] \in StreamEntry
      BY <1>b
    <3> QED  BY <1>3, <3>1 DEF Tick, Row, StreamEntry
  <2> QED  BY <2>1, SilentSteps DEF Silent
<1>4. ASSUME NEW r \in Replicas, Claim(r) PROVE Silent
  <2>1. ASSUME NEW e \in Events PROVE rows'[e].state = rows[e].state
    <3>1. rows[e] \in Row
      BY <1>b
    <3>2. rows'[e] \in {rows[e], Leased(rows[e])}
      BY <1>4 DEF Claim
    <3> QED  BY <3>1, <3>2 DEF Leased, Row
  <2> QED  BY <1>4, <2>1 DEF Silent, Claim
<1>5. ASSUME NEW r \in Replicas, Clean(r), ~UNCHANGED rows
      PROVE  \E batch \in SUBSET (Delivered \ Forgotten) :
                  /\ Forgotten' = Forgotten \cup batch
                  /\ Committed' = Committed /\ Delivered' = Delivered
  <2>1. PICK batch \in SUBSET {e \in Events : Cleanable(rows[e])} :
          rows' = [e \in Events |-> IF e \in batch THEN [rows[e] EXCEPT !.state = "deleted"] ELSE rows[e]]
    BY <1>5 DEF Clean
  <2>2. \A e \in batch : rows[e].state = "published" /\ stream[e].copies > 0
    BY <1>a, <2>1 DEF Cleanable, EventOK
  <2>3. \A e \in Events : rows'[e].state = IF e \in batch THEN "deleted" ELSE rows[e].state
    BY <1>b, <2>1 DEF Row
  <2>4. batch \in SUBSET (Delivered \ Forgotten)
    BY <2>1, <2>2 DEF Delivered, Forgotten
  <2>5. Forgotten' = Forgotten \cup batch /\ Committed' = Committed /\ Delivered' = Delivered
    BY <1>5, <2>1, <2>2, <2>3 DEF Forgotten, Committed, Delivered, Clean
  <2> QED  BY <2>4, <2>5
<1>6. ASSUME NEW r \in Replicas, NEW e \in Events, Publish(r, e) \/ PublishFails(r, e)
      PROVE  \/ Silent
             \/ /\ e \in Committed \ Delivered /\ Delivered' = Delivered \cup {e}
                /\ Committed' = Committed /\ Forgotten' = Forgotten
  <2>1. rows[e].state # "absent"
    BY <1>6, <1>a DEF Publish, PublishFails, RuntimeOK
  <2>2. \A f \in Events : rows'[f].state = rows[f].state
    <3>1. PutBack(rows[e]).state = rows[e].state
      BY <1>b DEF PutBack, Row
    <3> QED  BY <1>6, <1>b, <3>1 DEF Publish, PublishFails
  <2>3. \A f \in Events \ {e} : stream'[f] = stream[f]
    BY <1>6, <1>b DEF Publish, PublishFails
  <2>4. stream[e].copies > 0 => stream'[e].copies > 0
    <3>1. stream'[e] \in {stream[e], Received(stream[e])}
      BY <1>6, <1>b DEF Publish, PublishFails
    <3> QED  BY <1>b, <3>1, ReceivedType
  <2> QED  BY <2>1, <2>2, <2>3, <2>4 DEF Silent, Committed, Delivered, Forgotten
<1>7. ASSUME NEW r \in Replicas, NEW e \in Events, Mark(r, e) PROVE Silent
  <2>1. \A f \in Events \ {e} : rows'[f] = rows[f]
    BY <1>7, <1>b DEF Mark
  <2> DEFINE row == IF rows[e].state = "pending" THEN [state |-> "published", wait |-> 0, age |-> 0]
                    ELSE rows[e]
  <2>a. \/ row = rows[e]
        \/ rows[e].state = "pending" /\ row.state = "published"
    OBVIOUS
  <2>b. rows' = [rows EXCEPT ![e] = row]
    BY <1>7 DEF Mark
  <2> HIDE DEF row
  <2>2. \/ rows'[e] = rows[e]
        \/ rows[e].state = "pending" /\ rows'[e].state = "published"
    BY <1>b, <2>a, <2>b
  <2> QED  BY <1>7, <2>1, <2>2 DEF Silent, Mark
<1>8. ASSUME NEW r \in Replicas, Runtime(r), ~Claim(r), ~(Clean(r) /\ ~UNCHANGED rows)
      PROVE  UNCHANGED <<rows, stream>>
  BY <1>8 DEF Runtime, Start, StartFails, Stop, StopReturns, Crash, Restart, RunOnceReturns,
     DispatcherExits, Clean, CleanerExits
<1>9. ASSUME NEW r \in Replicas, NEW e \in Events, MarkFails(r, e) PROVE UNCHANGED <<rows, stream>>
  BY <1>9 DEF MarkFails
<1>10. CASE UNCHANGED vars
  BY <1>1, <1>10 DEF vars
<1>11. CASE \E e \in Events : Commit(e)
  BY <1>2, <1>11
<1>12. ASSUME NEW r \in Replicas, Runtime(r)
       PROVE  \/ Silent \/ UNCHANGED <<rows, stream>>
              \/ \E batch \in SUBSET (Delivered \ Forgotten) :
                  /\ Forgotten' = Forgotten \cup batch
                  /\ Committed' = Committed /\ Delivered' = Delivered
  BY <1>4, <1>5, <1>8, <1>12
<1>13. ASSUME NEW r \in Replicas, NEW e \in Events, Dispatch(r, e)
       PROVE  \/ Silent \/ UNCHANGED <<rows, stream>>
              \/ /\ e \in Committed \ Delivered /\ Delivered' = Delivered \cup {e}
                 /\ Committed' = Committed /\ Forgotten' = Forgotten
  BY <1>6, <1>7, <1>9, <1>13 DEF Dispatch
<1> QED  BY <1>1, <1>3, <1>10, <1>11, <1>12, <1>13, SilentSteps DEF Next

LEMMA RefinedNext ==
    ASSUME EventInv, EventInv', [Next]_vars
    PROVE  [Delivery!Next]_(Delivery!vars)
<1>1. Committed \subseteq Events
  BY DEF Committed
<1>2. Delivery!vars = <<Committed, Delivered, Forgotten>>
      /\ (Delivery!vars)' = <<Committed', Delivered', Forgotten'>>
  BY DEF Delivery!vars, Committed, Delivered, Forgotten
<1>3. ASSUME NEW e \in Events, e \notin Committed, Committed' = Committed \cup {e},
             Delivered' = Delivered, Forgotten' = Forgotten
      PROVE  Delivery!Commit(e)
  BY <1>3 DEF Delivery!Commit, Committed, Delivered, Forgotten
<1>4. ASSUME NEW e \in Committed \ Delivered, Delivered' = Delivered \cup {e},
             Committed' = Committed, Forgotten' = Forgotten
      PROVE  Delivery!Deliver(e)
  BY <1>4 DEF Delivery!Deliver, Committed, Delivered, Forgotten
<1>5. ASSUME NEW batch \in SUBSET (Delivered \ Forgotten), Forgotten' = Forgotten \cup batch,
             Committed' = Committed, Delivered' = Delivered
      PROVE  Delivery!ForgetMany
  BY <1>5 DEF Delivery!ForgetMany, Committed, Delivered, Forgotten
<1> QED  BY RefinementStep, <1>1, <1>2, <1>3, <1>4, <1>5 DEF Delivery!Next

LEMMA RefinedInit == Init => Delivery!Init
BY DEF Init, Delivery!Init

\* The runtime implements the safety part of EventDelivery: nothing is
\* delivered that was not committed, nothing forgotten that was not delivered.
THEOREM DeliveryRefinement == Spec => ImplementsDeliverySafety
<1> QED
  BY EventInvariant, RefinedInit, RefinedNext, PTL
     DEF Spec, ImplementsDeliverySafety, Delivery!Safety
=============================================================================
