--------------------------- MODULE EventDelivery ---------------------------
(***************************************************************************)
(* What the outbox promises: a committed event is delivered at least once, *)
(* nothing else is delivered, and an event is only forgotten when it has   *)
(* been delivered.                                                         *)
(***************************************************************************)
CONSTANT Events

VARIABLES committed, delivered, forgotten

vars == <<committed, delivered, forgotten>>

Init == committed = {} /\ delivered = {} /\ forgotten = {}

Commit(e) ==
    /\ e \notin committed
    /\ committed' = committed \cup {e}
    /\ UNCHANGED <<delivered, forgotten>>

\* A second delivery of an event changes nothing here.
Deliver(e) ==
    /\ e \in committed \ delivered
    /\ delivered' = delivered \cup {e}
    /\ UNCHANGED <<committed, forgotten>>

\* The cleaner deletes a batch in one statement.
ForgetMany == \E batch \in SUBSET (delivered \ forgotten) :
    /\ forgotten' = forgotten \cup batch
    /\ UNCHANGED <<committed, delivered>>

Next == (\E e \in Events : Commit(e) \/ Deliver(e)) \/ ForgetMany

\* Safety alone, and with the promise that everything committed is delivered.
Safety == Init /\ [][Next]_vars

Spec == Safety /\ \A e \in Events : WF_vars(Deliver(e))
=============================================================================
