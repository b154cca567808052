--------------------------- MODULE ReviewedConfig ---------------------------
(***************************************************************************)
(* What the approval workflow promises, without entries, versions,         *)
(* revisions or handlers: the live body of a scope only changes to a body  *)
(* that one principal submitted and another one approved.                  *)
(***************************************************************************)
CONSTANTS Scopes, Contents, Ids

VARIABLES
    submitted,  \* the bodies put up for review, and by whom
    approved,   \* the bodies that passed a review, for good
    live        \* scope -> what Resolve serves: one body, or none

vars == <<submitted, approved, live>>

Init ==
    /\ submitted = {}
    /\ approved = {}
    /\ live = [s \in Scopes |-> {}]

Submit(s, b, by) ==
    /\ submitted' = submitted \cup {[scope |-> s, content |-> b, by |-> by]}
    /\ UNCHANGED <<approved, live>>

Approve(s, b, by) ==
    /\ \E p \in submitted : p.scope = s /\ p.content = b /\ p.by # by
    /\ approved' = approved \cup {[scope |-> s, content |-> b]}
    /\ UNCHANGED <<submitted, live>>

GoLive(s, b) ==
    /\ [scope |-> s, content |-> b] \in approved
    /\ live' = [live EXCEPT ![s] = {b}]
    /\ UNCHANGED <<submitted, approved>>

Next ==
    \E s \in Scopes, b \in Contents :
        \/ \E by \in Ids : Submit(s, b, by) \/ Approve(s, b, by)
        \/ GoLive(s, b)

Spec == Init /\ [][Next]_vars
=============================================================================
