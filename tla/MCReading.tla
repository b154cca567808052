----------------------------- MODULE MCReading -----------------------------
(***************************************************************************)
(* Small instances of the two ways to read: Resolution and Listing.        *)
(*                                                                         *)
(* They share nothing but the access checks, so their steps commute, and   *)
(* a behaviour makes the steps of one of them: side says which.            *)
(***************************************************************************)
EXTENDS Resolution, Listing

VARIABLE side     \* "resolve" or "list"

-----------------------------------------------------------------------------
(* Constants *)

User(tenant) == [type |-> "user", tenant |-> tenant]

\* Users of two tenants, a service, and an unauthenticated call.
SomeCallers ==
    {User("t1"), User("t2"), [type |-> "service", tenant |-> ""],
     [type |-> "none", tenant |-> ""]}

At(tenant, application, key) ==
    [tenant |-> tenant, application |-> application, key |-> key]

\* One key with an application's, a tenant's and the platform's entry, and a
\* second key of the platform.
SomeScopes ==
    {At("t1", "a1", "k"), At("t1", "", "k"), At("", "", "k"), At("", "", "j")}

\* The entries at the two ends of the search are published twice.
SomeRevisions ==
    [s \in SomeScopes |-> IF s \in {At("t1", "a1", "k"), At("", "", "k")} THEN 2 ELSE 1]

Ask(tenant, application, subject, keys) ==
    [tenant |-> tenant, application |-> application, subject |-> subject, keys |-> keys]

\* With and without subject and application, of another tenant, a key in another
\* spelling, and several keys, one of them twice.
SomeRequests ==
    {Ask("t1", "a1", "u", <<"j", "k", "j">>), Ask("t1", "a1", "", <<"k">>),
     Ask("t1", "", "u", <<"K", "k">>), Ask("t2", "a1", "u", <<"k">>),
     Ask("", "", "u", <<"k">>)}

\* Buckets at the edges of a percentage of 50, and the last of the 65536.
Buckets ==
    [x \in {"u"} \X {"j", "k"} \X (1 .. 2) |->
        IF x[3] = 2 THEN 49 ELSE IF x[2] = "k" THEN 150 ELSE 65535]

\* The share of the 65536 buckets that a percentage includes is within a
\* thousandth of it, is empty at 0 only and full at 100 only, although 65536 is no
\* multiple of 100 (rolloutHit).  Evaluated once, before the search.
ASSUME RolloutShareIsFair ==
    \A p \in 0 .. 100 :
        LET share == Cardinality({b \in 0 .. 65535 : Within(b, p)})
        IN  /\ share * 100 - p * 65536 \in -6553 .. 6553
            /\ (p = 0) = (share = 0)
            /\ (p = 100) = (share = 65536)

ListedScope == [tenant |-> "t1", application |-> "a1"]

-----------------------------------------------------------------------------
ReadInit == Init /\ ListInit /\ side \in {"resolve", "list"}

Resolves == side = "resolve" /\ UNCHANGED <<side, listVars>>

Lists == side = "list" /\ UNCHANGED <<side, vars>>

ReadNext ==
    \/ Resolves /\ \E s \in Scopes : Create(s)
    \/ Resolves /\ \E s \in Scopes : GoLive(s)
    \/ Resolves /\ Resolve
    \/ Resolves /\ Get
    \/ Resolves /\ Keep
    \/ Lists /\ \E k \in Keys : Insert(k)
    \/ Lists /\ List
    \/ Lists /\ Count
    \/ Lists /\ Select
    \/ Lists /\ \E size \in PageSizes : 0 < size /\ size <= MaxPageSize /\ StartWalk(size)
    \/ Lists /\ WalkOn

ReadSpec == ReadInit /\ [][ReadNext]_<<vars, listVars, side>>
=============================================================================
