-------------------------- MODULE MCDynamicConfig --------------------------
(* Small instances of DynamicConfig. *)
EXTENDS DynamicConfigRefines, TLC

User(id, tenant) == [id |-> id, type |-> "user", tenant |-> tenant]

\* Two users of one tenant: an author and a reviewer, in either role.
TwoUsers == {User("ann", "t1"), User("bob", "t1")}

\* A user and a service, each in either role, a user of another tenant, and an
\* unauthenticated call.
SomePrincipals ==
    {User("ann", "t1"), User("eve", "t2"),
     [id |-> "svc", type |-> "service", tenant |-> ""],
     [id |-> "", type |-> "none", tenant |-> ""]}

TenantScope == {[tenant |-> "t1", application |-> "", key |-> "k"]}

\* A sensitive key of an application.
SensitiveScope == {[tenant |-> "t1", application |-> "a1", key |-> "password"]}

Body(v, ref, percentage) == [value |-> v, secretRef |-> ref, rollout |-> percentage]

TwoBodies == {Body("x", "", 100), Body("y", "", 100)}

\* Two secrets, a plain body and one with both: the last two are refused.
SecretBodies ==
    {Body("", "ref", 0), Body("", "other", 100), Body("x", "", 100), Body("x", "ref", 100)}

HandlerSymmetry == Permutations(Handlers)
=============================================================================
