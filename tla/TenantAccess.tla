---------------------------- MODULE TenantAccess ----------------------------
(***************************************************************************)
(* The checks every operation of dynamicconfig.Service makes of its        *)
(* caller: a principal, its tenant, and the application's grant.  A caller *)
(* is [type, tenant]; the scope it asks for is [tenant, application].      *)
(***************************************************************************)

FaultyEnforceTenant(c, s) == c.type = "user" => c.tenant # ""

\* Only user principals are confined to their tenant.
enforceTenant(c, s) ==
    c.type = "user" => c.tenant # "" /\ c.tenant = s.tenant

\* The possible outcomes of the application registry, a remote service.
verifyApplication(s) ==
    IF s.application = "" THEN {"ok"}
    ELSE IF s.tenant = "" THEN {"invalid"}
    ELSE {"ok", "forbidden", "unavailable"}

\* Principal, tenant and application checks, in the order of the handlers.
Access(c, s) ==
    IF c.type = "none" THEN {"unauthorized"}
    ELSE IF ~enforceTenant(c, s) THEN {"forbidden"}
    ELSE verifyApplication(s)
=============================================================================
