------------------------ MODULE DynamicConfigRefines ------------------------
(***************************************************************************)
(* DynamicConfig implements ReviewedConfig.  A row of config_revisions was *)
(* submitted unless Rollback wrote it (status "published"); the live body  *)
(* is what the join of Repository.Resolve finds for the scope.             *)
(***************************************************************************)
EXTENDS DynamicConfig

submittedRows ==
    {[scope |-> row.scope, content |-> row.content, by |-> row.createdBy] :
        row \in {r \in revisions : r.status # "published"}}

approvedRows ==
    {[scope |-> row.scope, content |-> row.content] :
        row \in {r \in revisions : r.status = "approved"}}

FaultyResolvedRows(s) ==
    {row \in revisions : Exists(s) /\ row.scope = s
        /\ row.revision = entries[s].revision /\ entries[s].publishedRevision > 0}

\* JOIN config_revisions ON revision = published_revision WHERE
\* published_revision > 0, for one scope.
ResolvedRows(s) ==
    {row \in revisions : Exists(s) /\ row.scope = s
        /\ row.revision = entries[s].publishedRevision /\ entries[s].publishedRevision > 0}

\* "only an approved configuration can be published": the row Resolve joins to
\* an entry has been approved, or was written by a rollback.
ResolvedIsApproved ==
    \A s \in Scopes : \A row \in ResolvedRows(s) : row.status \in RollbackTargetStatus

liveBodies == [s \in Scopes |-> {row.content : row \in ResolvedRows(s)}]

Reviewed_Config == INSTANCE ReviewedConfig WITH
    submitted <- submittedRows, approved <- approvedRows, live <- liveBodies

\* Every step of the handlers and their transactions is, for a client that
\* only calls Resolve, a submission, an independent approval, the going live of
\* an approved body, or nothing.
ImplementsReviewedConfig == Reviewed_Config!Spec
=============================================================================
