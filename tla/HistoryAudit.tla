----------------------------- MODULE HistoryAudit -----------------------------
(***************************************************************************)
(* The integrity audit of the central memory and the publication tables.   *)
(* (stores/sqlite/integrity.ts)                                            *)
(*                                                                         *)
(* `longmemory verify` reads the tables whenever the user asks and reports *)
(* every row that does not fit the others.  It knows nothing of how they   *)
(* came to be: a step of the services that leaves the tables in a state it *)
(* did not think of makes it report a sound store as damaged.  One         *)
(* operator per table; hashes and identifiers derived from rows, and the   *)
(* shapes of roles and tasks, hold by the construction of the rows.        *)
(***************************************************************************)
EXTENDS HistoryPublication

-----------------------------------------------------------------------------
(* cm_memories and cm_confirmations.                                       *)

(* central_current: a memory points to its one effective version.          *)
CurrentIsSound(m) ==
    LET effective == {v \in Version : versions[m][v].status \in Effective}
    IN  effective = {current[m]} \ {None}

(* central_confirmation: what is asked for can still be decided.           *)
RequestsAreSound(m) ==
    \A r \in Pending(m) :
        \/ versions[m][r[1]].status = "pending_confirmation"
        \/ /\ confirmation[m][r[1]][r[2]].expected = r[1]
           /\ r[2] \in {"locked", "retracted"}
           /\ versions[m][r[1]].status \in Effective

-----------------------------------------------------------------------------
(* cm_history_publications.                                                *)

(* Every row belongs to a run that is ready, and has a result exactly when *)
(* it waits for one or reports one.                                        *)
RowIsBound(p) == RunOf[p] \in ready

ResultIsComplete(row) ==
    /\ row.gated \/ row.kind # "none" => row.version # None
    /\ row.status = "pending_confirmation" => row.version # None /\ row.gated
    /\ row.status = "published" <=> row.kind # "none"
    /\ row.status \notin {"pending_confirmation", "published"} => row.version = None

ConfirmationIsBound(p) ==
    publication[p].gated =>
        /\ ConfirmationOf(p) # "none"
        /\ publication[p].status = "published" => ConfirmationOf(p) = "approved"

(* last_attempt_id names an attempt of the publication.                    *)
LastIsKnown(p) ==
    publication[p].last.version # None => publication[p].last \in attempts[p]

(* What the row says is what its last attempt did.                         *)
RowFollowsLastAttempt(p) ==
    LET row == publication[p]
    IN  /\ row.status = "retryable" => row.last.outcome = "retryable"
        /\ row.status \in {"pending_confirmation", "published"} =>
               /\ row.last.plan = row.plan
               /\ row.last.version = row.version
               /\ row.last.outcome = "pending_confirmation" => row.gated
        /\ row.status = "pending_confirmation" =>
               row.last.outcome = "pending_confirmation"
        /\ row.status = "published" =>
               row.last.outcome \in {"pending_confirmation", row.kind}

RowFollowsPlan(p) ==
    LET row == publication[p]
    IN  /\ row.status \in {"retryable", "pending_confirmation", "published"} =>
               row.plan # None
        /\ row.status = "published" => row.kind = KindOfResult(CurrentPlan(p))

-----------------------------------------------------------------------------
(* cm_history_governance_decisions and cm_history_publication_plans.       *)

ApprovalsFitPlans(p) ==
    \A k \in approved[p] : plans[p][k].relation \in {"update", "conflict"}

AcceptanceIsKnown(p) ==
    accepted[p].times # 0 => accepted[p].proposal \in proposed[p]

SnapshotIsComplete(plan) ==
    LET seen == plan.seen
    IN  /\ seen.version = None <=> seen.status = NoVersion.status
        /\ ~seen.exists => seen.version = None
        /\ ~seen.exists <=> plan.relation = "new"

PlanIsSound(p, plan) ==
    /\ plan.proposal \in proposed[p]
    /\ plan.acceptance # 0 => accepted[p].proposal = plan.proposal
    /\ plan.proposal \in Fresh => plan.acceptance # 0
    /\ SnapshotIsComplete(plan)
    /\ plan.relation = "noop" =>
           /\ plan.seen.version # None
           /\ plan.seen.content = Finding[p].content
           /\ plan.seen.major = plan.major
    /\ plan.seen.exists => Exists(plan.target)
    /\ Finding[p].major \/ plan.target \in LevelOne => plan.major

-----------------------------------------------------------------------------
(* cm_history_publication_attempts.                                        *)

AttemptIsSound(p, e) ==
    LET plan == PlanOf(p, e)
        row  == versions[plan.target][e.version]
    IN  /\ row.status # "absent"
        /\ row.content = Finding[p].content
        /\ row.major = plan.major
        /\ e.outcome = "pending_confirmation" =>
               confirmation[plan.target][e.version]["active"].status # "none"
        /\ e.outcome = "created" => ~plan.seen.exists
        /\ e.outcome = "noop" => plan.relation = "noop"
        /\ e.outcome = "updated" => plan.relation \in {"update", "conflict"}

-----------------------------------------------------------------------------
(* Whatever agents, humans and workers did, in whatever order, and however *)
(* many executions failed, waited or were retried: a store that only the   *)
(* services wrote to passes the audit (but for the check of superseded     *)
(* revisions, integrity.ts:375-390).                                       *)
AuditFindsNothing ==
    /\ \A m \in Memory : CurrentIsSound(m) /\ RequestsAreSound(m)
    /\ \A p \in Publication :
        /\ publication[p].status # "absent" => RowIsBound(p)
        /\ ResultIsComplete(publication[p])
        /\ ConfirmationIsBound(p)
        /\ LastIsKnown(p)
        /\ RowFollowsLastAttempt(p)
        /\ RowFollowsPlan(p)
        /\ ApprovalsFitPlans(p)
        /\ AcceptanceIsKnown(p)
        /\ \A k \in DOMAIN plans[p] : PlanIsSound(p, plans[p][k])
        /\ \A e \in attempts[p] : AttemptIsSound(p, e)

(* integrity.ts:375-390: work that is still open belongs to the newest     *)
(* revision of its session whose candidates are ready.                     *)
OpenWorkIsOnTheNewestRevision ==
    \A p \in Publication : publication[p].status \in Open => ~NewerReady(RunOf[p])
=============================================================================
