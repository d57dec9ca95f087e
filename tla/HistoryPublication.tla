-------------------------- MODULE HistoryPublication --------------------------
(***************************************************************************)
(* Publication of what a backfill found in old sessions.  A final          *)
(* candidate becomes a publication; workers propose where it belongs and   *)
(* plan it against a snapshot of the central memory, humans accept the     *)
(* hierarchy and approve updates and conflicts, a worker executes the plan *)
(* through CentralMemory's publish, and the confirmation that may come of  *)
(* it is brought back by a reconciliation.  Every call is one BEGIN        *)
(* IMMEDIATE transaction; agents and humans use the central memory between *)
(* any two of them.                                                        *)
(*                                                                         *)
(* A semantic identity (project, level, role, task, kind, key) names one   *)
(* memory; choosing the identity is choosing the memory.  A plan, attempt  *)
(* or decision that is repeated under its own id returns the stored row    *)
(* and changes nothing.                                                    *)
(***************************************************************************)
EXTENDS CentralMemory, Sequences

CONSTANTS
    Run,           \* backfill runs, one per authorized revision of a session
    SessionOf,     \* SessionOf[r]: the session run r read
    Order,         \* Order[r]: its place by (source_observed_at, created_at, run_id)
    Publication,   \* candidates of final reductions, one publication each
    RunOf,         \* RunOf[p]: the run that found it
    Finding,       \* Finding[p]: the content and is_major of the candidate
    Proposal,      \* places in the hierarchy a worker may propose
    Fresh,         \* those with a role or task that is yet to be registered
    Full,          \* those at level one, without role and task
    NoProposal,
    OthersPublish, \* bound: what agents publish meanwhile, expected left open
    MaxPlan,       \* bound: plans per publication
    MaxAcceptance  \* bound: accept decisions per publication

ASSUME PublicationConstants ==
    /\ Order \in [Run -> Nat]
    /\ DOMAIN SessionOf = Run
    /\ \A r, s \in Run : r # s /\ SessionOf[r] = SessionOf[s] => Order[r] # Order[s]
    /\ RunOf \in [Publication -> Run]
    /\ Finding \in [Publication -> [content : Content, major : BOOLEAN]]
    /\ Fresh \subseteq Proposal
    /\ Full \subseteq Proposal \ Fresh
    /\ NoProposal \notin Proposal
    /\ ReviewKind = {"conflict", "manual"}   \* execute asks for both
    /\ OthersPublish \subseteq
           [content : Content, major : BOOLEAN, target : Effective, ask : BOOLEAN,
            kind : ReviewKind]
    /\ MaxPlan \in Nat \ {0}
    /\ MaxAcceptance \in Nat

VARIABLES
    ready,        \* runs whose candidates are ready
    publication,  \* publication[p]: the row of cm_history_publications
    proposed,     \* proposed[p]: the hierarchy proposals made
    accepted,     \* accepted[p]: the proposal accepted and how often
    plans,        \* plans[p]: its plans, by plan_version
    approved,     \* approved[p]: plan versions with an approve decision
    attempts      \* attempts[p]: its executions that led to a version

publicationVars == <<ready, publication, proposed, accepted, plans, approved, attempts>>
allVars         == <<vars, publicationVars>>

Open       == {"pending", "awaiting_hierarchy", "ready", "retryable", "needs_review"}
Terminal   == {"published", "discarded", "superseded"}
PlanStatus == {"ready", "retryable", "needs_review"}
Relation   == {"new", "noop", "update", "conflict"}
ResultKind == {"created", "updated", "noop"}
PlanNumber == 1 .. MaxPlan

Attempt ==
    [plan : PlanNumber, version : Version \cup {None},
     outcome : ResultKind \cup {"pending_confirmation", "needs_review", "retryable"}]

NoAttempt == [plan |-> None, version |-> None, outcome |-> "none"]

(* gated: the row carries the result_confirmation_id of its version.       *)
(* last: the attempt that gave the row its status; last_attempt_id goes on *)
(* naming it afterwards, and nobody reads it then.                         *)
PublicationRow ==
    [status : Open \cup Terminal \cup {"absent", "pending_confirmation"},
     plan : PlanNumber \cup {None}, kind : ResultKind \cup {"none"},
     version : Version \cup {None}, gated : BOOLEAN, last : Attempt \cup {NoAttempt}]

Snapshot ==
    [exists : BOOLEAN, version : Version \cup {None}, status : Status,
     content : Content \cup {NoContent}, major : BOOLEAN]

(* acceptance names the hierarchy decision the plan rests on, None if none.*)
Plan ==
    [proposal : Proposal, acceptance : 0 .. MaxAcceptance, target : Memory,
     seen : Snapshot, relation : Relation, major : BOOLEAN]

NoPublication ==
    [status |-> "absent", plan |-> None, kind |-> "none", version |-> None, gated |-> FALSE,
     last |-> NoAttempt]

CurrentPlan(p) == plans[p][publication[p].plan]
TargetOf(p)    == CurrentPlan(p).target

(* The row without plan and result, and the row without result.            *)
Reset(p, status) == [NoPublication EXCEPT !.status = status]
Clear(p, status) == [NoPublication EXCEPT !.status = status, !.plan = publication[p].plan]

MoveTo(p, row) == publication' = [publication EXCEPT ![p] = row]

-----------------------------------------------------------------------------
(* Seeding: a run becomes candidates_ready.                                *)

OlderThan(r) == {s \in Run : SessionOf[s] = SessionOf[r] /\ Order[s] < Order[r]}
NewerReady(r) == \E s \in ready : r \in OlderThan(s)

(* Fault: work that awaits a confirmation is retired like all other.       *)
RetiredWithConfirmations(r) ==
    {p \in Publication : RunOf[p] \in OlderThan(r)
                         /\ publication[p].status \in Open \cup {"pending_confirmation"}}

Retired(r) ==
    {p \in Publication : RunOf[p] \in OlderThan(r) /\ publication[p].status \in Open}

Seeded(r) ==
    {p \in Publication : RunOf[p] = r /\ ~NewerReady(r)}

CandidatesReady(r) ==
    /\ r \notin ready
    /\ ready' = ready \cup {r}
    /\ publication' = [p \in Publication |->
           IF p \in Retired(r) THEN Clear(p, "superseded")
           ELSE IF p \in Seeded(r) THEN Reset(p, "pending")
           ELSE publication[p]]
    /\ UNCHANGED <<vars, proposed, accepted, plans, approved, attempts>>

-----------------------------------------------------------------------------
(* Hierarchy: proposals of the workers and decisions of the humans.        *)

(* assert_content_level: level one is for major findings.                  *)
LevelFits(p, h) == h \in Full => Finding[p].major

Propose(p, h) ==
    LET desired == IF h \in Fresh THEN "awaiting_hierarchy" ELSE "ready"
    IN  /\ publication[p].status \in Open
        /\ LevelFits(p, h)
        /\ h \notin proposed[p]
        /\ proposed' = [proposed EXCEPT ![p] = @ \cup {h}]
        /\ MoveTo(p, IF publication[p].status = desired THEN publication[p]
                     ELSE Reset(p, desired))
        /\ UNCHANGED <<vars, ready, accepted, plans, approved, attempts>>

HierarchyCanBeDecided(p, h) ==
    /\ publication[p].status \in {"awaiting_hierarchy", "needs_review", "ready"}
    /\ h \in proposed[p]

AcceptHierarchy(p, h) ==
    /\ HierarchyCanBeDecided(p, h)
    /\ accepted[p].proposal \in {h, NoProposal}
    /\ accepted[p].times < MaxAcceptance
    /\ accepted' = [accepted EXCEPT ![p] = [proposal |-> h, times |-> @.times + 1]]
    /\ MoveTo(p, Reset(p, "ready"))
    /\ UNCHANGED <<vars, ready, proposed, plans, approved, attempts>>

RejectHierarchy(p, h) ==
    /\ HierarchyCanBeDecided(p, h)
    /\ MoveTo(p, Reset(p, "needs_review"))
    /\ UNCHANGED <<vars, ready, proposed, accepted, plans, approved, attempts>>

-----------------------------------------------------------------------------
(* Plans: what the execution is going to do, and on which state.           *)

Exists(m) == Stored(m) # {}

Seen(m) ==
    LET row == IF current[m] = None THEN NoVersion ELSE versions[m][current[m]]
    IN  [exists |-> Exists(m), version |-> current[m], status |-> row.status,
         content |-> row.content, major |-> row.major]

GovernedMajor(p, m) == Finding[p].major \/ m \in LevelOne \/ HasActivatedMajor(m)

RelationTo(p, m) ==
    IF ~Exists(m) THEN "new"
    ELSE IF /\ CurrentStatus(m) \in Effective
            /\ versions[m][current[m]].content = Finding[p].content
            /\ CurrentIsMajor(m) = GovernedMajor(p, m)
    THEN "noop"
    ELSE IF \/ CurrentStatus(m) = "locked"
            \/ CurrentIsMajor(m)
            \/ Finding[p].major
            \/ m \in LevelOne
    THEN "conflict"
    ELSE "update"

Acceptance(p, h) == IF accepted[p].proposal = h THEN accepted[p].times ELSE 0

PlanFor(p, h, m) ==
    [proposal |-> h, acceptance |-> Acceptance(p, h), target |-> m, seen |-> Seen(m),
     relation |-> RelationTo(p, m), major |-> GovernedMajor(p, m)]

(* Fault: a proposed role or task need not be accepted.                    *)
HierarchyIsProposed(p, h) == h \in proposed[p]

HierarchyStands(p, h) ==
    /\ h \in proposed[p]
    /\ h \in Fresh => Acceptance(p, h) # 0

StatusAfterPlan(plan) ==
    IF plan.relation \in {"new", "noop"} THEN "ready" ELSE "needs_review"

(* create_plan: the same plan is found again, another one is appended.     *)
CreatePlan(p, h, m) ==
    LET plan == PlanFor(p, h, m)
        UsePlan(k) == MoveTo(p, [Reset(p, StatusAfterPlan(plan)) EXCEPT !.plan = k])
    IN  /\ publication[p].status \in PlanStatus
        /\ LevelFits(p, h)
        /\ HierarchyStands(p, h)
        /\ h \in Full <=> m \in LevelOne
        /\ \/ \E k \in DOMAIN plans[p] :
                  /\ plans[p][k] = plan
                  /\ UsePlan(k)
                  /\ UNCHANGED plans
           \/ /\ \A k \in DOMAIN plans[p] : plans[p][k] # plan
              /\ Len(plans[p]) < MaxPlan
              /\ plans' = [plans EXCEPT ![p] = Append(@, plan)]
              /\ UsePlan(Len(plans[p]) + 1)
        /\ UNCHANGED <<vars, ready, proposed, accepted, approved, attempts>>

(* approve_update and approve_conflict of the current plan.                *)
ApprovePlan(p) ==
    /\ publication[p].status = "needs_review"
    /\ publication[p].plan # None
    /\ CurrentPlan(p).relation \in {"update", "conflict"}
    /\ approved' = [approved EXCEPT ![p] = @ \cup {publication[p].plan}]
    /\ MoveTo(p, Clear(p, "ready"))
    /\ UNCHANGED <<vars, ready, proposed, accepted, plans, attempts>>

Retry(p) ==
    /\ publication[p].status = "retryable"
    /\ MoveTo(p, Clear(p, "ready"))
    /\ UNCHANGED <<vars, ready, proposed, accepted, plans, approved, attempts>>

-----------------------------------------------------------------------------
(* Execution.                                                              *)

(* What execute asks of the central memory's publish.                      *)
InputOf(p) ==
    LET plan == CurrentPlan(p)
    IN  [content |-> Finding[p].content, major |-> plan.major, target |-> "active",
         ask |-> plan.relation = "conflict",
         kind |-> IF plan.relation = "conflict" THEN "conflict" ELSE "manual",
         expected |-> plan.seen.version]

MayExecute(p) ==
    /\ publication[p].status \in {"ready", "retryable"}
    /\ publication[p].plan # None
    /\ LevelFits(p, CurrentPlan(p).proposal)
    /\ CurrentPlan(p).relation \in {"update", "conflict"} =>
           publication[p].plan \in approved[p]

(* Fault: the status of the version that would be replaced is not compared.*)
SnapshotHoldsByNumber(p) ==
    LET plan == CurrentPlan(p)
    IN  plan.seen.exists = Exists(plan.target) /\ plan.seen.version = current[plan.target]

(* cas_mismatch finds nothing.                                             *)
SnapshotHolds(p) == Seen(TargetOf(p)) = CurrentPlan(p).seen

(* The content hash the central memory computes is the one of the plan.    *)
HashIsAsPlanned(p) == IsMajor(TargetOf(p), InputOf(p)) = CurrentPlan(p).major

KindOfResult(plan) ==
    IF plan.relation = "noop" THEN "noop"
    ELSE IF plan.seen.exists THEN "updated" ELSE "created"

AttemptOf(p, outcome, v) ==
    [plan |-> publication[p].plan, version |-> v, outcome |-> outcome]

(* The row an attempt leaves, with its result.                             *)
Executed(p, status, attempt) ==
    [Clear(p, status) EXCEPT !.version = attempt.version, !.last = attempt]

RecordAttempt(p, attempt) ==
    attempts' = [attempts EXCEPT ![p] = @ \cup {attempt}]

RecordFailure(p, outcome) ==
    /\ MoveTo(p, Executed(p, outcome, AttemptOf(p, outcome, None)))
    /\ UNCHANGED <<vars, attempts>>

RecordPublished(p, v) ==
    LET kind    == KindOfResult(CurrentPlan(p))
        attempt == AttemptOf(p, kind, v)
    IN  /\ RecordAttempt(p, attempt)
        /\ MoveTo(p, [Executed(p, "published", attempt) EXCEPT !.kind = kind])

RecordPending(p, v) ==
    LET attempt == AttemptOf(p, "pending_confirmation", v)
    IN  /\ RecordAttempt(p, attempt)
        /\ MoveTo(p, [Executed(p, "pending_confirmation", attempt) EXCEPT !.gated = TRUE])

ExecuteStale(p) ==
    /\ ~SnapshotHolds(p)
    /\ RecordFailure(p, "needs_review")

(* Anything else that throws rolls the savepoint back.                     *)
ExecuteThrows(p) ==
    /\ SnapshotHolds(p)
    /\ RecordFailure(p, "retryable")

ExecuteAsNoop(p) ==
    /\ SnapshotHolds(p)
    /\ HashIsAsPlanned(p)
    /\ IsNoop(TargetOf(p), InputOf(p))
    /\ RecordPublished(p, current[TargetOf(p)])
    /\ UNCHANGED vars

ExecuteDirectly(p) ==
    /\ SnapshotHolds(p)
    /\ HashIsAsPlanned(p)
    /\ \E v \in Version :
           /\ PublishDirect(TargetOf(p), v, InputOf(p))
           /\ RecordPublished(p, v)

ExecuteForReview(p) ==
    /\ SnapshotHolds(p)
    /\ HashIsAsPlanned(p)
    /\ \E v \in Version :
           /\ PublishForReview(TargetOf(p), v, InputOf(p))
           /\ RecordPending(p, v)

(* publish returns the open request of an earlier call for the same hash.  *)
ExecuteOnOpenRequest(p) ==
    LET m  == TargetOf(p)
        in == InputOf(p)
    IN  /\ SnapshotHolds(p)
        /\ HashIsAsPlanned(p)
        /\ ~IsNoop(m, in)
        /\ NeedsConfirmation(m, in)
        /\ \E v \in Candidates(m) :
               /\ SameHash(m, v, in)
               /\ confirmation[m][v]["active"] =
                    [status |-> "pending", expected |-> current[m], kind |-> PublishKind(m, in)]
               /\ RecordPending(p, v)
        /\ UNCHANGED vars

Execute(p) ==
    /\ MayExecute(p)
    /\ \/ ExecuteStale(p)
       \/ ExecuteThrows(p)
       \/ ExecuteAsNoop(p)
       \/ ExecuteDirectly(p)
       \/ ExecuteForReview(p)
       \/ ExecuteOnOpenRequest(p)
    /\ UNCHANGED <<ready, proposed, accepted, plans, approved>>

-----------------------------------------------------------------------------
(* What becomes of a publication that waits for a confirmation.            *)

ConfirmationOf(p) == confirmation[TargetOf(p)][publication[p].version]["active"].status

(* Fault: whatever was not rejected counts as approved.                    *)
ReconciledCredulously(p) ==
    IF ConfirmationOf(p) = "rejected" THEN Clear(p, "discarded")
    ELSE [publication[p] EXCEPT !.status = "published", !.kind = KindOfResult(CurrentPlan(p))]

Reconciled(p) ==
    IF ConfirmationOf(p) = "rejected" THEN Clear(p, "discarded")
    ELSE IF \/ ConfirmationOf(p) = "cancelled"
            \/ current[TargetOf(p)] # publication[p].version
    THEN Clear(p, "needs_review")
    ELSE [publication[p] EXCEPT !.status = "published", !.kind = KindOfResult(CurrentPlan(p))]

ReconcileConfirmation(p) ==
    /\ publication[p].status = "pending_confirmation"
    /\ ConfirmationOf(p) # "pending"
    /\ MoveTo(p, Reconciled(p))
    /\ UNCHANGED <<vars, ready, proposed, accepted, plans, approved, attempts>>

(* Fault: the confirmation of a discarded publication stays open.          *)
DiscardAlone(p) ==
    /\ publication[p].status \in Open \cup {"pending_confirmation"}
    /\ MoveTo(p, Clear(p, "discarded"))
    /\ UNCHANGED <<vars, ready, proposed, accepted, plans, approved, attempts>>

(* discard: an open confirmation is rejected in the same transaction; one  *)
(* that was decided makes the call fail.                                   *)
Discard(p) ==
    /\ \/ /\ publication[p].status \in Open
          /\ UNCHANGED vars
       \/ /\ publication[p].status = "pending_confirmation"
          /\ Decline(TargetOf(p), publication[p].version, "active", "rejected")
    /\ MoveTo(p, Clear(p, "discarded"))
    /\ UNCHANGED <<ready, proposed, accepted, plans, approved, attempts>>

-----------------------------------------------------------------------------

PublicationInit ==
    /\ Init
    /\ ready = {}
    /\ publication = [p \in Publication |-> NoPublication]
    /\ proposed = [p \in Publication |-> {}]
    /\ accepted = [p \in Publication |-> [proposal |-> NoProposal, times |-> 0]]
    /\ plans = [p \in Publication |-> <<>>]
    /\ approved = [p \in Publication |-> {}]
    /\ attempts = [p \in Publication |-> {}]

(* The central memory's other users: agents and the humans who decide.     *)
OthersInput(m, asked) ==
    [content |-> asked.content, major |-> asked.major, target |-> asked.target,
     ask |-> asked.ask, kind |-> asked.kind, expected |-> current[m]]

CentralStep ==
    /\ \E m \in Memory :
           \/ \E v \in Version, asked \in OthersPublish :
                  \/ PublishDirect(m, v, OthersInput(m, asked))
                  \/ PublishForReview(m, v, OthersInput(m, asked))
           \/ RequestChange(m)
           \/ Approve(m)
           \/ DeclineRequest(m)
    /\ UNCHANGED publicationVars

WorkOn(p) ==
    \/ \E h \in Proposal : Propose(p, h) \/ AcceptHierarchy(p, h) \/ RejectHierarchy(p, h)
    \/ \E h \in Proposal, m \in Memory : CreatePlan(p, h, m)
    \/ ApprovePlan(p)
    \/ Retry(p)
    \/ Execute(p)
    \/ ReconcileConfirmation(p)
    \/ Discard(p)

PublicationNext ==
    \/ CentralStep
    \/ \E r \in Run : CandidatesReady(r)
    \/ \E p \in Publication : WorkOn(p)

PublicationSpec == PublicationInit /\ [][PublicationNext]_allVars
-----------------------------------------------------------------------------
(* What the tables may look like between two calls.                        *)

PublicationTypeOK ==
    /\ ready \subseteq Run
    /\ publication \in [Publication -> PublicationRow]
    /\ proposed \in [Publication -> SUBSET Proposal]
    /\ accepted \in [Publication ->
           [proposal : Proposal \cup {NoProposal}, times : 0 .. MaxAcceptance]]
    /\ \A p \in Publication :
           /\ Len(plans[p]) <= MaxPlan
           /\ \A k \in DOMAIN plans[p] : plans[p][k] \in Plan
           /\ approved[p] \subseteq DOMAIN plans[p]
           /\ attempts[p] \subseteq Attempt
           /\ publication[p].plan \in DOMAIN plans[p] \cup {None}

PlanOf(p, e)       == plans[p][e.plan]
Live(m, v)         == versions[m][v].status \in Effective \cup {"pending_confirmation"}
Written(p)         == {e \in attempts[p] : e.outcome # "noop"}

(* A version history has put into the central memory, as a candidate or as *)
(* the effective version, is the result of a publication that is waiting   *)
(* for it or published: nothing an abandoned publication left behind can   *)
(* still be approved, and no retry, replan or lost answer gives one        *)
(* publication two versions that could take effect.  And what is reported  *)
(* as published has taken effect.                                          *)
LiveResultsAreAccountedFor ==
    \A p \in Publication :
        /\ \A e \in Written(p) :
               Live(PlanOf(p, e).target, e.version) =>
                   /\ publication[p].status \in {"pending_confirmation", "published"}
                   /\ publication[p].version = e.version
        /\ publication[p].status = "published" =>
               versions[TargetOf(p)][publication[p].version].activated

(* Whatever history wrote took effect after the human decisions it needs:  *)
(* the acceptance of a proposed hierarchy, the approval of exactly the     *)
(* plan that was executed if it changes a memory, and the confirmation of  *)
(* exactly this version if it contradicts governed content.                *)
EffectiveHistoryWasReviewed ==
    \A p \in Publication : \A e \in Written(p) :
        LET plan == PlanOf(p, e)
        IN  versions[plan.target][e.version].activated =>
                /\ plan.proposal \in Fresh => accepted[p].proposal = plan.proposal
                /\ plan.relation \in {"update", "conflict"} => e.plan \in approved[p]
                /\ plan.relation = "conflict" \/ plan.major =>
                       <<e.version, "active">> \in Approved(plan.target)

(* Newer knowledge is never overwritten by old sessions: whenever a version*)
(* written by history takes effect, at its execution or when its           *)
(* confirmation is approved much later, it replaces exactly the version,   *)
(* with the status and content, its plan was written against.              *)
NothingNewerIsOverwritten ==
    [][\A p \in Publication : \A e \in attempts'[p] :
           /\ e.outcome \in {"created", "updated", "pending_confirmation"}
           /\ e.version \in NewlyActivated(plans[p][e.plan].target)
           =>
           LET plan == plans[p][e.plan]
           IN  /\ current[plan.target] = plan.seen.version
               /\ CurrentStatus(plan.target) = plan.seen.status
               /\ current[plan.target] # None =>
                      versions[plan.target][current[plan.target]].content = plan.seen.content]_allVars

-----------------------------------------------------------------------------
(* The triggers on the publication tables.                                 *)

(* propose_hierarchy takes a ready publication to awaiting_hierarchy by    *)
(* way of needs_review, in two updates of one transaction.                 *)
ValidPublicationTransition(p) ==
    <<publication[p].status, publication'[p].status>> \in
        {<<s, s>> : s \in Open \cup {"absent", "pending_confirmation"} \cup Terminal}
        \cup {<<"absent", "pending">>}
        \cup {"pending"} \X {"awaiting_hierarchy", "ready", "needs_review", "discarded", "superseded"}
        \cup {"awaiting_hierarchy"} \X {"ready", "needs_review", "discarded", "superseded"}
        \cup {"ready", "retryable"} \X
                 {"ready", "retryable", "needs_review", "pending_confirmation", "published",
                  "discarded", "superseded"}
        \cup {"ready", "retryable"} \X {"awaiting_hierarchy"}
        \cup {"needs_review"} \X {"awaiting_hierarchy", "ready", "discarded", "superseded"}
        \cup {"pending_confirmation"} \X {"published", "discarded", "needs_review"}

TerminalImmutable(p) ==
    publication[p].status \in Terminal => publication'[p] = publication[p]

StateShape(p) ==
    LET row == publication'[p]
    IN  /\ row.status = "published" <=> row.kind # "none"
        /\ row.status \in {"pending_confirmation", "published"} => row.plan # None /\ row.version # None
        /\ row.status = "pending_confirmation" => row.gated
        /\ row.status \in {"pending", "awaiting_hierarchy"} => row.version = None
        /\ row.gated => row.version # None

(* The result is a version of the plan's target with the planned content,  *)
(* its confirmation is open while it is waited for and approved when the   *)
(* publication is published, and an attempt led to it.                     *)
ResultScope(p) ==
    LET row == publication'[p]
        plan == plans'[p][row.plan]
        request == confirmation'[plan.target][row.version]["active"].status
    IN  row.version # None =>
            /\ versions'[plan.target][row.version].content = Finding[p].content
            /\ versions'[plan.target][row.version].major = plan.major
            /\ row.gated =>
                   /\ row.status = "pending_confirmation" => request = "pending"
                   /\ row.status = "published" => request = "approved"
            /\ \E e \in attempts'[p] :
                   /\ e.plan = row.plan
                   /\ e.version = row.version
                   /\ e.outcome = IF row.gated THEN "pending_confirmation" ELSE row.kind

(* A new attempt belongs to an executable, approved plan, and its outcome  *)
(* is one the plan can have.                                               *)
AttemptScope(p) ==
    \A e \in attempts'[p] \ attempts[p] :
        LET plan == plans[p][e.plan]
            row == versions'[plan.target][e.version]
        IN  /\ publication[p].status \in {"ready", "retryable"}
            /\ e.plan = publication[p].plan
            /\ plan.relation \in {"update", "conflict"} => e.plan \in approved[p]
            /\ e.outcome = "pending_confirmation" =>
                   /\ row.status = "pending_confirmation"
                   /\ confirmation'[plan.target][e.version]["active"].status = "pending"
            /\ e.outcome \in ResultKind => row.status \in Effective
            /\ e.outcome = "created" => ~plan.seen.exists
            /\ e.outcome = "updated" => plan.relation \in {"update", "conflict"}
            /\ e.outcome = "noop" => plan.relation = "noop"

PlanScope(p) ==
    \A k \in DOMAIN plans'[p] \ DOMAIN plans[p] :
        LET plan == plans'[p][k]
        IN  /\ k = Len(plans[p]) + 1
            /\ publication[p].status \in PlanStatus
            /\ plan.proposal \in proposed[p]
            /\ plan.proposal \in Fresh => plan.acceptance # 0
            /\ Finding[p].major \/ plan.target \in LevelOne => plan.major
            /\ plan.relation = "new" <=> ~plan.seen.exists
            /\ plan.relation = "noop" =>
                   /\ plan.seen.version # None
                   /\ <<plan.seen.content, plan.seen.major>> = <<Finding[p].content, plan.major>>

(* The service and the triggers agree: no call that passes the service's   *)
(* checks is aborted by the storage.  An abort inside an execution would   *)
(* come back as a retryable failure and be retried without end.            *)
PublicationStorageAccepts ==
    [][\A p \in Publication :
           /\ TerminalImmutable(p)
           /\ publication'[p] # publication[p] =>
                  /\ ValidPublicationTransition(p)
                  /\ StateShape(p)
                  /\ ResultScope(p)
           /\ AttemptScope(p)
           /\ PlanScope(p)]_allVars

-----------------------------------------------------------------------------
(* history_govern.ts takes it for granted, and fails when it does not      *)
(* hold, that a confirmation belongs to one publication.                   *)

ConfirmationsOf(p) ==
    {<<PlanOf(p, e).target, e.version>> :
        e \in {a \in attempts[p] : a.outcome = "pending_confirmation"}}

(* No confirmation is linked to two publications: history confirm throws   *)
(* for such a confirmation after it has committed the human's decision,    *)
(* and reconciles neither publication.                                     *)
ConfirmationsHaveOnePublication ==
    \A p, q \in Publication :
        p # q => ConfirmationsOf(p) \cap ConfirmationsOf(q) = {}
=============================================================================
