----------------------- MODULE HistoryPublication_proofs -----------------------
(***************************************************************************)
(* Theorems about HistoryPublication and HistoryAudit for any number of    *)
(* runs, publications, plans and memories, and any contents.               *)
(*                                                                         *)
(* The argument: history changes the central memory only by calls that     *)
(* CentralMemory has, so that its invariant holds all along.  A version    *)
(* that history wrote keeps its content, its request to take effect is     *)
(* answered once, and what is no candidate any more never becomes one      *)
(* again: so what an attempt found out stays true of it.                   *)
(***************************************************************************)
EXTENDS HistoryAudit, CentralMemory_proofs, SequenceTheorems

-----------------------------------------------------------------------------
(* Types.  Plans are numbered as they are made.                            *)

Types ==
    /\ PublicationTypeOK
    /\ plans \in [Publication -> Seq(Plan)]
    /\ approved \in [Publication -> SUBSET PlanNumber]
    /\ attempts \in [Publication -> SUBSET Attempt]

-----------------------------------------------------------------------------
(* The relation of a plan is a function of what the plan saw.              *)

RelationOf(p, plan) ==
    IF ~plan.seen.exists THEN "new"
    ELSE IF /\ plan.seen.status \in Effective
            /\ plan.seen.content = Finding[p].content
            /\ plan.seen.major = plan.major
    THEN "noop"
    ELSE IF \/ plan.seen.status = "locked"
            \/ plan.seen.major
            \/ Finding[p].major
            \/ plan.target \in LevelOne
    THEN "conflict"
    ELSE "update"

PlanOK(p, plan) == PlanIsSound(p, plan) /\ plan.relation = RelationOf(p, plan)

(* What the plan saw is what is effective now.                             *)
StillSeen(plan) ==
    /\ current[plan.target] = plan.seen.version
    /\ CurrentStatus(plan.target) = plan.seen.status
    /\ current[plan.target] # None =>
           versions[plan.target][current[plan.target]].content = plan.seen.content

(* An attempt has a version, an approved plan where it needs one, and      *)
(* nothing passed by a candidate that still waits.                         *)
AttemptOK(p, e) ==
    LET plan == PlanOf(p, e)
        row  == versions[plan.target][e.version]
    IN  /\ e.version # None /\ e.plan \in DOMAIN plans[p]
        /\ e.outcome \in ResultKind \cup {"pending_confirmation"}
        /\ AttemptIsSound(p, e)
        /\ plan.relation \in {"update", "conflict"} => e.plan \in approved[p]
        /\ e.outcome \in ResultKind => row.activated
        /\ e.outcome \in {"created", "updated"} => plan.relation # "conflict" /\ ~plan.major
        /\ e.outcome = "pending_confirmation" /\ row.status = "pending_confirmation" =>
               StillSeen(plan)

LiveAreAccountedFor(p) ==
    \A e \in Written(p) :
        Live(PlanOf(p, e).target, e.version) =>
            /\ publication[p].status \in {"pending_confirmation", "published"}
            /\ publication[p].version = e.version
            /\ publication[p].plan = e.plan

RowOK(p) ==
    /\ publication[p].status # "absent" => RowIsBound(p)
    /\ ResultIsComplete(publication[p])
    /\ ConfirmationIsBound(p)
    /\ LastIsKnown(p)
    /\ RowFollowsLastAttempt(p)
    /\ RowFollowsPlan(p)
    /\ publication[p].gated => publication[p].last.outcome = "pending_confirmation"
    /\ publication[p].status = "published" =>
           versions[TargetOf(p)][publication[p].version].activated

BooksOK(p) ==
    /\ ApprovalsFitPlans(p)
    /\ AcceptanceIsKnown(p)
    /\ \A k \in DOMAIN plans[p] : PlanOK(p, plans[p][k])

PublicationOK(p) ==
    /\ BooksOK(p)
    /\ \A e \in attempts[p] : AttemptOK(p, e)
    /\ LiveAreAccountedFor(p)
    /\ RowOK(p)

AllOK ==
    /\ Types
    /\ Inv
    /\ ClosedRequestsAreDead
    /\ \A p \in Publication : PublicationOK(p)

-----------------------------------------------------------------------------
(* Plans and rows by their parts.                                          *)

LEMMA PlanNumbers ==
  ASSUME Types, NEW p \in Publication
  PROVE  /\ DOMAIN plans[p] \subseteq PlanNumber
         /\ DOMAIN plans[p] = 1 .. Len(plans[p])
         /\ Len(plans[p]) \in 0 .. MaxPlan
         /\ \A k \in DOMAIN plans[p] : plans[p][k] \in Plan
         /\ None \notin PlanNumber
  <1>1. plans[p] \in Seq(Plan) /\ Len(plans[p]) <= MaxPlan
    BY DEF Types, PublicationTypeOK
  <1>2. MaxPlan \in Nat
    BY PublicationConstants
  <1>3. Len(plans[p]) \in Nat /\ DOMAIN plans[p] = 1 .. Len(plans[p])
    BY <1>1
  <1>4. \A k \in DOMAIN plans[p] : plans[p][k] \in Plan
    BY <1>1
  <1> QED BY <1>1, <1>2, <1>3, <1>4 DEF PlanNumber, None

(* The plan a row names.                                                   *)
LEMMA CurrentPlanType ==
  ASSUME Types, NEW p \in Publication, publication[p].plan # None
  PROVE  /\ publication[p].plan \in DOMAIN plans[p]
         /\ publication[p].plan \in PlanNumber
         /\ CurrentPlan(p) = plans[p][publication[p].plan]
         /\ CurrentPlan(p) \in Plan
         /\ TargetOf(p) = CurrentPlan(p).target
         /\ TargetOf(p) \in Memory
  <1>1. publication[p].plan \in DOMAIN plans[p]
    BY DEF Types, PublicationTypeOK
  <1>2. CurrentPlan(p) \in Plan
    BY <1>1, PlanNumbers DEF CurrentPlan
  <1>3. CurrentPlan(p).target \in Memory
    BY <1>2 DEF Plan
  <1> QED BY <1>1, <1>2, <1>3, PlanNumbers DEF CurrentPlan, TargetOf

Cleared(k, s) ==
    [status |-> s, plan |-> k, kind |-> "none", version |-> None, gated |-> FALSE,
     last |-> NoAttempt]

Statuses == Open \cup Terminal \cup {"pending_confirmation"}

(* A row with one part changed.                                            *)
LEMMA RowStatus ==
  ASSUME NEW row \in PublicationRow, NEW x \in Statuses
  PROVE  [row EXCEPT !.status = x] =
             [status |-> x, plan |-> row.plan, kind |-> row.kind,
              version |-> row.version, gated |-> row.gated, last |-> row.last]
  BY DEF PublicationRow, Statuses

LEMMA RowPlan ==
  ASSUME NEW row \in PublicationRow, NEW x \in PlanNumber \cup {None}
  PROVE  [row EXCEPT !.plan = x] =
             [status |-> row.status, plan |-> x, kind |-> row.kind,
              version |-> row.version, gated |-> row.gated, last |-> row.last]
  BY DEF PublicationRow, Statuses

LEMMA RowKind ==
  ASSUME NEW row \in PublicationRow, NEW x \in ResultKind \cup {"none"}
  PROVE  [row EXCEPT !.kind = x] =
             [status |-> row.status, plan |-> row.plan, kind |-> x,
              version |-> row.version, gated |-> row.gated, last |-> row.last]
  BY DEF PublicationRow, Statuses

LEMMA RowVersion ==
  ASSUME NEW row \in PublicationRow, NEW x \in Version \cup {None}
  PROVE  [row EXCEPT !.version = x] =
             [status |-> row.status, plan |-> row.plan, kind |-> row.kind,
              version |-> x, gated |-> row.gated, last |-> row.last]
  BY DEF PublicationRow, Statuses

LEMMA RowGated ==
  ASSUME NEW row \in PublicationRow, NEW x \in BOOLEAN
  PROVE  [row EXCEPT !.gated = x] =
             [status |-> row.status, plan |-> row.plan, kind |-> row.kind,
              version |-> row.version, gated |-> x, last |-> row.last]
  BY DEF PublicationRow, Statuses

LEMMA RowLast ==
  ASSUME NEW row \in PublicationRow, NEW x \in Attempt
  PROVE  [row EXCEPT !.last = x] =
             [status |-> row.status, plan |-> row.plan, kind |-> row.kind,
              version |-> row.version, gated |-> row.gated, last |-> x]
  BY DEF PublicationRow, Statuses

LEMMA ClearedRows ==
  ASSUME NEW p \in Publication, publication[p].plan \in PlanNumber \cup {None},
         NEW s \in Statuses, NEW k \in PlanNumber \cup {None}
  PROVE  /\ Reset(p, s) = Cleared(None, s)
         /\ Clear(p, s) = Cleared(publication[p].plan, s)
         /\ [Reset(p, s) EXCEPT !.plan = k] = Cleared(k, s)
  <1>1. /\ NoPublication \in PublicationRow /\ NoPublication.plan = None
        /\ NoPublication.kind = "none" /\ NoPublication.version = None
        /\ NoPublication.gated = FALSE /\ NoPublication.last = NoAttempt
    BY DEF NoPublication, PublicationRow
  <1>2. Reset(p, s) = Cleared(None, s)
    BY <1>1, RowStatus DEF Reset, Cleared
  <1>3. \A j \in PlanNumber \cup {None} :
            /\ Cleared(j, s) \in PublicationRow /\ Cleared(j, s).status = s
            /\ Cleared(j, s).plan = j /\ Cleared(j, s).kind = "none"
            /\ Cleared(j, s).version = None /\ Cleared(j, s).gated = FALSE
            /\ Cleared(j, s).last = NoAttempt
    BY DEF Cleared, PublicationRow, Statuses
  <1>4. \A j \in PlanNumber \cup {None} : [Cleared(None, s) EXCEPT !.plan = j] = Cleared(j, s)
    <2> SUFFICES ASSUME NEW j \in PlanNumber \cup {None}
                 PROVE  [Cleared(None, s) EXCEPT !.plan = j] = Cleared(j, s)
      OBVIOUS
    <2>1. PICK row \in PublicationRow : row = Cleared(None, s)
      BY <1>3
    <2>2. /\ row.status = s /\ row.kind = "none" /\ row.version = None /\ row.gated = FALSE
          /\ row.last = NoAttempt
      BY <1>3, <2>1
    <2>3. [row EXCEPT !.plan = j] = Cleared(j, s)
      BY <2>2, RowPlan DEF Cleared
    <2> QED BY <2>1, <2>3, Zenon
  <1>5. Clear(p, s) = Cleared(publication[p].plan, s)
    BY <1>2, <1>4 DEF Clear, Reset
  <1> QED BY <1>2, <1>4, <1>5, Zenon DEF Reset

LEMMA ExecutedRow ==
  ASSUME NEW p \in Publication, publication[p].plan \in PlanNumber \cup {None},
         NEW s \in Statuses, NEW e \in Attempt
  PROVE  Executed(p, s, e) =
             [status |-> s, plan |-> publication[p].plan, kind |-> "none",
              version |-> e.version, gated |-> FALSE, last |-> e]
  <1>1. Clear(p, s) = Cleared(publication[p].plan, s)
    BY ClearedRows
  <1>2. \A j \in PlanNumber \cup {None} :
            /\ Cleared(j, s) \in PublicationRow /\ Cleared(j, s).status = s
            /\ Cleared(j, s).plan = j /\ Cleared(j, s).kind = "none"
            /\ Cleared(j, s).version = None /\ Cleared(j, s).gated = FALSE
            /\ Cleared(j, s).last = NoAttempt
    BY DEF Cleared, PublicationRow, Statuses
  <1>3. [Cleared(publication[p].plan, s) EXCEPT !.version = e.version, !.last = e] =
            [status |-> s, plan |-> publication[p].plan, kind |-> "none",
             version |-> e.version, gated |-> FALSE, last |-> e]
    <2>1. PICK row \in PublicationRow : row = Cleared(publication[p].plan, s)
      BY <1>2
    <2>2. e.version \in Version \cup {None}
      BY DEF Attempt
    <2>3. /\ row.status = s /\ row.plan = publication[p].plan /\ row.kind = "none"
          /\ row.version = None /\ row.gated = FALSE /\ row.last = NoAttempt
      BY <1>2, <2>1
    <2>4. [row EXCEPT !.version = e.version] =
              [status |-> s, plan |-> publication[p].plan, kind |-> "none",
               version |-> e.version, gated |-> FALSE, last |-> NoAttempt]
      BY <2>2, <2>3, RowVersion
    <2>5. PICK new \in PublicationRow :
              new = [status |-> s, plan |-> publication[p].plan, kind |-> "none",
                     version |-> e.version, gated |-> FALSE, last |-> NoAttempt]
      BY <2>2 DEF PublicationRow, Statuses
    <2>6. /\ new.status = s /\ new.plan = publication[p].plan /\ new.kind = "none"
          /\ new.version = e.version /\ new.gated = FALSE
      BY <2>5
    <2>7. [new EXCEPT !.last = e] =
              [status |-> s, plan |-> publication[p].plan, kind |-> "none",
               version |-> e.version, gated |-> FALSE, last |-> e]
      BY <2>6, RowLast
    <2> QED BY <2>1, <2>4, <2>5, <2>7, Zenon
  <1> QED BY <1>1, <1>3, Zenon DEF Executed

LEMMA ClearedType ==
  ASSUME NEW k \in PlanNumber \cup {None}, NEW s \in Open \cup {"discarded", "superseded"}
  PROVE  Cleared(k, s) \in PublicationRow
  BY DEF Cleared, PublicationRow, Open, Terminal

(* The rows an execution leaves.                                           *)
FailedRow(p, outcome) ==
    [status |-> outcome, plan |-> publication[p].plan, kind |-> "none", version |-> None,
     gated |-> FALSE, last |-> AttemptOf(p, outcome, None)]

PublishedRow(p, v) ==
    [status |-> "published", plan |-> publication[p].plan,
     kind |-> KindOfResult(CurrentPlan(p)), version |-> v, gated |-> FALSE,
     last |-> AttemptOf(p, KindOfResult(CurrentPlan(p)), v)]

PendingRow(p, v) ==
    [status |-> "pending_confirmation", plan |-> publication[p].plan, kind |-> "none",
     version |-> v, gated |-> TRUE, last |-> AttemptOf(p, "pending_confirmation", v)]

LEMMA AttemptType ==
  ASSUME NEW p, NEW v \in Version \cup {None}, publication[p].plan \in PlanNumber,
         NEW o \in ResultKind \cup {"pending_confirmation", "needs_review", "retryable"}
  PROVE  /\ AttemptOf(p, o, v) \in Attempt
         /\ AttemptOf(p, o, v).version = v
         /\ AttemptOf(p, o, v).outcome = o
         /\ AttemptOf(p, o, v).plan = publication[p].plan
  BY DEF AttemptOf, Attempt

LEMMA KindType ==
  ASSUME NEW plan
  PROVE  KindOfResult(plan) \in ResultKind
  BY DEF KindOfResult, ResultKind

LEMMA ExecutedRows ==
  ASSUME NEW p \in Publication, NEW v \in Version, publication[p].plan \in PlanNumber,
         NEW o \in {"needs_review", "retryable"}
  PROVE  /\ Executed(p, o, AttemptOf(p, o, None)) = FailedRow(p, o)
         /\ FailedRow(p, o) \in PublicationRow
         /\ LET kind == KindOfResult(CurrentPlan(p))
            IN  [Executed(p, "published", AttemptOf(p, kind, v)) EXCEPT !.kind = kind] =
                    PublishedRow(p, v)
         /\ PublishedRow(p, v) \in PublicationRow
         /\ [Executed(p, "pending_confirmation", AttemptOf(p, "pending_confirmation", v))
                EXCEPT !.gated = TRUE] = PendingRow(p, v)
         /\ PendingRow(p, v) \in PublicationRow
  <1> DEFINE kind == KindOfResult(CurrentPlan(p))
  <1>1. kind \in ResultKind
    BY KindType
  <1>2. /\ AttemptOf(p, kind, v) \in Attempt /\ AttemptOf(p, kind, v).version = v
        /\ AttemptOf(p, o, None) \in Attempt /\ AttemptOf(p, o, None).version = None
        /\ AttemptOf(p, "pending_confirmation", v) \in Attempt
        /\ AttemptOf(p, "pending_confirmation", v).version = v
    BY <1>1, AttemptType
  <1>3. /\ FailedRow(p, o) \in PublicationRow
        /\ PublishedRow(p, v) \in PublicationRow
        /\ PendingRow(p, v) \in PublicationRow
    BY <1>1, <1>2 DEF FailedRow, PublishedRow, PendingRow, PublicationRow, Open, Terminal
  <1>4. ASSUME NEW s \in Statuses, NEW e \in Attempt
        PROVE  /\ Executed(p, s, e) =
                      [status |-> s, plan |-> publication[p].plan, kind |-> "none",
                       version |-> e.version, gated |-> FALSE, last |-> e]
               /\ Executed(p, s, e) \in PublicationRow
    <2>1. Executed(p, s, e) =
              [status |-> s, plan |-> publication[p].plan, kind |-> "none",
               version |-> e.version, gated |-> FALSE, last |-> e]
      BY <1>4, ExecutedRow
    <2> QED BY <1>4, <2>1 DEF PublicationRow, Attempt, Statuses
  <1>5. o \in Statuses /\ "published" \in Statuses /\ "pending_confirmation" \in Statuses
    BY DEF Statuses, Open, Terminal
  <1>6. Executed(p, o, AttemptOf(p, o, None)) = FailedRow(p, o)
    BY <1>2, <1>4, <1>5 DEF FailedRow
  <1>7. [Executed(p, "published", AttemptOf(p, kind, v)) EXCEPT !.kind = kind] = PublishedRow(p, v)
    <2> DEFINE row == Executed(p, "published", AttemptOf(p, kind, v))
    <2>1. /\ row \in PublicationRow /\ row.status = "published"
          /\ row.plan = publication[p].plan /\ row.version = v /\ row.gated = FALSE
          /\ row.last = AttemptOf(p, kind, v)
      BY <1>2, <1>4, <1>5
    <2> HIDE DEF row
    <2>2. [row EXCEPT !.kind = kind] = PublishedRow(p, v)
      BY <1>1, <2>1, RowKind DEF PublishedRow
    <2> QED BY <2>2 DEF row
  <1>8. [Executed(p, "pending_confirmation", AttemptOf(p, "pending_confirmation", v))
                EXCEPT !.gated = TRUE] = PendingRow(p, v)
    <2> DEFINE row == Executed(p, "pending_confirmation", AttemptOf(p, "pending_confirmation", v))
    <2>1. /\ row \in PublicationRow /\ row.status = "pending_confirmation"
          /\ row.plan = publication[p].plan /\ row.version = v /\ row.kind = "none"
          /\ row.last = AttemptOf(p, "pending_confirmation", v)
      BY <1>2, <1>4, <1>5
    <2> HIDE DEF row
    <2>2. [row EXCEPT !.gated = TRUE] = PendingRow(p, v)
      BY <2>1, RowGated DEF PendingRow
    <2> QED BY <2>2 DEF row
  <1> QED BY <1>3, <1>6, <1>7, <1>8

-----------------------------------------------------------------------------
(* History uses the central memory through its calls only.                 *)

LEMMA InputIsLegal ==
  ASSUME Types, NEW p \in Publication, publication[p].plan # None
  PROVE  InputOf(p) \in PublishInput
  <1>1. CurrentPlan(p) \in Plan
    BY CurrentPlanType
  <1>2. CurrentPlan(p).major \in BOOLEAN /\ CurrentPlan(p).seen.version \in Version \cup {None}
    BY <1>1 DEF Plan, Snapshot
  <1>3. Finding[p].content \in Content
    BY PublicationConstants
  <1>4. (CurrentPlan(p).relation = "conflict") \in BOOLEAN
    OBVIOUS
  <1> QED
    BY <1>2, <1>3, <1>4, PublicationConstants DEF InputOf, PublishInput, Effective

LEMMA OthersAreLegal ==
  ASSUME TypeOK, NEW m \in Memory, NEW asked \in OthersPublish
  PROVE  OthersInput(m, asked) \in PublishInput
  <1>1. asked \in [content : Content, major : BOOLEAN, target : Effective, ask : BOOLEAN,
                   kind : ReviewKind]
    BY PublicationConstants
  <1>2. current[m] \in Version \cup {None}
    BY DEF TypeOK
  <1> QED BY <1>1, <1>2 DEF OthersInput, PublishInput

LEMMA CentralCalls ==
  ASSUME AllOK, [PublicationNext]_allVars
  PROVE  [Next]_vars
  <1>1. Types /\ TypeOK /\ \A p \in Publication : RowOK(p)
    BY DEF AllOK, Inv, PublicationOK
  <1>2. CASE CentralStep
    <2>1. ASSUME NEW m \in Memory, NEW v \in Version, NEW asked \in OthersPublish,
                 PublishDirect(m, v, OthersInput(m, asked)) \/
                 PublishForReview(m, v, OthersInput(m, asked))
          PROVE  Next
      <3>1. OthersInput(m, asked) \in PublishInput
        BY <1>1, OthersAreLegal
      <3> QED BY <2>1, <3>1 DEF Next, Publish
    <2>2. ASSUME NEW m \in Memory, RequestChange(m) \/ Approve(m) \/ DeclineRequest(m)
          PROVE  Next
      BY <2>2 DEF Next
    <2> QED BY <1>2, <2>1, <2>2 DEF CentralStep
  <1>3. ASSUME NEW p \in Publication, Execute(p) PROVE [Next]_vars
    <2>1. publication[p].plan # None
      BY <1>3 DEF Execute, MayExecute
    <2>2. InputOf(p) \in PublishInput /\ TargetOf(p) \in Memory
      BY <1>1, <2>1, InputIsLegal, CurrentPlanType
    <2>3. ASSUME NEW v \in Version,
                 PublishDirect(TargetOf(p), v, InputOf(p)) \/
                 PublishForReview(TargetOf(p), v, InputOf(p))
          PROVE  Next
      BY <2>2, <2>3 DEF Next, Publish
    <2> QED
      BY <1>3, <2>3
      DEF Execute, ExecuteStale, ExecuteThrows, ExecuteAsNoop, ExecuteDirectly,
          ExecuteForReview, ExecuteOnOpenRequest, RecordFailure
  <1>4. ASSUME NEW p \in Publication, Discard(p) PROVE [Next]_vars
    <2>1. CASE publication[p].status = "pending_confirmation" /\
               Decline(TargetOf(p), publication[p].version, "active", "rejected")
      <3>1. publication[p].plan # None
        BY <1>1, <2>1 DEF RowOK, RowFollowsPlan
      <3>2. TargetOf(p) \in Memory
        BY <1>1, <3>1, CurrentPlanType
      <3>3. publication[p].version \in Version /\ "active" \in Target
        BY <2>1 DEF Decline, Pending, Request, Target
      <3> QED BY <2>1, <3>2, <3>3 DEF Next, DeclineRequest
    <2> QED BY <1>4, <2>1 DEF Discard
  <1>5. ASSUME NEW p \in Publication, NEW h \in Proposal,
               Propose(p, h) \/ AcceptHierarchy(p, h) \/ RejectHierarchy(p, h)
        PROVE  UNCHANGED vars
    BY <1>5 DEF Propose, AcceptHierarchy, RejectHierarchy
  <1>6. ASSUME NEW p \in Publication, NEW h \in Proposal, NEW m \in Memory, CreatePlan(p, h, m)
        PROVE  UNCHANGED vars
    BY <1>6 DEF CreatePlan
  <1>7. ASSUME NEW p \in Publication, ApprovePlan(p) \/ Retry(p) \/ ReconcileConfirmation(p)
        PROVE  UNCHANGED vars
    BY <1>7 DEF ApprovePlan, Retry, ReconcileConfirmation
  <1>8. ASSUME NEW r \in Run, CandidatesReady(r) PROVE UNCHANGED vars
    BY <1>8 DEF CandidatesReady
  <1>9. UNCHANGED allVars => UNCHANGED vars
    BY DEF allVars
  <1> QED
    BY <1>2, <1>3, <1>4, <1>5, <1>6, <1>7, <1>8, <1>9 DEF PublicationNext, WorkOn

-----------------------------------------------------------------------------
(* What a step does to a publication.                                      *)

Untouched(p) ==
    /\ publication'[p] = publication[p]
    /\ proposed'[p] = proposed[p]
    /\ accepted'[p] = accepted[p]
    /\ plans'[p] = plans[p]
    /\ approved'[p] = approved[p]
    /\ attempts'[p] = attempts[p]

(* Nothing that was proposed, accepted, planned, approved or attempted is  *)
(* taken back.                                                             *)
Grows(p) ==
    /\ proposed[p] \subseteq proposed'[p]
    /\ accepted[p].proposal # NoProposal => accepted'[p].proposal = accepted[p].proposal
    /\ \A k \in DOMAIN plans[p] : k \in DOMAIN plans'[p] /\ plans'[p][k] = plans[p][k]
    /\ approved[p] \subseteq approved'[p]
    /\ attempts[p] \subseteq attempts'[p]

PlansAnew(p) ==
    \E plan \in Plan :
        /\ plans'[p] = Append(plans[p], plan)
        /\ PlanOK(p, plan)
        /\ publication[p].status \in PlanStatus

BooksMove(p) ==
    /\ AcceptanceIsKnown(p)'
    /\ plans'[p] = plans[p] \/ PlansAnew(p)
    /\ \A k \in approved'[p] \ approved[p] :
           k \in DOMAIN plans[p] /\ plans[p][k].relation \in {"update", "conflict"}

RowClears(p) ==
    \E k \in DOMAIN plans'[p] \cup {None},
       s \in (Open \ {"retryable"}) \cup {"discarded", "superseded"} :
        /\ publication'[p] = Cleared(k, s)
        /\ publication[p].status \notin Terminal
        /\ RunOf[p] \in ready'
        /\ ValidPublicationTransition(p)
        /\ publication[p].status = "pending_confirmation" =>
               versions'[TargetOf(p)][publication[p].version].status \notin
                   Effective \cup {"pending_confirmation"}

Executable(p) ==
    /\ publication[p].status \in {"ready", "retryable"}
    /\ publication[p].plan # None
    /\ CurrentPlan(p).relation \in {"update", "conflict"} =>
           publication[p].plan \in approved[p]

RowFails(p) ==
    /\ Executable(p)
    /\ \E o \in {"needs_review", "retryable"} : publication'[p] = FailedRow(p, o)
    /\ attempts'[p] = attempts[p]

(* An execution that led to an effective version.                          *)
RowPublishes(p) ==
    \E plan \in Plan, v \in Version :
        /\ Executable(p) /\ plan = CurrentPlan(p)
        /\ publication'[p] = PublishedRow(p, v)
        /\ attempts'[p] = attempts[p] \cup {AttemptOf(p, KindOfResult(CurrentPlan(p)), v)}
        /\ StillSeen(plan)
        /\ versions'[plan.target][v].status \in Effective
        /\ versions'[plan.target][v].activated
        /\ versions'[plan.target][v].content = Finding[p].content
        /\ versions'[plan.target][v].major = plan.major
        /\ KindOfResult(plan) # "noop" => plan.relation # "conflict" /\ ~plan.major

(* An execution that led to a candidate.                                   *)
RowPends(p) ==
    \E plan \in Plan, v \in Version :
        /\ Executable(p) /\ plan = CurrentPlan(p)
        /\ publication'[p] = PendingRow(p, v)
        /\ attempts'[p] = attempts[p] \cup {AttemptOf(p, "pending_confirmation", v)}
        /\ StillSeen(plan) /\ StillSeen(plan)'
        /\ versions'[plan.target][v].status = "pending_confirmation"
        /\ versions'[plan.target][v].content = Finding[p].content
        /\ versions'[plan.target][v].major = plan.major
        /\ confirmation'[plan.target][v]["active"].status = "pending"

RowReconciles(p) ==
    /\ publication[p].status = "pending_confirmation"
    /\ publication'[p] = [publication[p] EXCEPT !.status = "published",
                                                !.kind = KindOfResult(CurrentPlan(p))]
    /\ attempts'[p] = attempts[p]
    /\ ConfirmationOf(p) \notin {"pending", "rejected", "cancelled"}
    /\ UNCHANGED vars

RowMove(p) ==
    \/ publication'[p] = publication[p] /\ attempts'[p] = attempts[p]
    \/ RowClears(p) /\ attempts'[p] = attempts[p]
    \/ RowFails(p)
    \/ RowPublishes(p)
    \/ RowPends(p)
    \/ RowReconciles(p)

(* A step on p leaves the others alone.                                    *)
Works(p) ==
    /\ Types'
    /\ ready' = ready
    /\ \A q \in Publication \ {p} : Untouched(q)
    /\ Grows(p) /\ BooksMove(p) /\ RowMove(p)

(* The row of one publication is written.                                  *)
LEMMA RowMoved ==
  ASSUME Types, NEW p \in Publication, NEW row \in PublicationRow, MoveTo(p, row)
  PROVE  /\ publication' \in [Publication -> PublicationRow]
         /\ publication'[p] = row
         /\ \A q \in Publication \ {p} : publication'[q] = publication[q]
  <1>1. publication \in [Publication -> PublicationRow]
    BY DEF Types, PublicationTypeOK
  <1> QED BY <1>1 DEF MoveTo

(* Nothing but the row and the attempts of p is written.                   *)
LEMMA RowTypes ==
  ASSUME Types, NEW p \in Publication, NEW row \in PublicationRow, MoveTo(p, row),
         row.plan \in DOMAIN plans[p] \cup {None},
         UNCHANGED <<ready, proposed, accepted, plans, approved>>,
         \/ attempts' = attempts
         \/ \E e \in Attempt : attempts' = [attempts EXCEPT ![p] = @ \cup {e}]
  PROVE  /\ Types'
         /\ ready' = ready
         /\ \A q \in Publication \ {p} : Untouched(q)
         /\ Grows(p)
         /\ publication'[p] = row
         /\ attempts' = attempts => attempts'[p] = attempts[p]
         /\ \A e \in Attempt :
                attempts' = [attempts EXCEPT ![p] = @ \cup {e}] =>
                    attempts'[p] = attempts[p] \cup {e}
  <1>1. /\ publication' \in [Publication -> PublicationRow]
        /\ publication'[p] = row
        /\ \A q \in Publication \ {p} : publication'[q] = publication[q]
    BY RowMoved
  <1>2. attempts \in [Publication -> SUBSET Attempt]
    BY DEF Types
  <1>3. /\ attempts' \in [Publication -> SUBSET Attempt]
        /\ attempts[p] \subseteq attempts'[p]
        /\ \A q \in Publication \ {p} : attempts'[q] = attempts[q]
        /\ \A e \in Attempt :
                attempts' = [attempts EXCEPT ![p] = @ \cup {e}] =>
                    attempts'[p] = attempts[p] \cup {e}
    BY <1>2
  <1>4. \A q \in Publication : publication'[q].plan \in DOMAIN plans[q] \cup {None}
    BY <1>1 DEF Types, PublicationTypeOK
  <1>5. \A q \in Publication : attempts'[q] \subseteq Attempt
    BY <1>3
  <1>6. Types'
    BY <1>1, <1>3, <1>4, <1>5 DEF Types, PublicationTypeOK
  <1>7. \A q \in Publication \ {p} : Untouched(q)
    BY <1>1, <1>3 DEF Untouched
  <1>8. Grows(p)
    BY <1>3 DEF Grows
  <1> QED BY <1>1, <1>3, <1>6, <1>7, <1>8

(* What the snapshot says holds of the target.                             *)
LEMMA SnapshotSays ==
  ASSUME Types, TypeOK, NEW p \in Publication, publication[p].plan # None, SnapshotHolds(p)
  PROVE  LET plan == CurrentPlan(p)
             m    == TargetOf(p)
         IN  /\ StillSeen(plan)
             /\ plan.seen.exists = Exists(m)
             /\ current[m] # None => plan.seen.major = versions[m][current[m]].major
  <1>1. TargetOf(p) = CurrentPlan(p).target
    BY DEF TargetOf
  <1>2. Seen(TargetOf(p)) = CurrentPlan(p).seen
    BY DEF SnapshotHolds
  <1> DEFINE m == TargetOf(p)
  <1> HIDE DEF m
  <1>3. /\ Seen(m).version = current[m]
        /\ Seen(m).status = CurrentStatus(m)
        /\ Seen(m).exists = Exists(m)
        /\ current[m] # None => /\ Seen(m).content = versions[m][current[m]].content
                                /\ Seen(m).major = versions[m][current[m]].major
    BY DEF Seen, CurrentStatus, NoVersion
  <1> QED BY <1>1, <1>2, <1>3 DEF StillSeen, m

LEMMA ExecutionStarts ==
  ASSUME AllOK, NEW p \in Publication, MayExecute(p)
  PROVE  /\ Executable(p)
         /\ publication[p].plan \in DOMAIN plans[p] /\ publication[p].plan \in PlanNumber
         /\ CurrentPlan(p) \in Plan
         /\ PlanOK(p, CurrentPlan(p))
         /\ TargetOf(p) = CurrentPlan(p).target /\ TargetOf(p) \in Memory
         /\ InputOf(p) \in PublishInput
  <1>1. Types /\ BooksOK(p)
    BY DEF AllOK, PublicationOK
  <1>2. Executable(p)
    BY DEF MayExecute, Executable
  <1>3. publication[p].plan # None
    BY <1>2 DEF Executable
  <1>4. /\ publication[p].plan \in DOMAIN plans[p] /\ publication[p].plan \in PlanNumber
        /\ CurrentPlan(p) \in Plan /\ CurrentPlan(p) = plans[p][publication[p].plan]
        /\ TargetOf(p) = CurrentPlan(p).target /\ TargetOf(p) \in Memory
    BY <1>1, <1>3, CurrentPlanType
  <1>5. PlanOK(p, CurrentPlan(p))
    BY <1>1, <1>4 DEF BooksOK
  <1>6. InputOf(p) \in PublishInput
    BY <1>1, <1>3, InputIsLegal
  <1> QED BY <1>2, <1>4, <1>5, <1>6

(* What execute asks for.                                                  *)
LEMMA InputParts ==
  ASSUME NEW p \in Publication
  PROVE  /\ InputOf(p).content = Finding[p].content
         /\ InputOf(p).target = "active"
         /\ InputOf(p).ask = (CurrentPlan(p).relation = "conflict")
  BY DEF InputOf

(* Nothing but the plan's books stays where an execution writes.           *)
LEMMA QuietBooks ==
  ASSUME AllOK, NEW p \in Publication, UNCHANGED <<proposed, accepted, plans, approved>>
  PROVE  BooksMove(p)
  <1>1. AcceptanceIsKnown(p)
    BY DEF AllOK, PublicationOK, BooksOK
  <1>2. AcceptanceIsKnown(p)'
    BY <1>1 DEF AcceptanceIsKnown
  <1> QED BY <1>2 DEF BooksMove

LEMMA ExecuteFails ==
  ASSUME AllOK, NEW p \in Publication, MayExecute(p),
         ExecuteStale(p) \/ ExecuteThrows(p),
         UNCHANGED <<ready, proposed, accepted, plans, approved>>
  PROVE  Works(p)
  <1>1. PICK o \in {"needs_review", "retryable"} : RecordFailure(p, o)
    BY DEF ExecuteStale, ExecuteThrows
  <1>2. /\ Executable(p) /\ publication[p].plan \in DOMAIN plans[p]
        /\ publication[p].plan \in PlanNumber
    BY ExecutionStarts
  <1>3. Version # {}
    BY ConstantsAssumption DEF Version
  <1>4. Executed(p, o, AttemptOf(p, o, None)) = FailedRow(p, o) /\ FailedRow(p, o) \in PublicationRow
    BY <1>2, <1>3, ExecutedRows
  <1>5. MoveTo(p, FailedRow(p, o)) /\ attempts' = attempts
    BY <1>1, <1>4 DEF RecordFailure
  <1>6. FailedRow(p, o).plan \in DOMAIN plans[p] \cup {None}
    BY <1>2 DEF FailedRow
  <1>7. Types
    BY DEF AllOK
  <1>8. /\ Types' /\ ready' = ready /\ (\A q \in Publication \ {p} : Untouched(q)) /\ Grows(p)
        /\ publication'[p] = FailedRow(p, o) /\ attempts'[p] = attempts[p]
    BY <1>4, <1>5, <1>6, <1>7, RowTypes
  <1>9. BooksMove(p)
    BY QuietBooks
  <1>10. RowMove(p)
    BY <1>2, <1>8 DEF RowMove, RowFails
  <1> QED BY <1>8, <1>9, <1>10 DEF Works

LEMMA PublishedWorks ==
  ASSUME AllOK, NEW p \in Publication, NEW v \in Version, MayExecute(p),
         RecordPublished(p, v),
         UNCHANGED <<ready, proposed, accepted, plans, approved>>,
         StillSeen(CurrentPlan(p)),
         versions'[TargetOf(p)][v].status \in Effective,
         versions'[TargetOf(p)][v].activated,
         versions'[TargetOf(p)][v].content = Finding[p].content,
         versions'[TargetOf(p)][v].major = CurrentPlan(p).major,
         KindOfResult(CurrentPlan(p)) # "noop" =>
             CurrentPlan(p).relation # "conflict" /\ ~CurrentPlan(p).major
  PROVE  Works(p)
  <1> DEFINE kind == KindOfResult(CurrentPlan(p))
             e    == AttemptOf(p, kind, v)
  <1>1. /\ Executable(p) /\ publication[p].plan \in DOMAIN plans[p]
        /\ publication[p].plan \in PlanNumber /\ CurrentPlan(p) \in Plan
        /\ TargetOf(p) = CurrentPlan(p).target
    BY ExecutionStarts
  <1>2. /\ [Executed(p, "published", e) EXCEPT !.kind = kind] = PublishedRow(p, v)
        /\ PublishedRow(p, v) \in PublicationRow
    BY <1>1, ExecutedRows
  <1>3. MoveTo(p, PublishedRow(p, v)) /\ attempts' = [attempts EXCEPT ![p] = @ \cup {e}]
    BY <1>2 DEF RecordPublished, RecordAttempt
  <1>4. PublishedRow(p, v).plan \in DOMAIN plans[p] \cup {None}
    BY <1>1 DEF PublishedRow
  <1>5. Types /\ e \in Attempt
    BY <1>1, KindType, AttemptType DEF AllOK
  <1> HIDE DEF kind, e
  <1>6. /\ Types' /\ ready' = ready /\ (\A q \in Publication \ {p} : Untouched(q)) /\ Grows(p)
        /\ publication'[p] = PublishedRow(p, v) /\ attempts'[p] = attempts[p] \cup {e}
    BY <1>2, <1>3, <1>4, <1>5, RowTypes
  <1>7. BooksMove(p)
    BY QuietBooks
  <1>8. PICK plan \in Plan : plan = CurrentPlan(p)
    BY <1>1
  <1>9. RowPublishes(p)
    <2>1. StillSeen(plan) /\ plan.target = TargetOf(p)
      BY <1>1, <1>8
    <2> QED BY <1>1, <1>6, <1>8, <2>1 DEF RowPublishes, kind, e
  <1> QED BY <1>6, <1>7, <1>9 DEF Works, RowMove

LEMMA PendingWorks ==
  ASSUME AllOK, NEW p \in Publication, NEW v \in Version, MayExecute(p),
         RecordPending(p, v),
         UNCHANGED <<ready, proposed, accepted, plans, approved>>,
         NEW plan \in Plan, plan = CurrentPlan(p),
         StillSeen(plan), StillSeen(plan)',
         versions'[plan.target][v].status = "pending_confirmation",
         versions'[plan.target][v].content = Finding[p].content,
         versions'[plan.target][v].major = plan.major,
         confirmation'[plan.target][v]["active"].status = "pending"
  PROVE  Works(p)
  <1> DEFINE e == AttemptOf(p, "pending_confirmation", v)
  <1>1. /\ Executable(p) /\ publication[p].plan \in DOMAIN plans[p]
        /\ publication[p].plan \in PlanNumber
    BY ExecutionStarts
  <1>2. /\ [Executed(p, "pending_confirmation", e) EXCEPT !.gated = TRUE] = PendingRow(p, v)
        /\ PendingRow(p, v) \in PublicationRow
    BY <1>1, ExecutedRows
  <1>3. MoveTo(p, PendingRow(p, v)) /\ attempts' = [attempts EXCEPT ![p] = @ \cup {e}]
    BY <1>2 DEF RecordPending, RecordAttempt
  <1>4. PendingRow(p, v).plan \in DOMAIN plans[p] \cup {None}
    BY <1>1 DEF PendingRow
  <1>5. Types /\ e \in Attempt
    BY <1>1, AttemptType DEF AllOK
  <1> HIDE DEF e
  <1>6. /\ Types' /\ ready' = ready /\ (\A q \in Publication \ {p} : Untouched(q)) /\ Grows(p)
        /\ publication'[p] = PendingRow(p, v) /\ attempts'[p] = attempts[p] \cup {e}
    BY <1>2, <1>3, <1>4, <1>5, RowTypes
  <1>7. BooksMove(p)
    BY QuietBooks
  <1>8. RowPends(p)
    BY <1>1, <1>6 DEF RowPends, e
  <1> QED BY <1>6, <1>7, <1>8 DEF Works, RowMove

LEMMA NoopWorks ==
  ASSUME AllOK, NEW p \in Publication, MayExecute(p), ExecuteAsNoop(p),
         UNCHANGED <<ready, proposed, accepted, plans, approved>>
  PROVE  Works(p)
  <1> DEFINE m == TargetOf(p)
             v == current[m]
             plan == CurrentPlan(p)
  <1>1. /\ SnapshotHolds(p) /\ HashIsAsPlanned(p) /\ IsNoop(m, InputOf(p))
        /\ RecordPublished(p, v) /\ UNCHANGED vars
    BY DEF ExecuteAsNoop
  <1>2. /\ publication[p].plan # None /\ plan \in Plan /\ PlanOK(p, plan)
        /\ m = plan.target /\ m \in Memory
    BY ExecutionStarts DEF Executable
  <1>3. Types /\ Inv /\ TypeOK
    BY DEF AllOK, Inv
  <1>4. /\ StillSeen(plan) /\ plan.seen.exists = Exists(m)
        /\ v # None => plan.seen.major = versions[m][v].major
    BY <1>1, <1>2, <1>3, SnapshotSays
  <1>5. v # None /\ SameHash(m, v, InputOf(p)) /\ v \in Version
    BY <1>1, <1>2, <1>3 DEF IsNoop, TypeOK
  <1>6. /\ versions[m][v].content = Finding[p].content
        /\ versions[m][v].major = plan.major
    BY <1>1, <1>5, InputParts DEF SameHash, HashIsAsPlanned
  <1>7. versions[m][v].status \in Effective /\ versions[m][v].activated
    BY <1>2, <1>3, <1>5 DEF Inv, OneEffectiveVersion, ActivationIsRecorded
  <1>8. plan.relation = "noop"
    <2>1. plan.seen.exists
      BY <1>4, <1>5, <1>7 DEF Exists, Stored, Effective
    <2>2. /\ plan.seen.status \in Effective /\ plan.seen.content = Finding[p].content
          /\ plan.seen.major = plan.major
      BY <1>2, <1>4, <1>5, <1>6, <1>7 DEF StillSeen, CurrentStatus
    <2> QED BY <1>2, <2>1, <2>2 DEF PlanOK, RelationOf
  <1>9. KindOfResult(plan) = "noop"
    BY <1>8 DEF KindOfResult
  <1>10. versions' = versions
    BY <1>1 DEF vars
  <1>11. /\ versions'[m][v].status \in Effective /\ versions'[m][v].activated
         /\ versions'[m][v].content = Finding[p].content
         /\ versions'[m][v].major = plan.major
    BY <1>6, <1>7, <1>10
  <1>12. PICK w \in Version : w = v
    BY <1>5
  <1> QED BY <1>1, <1>4, <1>9, <1>11, <1>12, PublishedWorks

LEMMA DirectWorks ==
  ASSUME AllOK, NEW p \in Publication, MayExecute(p), ExecuteDirectly(p),
         UNCHANGED <<ready, proposed, accepted, plans, approved>>
  PROVE  Works(p)
  <1> DEFINE m == TargetOf(p)
             plan == CurrentPlan(p)
  <1>1. PICK v \in Version :
            /\ SnapshotHolds(p) /\ HashIsAsPlanned(p)
            /\ PublishDirect(m, v, InputOf(p)) /\ RecordPublished(p, v)
    BY DEF ExecuteDirectly
  <1>2. /\ publication[p].plan # None /\ plan \in Plan /\ PlanOK(p, plan)
        /\ m = plan.target /\ m \in Memory /\ InputOf(p) \in PublishInput
    BY ExecutionStarts DEF Executable
  <1>3. Types /\ Inv /\ TypeOK
    BY DEF AllOK, Inv
  <1>4. StillSeen(plan)
    BY <1>1, <1>2, <1>3, SnapshotSays
  <1>5. ~IsMajor(m, InputOf(p)) /\ ~InputOf(p).ask
    BY <1>1 DEF PublishDirect, NeedsConfirmation
  <1>6. Clears(m, v, "active", {}) /\ ~versions'[m][v].major /\ Inv'
    BY <1>1, <1>2, <1>3, PublishDirectStep
  <1>7. versions'[m][v].content = Finding[p].content
    BY <1>1, <1>2, <1>3, PublishDirectMoves, InputParts
  <1>8. versions'[m][v].status \in Effective /\ versions'[m][v].activated
    BY <1>6 DEF Clears, VersionBecomes, Effective
  <1>9. ~plan.major /\ plan.relation # "conflict"
    BY <1>1, <1>5, InputParts DEF HashIsAsPlanned
  <1>10. versions'[m][v].major = plan.major
    <2>1. versions'[m][v].major \in BOOLEAN /\ plan.major \in BOOLEAN
      BY <1>2, <1>6 DEF Inv, TypeOK, VersionRow, Plan
    <2> QED BY <1>6, <1>9, <2>1
  <1> QED BY <1>1, <1>4, <1>7, <1>8, <1>9, <1>10, PublishedWorks

LEMMA ReviewWorks ==
  ASSUME AllOK, NEW p \in Publication, MayExecute(p), ExecuteForReview(p),
         UNCHANGED <<ready, proposed, accepted, plans, approved>>
  PROVE  Works(p)
  <1>1. /\ publication[p].plan # None /\ CurrentPlan(p) \in Plan
        /\ TargetOf(p) = CurrentPlan(p).target /\ TargetOf(p) \in Memory
        /\ InputOf(p) \in PublishInput
    BY ExecutionStarts DEF Executable
  <1> DEFINE in == InputOf(p)
  <1>2. PICK plan \in Plan : plan = CurrentPlan(p)
    BY <1>1
  <1>3. PICK m \in Memory : m = plan.target
    BY <1>1, <1>2
  <1>4. PICK v \in Version :
            /\ SnapshotHolds(p) /\ HashIsAsPlanned(p)
            /\ PublishForReview(m, v, in) /\ RecordPending(p, v)
    BY <1>1, <1>2, <1>3 DEF ExecuteForReview
  <1>5. Types /\ Inv /\ TypeOK
    BY DEF AllOK, Inv
  <1>6. StillSeen(plan)
    BY <1>2, <1>4, <1>1, <1>5, SnapshotSays
  <1>7. /\ versions' = [versions EXCEPT ![m][v] = NewRow(m, in)]
        /\ confirmation' = [confirmation EXCEPT ![m][v]["active"] =
               [status |-> "pending", expected |-> current[m], kind |-> PublishKind(m, in)]]
        /\ current' = current /\ IsNextVersion(m, v)
    BY <1>4, InputParts DEF PublishForReview
  <1>8. /\ NewRow(m, in).status = "pending_confirmation"
        /\ NewRow(m, in).content = Finding[p].content
        /\ NewRow(m, in).major = plan.major
    BY <1>2, <1>3, <1>4, <1>1, InputParts DEF NewRow, HashIsAsPlanned
  <1>9. /\ versions'[m][v] = NewRow(m, in)
        /\ \A w \in Version \ {v} : versions'[m][w] = versions[m][w]
        /\ confirmation'[m][v]["active"].status = "pending"
    BY <1>5, <1>7 DEF TypeOK, Target
  <1>10. v # current[m]
    <2>1. versions[m][v].status = "absent"
      BY <1>5, <1>7 DEF IsNextVersion, Stored, Version
    <2> QED BY <1>5, <2>1 DEF Inv, OneEffectiveVersion, Effective
  <1>11. StillSeen(plan)'
    <2>1. current'[m] = current[m] /\ current[m] \in Version \cup {None}
      BY <1>5, <1>7 DEF TypeOK
    <2>2. current[m] # None => versions'[m][current[m]] = versions[m][current[m]]
      BY <1>9, <1>10, <2>1
    <2>3. CurrentStatus(m)' = CurrentStatus(m)
      BY <2>1, <2>2 DEF CurrentStatus
    <2> QED BY <1>3, <1>6, <2>1, <2>2, <2>3 DEF StillSeen
  <1> QED BY <1>2, <1>3, <1>4, <1>6, <1>8, <1>9, <1>11, PendingWorks

LEMMA OpenRequestWorks ==
  ASSUME AllOK, NEW p \in Publication, MayExecute(p), ExecuteOnOpenRequest(p),
         UNCHANGED <<ready, proposed, accepted, plans, approved>>
  PROVE  Works(p)
  <1>1. /\ publication[p].plan # None /\ CurrentPlan(p) \in Plan
        /\ TargetOf(p) = CurrentPlan(p).target
    BY ExecutionStarts DEF Executable
  <1>2. PICK plan \in Plan : plan = CurrentPlan(p)
    BY <1>1
  <1>3. PICK v \in Candidates(plan.target) :
            /\ SnapshotHolds(p) /\ HashIsAsPlanned(p)
            /\ SameHash(plan.target, v, InputOf(p))
            /\ confirmation[plan.target][v]["active"].status = "pending"
            /\ RecordPending(p, v)
            /\ UNCHANGED vars
    BY <1>1, <1>2 DEF ExecuteOnOpenRequest
  <1>4. Types /\ TypeOK
    BY DEF AllOK, Inv
  <1>5. StillSeen(plan)
    BY <1>1, <1>2, <1>3, <1>4, SnapshotSays
  <1>6. /\ v \in Version /\ versions[plan.target][v].status = "pending_confirmation"
        /\ versions[plan.target][v].content = Finding[p].content
        /\ versions[plan.target][v].major = plan.major
    BY <1>1, <1>2, <1>3, InputParts DEF Candidates, SameHash, HashIsAsPlanned
  <1>7. versions' = versions /\ confirmation' = confirmation /\ current' = current
    BY <1>3 DEF vars
  <1>8. StillSeen(plan)'
    BY <1>5, <1>7 DEF StillSeen, CurrentStatus
  <1> QED BY <1>2, <1>3, <1>5, <1>6, <1>7, <1>8, PendingWorks

LEMMA ExecuteWorks ==
  ASSUME AllOK, NEW p \in Publication, Execute(p)
  PROVE  Works(p)
  BY ExecuteFails, NoopWorks, DirectWorks, ReviewWorks, OpenRequestWorks DEF Execute

-----------------------------------------------------------------------------
(* The steps of the workers and the humans.                                *)

(* The row and the books of one publication are written.                   *)
LEMMA BooksTypes ==
  ASSUME Types, NEW p \in Publication, NEW row \in PublicationRow, MoveTo(p, row),
         ready' = ready, attempts' = attempts,
         proposed' \in [Publication -> SUBSET Proposal],
         accepted' \in [Publication ->
             [proposal : Proposal \cup {NoProposal}, times : 0 .. MaxAcceptance]],
         plans' \in [Publication -> Seq(Plan)], Len(plans'[p]) <= MaxPlan,
         approved' \in [Publication -> SUBSET PlanNumber],
         approved'[p] \subseteq DOMAIN plans'[p],
         row.plan \in DOMAIN plans'[p] \cup {None},
         \A q \in Publication \ {p} :
             /\ proposed'[q] = proposed[q] /\ accepted'[q] = accepted[q]
             /\ plans'[q] = plans[q] /\ approved'[q] = approved[q]
  PROVE  /\ Types' /\ ready' = ready
         /\ \A q \in Publication \ {p} : Untouched(q)
         /\ publication'[p] = row /\ attempts'[p] = attempts[p]
  <1>1. /\ publication' \in [Publication -> PublicationRow]
        /\ publication'[p] = row
        /\ \A q \in Publication \ {p} : publication'[q] = publication[q]
    BY RowMoved
  <1>2. \A q \in Publication \ {p} : Untouched(q)
    BY <1>1 DEF Untouched
  <1>3. \A q \in Publication : \A k \in DOMAIN plans'[q] : plans'[q][k] \in Plan
    OBVIOUS
  <1>4. \A q \in Publication :
            /\ Len(plans'[q]) <= MaxPlan
            /\ approved'[q] \subseteq DOMAIN plans'[q]
            /\ attempts'[q] \subseteq Attempt
            /\ publication'[q].plan \in DOMAIN plans'[q] \cup {None}
    BY <1>1 DEF Types, PublicationTypeOK
  <1>5. PublicationTypeOK'
    BY <1>1, <1>3, <1>4 DEF Types, PublicationTypeOK
  <1>6. Types'
    BY <1>5 DEF Types
  <1> QED BY <1>1, <1>2, <1>6

(* Work that waits for nobody's confirmation loses its result.             *)
LEMMA RowIsCleared ==
  ASSUME AllOK, NEW p \in Publication,
         NEW k \in PlanNumber \cup {None},
         NEW s \in (Open \ {"retryable"}) \cup {"discarded", "superseded"},
         publication[p].status \in Open, MoveTo(p, Cleared(k, s)), ready' = ready,
         k \in DOMAIN plans'[p] \cup {None},
         \/ s \in {"needs_review", "discarded", "superseded"}
         \/ s = "ready" /\ publication[p].status # "pending"
         \/ s \in {"ready", "awaiting_hierarchy"} /\ publication[p].status # s
  PROVE  RowClears(p)
  <1>1. Types /\ RowOK(p)
    BY DEF AllOK, PublicationOK
  <1>2. Cleared(k, s) \in PublicationRow /\ Cleared(k, s).status = s
    BY ClearedType DEF Cleared
  <1>3. publication'[p] = Cleared(k, s)
    BY <1>1, <1>2, RowMoved
  <1>4. publication'[p].status = s
    BY <1>2, <1>3
  <1>5. publication[p].status \notin Terminal \cup {"absent", "pending_confirmation"}
    BY DEF Open, Terminal
  <1>6. ValidPublicationTransition(p)
    BY <1>4 DEF ValidPublicationTransition, Open
  <1>7. RunOf[p] \in ready'
    BY <1>1, <1>5 DEF RowOK, RowIsBound
  <1> QED BY <1>3, <1>5, <1>6, <1>7 DEF RowClears

LEMMA ProposeWorks ==
  ASSUME AllOK, NEW p \in Publication, NEW h \in Proposal, Propose(p, h)
  PROVE  Works(p)
  <1>1. PICK desired \in {"awaiting_hierarchy", "ready"} :
            /\ publication[p].status \in Open
            /\ proposed' = [proposed EXCEPT ![p] = @ \cup {h}]
            /\ MoveTo(p, IF publication[p].status = desired THEN publication[p]
                         ELSE Reset(p, desired))
            /\ UNCHANGED <<vars, ready, accepted, plans, approved, attempts>>
    BY DEF Propose
  <1>2. /\ Types /\ proposed \in [Publication -> SUBSET Proposal]
        /\ publication[p] \in PublicationRow
        /\ publication[p].plan \in DOMAIN plans[p] \cup {None}
        /\ publication[p].plan \in PlanNumber \cup {None}
    BY PlanNumbers DEF AllOK, Types, PublicationTypeOK
  <1>3. /\ proposed' \in [Publication -> SUBSET Proposal]
        /\ proposed[p] \subseteq proposed'[p]
        /\ \A q \in Publication \ {p} : proposed'[q] = proposed[q]
    BY <1>1, <1>2
  <1>4. desired \in Statuses /\ desired \in (Open \ {"retryable"}) \cup {"discarded", "superseded"}
    BY DEF Statuses, Open
  <1>5. Reset(p, desired) = Cleared(None, desired) /\ Cleared(None, desired) \in PublicationRow
    <2>1. Reset(p, desired) = Cleared(None, desired)
      BY <1>2, <1>4, ClearedRows
    <2> QED BY <1>4, <2>1, ClearedType
  <1>6. PICK row \in PublicationRow :
            /\ MoveTo(p, row) /\ row.plan \in DOMAIN plans[p] \cup {None}
            /\ row = publication[p] \/ row = Cleared(None, desired)
            /\ publication[p].status = desired => row = publication[p]
    BY <1>1, <1>2, <1>5 DEF Cleared
  <1>7. /\ plans \in [Publication -> Seq(Plan)] /\ Len(plans[p]) <= MaxPlan
        /\ approved \in [Publication -> SUBSET PlanNumber] /\ approved[p] \subseteq DOMAIN plans[p]
        /\ accepted \in [Publication ->
               [proposal : Proposal \cup {NoProposal}, times : 0 .. MaxAcceptance]]
    BY <1>2 DEF Types, PublicationTypeOK
  <1>8. /\ Types' /\ ready' = ready /\ (\A q \in Publication \ {p} : Untouched(q))
        /\ publication'[p] = row /\ attempts'[p] = attempts[p]
    BY <1>1, <1>2, <1>3, <1>6, <1>7, BooksTypes
  <1>9. Grows(p)
    BY <1>1, <1>3 DEF Grows
  <1>10. BooksMove(p)
    <2>1. AcceptanceIsKnown(p)
      BY DEF AllOK, PublicationOK, BooksOK
    <2>2. AcceptanceIsKnown(p)'
      BY <1>1, <1>3, <2>1 DEF AcceptanceIsKnown
    <2> QED BY <1>1, <2>2 DEF BooksMove
  <1>11. row = publication[p] \/ RowClears(p)
    <2>1. CASE row # publication[p]
      <3>1. row = Cleared(None, desired) /\ publication[p].status # desired
        BY <1>6, <2>1
      <3>2. None \in PlanNumber \cup {None} /\ None \in DOMAIN plans'[p] \cup {None}
        OBVIOUS
      <3> QED BY <1>1, <1>4, <1>6, <3>1, <3>2, RowIsCleared
    <2> QED BY <2>1
  <1> QED BY <1>8, <1>9, <1>10, <1>11 DEF Works, RowMove

LEMMA AcceptHierarchyWorks ==
  ASSUME AllOK, NEW p \in Publication, NEW h \in Proposal, AcceptHierarchy(p, h)
  PROVE  Works(p)
  <1>1. /\ publication[p].status \in {"awaiting_hierarchy", "needs_review", "ready"}
        /\ h \in proposed[p] /\ accepted[p].proposal \in {h, NoProposal}
        /\ accepted[p].times < MaxAcceptance
        /\ accepted' = [accepted EXCEPT ![p] = [proposal |-> h, times |-> accepted[p].times + 1]]
        /\ MoveTo(p, Reset(p, "ready"))
        /\ UNCHANGED <<vars, ready, proposed, plans, approved, attempts>>
    BY DEF AcceptHierarchy, HierarchyCanBeDecided
  <1>2. /\ Types
        /\ proposed \in [Publication -> SUBSET Proposal]
        /\ accepted \in [Publication ->
               [proposal : Proposal \cup {NoProposal}, times : 0 .. MaxAcceptance]]
        /\ plans \in [Publication -> Seq(Plan)] /\ Len(plans[p]) <= MaxPlan
        /\ approved \in [Publication -> SUBSET PlanNumber] /\ approved[p] \subseteq DOMAIN plans[p]
        /\ publication[p].plan \in PlanNumber \cup {None}
    BY PlanNumbers DEF AllOK, Types, PublicationTypeOK
  <1>3. Reset(p, "ready") = Cleared(None, "ready") /\ Cleared(None, "ready") \in PublicationRow
    <2>1. "ready" \in Open /\ "ready" \in Statuses
      BY DEF Open, Statuses
    <2>2. Reset(p, "ready") = Cleared(None, "ready")
      BY <1>2, <2>1, ClearedRows
    <2> QED BY <2>1, <2>2, ClearedType
  <1>4. /\ accepted' \in [Publication ->
               [proposal : Proposal \cup {NoProposal}, times : 0 .. MaxAcceptance]]
        /\ accepted'[p] = [proposal |-> h, times |-> accepted[p].times + 1]
        /\ \A q \in Publication \ {p} : accepted'[q] = accepted[q]
    <2>1. MaxAcceptance \in Nat /\ accepted[p].times \in 0 .. MaxAcceptance
      BY <1>2, PublicationConstants
    <2>2. accepted[p].times + 1 \in 0 .. MaxAcceptance
      BY <1>1, <2>1
    <2>3. [proposal |-> h, times |-> accepted[p].times + 1] \in
              [proposal : Proposal \cup {NoProposal}, times : 0 .. MaxAcceptance]
      BY <2>2
    <2> QED BY <1>1, <1>2, <2>3
  <1>5. /\ Types' /\ ready' = ready /\ (\A q \in Publication \ {p} : Untouched(q))
        /\ publication'[p] = Cleared(None, "ready") /\ attempts'[p] = attempts[p]
    <2>1. Cleared(None, "ready").plan \in DOMAIN plans'[p] \cup {None}
      BY DEF Cleared
    <2> QED BY <1>1, <1>2, <1>3, <1>4, <2>1, BooksTypes
  <1>6. Grows(p)
    BY <1>1, <1>4 DEF Grows
  <1>7. BooksMove(p)
    BY <1>1, <1>4 DEF BooksMove, AcceptanceIsKnown
  <1>8. RowClears(p)
    <2>1. /\ "ready" \in (Open \ {"retryable"}) \cup {"discarded", "superseded"}
          /\ publication[p].status \in Open /\ publication[p].status # "pending"
          /\ MoveTo(p, Cleared(None, "ready")) /\ ready' = ready
      BY <1>1, <1>3 DEF Open
    <2>2. None \in PlanNumber \cup {None} /\ None \in DOMAIN plans'[p] \cup {None}
      OBVIOUS
    <2> QED BY <2>1, <2>2, RowIsCleared
  <1> QED BY <1>5, <1>6, <1>7, <1>8 DEF Works, RowMove

(* Nothing but the row is written, and it is cleared.                      *)
LEMMA ClearWorks ==
  ASSUME AllOK, NEW p \in Publication,
         NEW k \in {None, publication[p].plan},
         NEW s \in {"ready", "needs_review", "discarded"},
         publication[p].status \in Open,
         s = "ready" => publication[p].status # "pending",
         MoveTo(p, Cleared(k, s)),
         UNCHANGED <<ready, proposed, accepted, plans, approved, attempts>>
  PROVE  Works(p)
  <1>1. /\ Types /\ publication[p].plan \in DOMAIN plans[p] \cup {None}
        /\ publication[p].plan \in PlanNumber \cup {None}
    BY PlanNumbers DEF AllOK, Types, PublicationTypeOK
  <1>2. s \in (Open \ {"retryable"}) \cup {"discarded", "superseded"}
    BY DEF Open
  <1>3. k \in PlanNumber \cup {None} /\ k \in DOMAIN plans[p] \cup {None}
    BY <1>1
  <1>4. Cleared(k, s) \in PublicationRow /\ Cleared(k, s).plan = k
    BY <1>2, <1>3, ClearedType DEF Cleared
  <1>5. /\ Types' /\ ready' = ready /\ (\A q \in Publication \ {p} : Untouched(q)) /\ Grows(p)
        /\ publication'[p] = Cleared(k, s) /\ attempts'[p] = attempts[p]
    BY <1>1, <1>3, <1>4, RowTypes
  <1>6. BooksMove(p)
    BY QuietBooks
  <1>7. RowClears(p)
    BY <1>2, <1>3, RowIsCleared
  <1> QED BY <1>5, <1>6, <1>7 DEF Works, RowMove

LEMMA RejectHierarchyWorks ==
  ASSUME AllOK, NEW p \in Publication, NEW h \in Proposal, RejectHierarchy(p, h)
  PROVE  Works(p)
  <1>1. publication[p].plan \in PlanNumber \cup {None}
    BY PlanNumbers DEF AllOK, Types, PublicationTypeOK
  <1>2. Reset(p, "needs_review") = Cleared(None, "needs_review")
    BY <1>1, ClearedRows DEF Statuses, Open
  <1> QED
    BY <1>2, ClearWorks DEF RejectHierarchy, HierarchyCanBeDecided, Open

LEMMA RetryWorks ==
  ASSUME AllOK, NEW p \in Publication, Retry(p)
  PROVE  Works(p)
  <1>1. publication[p].plan \in PlanNumber \cup {None}
    BY PlanNumbers DEF AllOK, Types, PublicationTypeOK
  <1>2. Clear(p, "ready") = Cleared(publication[p].plan, "ready")
    BY <1>1, ClearedRows DEF Statuses, Open, Terminal
  <1> QED BY <1>2, ClearWorks DEF Retry, Open

LEMMA DiscardOpenWorks ==
  ASSUME AllOK, NEW p \in Publication, Discard(p), publication[p].status \in Open
  PROVE  Works(p)
  <1>1. publication[p].plan \in PlanNumber \cup {None}
    BY PlanNumbers DEF AllOK, Types, PublicationTypeOK
  <1>2. Clear(p, "discarded") = Cleared(publication[p].plan, "discarded")
    BY <1>1, ClearedRows DEF Statuses, Open, Terminal
  <1> QED BY <1>2, ClearWorks DEF Discard

(* Snapshots and plans as create_plan writes them.                         *)
LEMMA SeenParts ==
  ASSUME Inv, NEW m \in Memory
  PROVE  /\ Seen(m) \in Snapshot
         /\ Seen(m).exists = Exists(m)
         /\ Seen(m).version = current[m]
         /\ Seen(m).status = CurrentStatus(m)
         /\ Seen(m).major = CurrentIsMajor(m)
         /\ current[m] # None => Seen(m).content = versions[m][current[m]].content
         /\ current[m] # None => Seen(m).status \in Effective /\ Exists(m)
         /\ current[m] = None => Seen(m).status = "absent"
         /\ CurrentIsMajor(m) \in BOOLEAN
  <1>1. /\ current[m] \in Version \cup {None}
        /\ \A v \in Version : versions[m][v] \in VersionRow
    BY DEF Inv, TypeOK
  <1>2. current[m] # None => versions[m][current[m]].status \in Effective
    BY <1>1 DEF Inv, OneEffectiveVersion
  <1>3. current[m] # None => Exists(m)
    BY <1>1, <1>2 DEF Exists, Stored, Effective
  <1>4. PICK row \in VersionRow :
            row = IF current[m] = None THEN NoVersion ELSE versions[m][current[m]]
    BY <1>1 DEF NoVersion, VersionRow, Status
  <1>5. /\ current[m] = None => row.status = "absent" /\ row.major = FALSE
        /\ current[m] # None => row = versions[m][current[m]]
    BY <1>4 DEF NoVersion
  <1>6. Seen(m) = [exists |-> Exists(m), version |-> current[m], status |-> row.status,
                   content |-> row.content, major |-> row.major]
    BY <1>4 DEF Seen
  <1>7. Exists(m) \in BOOLEAN
    BY DEF Exists
  <1>8. Seen(m) \in Snapshot
    BY <1>1, <1>6, <1>7 DEF Snapshot, VersionRow
  <1>9. row.major = CurrentIsMajor(m) /\ CurrentIsMajor(m) \in BOOLEAN
    BY <1>5 DEF CurrentIsMajor, VersionRow
  <1>10. row.status = CurrentStatus(m)
    BY <1>5 DEF CurrentStatus
  <1> QED BY <1>2, <1>3, <1>5, <1>6, <1>8, <1>9, <1>10

LEMMA PlanIsMade ==
  ASSUME AllOK, NEW p \in Publication, NEW h \in Proposal, NEW m \in Memory, HierarchyStands(p, h)
  PROVE  PlanFor(p, h, m) \in Plan /\ PlanOK(p, PlanFor(p, h, m))
  <1> DEFINE plan == PlanFor(p, h, m)
  <1>1. Inv /\ Types
    BY DEF AllOK
  <1>2. accepted[p] \in [proposal : Proposal \cup {NoProposal}, times : 0 .. MaxAcceptance]
    BY <1>1 DEF Types, PublicationTypeOK
  <1>3. MaxAcceptance \in Nat /\ Finding[p].major \in BOOLEAN
    BY PublicationConstants
  <1>4. Acceptance(p, h) \in 0 .. MaxAcceptance /\ (Acceptance(p, h) # 0 => accepted[p].proposal = h)
    BY <1>2, <1>3 DEF Acceptance
  <1>5. GovernedMajor(p, m) \in BOOLEAN
    BY <1>3 DEF GovernedMajor, HasActivatedMajor
  <1>6. RelationTo(p, m) \in Relation
    BY DEF RelationTo, Relation
  <1>7. /\ Seen(m) \in Snapshot /\ Seen(m).exists = Exists(m) /\ Seen(m).version = current[m]
        /\ Seen(m).status = CurrentStatus(m) /\ Seen(m).major = CurrentIsMajor(m)
        /\ current[m] # None => Seen(m).content = versions[m][current[m]].content
        /\ current[m] # None => Seen(m).status \in Effective /\ Exists(m)
        /\ current[m] = None => Seen(m).status = "absent"
        /\ CurrentIsMajor(m) \in BOOLEAN
    BY <1>1, SeenParts
  <1>8. /\ plan.proposal = h /\ plan.acceptance = Acceptance(p, h) /\ plan.target = m
        /\ plan.seen = Seen(m) /\ plan.relation = RelationTo(p, m)
        /\ plan.major = GovernedMajor(p, m)
    BY DEF PlanFor
  <1>9. plan \in Plan
    BY <1>4, <1>5, <1>6, <1>7 DEF PlanFor, Plan
  <1> HIDE DEF plan
  <1>10. CurrentStatus(m) \in Effective => current[m] # None
    BY DEF CurrentStatus, Effective
  <1>11. SnapshotIsComplete(plan)
    BY <1>7, <1>8 DEF SnapshotIsComplete, NoVersion, RelationTo, Effective
  <1>12. plan.relation = "noop" =>
             /\ plan.seen.version # None /\ plan.seen.content = Finding[p].content
             /\ plan.seen.major = plan.major
    BY <1>7, <1>8, <1>10 DEF RelationTo
  <1>13. plan.relation = RelationOf(p, plan)
    BY <1>7, <1>8, <1>10 DEF RelationOf, RelationTo
  <1>14. Finding[p].major \/ plan.target \in LevelOne => plan.major
    BY <1>8 DEF GovernedMajor
  <1>15. PlanIsSound(p, plan)
    BY <1>4, <1>7, <1>8, <1>11, <1>12, <1>14 DEF PlanIsSound, HierarchyStands
  <1> QED BY <1>9, <1>13, <1>15 DEF PlanOK, plan

LEMMA CreatePlanWorks ==
  ASSUME AllOK, NEW p \in Publication, NEW h \in Proposal, NEW m \in Memory, CreatePlan(p, h, m)
  PROVE  Works(p)
  <1>1. PICK plan \in Plan : plan = PlanFor(p, h, m) /\ PlanOK(p, plan)
    BY PlanIsMade DEF CreatePlan
  <1>2. PICK s \in {"ready", "needs_review"} : s = StatusAfterPlan(plan)
    BY DEF StatusAfterPlan
  <1>3. PICK k \in DOMAIN plans[p] \cup {Len(plans[p]) + 1} :
            /\ publication[p].status \in PlanStatus
            /\ MoveTo(p, [Reset(p, s) EXCEPT !.plan = k])
            /\ \/ k \in DOMAIN plans[p] /\ UNCHANGED plans
               \/ /\ k = Len(plans[p]) + 1 /\ Len(plans[p]) < MaxPlan
                  /\ plans' = [plans EXCEPT ![p] = Append(plans[p], plan)]
            /\ UNCHANGED <<vars, ready, proposed, accepted, approved, attempts>>
    <2>1. \/ \E k \in DOMAIN plans[p] :
                 /\ MoveTo(p, [Reset(p, s) EXCEPT !.plan = k]) /\ UNCHANGED plans
          \/ /\ Len(plans[p]) < MaxPlan
             /\ plans' = [plans EXCEPT ![p] = Append(plans[p], plan)]
             /\ MoveTo(p, [Reset(p, s) EXCEPT !.plan = Len(plans[p]) + 1])
      BY <1>1, <1>2 DEF CreatePlan
    <2>2. /\ publication[p].status \in PlanStatus
          /\ UNCHANGED <<vars, ready, proposed, accepted, approved, attempts>>
      BY DEF CreatePlan
    <2> QED BY <2>1, <2>2
  <1>4. /\ Types /\ plans \in [Publication -> Seq(Plan)]
        /\ proposed \in [Publication -> SUBSET Proposal]
        /\ accepted \in [Publication ->
               [proposal : Proposal \cup {NoProposal}, times : 0 .. MaxAcceptance]]
        /\ approved \in [Publication -> SUBSET PlanNumber] /\ approved[p] \subseteq DOMAIN plans[p]
    BY DEF AllOK, Types, PublicationTypeOK
  <1>5. /\ DOMAIN plans[p] = 1 .. Len(plans[p]) /\ DOMAIN plans[p] \subseteq PlanNumber
        /\ Len(plans[p]) \in Nat /\ Len(plans[p]) <= MaxPlan /\ MaxPlan \in Nat
        /\ publication[p].plan \in PlanNumber \cup {None}
    BY <1>4, PlanNumbers, PublicationConstants DEF Types, PublicationTypeOK
  <1>6. /\ plans' \in [Publication -> Seq(Plan)] /\ Len(plans'[p]) <= MaxPlan
        /\ k \in DOMAIN plans'[p]
        /\ \A j \in DOMAIN plans[p] : j \in DOMAIN plans'[p] /\ plans'[p][j] = plans[p][j]
        /\ \A q \in Publication \ {p} : plans'[q] = plans[q]
        /\ plans'[p] = plans[p] \/ plans'[p] = Append(plans[p], plan)
    <2>1. CASE k \in DOMAIN plans[p] /\ UNCHANGED plans
      BY <1>4, <1>5, <2>1
    <2>2. CASE /\ k = Len(plans[p]) + 1 /\ Len(plans[p]) < MaxPlan
               /\ plans' = [plans EXCEPT ![p] = Append(plans[p], plan)]
      <3>1. plans[p] \in Seq(Plan)
        BY <1>4
      <3>2. /\ Append(plans[p], plan) \in Seq(Plan)
            /\ Len(Append(plans[p], plan)) = Len(plans[p]) + 1
            /\ DOMAIN Append(plans[p], plan) = 1 .. Len(plans[p]) + 1
            /\ \A j \in 1 .. Len(plans[p]) : Append(plans[p], plan)[j] = plans[p][j]
        BY <3>1
      <3>3. /\ plans'[p] = Append(plans[p], plan)
            /\ \A q \in Publication \ {p} : plans'[q] = plans[q]
            /\ plans' \in [Publication -> Seq(Plan)]
        BY <1>4, <2>2, <3>2
      <3>4. Len(plans[p]) + 1 <= MaxPlan /\ Len(plans[p]) + 1 \in 1 .. Len(plans[p]) + 1
        BY <1>5, <2>2
      <3>5. \A j \in 1 .. Len(plans[p]) : j \in 1 .. Len(plans[p]) + 1
        BY <1>5
      <3> QED BY <1>5, <2>2, <3>2, <3>3, <3>4, <3>5
    <2> QED BY <1>3, <2>1, <2>2
  <1>7. k \in PlanNumber
    BY <1>5, <1>3 DEF PlanNumber
  <1>8. s \in Open \ {"retryable"} /\ s \in Statuses
    BY DEF Open, Statuses
  <1>9. [Reset(p, s) EXCEPT !.plan = k] = Cleared(k, s)
    BY <1>5, <1>7, <1>8, ClearedRows
  <1>10. /\ Cleared(k, s) \in PublicationRow /\ Cleared(k, s).plan = k
         /\ MoveTo(p, Cleared(k, s))
    BY <1>3, <1>7, <1>8, <1>9, ClearedType DEF Cleared
  <1>11. approved' = approved /\ approved'[p] \subseteq DOMAIN plans'[p]
    BY <1>3, <1>4, <1>6
  <1>12. /\ Types' /\ ready' = ready /\ (\A q \in Publication \ {p} : Untouched(q))
         /\ publication'[p] = Cleared(k, s) /\ attempts'[p] = attempts[p]
    BY <1>3, <1>4, <1>6, <1>10, <1>11, BooksTypes
  <1>13. Grows(p)
    BY <1>3, <1>6 DEF Grows
  <1>14. BooksMove(p)
    <2>1. AcceptanceIsKnown(p)
      BY DEF AllOK, PublicationOK, BooksOK
    <2>2. AcceptanceIsKnown(p)'
      BY <1>3, <2>1 DEF AcceptanceIsKnown
    <2> QED BY <1>1, <1>3, <1>6, <2>2 DEF BooksMove, PlansAnew
  <1>15. RowClears(p)
    <2>1. publication[p].status \in Open /\ publication[p].status # "pending"
      BY <1>3 DEF PlanStatus, Open
    <2> QED BY <1>3, <1>6, <1>7, <1>8, <1>10, <2>1, RowIsCleared
  <1> QED BY <1>12, <1>13, <1>14, <1>15 DEF Works, RowMove

LEMMA ApprovePlanWorks ==
  ASSUME AllOK, NEW p \in Publication, ApprovePlan(p)
  PROVE  Works(p)
  <1>1. PICK k \in PlanNumber : k = publication[p].plan /\ k \in DOMAIN plans[p]
    BY CurrentPlanType DEF ApprovePlan, AllOK
  <1>2. /\ publication[p].status = "needs_review"
        /\ plans[p][k].relation \in {"update", "conflict"}
        /\ approved' = [approved EXCEPT ![p] = @ \cup {k}]
        /\ MoveTo(p, Clear(p, "ready"))
        /\ UNCHANGED <<vars, ready, proposed, accepted, plans, attempts>>
    BY <1>1 DEF ApprovePlan, CurrentPlan
  <1>3. /\ Types
        /\ proposed \in [Publication -> SUBSET Proposal]
        /\ accepted \in [Publication ->
               [proposal : Proposal \cup {NoProposal}, times : 0 .. MaxAcceptance]]
        /\ plans \in [Publication -> Seq(Plan)] /\ Len(plans[p]) <= MaxPlan
        /\ approved \in [Publication -> SUBSET PlanNumber] /\ approved[p] \subseteq DOMAIN plans[p]
    BY DEF AllOK, Types, PublicationTypeOK
  <1>4. "ready" \in Open \ {"retryable"} /\ "ready" \in Statuses
    BY DEF Open, Statuses
  <1>5. Clear(p, "ready") = Cleared(k, "ready")
    BY <1>1, <1>4, ClearedRows
  <1>6. /\ Cleared(k, "ready") \in PublicationRow /\ Cleared(k, "ready").plan = k
        /\ MoveTo(p, Cleared(k, "ready"))
    BY <1>2, <1>4, <1>5, ClearedType DEF Cleared
  <1>7. /\ approved' \in [Publication -> SUBSET PlanNumber]
        /\ approved'[p] = approved[p] \cup {k}
        /\ \A q \in Publication \ {p} : approved'[q] = approved[q]
    BY <1>2, <1>3
  <1>8. approved'[p] \subseteq DOMAIN plans'[p] /\ k \in DOMAIN plans'[p]
    BY <1>1, <1>2, <1>3, <1>7
  <1>9. /\ Types' /\ ready' = ready /\ (\A q \in Publication \ {p} : Untouched(q))
        /\ publication'[p] = Cleared(k, "ready") /\ attempts'[p] = attempts[p]
    BY <1>2, <1>3, <1>6, <1>7, <1>8, BooksTypes
  <1>10. Grows(p)
    BY <1>2, <1>7 DEF Grows
  <1>11. BooksMove(p)
    <2>1. AcceptanceIsKnown(p)
      BY DEF AllOK, PublicationOK, BooksOK
    <2>2. AcceptanceIsKnown(p)'
      BY <1>2, <2>1 DEF AcceptanceIsKnown
    <2> QED BY <1>1, <1>2, <1>7, <2>2 DEF BooksMove
  <1>12. RowClears(p)
    <2>1. publication[p].status \in Open /\ publication[p].status # "pending"
      BY <1>2 DEF Open
    <2> QED BY <1>2, <1>4, <1>6, <1>8, <2>1, RowIsCleared
  <1> QED BY <1>9, <1>10, <1>11, <1>12 DEF Works, RowMove

(* A publication that waits names the version and the open request.        *)
LEMMA WaitingRow ==
  ASSUME AllOK, NEW p \in Publication, publication[p].status = "pending_confirmation"
  PROVE  /\ publication[p] \in PublicationRow
         /\ publication[p].plan # None /\ publication[p].plan \in DOMAIN plans[p]
         /\ publication[p].plan \in PlanNumber
         /\ publication[p].version \in Version /\ publication[p].gated
         /\ CurrentPlan(p) \in Plan
         /\ TargetOf(p) = CurrentPlan(p).target /\ TargetOf(p) \in Memory
         /\ ConfirmationOf(p) \in Decision \ {"none"}
         /\ RunOf[p] \in ready
  <1>1. Types /\ TypeOK /\ RowOK(p)
    BY DEF AllOK, Inv, PublicationOK
  <1>2. publication[p] \in PublicationRow
    BY <1>1 DEF Types, PublicationTypeOK
  <1>3. publication[p].plan # None
    BY <1>1 DEF RowOK, RowFollowsPlan
  <1>4. publication[p].version \in Version /\ publication[p].gated
    BY <1>1, <1>2 DEF RowOK, ResultIsComplete, PublicationRow
  <1>5. /\ publication[p].plan \in DOMAIN plans[p] /\ publication[p].plan \in PlanNumber
        /\ CurrentPlan(p) \in Plan
        /\ TargetOf(p) = CurrentPlan(p).target /\ TargetOf(p) \in Memory
    BY <1>1, <1>3, CurrentPlanType
  <1>6. ConfirmationOf(p) # "none"
    BY <1>1, <1>4 DEF RowOK, ConfirmationIsBound
  <1>7. ConfirmationOf(p) \in Decision
    <2>1. "active" \in Target
      BY DEF Target
    <2>2. confirmation[TargetOf(p)][publication[p].version]["active"] \in ConfirmationRow
      BY <1>1, <1>4, <1>5, <2>1 DEF TypeOK
    <2> QED BY <2>2 DEF ConfirmationOf, ConfirmationRow
  <1>8. RunOf[p] \in ready
    BY <1>1 DEF RowOK, RowIsBound
  <1> QED BY <1>2, <1>3, <1>4, <1>5, <1>6, <1>7, <1>8

(* The result that was waited for is given up.                             *)
LEMMA GivingUpWorks ==
  ASSUME AllOK, NEW p \in Publication, publication[p].status = "pending_confirmation",
         NEW s \in {"discarded", "needs_review"}, MoveTo(p, Clear(p, s)),
         UNCHANGED <<ready, proposed, accepted, plans, approved, attempts>>,
         versions'[TargetOf(p)][publication[p].version].status \notin
             Effective \cup {"pending_confirmation"}
  PROVE  Works(p)
  <1>1. PICK k \in PlanNumber : k = publication[p].plan /\ k \in DOMAIN plans[p]
    BY WaitingRow
  <1>2. s \in (Open \ {"retryable"}) \cup {"discarded", "superseded"} /\ s \in Statuses
    BY DEF Open, Terminal, Statuses
  <1>3. Clear(p, s) = Cleared(k, s)
    BY <1>1, <1>2, ClearedRows
  <1>4. /\ Cleared(k, s) \in PublicationRow /\ Cleared(k, s).plan = k /\ Cleared(k, s).status = s
        /\ MoveTo(p, Cleared(k, s))
    BY <1>2, <1>3, ClearedType DEF Cleared
  <1>5. Types
    BY DEF AllOK
  <1>6. /\ Types' /\ ready' = ready /\ (\A q \in Publication \ {p} : Untouched(q)) /\ Grows(p)
        /\ publication'[p] = Cleared(k, s) /\ attempts'[p] = attempts[p]
    BY <1>1, <1>4, <1>5, RowTypes
  <1>7. BooksMove(p)
    BY QuietBooks
  <1>8. RowClears(p)
    <2>1. publication'[p].status = s
      BY <1>4, <1>6
    <2>2. ValidPublicationTransition(p)
      BY <2>1 DEF ValidPublicationTransition
    <2>3. publication[p].status \notin Terminal
      BY DEF Terminal
    <2>4. RunOf[p] \in ready' /\ k \in DOMAIN plans'[p] \cup {None}
      BY <1>1, WaitingRow
    <2> QED BY <1>2, <1>6, <2>2, <2>3, <2>4 DEF RowClears
  <1> QED BY <1>6, <1>7, <1>8 DEF Works, RowMove

LEMMA ReconcileWorks ==
  ASSUME AllOK, NEW p \in Publication, ReconcileConfirmation(p)
  PROVE  Works(p)
  <1>1. /\ publication[p].status = "pending_confirmation"
        /\ ConfirmationOf(p) # "pending"
        /\ MoveTo(p, Reconciled(p))
        /\ UNCHANGED <<vars, ready, proposed, accepted, plans, approved, attempts>>
    BY DEF ReconcileConfirmation
  <1> DEFINE m == TargetOf(p)
             v == publication[p].version
  <1>2. /\ publication[p] \in PublicationRow
        /\ publication[p].plan \in DOMAIN plans[p]
        /\ v \in Version /\ m \in Memory
        /\ ConfirmationOf(p) \in Decision \ {"none"}
    BY <1>1, WaitingRow
  <1>3. Inv /\ ClosedRequestsAreDead /\ versions' = versions
    BY <1>1 DEF AllOK, vars
  <1>4. ConfirmationOf(p) = confirmation[m][v]["active"].status
    BY DEF ConfirmationOf
  <1>5. CASE ConfirmationOf(p) \in {"rejected", "cancelled"}
    <2>1. versions[m][v].status = "retracted"
      BY <1>2, <1>3, <1>4, <1>5 DEF ClosedRequestsAreDead
    <2>2. versions'[m][v].status \notin Effective \cup {"pending_confirmation"}
      BY <1>3, <2>1 DEF Effective
    <2>3. PICK s \in {"discarded", "needs_review"} : MoveTo(p, Clear(p, s))
      BY <1>1, <1>5 DEF Reconciled
    <2> QED BY <1>1, <2>2, <2>3, GivingUpWorks
  <1>6. CASE ConfirmationOf(p) \notin {"rejected", "cancelled"} /\ current[m] # v
    <2>1. ConfirmationOf(p) = "approved"
      BY <1>1, <1>2, <1>6 DEF Decision
    <2>2. versions[m][v].activated
      BY <1>2, <1>3, <1>4, <2>1 DEF Inv, ApprovalsTookEffect, Target
    <2>3. versions[m][v].status # "pending_confirmation"
      BY <1>2, <1>3, <2>2 DEF Inv, ActivationIsRecorded
    <2>4. versions[m][v].status \notin Effective
      BY <1>2, <1>3, <1>6 DEF Inv, OneEffectiveVersion
    <2>5. versions'[m][v].status \notin Effective \cup {"pending_confirmation"}
      BY <1>3, <2>3, <2>4
    <2>6. MoveTo(p, Clear(p, "needs_review"))
      BY <1>1, <1>6 DEF Reconciled
    <2> QED BY <1>1, <2>5, <2>6, GivingUpWorks
  <1>7. CASE ConfirmationOf(p) \notin {"rejected", "cancelled"} /\ current[m] = v
    <2> DEFINE kind == KindOfResult(CurrentPlan(p))
    <2>1. kind \in ResultKind
      BY KindType
    <2>2. Reconciled(p) = [publication[p] EXCEPT !.status = "published", !.kind = kind]
      BY <1>7 DEF Reconciled
    <2> HIDE DEF kind
    <2>3. [publication[p] EXCEPT !.status = "published"] \in PublicationRow
      BY <1>2 DEF PublicationRow, Terminal
    <2>4. PICK row \in PublicationRow : row = [publication[p] EXCEPT !.status = "published"]
      BY <2>3
    <2>5. row.plan = publication[p].plan
      BY <1>2, <2>4 DEF PublicationRow
    <2>6. [row EXCEPT !.kind = kind] \in PublicationRow
          /\ [row EXCEPT !.kind = kind].plan = publication[p].plan
      BY <2>1, <2>5 DEF PublicationRow
    <2>7. [publication[p] EXCEPT !.status = "published", !.kind = kind] = [row EXCEPT !.kind = kind]
      BY <2>4, Zenon
    <2>8. PICK new \in PublicationRow :
              /\ new = [publication[p] EXCEPT !.status = "published", !.kind = kind]
              /\ new.plan = publication[p].plan
      BY <2>6, <2>7
    <2>9. MoveTo(p, new) /\ new.plan \in DOMAIN plans[p] \cup {None} /\ Types
      BY <1>1, <1>2, <2>2, <2>8 DEF AllOK
    <2>10. /\ Types' /\ ready' = ready /\ (\A q \in Publication \ {p} : Untouched(q)) /\ Grows(p)
           /\ publication'[p] = new /\ attempts'[p] = attempts[p]
      BY <1>1, <2>9, RowTypes
    <2>11. BooksMove(p)
      BY <1>1, QuietBooks
    <2>12. RowReconciles(p)
      BY <1>1, <1>7, <2>8, <2>10 DEF RowReconciles, kind
    <2> QED BY <2>10, <2>11, <2>12 DEF Works, RowMove
  <1> QED BY <1>5, <1>6, <1>7

LEMMA DiscardWorks ==
  ASSUME AllOK, NEW p \in Publication, Discard(p)
  PROVE  Works(p)
  <1>1. CASE publication[p].status \in Open
    BY <1>1, DiscardOpenWorks
  <1>2. CASE publication[p].status \notin Open
    <2> DEFINE m == TargetOf(p)
               v == publication[p].version
    <2>1. /\ publication[p].status = "pending_confirmation"
          /\ Decline(m, v, "active", "rejected")
          /\ MoveTo(p, Clear(p, "discarded"))
          /\ UNCHANGED <<ready, proposed, accepted, plans, approved, attempts>>
      BY <1>2 DEF Discard
    <2>2. v \in Version /\ m \in Memory /\ Inv /\ "active" \in Target
      BY <2>1, WaitingRow DEF AllOK, Target
    <2>3. confirmation[m][v]["active"].status = "pending"
      BY <2>1 DEF Decline, Pending
    <2>4. versions[m][v].status = "pending_confirmation"
      BY <2>2, <2>3, ActiveRequestIsOfCandidate
    <2>5. versions'[m][v].status = "retracted"
      BY <2>1, <2>2, <2>4, DeclineMoves
    <2>6. versions'[m][v].status \notin Effective \cup {"pending_confirmation"}
      BY <2>5 DEF Effective
    <2> QED BY <2>1, <2>6, GivingUpWorks
  <1> QED BY <1>1, <1>2

LEMMA WorkOnWorks ==
  ASSUME AllOK, NEW p \in Publication, WorkOn(p)
  PROVE  Works(p)
  BY ProposeWorks, AcceptHierarchyWorks, RejectHierarchyWorks, CreatePlanWorks,
     ApprovePlanWorks, RetryWorks, ExecuteWorks, ReconcileWorks, DiscardWorks
  DEF WorkOn

Advances(p) == Grows(p) /\ BooksMove(p) /\ RowMove(p)

LEMMA UntouchedAdvances ==
  ASSUME AllOK, NEW p \in Publication, Untouched(p)
  PROVE  Advances(p)
  <1>1. AcceptanceIsKnown(p)
    BY DEF AllOK, PublicationOK, BooksOK
  <1>2. AcceptanceIsKnown(p)'
    BY <1>1 DEF AcceptanceIsKnown, Untouched
  <1>3. BooksMove(p)
    BY <1>2 DEF BooksMove, Untouched
  <1>4. Grows(p) /\ RowMove(p)
    BY DEF Grows, RowMove, Untouched
  <1> QED BY <1>3, <1>4 DEF Advances

(* Seeding supersedes the open work of older revisions.                    *)
LEMMA SeedingAdvances ==
  ASSUME AllOK, NEW r \in Run, CandidatesReady(r)
  PROVE  Types' /\ ready \subseteq ready' /\ \A p \in Publication : Advances(p)
  <1>1. /\ r \notin ready /\ ready' = ready \cup {r}
        /\ publication' = [p \in Publication |->
               IF p \in Retired(r) THEN Clear(p, "superseded")
               ELSE IF p \in Seeded(r) THEN Reset(p, "pending")
               ELSE publication[p]]
        /\ UNCHANGED <<vars, proposed, accepted, plans, approved, attempts>>
    BY DEF CandidatesReady
  <1>2. Types /\ ready \subseteq Run
    BY DEF AllOK, Types, PublicationTypeOK
  <1>3. ASSUME NEW p \in Publication
        PROVE  /\ publication'[p] \in PublicationRow
               /\ publication'[p].plan \in DOMAIN plans[p] \cup {None}
               /\ Advances(p)
    <2>1. /\ publication[p] \in PublicationRow
          /\ publication[p].plan \in DOMAIN plans[p] \cup {None}
          /\ publication[p].plan \in PlanNumber \cup {None}
      BY <1>2, PlanNumbers DEF Types, PublicationTypeOK
    <2>2. AcceptanceIsKnown(p) /\ (publication[p].status # "absent" => RunOf[p] \in ready)
      BY DEF AllOK, PublicationOK, BooksOK, RowOK, RowIsBound
    <2>3. Grows(p)
      BY <1>1 DEF Grows
    <2>4. AcceptanceIsKnown(p)'
      BY <1>1, <2>2 DEF AcceptanceIsKnown
    <2>5. BooksMove(p)
      BY <1>1, <2>4 DEF BooksMove
    <2>6. CASE p \in Retired(r)
      <3>1. publication[p].status \in Open
        BY <2>6 DEF Retired
      <3>2. publication'[p] = Clear(p, "superseded")
        BY <1>1, <2>6
      <3>3. "superseded" \in Statuses
        BY DEF Statuses, Terminal
      <3>4. Clear(p, "superseded") = Cleared(publication[p].plan, "superseded")
        BY <2>1, <3>3, ClearedRows
      <3>5. Cleared(publication[p].plan, "superseded") \in PublicationRow
        BY <2>1, ClearedType
      <3>6. publication'[p].status = "superseded" /\ publication'[p].plan = publication[p].plan
        BY <3>2, <3>4 DEF Cleared
      <3>7. publication[p].status \notin Terminal \cup {"absent", "pending_confirmation"}
        BY <3>1 DEF Open, Terminal
      <3>8. ValidPublicationTransition(p)
        BY <3>1, <3>6 DEF ValidPublicationTransition, Open
      <3>9. RunOf[p] \in ready'
        BY <1>1, <2>2, <3>7
      <3>10. RowClears(p)
        BY <1>1, <2>1, <3>2, <3>4, <3>7, <3>8, <3>9 DEF RowClears
      <3>11. attempts'[p] = attempts[p]
        BY <1>1
      <3> QED BY <2>1, <2>3, <2>5, <3>2, <3>4, <3>5, <3>6, <3>10, <3>11 DEF Advances, RowMove
    <2>7. CASE p \notin Retired(r) /\ p \in Seeded(r)
      <3>1. RunOf[p] = r
        BY <2>7 DEF Seeded
      <3>2. publication'[p] = Reset(p, "pending")
        BY <1>1, <2>7
      <3>3. "pending" \in Statuses /\ "pending" \in Open \ {"retryable"}
        BY DEF Statuses, Open
      <3>4. Reset(p, "pending") = Cleared(None, "pending")
        BY <2>1, <3>3, ClearedRows
      <3>5. Cleared(None, "pending") \in PublicationRow
        BY <3>3, ClearedType
      <3>6. publication'[p].status = "pending" /\ publication'[p].plan = None
        BY <3>2, <3>4 DEF Cleared
      <3>7. publication[p].status = "absent"
        BY <1>1, <2>2, <3>1
      <3>8. ValidPublicationTransition(p)
        BY <3>6, <3>7 DEF ValidPublicationTransition
      <3>9. RunOf[p] \in ready' /\ publication[p].status \notin Terminal
        BY <1>1, <3>1, <3>7 DEF Terminal
      <3>10. RowClears(p)
        BY <3>2, <3>3, <3>4, <3>7, <3>8, <3>9 DEF RowClears
      <3>11. attempts'[p] = attempts[p]
        BY <1>1
      <3> QED BY <2>3, <2>5, <3>2, <3>4, <3>5, <3>6, <3>10, <3>11 DEF Advances, RowMove
    <2>8. CASE p \notin Retired(r) /\ p \notin Seeded(r)
      <3>1. publication'[p] = publication[p] /\ attempts'[p] = attempts[p]
        BY <1>1, <2>8
      <3> QED BY <2>1, <2>3, <2>5, <3>1 DEF Advances, RowMove
    <2> QED BY <2>6, <2>7, <2>8
  <1>4. Types'
    <2>1. publication' \in [Publication -> PublicationRow]
      <3>1. publication' = [p \in Publication |-> publication'[p]]
        BY <1>1
      <3> QED BY <1>3, <3>1
    <2>2. ready' \subseteq Run
      BY <1>1, <1>2
    <2> QED BY <1>1, <1>2, <1>3, <2>1, <2>2 DEF Types, PublicationTypeOK
  <1> QED BY <1>1, <1>3, <1>4

LEMMA EveryStepAdvances ==
  ASSUME AllOK, [PublicationNext]_allVars
  PROVE  Types' /\ ready \subseteq ready' /\ \A p \in Publication : Advances(p)
  <1>1. ASSUME UNCHANGED publicationVars
        PROVE  Types' /\ ready \subseteq ready' /\ \A p \in Publication : Advances(p)
    <2>1. Types'
      BY <1>1 DEF AllOK, Types, PublicationTypeOK, publicationVars
    <2>2. ready' = ready /\ \A p \in Publication : Untouched(p)
      BY <1>1 DEF publicationVars, Untouched
    <2> QED BY <2>1, <2>2, UntouchedAdvances
  <1>2. ASSUME NEW p \in Publication, WorkOn(p)
        PROVE  Types' /\ ready \subseteq ready' /\ \A q \in Publication : Advances(q)
    <2>1. Works(p)
      BY <1>2, WorkOnWorks
    <2>2. \A q \in Publication \ {p} : Advances(q)
      BY <2>1, UntouchedAdvances DEF Works
    <2> QED BY <2>1, <2>2 DEF Works, Advances
  <1>3. UNCHANGED allVars => UNCHANGED publicationVars
    BY DEF allVars
  <1>4. CentralStep => UNCHANGED publicationVars
    BY DEF CentralStep
  <1> QED BY <1>1, <1>2, <1>3, <1>4, SeedingAdvances DEF PublicationNext

-----------------------------------------------------------------------------
(* What stays true of versions, plans and attempts.                        *)

LEMMA StoredStays ==
  ASSUME Inv, Moves, NEW m \in Memory, NEW v \in Version, versions[m][v].status # "absent"
  PROVE  /\ versions'[m][v].status # "absent"
         /\ versions'[m][v].content = versions[m][v].content
         /\ versions'[m][v].major = versions[m][v].major
         /\ versions[m][v].activated => versions'[m][v].activated
         /\ Live(m, v)' => Live(m, v)
         /\ versions'[m][v].status = "pending_confirmation" =>
                versions[m][v].status = "pending_confirmation"
         /\ v \in NewlyActivated(m) => versions[m][v].status = "pending_confirmation"
  <1>1. RowMoves(m, v)
    BY DEF Moves
  <1>2. ValidTransition(m, v) /\ PayloadIsImmutable(m, v)
    BY <1>1 DEF RowMoves
  <1>3. versions[m][v].status \in Status
    BY DEF Inv, TypeOK, VersionRow
  <1>4. v \in NewlyActivated(m) => TakesEffect(m, v)
    BY <1>1 DEF RowMoves
  <1>5. /\ versions'[m][v].status # "absent"
        /\ Live(m, v)' => Live(m, v)
        /\ versions'[m][v].status = "pending_confirmation" =>
               versions[m][v].status = "pending_confirmation"
        /\ TakesEffect(m, v) => versions[m][v].status = "pending_confirmation"
    BY <1>2, <1>3 DEF ValidTransition, Live, TakesEffect, Effective, Status
  <1> QED BY <1>1, <1>2, <1>4, <1>5 DEF RowMoves, PayloadIsImmutable

LEMMA ExistsStays ==
  ASSUME Inv, Moves, NEW m \in Memory, Exists(m)
  PROVE  Exists(m)'
  <1>1. PICK v \in Version : versions[m][v].status # "absent"
    BY DEF Exists, Stored
  <1>2. versions'[m][v].status # "absent"
    BY <1>1, StoredStays
  <1> QED BY <1>2 DEF Exists, Stored

LEMMA PlanKept ==
  ASSUME Inv, Types, Types', Moves, NEW p \in Publication, Grows(p), NEW plan \in Plan,
         PlanOK(p, plan)
  PROVE  PlanOK(p, plan)'
  <1>1. plan.target \in Memory /\ plan.proposal \in Proposal
    BY DEF Plan
  <1>2. PlanIsSound(p, plan) /\ plan.relation = RelationOf(p, plan)
    BY DEF PlanOK
  <1>3. plan.proposal \in proposed'[p]
    BY <1>2 DEF PlanIsSound, Grows
  <1>4. plan.acceptance # 0 => accepted'[p].proposal = plan.proposal
    BY <1>1, <1>2, PublicationConstants DEF PlanIsSound, Grows
  <1>5. plan.seen.exists => Exists(plan.target)'
    BY <1>1, <1>2, ExistsStays DEF PlanIsSound
  <1>6. SnapshotIsComplete(plan)'
    BY <1>2 DEF PlanIsSound, SnapshotIsComplete
  <1>7. PlanIsSound(p, plan)'
    BY <1>2, <1>3, <1>4, <1>5, <1>6 DEF PlanIsSound
  <1>8. RelationOf(p, plan)' = RelationOf(p, plan)
    BY DEF RelationOf
  <1> QED BY <1>2, <1>7, <1>8 DEF PlanOK

LEMMA BooksKept ==
  ASSUME AllOK, Types', Moves, NEW p \in Publication, Advances(p)
  PROVE  BooksOK(p)'
  <1>1. Inv /\ Types /\ BooksOK(p)
    BY DEF AllOK, PublicationOK
  <1>2. Grows(p) /\ BooksMove(p)
    BY DEF Advances
  <1>3. ApprovalsFitPlans(p)'
    <2> SUFFICES ASSUME NEW k \in approved'[p]
                 PROVE  plans'[p][k].relation \in {"update", "conflict"}
      BY DEF ApprovalsFitPlans
    <2>1. k \in DOMAIN plans[p] /\ plans[p][k].relation \in {"update", "conflict"}
      <3>1. approved[p] \subseteq DOMAIN plans[p]
        BY <1>1 DEF Types, PublicationTypeOK
      <3> QED BY <1>1, <1>2, <3>1 DEF BooksOK, ApprovalsFitPlans, BooksMove
    <2> QED BY <1>2, <2>1 DEF Grows
  <1>4. ASSUME NEW k \in DOMAIN plans'[p], NEW plan \in Plan, plan = plans'[p][k]
        PROVE  PlanOK(p, plan)'
    <2>1. PlanOK(p, plan)
      <3>1. CASE k \in DOMAIN plans[p]
        BY <1>1, <1>2, <1>4, <3>1 DEF Grows, BooksOK
      <3>2. CASE k \notin DOMAIN plans[p]
        <4>1. plans'[p] # plans[p]
          BY <1>4, <3>2
        <4>2. PICK new \in Plan : plans'[p] = Append(plans[p], new) /\ PlanOK(p, new)
          BY <1>2, <4>1 DEF BooksMove, PlansAnew
        <4>3. plans[p] \in Seq(Plan)
          BY <1>1 DEF Types
        <4>4. /\ Len(plans[p]) \in Nat /\ DOMAIN plans[p] = 1 .. Len(plans[p])
              /\ DOMAIN Append(plans[p], new) = 1 .. Len(plans[p]) + 1
              /\ Append(plans[p], new)[Len(plans[p]) + 1] = new
          BY <4>3
        <4>5. k = Len(plans[p]) + 1
          BY <1>4, <3>2, <4>2, <4>4
        <4>6. plan = new
          BY <1>4, <4>2, <4>4, <4>5
        <4> QED BY <4>2, <4>6
      <3> QED BY <3>1, <3>2
    <2> QED BY <1>1, <1>2, <2>1, PlanKept
  <1>5. \A k \in DOMAIN plans'[p] : plans'[p][k] \in Plan
    BY DEF Types, PublicationTypeOK
  <1> QED BY <1>2, <1>3, <1>4, <1>5 DEF BooksOK, BooksMove

(* A candidate that was asked for waits for its answer.                    *)
LEMMA CandidateIsAsked ==
  ASSUME Inv, ClosedRequestsAreDead, NEW m \in Memory, NEW v \in Version,
         versions[m][v].status = "pending_confirmation",
         confirmation[m][v]["active"].status # "none"
  PROVE  confirmation[m][v]["active"].status = "pending" /\ <<v, "active">> \in Pending(m)
  <1>1. "active" \in Target
    BY DEF Target
  <1>2. confirmation[m][v]["active"].status \in Decision
    BY <1>1 DEF Inv, TypeOK, ConfirmationRow
  <1>3. ~versions[m][v].activated
    BY DEF Inv, ActivationIsRecorded
  <1>4. confirmation[m][v]["active"].status # "approved"
    BY <1>1, <1>3 DEF Inv, ApprovalsTookEffect
  <1>5. confirmation[m][v]["active"].status \notin {"rejected", "cancelled"}
    BY DEF ClosedRequestsAreDead
  <1>6. confirmation[m][v]["active"].status = "pending"
    BY <1>2, <1>4, <1>5 DEF Decision
  <1> QED BY <1>1, <1>6 DEF Pending, Request

LEMMA CurrentStatusIs ==
  ASSUME Inv, NEW m \in Memory
  PROVE  CurrentStatus(m) = IF current[m] = None THEN "absent"
                            ELSE IF CurrentStatus(m) = "locked" THEN "locked" ELSE "active"
  <1>1. current[m] # None => versions[m][current[m]].status \in Effective
    BY DEF Inv, TypeOK, OneEffectiveVersion
  <1> QED BY <1>1 DEF CurrentStatus, Effective

(* While a candidate waits for its answer, what is effective stays.        *)
LEMMA WaitingKeepsCurrent ==
  ASSUME Inv, Inv', Moves, NEW m \in Memory, NEW v \in Version,
         <<v, "active">> \in Pending(m), <<v, "active">> \in Pending(m)'
  PROVE  /\ current'[m] = current[m]
         /\ CurrentStatus(m)' = CurrentStatus(m)
         /\ current[m] # None =>
                versions'[m][current[m]].content = versions[m][current[m]].content
  <1>1. /\ confirmation[m][v]["active"].status = "pending"
        /\ RequestIsImmutable(m, v, "active")
    BY DEF Pending, Moves, RequestMoves, Target
  <1>2. /\ confirmation'[m][v]["active"].expected = confirmation[m][v]["active"].expected
        /\ confirmation'[m][v]["active"].kind = confirmation[m][v]["active"].kind
    BY <1>1 DEF RequestIsImmutable
  <1>3. /\ confirmation[m][v]["active"].expected = current[m]
        /\ confirmation'[m][v]["active"].expected = current'[m]
    BY DEF Inv, ApprovalsNeverStale
  <1>4. current'[m] = current[m]
    BY <1>2, <1>3
  <1>5. /\ confirmation[m][v]["active"].kind = "locked_override" <=> CurrentStatus(m) = "locked"
        /\ confirmation'[m][v]["active"].kind = "locked_override" <=> CurrentStatus(m)' = "locked"
    BY DEF Inv, LockIsOverriddenOpenly
  <1>6. CurrentStatus(m)' = CurrentStatus(m)
    <2>1. CurrentStatus(m) = IF current[m] = None THEN "absent"
                             ELSE IF CurrentStatus(m) = "locked" THEN "locked" ELSE "active"
      BY CurrentStatusIs
    <2>2. (CurrentStatus(m) = IF current[m] = None THEN "absent"
                              ELSE IF CurrentStatus(m) = "locked" THEN "locked" ELSE "active")'
      <3>1. current'[m] # None => versions'[m][current'[m]].status \in Effective
        <4>1. current'[m] \in Version \cup {None}
          BY DEF Inv, TypeOK
        <4>2. \A w \in Version : versions'[m][w].status \in Effective <=> w = current'[m]
          BY DEF Inv, OneEffectiveVersion
        <4> QED BY <4>1, <4>2
      <3> QED BY <3>1 DEF CurrentStatus, Effective
    <2>3. CurrentStatus(m)' = "locked" <=> CurrentStatus(m) = "locked"
      BY <1>2, <1>5
    <2> QED BY <1>4, <2>1, <2>2, <2>3
  <1>7. current[m] # None => versions'[m][current[m]].content = versions[m][current[m]].content
    <2>1. current[m] # None =>
              current[m] \in Version /\ versions[m][current[m]].status # "absent"
      <3>1. current[m] \in Version \cup {None}
        BY DEF Inv, TypeOK
      <3>2. \A w \in Version : versions[m][w].status \in Effective <=> w = current[m]
        BY DEF Inv, OneEffectiveVersion
      <3> QED BY <3>1, <3>2 DEF Effective
    <2> QED BY <2>1, StoredStays
  <1> QED BY <1>4, <1>6, <1>7

LEMMA AttemptKept ==
  ASSUME AllOK, Inv', ClosedRequestsAreDead', Types', Moves,
         NEW p \in Publication, Grows(p), NEW e \in attempts[p]
  PROVE  AttemptOK(p, e)'
  <1>1. /\ AttemptOK(p, e) /\ Inv /\ Types /\ ClosedRequestsAreDead /\ e \in Attempt
    BY DEF AllOK, PublicationOK, Types, PublicationTypeOK
  <1>2. /\ e.version # None /\ e.plan \in DOMAIN plans[p]
        /\ e.outcome \in ResultKind \cup {"pending_confirmation"}
    BY <1>1 DEF AttemptOK
  <1>3. PICK plan \in Plan : plan = plans[p][e.plan]
    BY <1>1, <1>2 DEF Types, PublicationTypeOK
  <1> DEFINE m == plan.target
             v == e.version
  <1>4. e.plan \in DOMAIN plans'[p] /\ plans'[p][e.plan] = plan
    BY <1>2, <1>3 DEF Grows
  <1>5. PlanOf(p, e) = plan /\ PlanOf(p, e)' = plan
    BY <1>3, <1>4 DEF PlanOf
  <1>6. m \in Memory /\ v \in Version /\ "active" \in Target
    BY <1>1, <1>2, <1>3 DEF Plan, Attempt, Target
  <1> HIDE DEF m, v
  <1>7. /\ versions[m][v].status # "absent" /\ versions[m][v].content = Finding[p].content
        /\ versions[m][v].major = plan.major
        /\ e.outcome = "pending_confirmation" => confirmation[m][v]["active"].status # "none"
        /\ e.outcome = "created" => ~plan.seen.exists
        /\ e.outcome = "noop" => plan.relation = "noop"
        /\ e.outcome = "updated" => plan.relation \in {"update", "conflict"}
    BY <1>1, <1>5 DEF AttemptOK, AttemptIsSound, m, v
  <1>8. /\ plan.relation \in {"update", "conflict"} => e.plan \in approved[p]
        /\ e.outcome \in ResultKind => versions[m][v].activated
        /\ e.outcome \in {"created", "updated"} => plan.relation # "conflict" /\ ~plan.major
        /\ e.outcome = "pending_confirmation" /\ versions[m][v].status = "pending_confirmation" =>
               StillSeen(plan)
    BY <1>1, <1>5 DEF AttemptOK, m, v
  <1>9. /\ versions'[m][v].status # "absent"
        /\ versions'[m][v].content = versions[m][v].content
        /\ versions'[m][v].major = versions[m][v].major
        /\ versions[m][v].activated => versions'[m][v].activated
        /\ versions'[m][v].status = "pending_confirmation" =>
               versions[m][v].status = "pending_confirmation"
    BY <1>1, <1>6, <1>7, StoredStays
  <1>10. confirmation[m][v]["active"].status # "none" =>
             confirmation'[m][v]["active"].status # "none"
    <2>1. RequestMoves(m, v, "active")
      BY <1>6 DEF Moves
    <2> QED BY <2>1 DEF RequestMoves, RequestIsImmutable
  <1>11. AttemptIsSound(p, e)'
    BY <1>5, <1>7, <1>9, <1>10 DEF AttemptIsSound, m, v
  <1>12. e.outcome = "pending_confirmation" /\ versions'[m][v].status = "pending_confirmation" =>
             StillSeen(plan)'
    <2> SUFFICES ASSUME e.outcome = "pending_confirmation",
                        versions'[m][v].status = "pending_confirmation"
                 PROVE  StillSeen(plan)'
      OBVIOUS
    <2>1. StillSeen(plan)
      BY <1>8, <1>9
    <2>2. <<v, "active">> \in Pending(m)
      BY <1>1, <1>6, <1>7, <1>9, CandidateIsAsked
    <2>3. <<v, "active">> \in Pending(m)'
      <3>1. /\ versions'[m][v].status = "pending_confirmation"
            /\ confirmation'[m][v]["active"].status # "none"
        BY <1>7, <1>10
      <3>2. confirmation'[m][v]["active"].status \in Decision
        BY <1>6 DEF Inv, TypeOK, ConfirmationRow
      <3>3. ~versions'[m][v].activated
        BY <1>6, <3>1 DEF Inv, ActivationIsRecorded
      <3>4. confirmation'[m][v]["active"].status # "approved"
        BY <1>6, <3>3 DEF Inv, ApprovalsTookEffect
      <3>5. confirmation'[m][v]["active"].status \notin {"rejected", "cancelled"}
        BY <1>6, <3>1 DEF ClosedRequestsAreDead
      <3>6. confirmation'[m][v]["active"].status = "pending"
        BY <3>1, <3>2, <3>4, <3>5 DEF Decision
      <3> QED BY <1>6, <3>6 DEF Pending, Request
    <2>4. /\ current'[m] = current[m] /\ CurrentStatus(m)' = CurrentStatus(m)
          /\ current[m] # None =>
                 versions'[m][current[m]].content = versions[m][current[m]].content
      BY <1>1, <1>6, <2>2, <2>3, WaitingKeepsCurrent
    <2> QED BY <2>1, <2>4 DEF StillSeen, m
  <1>13. plan.relation \in {"update", "conflict"} => e.plan \in approved'[p]
    BY <1>8 DEF Grows
  <1>14. e.outcome \in ResultKind => versions'[m][v].activated
    BY <1>8, <1>9
  <1> QED
    BY <1>2, <1>4, <1>5, <1>8, <1>11, <1>12, <1>13, <1>14 DEF AttemptOK, m, v

(* The result of an execution is sound from the start.                     *)
LEMMA NewAttemptIsSound ==
  ASSUME AllOK, Types', NEW p \in Publication, Grows(p), NEW plan \in Plan, NEW v \in Version,
         Executable(p), plan = CurrentPlan(p),
         NEW e \in Attempt, e.plan = publication[p].plan, e.version = v,
         e.outcome \in ResultKind \cup {"pending_confirmation"},
         versions'[plan.target][v].status # "absent",
         versions'[plan.target][v].content = Finding[p].content,
         versions'[plan.target][v].major = plan.major,
         e.outcome \in ResultKind =>
             /\ e.outcome = KindOfResult(plan)
             /\ versions'[plan.target][v].activated
             /\ e.outcome # "noop" => plan.relation # "conflict" /\ ~plan.major,
         e.outcome = "pending_confirmation" =>
             /\ StillSeen(plan)'
             /\ confirmation'[plan.target][v]["active"].status = "pending"
  PROVE  AttemptOK(p, e)' /\ PlanOf(p, e) = plan /\ PlanOf(p, e)' = plan
  <1>1. Types /\ BooksOK(p) /\ publication[p].plan # None
    BY DEF AllOK, PublicationOK, Executable
  <1>2. e.plan \in DOMAIN plans[p] /\ plan = plans[p][e.plan]
    BY <1>1, CurrentPlanType
  <1>3. e.plan \in DOMAIN plans'[p] /\ plans'[p][e.plan] = plan
    BY <1>2 DEF Grows
  <1>4. PlanOf(p, e) = plan /\ PlanOf(p, e)' = plan
    BY <1>2, <1>3 DEF PlanOf
  <1>5. PlanOK(p, plan) /\ plan.relation \in Relation
    BY <1>1, <1>2 DEF BooksOK, Plan
  <1>6. ~plan.seen.exists <=> plan.relation = "new"
    BY <1>5 DEF PlanOK, PlanIsSound, SnapshotIsComplete
  <1>7. /\ e.outcome = "created" => ~plan.seen.exists
        /\ e.outcome = "noop" => plan.relation = "noop"
        /\ e.outcome = "updated" => plan.relation \in {"update", "conflict"}
    BY <1>5, <1>6 DEF KindOfResult, ResultKind, Relation
  <1>8. AttemptIsSound(p, e)'
    BY <1>4, <1>7 DEF AttemptIsSound
  <1>9. plan.relation \in {"update", "conflict"} => e.plan \in approved'[p]
    BY DEF Executable, Grows
  <1>10. e.version # None
    BY VersionsArePositive
  <1>11. e.outcome \in {"created", "updated"} => plan.relation # "conflict" /\ ~plan.major
    BY DEF ResultKind
  <1> QED
    BY <1>3, <1>4, <1>8, <1>9, <1>10, <1>11 DEF AttemptOK

-----------------------------------------------------------------------------
(* What stays true of the row of a publication.                            *)

LEMMA CurrentPlanStays ==
  ASSUME Types, NEW p \in Publication, Grows(p), publication[p].plan # None,
         publication'[p].plan = publication[p].plan
  PROVE  /\ CurrentPlan(p)' = CurrentPlan(p) /\ TargetOf(p)' = TargetOf(p)
         /\ CurrentPlan(p) \in Plan /\ TargetOf(p) = CurrentPlan(p).target
         /\ TargetOf(p) \in Memory
  <1>1. /\ publication[p].plan \in DOMAIN plans[p]
        /\ CurrentPlan(p) \in Plan /\ TargetOf(p) = CurrentPlan(p).target
        /\ TargetOf(p) \in Memory
    BY CurrentPlanType
  <1>2. CurrentPlan(p)' = CurrentPlan(p)
    BY <1>1 DEF Grows, CurrentPlan
  <1>3. TargetOf(p)' = TargetOf(p)
    BY <1>2 DEF TargetOf
  <1> QED BY <1>1, <1>2, <1>3

(* What is live after a step was live before, and is the result of the row.*)
LEMMA LiveBefore ==
  ASSUME AllOK, Moves, NEW p \in Publication, Grows(p), NEW e \in attempts[p],
         e.outcome # "noop", Live(PlanOf(p, e).target, e.version)'
  PROVE  /\ publication[p].status \in {"pending_confirmation", "published"}
         /\ publication[p].version = e.version
         /\ publication[p].plan = e.plan
         /\ e.plan \in DOMAIN plans[p] /\ PlanOf(p, e)' = PlanOf(p, e)
         /\ PlanOf(p, e) = plans[p][e.plan]
  <1>1. /\ AttemptOK(p, e) /\ Inv /\ Types /\ e \in Attempt /\ LiveAreAccountedFor(p)
    BY DEF AllOK, PublicationOK, Types, PublicationTypeOK
  <1>2. /\ e.version \in Version /\ e.plan \in DOMAIN plans[p]
        /\ versions[PlanOf(p, e).target][e.version].status # "absent"
    BY <1>1 DEF AttemptOK, AttemptIsSound, Attempt
  <1>3. PICK plan \in Plan : plan = plans[p][e.plan] /\ plan = plans'[p][e.plan]
    BY <1>1, <1>2 DEF Types, PublicationTypeOK, Grows
  <1>4. PlanOf(p, e) = plan /\ PlanOf(p, e)' = plan /\ plan.target \in Memory
    BY <1>3 DEF PlanOf, Plan
  <1>5. Live(plan.target, e.version)'
    BY <1>4 DEF Live
  <1>6. Live(plan.target, e.version)
    BY <1>1, <1>2, <1>4, <1>5, StoredStays
  <1>7. e \in Written(p)
    BY DEF Written
  <1>8. Live(PlanOf(p, e).target, e.version)
    BY <1>4, <1>6
  <1> QED BY <1>1, <1>2, <1>3, <1>4, <1>7, <1>8 DEF LiveAreAccountedFor

(* A result that may be reported.                                          *)
LEMMA ResultRow ==
  ASSUME AllOK, NEW p \in Publication,
         publication[p].status \in {"pending_confirmation", "published"}
  PROVE  /\ publication[p].plan # None /\ publication[p].version \in Version
         /\ TargetOf(p) \in Memory
         /\ publication[p].last \in attempts[p]
         /\ publication[p].last.plan = publication[p].plan
         /\ publication[p].last.version = publication[p].version
         /\ versions[TargetOf(p)][publication[p].version].status # "absent"
  <1>1. Types /\ RowOK(p) /\ publication[p] \in PublicationRow
    BY DEF AllOK, PublicationOK, Types, PublicationTypeOK
  <1>2. publication[p].plan # None
    BY <1>1 DEF RowOK, RowFollowsPlan
  <1>3. publication[p].version # None
    BY <1>1 DEF RowOK, ResultIsComplete
  <1>4. publication[p].version \in Version
    BY <1>1, <1>3 DEF PublicationRow
  <1>5. /\ publication[p].last.plan = publication[p].plan
        /\ publication[p].last.version = publication[p].version
    BY <1>1 DEF RowOK, RowFollowsLastAttempt
  <1>6. publication[p].last \in attempts[p]
    BY <1>1, <1>3, <1>5 DEF RowOK, LastIsKnown
  <1>7. AttemptOK(p, publication[p].last)
    BY <1>6 DEF AllOK, PublicationOK
  <1>8. PlanOf(p, publication[p].last) = CurrentPlan(p)
    BY <1>5 DEF PlanOf, CurrentPlan
  <1>9. versions[TargetOf(p)][publication[p].version].status # "absent"
    BY <1>5, <1>7, <1>8 DEF AttemptOK, AttemptIsSound, TargetOf
  <1> QED BY <1>1, <1>2, <1>4, <1>5, <1>6, <1>9, CurrentPlanType

LEMMA UnmovedRow ==
  ASSUME AllOK, Moves, NEW p \in Publication, Grows(p), ready \subseteq ready',
         publication'[p] = publication[p], attempts'[p] = attempts[p]
  PROVE  LiveAreAccountedFor(p)' /\ RowOK(p)'
  <1>1. Types /\ RowOK(p) /\ Inv
    BY DEF AllOK, PublicationOK
  <1>2. LiveAreAccountedFor(p)'
    <2> SUFFICES ASSUME NEW e \in attempts[p], e.outcome # "noop",
                        Live(PlanOf(p, e).target, e.version)'
                 PROVE  /\ publication[p].status \in {"pending_confirmation", "published"}
                        /\ publication[p].version = e.version
                        /\ publication[p].plan = e.plan
      BY DEF LiveAreAccountedFor, Written
    <2> QED BY LiveBefore
  <1>3. /\ (publication[p].status # "absent" => RowIsBound(p))'
        /\ ResultIsComplete(publication[p])'
        /\ LastIsKnown(p)' /\ RowFollowsLastAttempt(p)'
        /\ publication'[p].gated => publication'[p].last.outcome = "pending_confirmation"
    BY <1>1 DEF RowOK, RowIsBound, ResultIsComplete, LastIsKnown, RowFollowsLastAttempt
  <1>4. publication[p].gated \/ publication[p].status = "published" =>
            publication[p].status \in {"pending_confirmation", "published"}
    BY <1>1 DEF RowOK, ResultIsComplete
  <1>5. CASE publication[p].status \in {"pending_confirmation", "published"}
    <2> DEFINE m == TargetOf(p)
               v == publication[p].version
    <2>1. /\ publication[p].plan # None /\ v \in Version
          /\ versions[m][v].status # "absent"
      BY <1>5, ResultRow
    <2>2. CurrentPlan(p)' = CurrentPlan(p) /\ TargetOf(p)' = m /\ m \in Memory
      BY <1>1, <2>1, CurrentPlanStays
    <2>3. RequestMoves(m, v, "active")
      BY <2>1, <2>2 DEF Moves, Target
    <2>4. ConfirmationOf(p)' = confirmation'[m][v]["active"].status
      BY <2>2 DEF ConfirmationOf
    <2>5. ConfirmationOf(p) = confirmation[m][v]["active"].status
      BY DEF ConfirmationOf
    <2>6. ConfirmationIsBound(p)'
      BY <1>1, <2>3, <2>4, <2>5
      DEF RowOK, ConfirmationIsBound, RequestMoves, RequestIsImmutable
    <2>7. RowFollowsPlan(p)'
      BY <1>1, <2>2 DEF RowOK, RowFollowsPlan, KindOfResult
    <2>8. versions[m][v].activated => versions'[m][v].activated
      BY <1>1, <2>1, <2>2, StoredStays
    <2>9. (publication[p].status = "published" =>
               versions[TargetOf(p)][publication[p].version].activated)'
      BY <1>1, <2>2, <2>8 DEF RowOK
    <2> QED BY <1>2, <1>3, <2>6, <2>7, <2>9 DEF RowOK
  <1>6. CASE publication[p].status \notin {"pending_confirmation", "published"}
    <2>1. ~publication[p].gated /\ publication[p].status # "published"
      BY <1>4, <1>6
    <2>2. ConfirmationIsBound(p)' /\ RowFollowsPlan(p)'
      BY <1>1, <2>1 DEF RowOK, ConfirmationIsBound, RowFollowsPlan
    <2> QED BY <1>2, <1>3, <2>1, <2>2 DEF RowOK
  <1> QED BY <1>5, <1>6

LEMMA ClearedRow ==
  ASSUME AllOK, Moves, NEW p \in Publication, Grows(p), RowClears(p),
         attempts'[p] = attempts[p]
  PROVE  LiveAreAccountedFor(p)' /\ RowOK(p)'
  <1>1. PICK k \in DOMAIN plans'[p] \cup {None},
             s \in (Open \ {"retryable"}) \cup {"discarded", "superseded"} :
            /\ publication'[p] = Cleared(k, s)
            /\ publication[p].status \notin Terminal
            /\ RunOf[p] \in ready'
            /\ publication[p].status = "pending_confirmation" =>
                   versions'[TargetOf(p)][publication[p].version].status \notin
                       Effective \cup {"pending_confirmation"}
    BY DEF RowClears
  <1>2. /\ publication'[p].status = s /\ publication'[p].kind = "none"
        /\ publication'[p].version = None /\ publication'[p].gated = FALSE
        /\ publication'[p].last = NoAttempt
    BY <1>1 DEF Cleared
  <1>3. s \notin {"retryable", "pending_confirmation", "published", "absent"}
    BY DEF Open
  <1>4. NoAttempt.version = None
    BY DEF NoAttempt
  <1>5. LiveAreAccountedFor(p)'
    <2> SUFFICES ASSUME NEW e \in attempts[p], e.outcome # "noop",
                        Live(PlanOf(p, e).target, e.version)'
                 PROVE  FALSE
      BY DEF LiveAreAccountedFor, Written
    <2>1. /\ publication[p].status \in {"pending_confirmation", "published"}
          /\ publication[p].version = e.version /\ publication[p].plan = e.plan
          /\ PlanOf(p, e)' = PlanOf(p, e) /\ PlanOf(p, e) = plans[p][e.plan]
      BY LiveBefore
    <2>2. publication[p].status = "pending_confirmation"
      BY <1>1, <2>1 DEF Terminal
    <2>3. PlanOf(p, e).target = TargetOf(p)
      BY <2>1 DEF TargetOf, CurrentPlan
    <2> QED BY <1>1, <2>1, <2>2, <2>3 DEF Live
  <1>6. /\ RowIsBound(p)' /\ ResultIsComplete(publication[p])' /\ ConfirmationIsBound(p)'
        /\ LastIsKnown(p)' /\ RowFollowsLastAttempt(p)' /\ RowFollowsPlan(p)'
    BY <1>1, <1>2, <1>3, <1>4
    DEF RowIsBound, ResultIsComplete, ConfirmationIsBound, LastIsKnown, RowFollowsLastAttempt,
        RowFollowsPlan
  <1> QED BY <1>2, <1>3, <1>5, <1>6 DEF RowOK

LEMMA FailedRowIsSound ==
  ASSUME AllOK, Moves, NEW p \in Publication, Grows(p), RowFails(p), ready \subseteq ready'
  PROVE  LiveAreAccountedFor(p)' /\ RowOK(p)'
  <1>1. PICK o \in {"needs_review", "retryable"} :
            publication'[p] = FailedRow(p, o) /\ attempts'[p] = attempts[p]
    BY DEF RowFails
  <1>2. publication[p].status \in {"ready", "retryable"} /\ publication[p].plan # None
    BY DEF RowFails, Executable
  <1>3. RowOK(p)
    BY DEF AllOK, PublicationOK
  <1>4. /\ publication'[p].status = o /\ publication'[p].kind = "none"
        /\ publication'[p].version = None /\ publication'[p].gated = FALSE
        /\ publication'[p].plan = publication[p].plan
        /\ publication'[p].last.version = None /\ publication'[p].last.outcome = o
    BY <1>1 DEF FailedRow, AttemptOf
  <1>5. LiveAreAccountedFor(p)'
    <2> SUFFICES ASSUME NEW e \in attempts[p], e.outcome # "noop",
                        Live(PlanOf(p, e).target, e.version)'
                 PROVE  FALSE
      BY <1>1 DEF LiveAreAccountedFor, Written
    <2> QED BY <1>2, LiveBefore
  <1>6. RowIsBound(p)'
    BY <1>2, <1>3 DEF RowOK, RowIsBound
  <1>7. /\ ResultIsComplete(publication[p])' /\ ConfirmationIsBound(p)'
        /\ LastIsKnown(p)' /\ RowFollowsLastAttempt(p)' /\ RowFollowsPlan(p)'
    BY <1>2, <1>4
    DEF ResultIsComplete, ConfirmationIsBound, LastIsKnown, RowFollowsLastAttempt,
        RowFollowsPlan
  <1> QED BY <1>4, <1>5, <1>6, <1>7 DEF RowOK

(* An execution adds one sound attempt, and only its version can be live.  *)
LEMMA NewResult ==
  ASSUME AllOK, Types', Moves, NEW p \in Publication, Grows(p), NEW plan \in Plan,
         NEW v \in Version, Executable(p), plan = CurrentPlan(p),
         NEW e \in Attempt, e.plan = publication[p].plan, e.version = v,
         attempts'[p] = attempts[p] \cup {e},
         publication'[p].plan = publication[p].plan, publication'[p].version = v,
         publication'[p].status \in {"pending_confirmation", "published"}
  PROVE  /\ LiveAreAccountedFor(p)'
         /\ RowIsBound(p) /\ publication[p].plan # None
         /\ CurrentPlan(p)' = plan /\ TargetOf(p)' = plan.target /\ plan.target \in Memory
  <1>1. /\ publication[p].status \in {"ready", "retryable"} /\ publication[p].plan # None
        /\ Types /\ RowOK(p)
    BY DEF Executable, AllOK, PublicationOK
  <1>2. LiveAreAccountedFor(p)'
    <2> SUFFICES ASSUME NEW a \in attempts'[p], a.outcome # "noop",
                        Live(PlanOf(p, a).target, a.version)'
                 PROVE  /\ publication'[p].version = a.version
                        /\ publication'[p].plan = a.plan
      BY DEF LiveAreAccountedFor, Written
    <2>1. CASE a \in attempts[p]
      BY <1>1, <2>1, LiveBefore
    <2>2. CASE a = e
      BY <2>2
    <2> QED BY <2>1, <2>2
  <1>3. /\ CurrentPlan(p)' = CurrentPlan(p) /\ TargetOf(p)' = TargetOf(p)
        /\ TargetOf(p) = CurrentPlan(p).target /\ TargetOf(p) \in Memory
    BY <1>1, CurrentPlanStays
  <1>4. RowIsBound(p)
    BY <1>1 DEF RowOK
  <1> QED BY <1>1, <1>2, <1>3, <1>4

LEMMA PublishedRowIsSound ==
  ASSUME AllOK, Inv', ClosedRequestsAreDead', Types', Moves, NEW p \in Publication,
         Grows(p), RowPublishes(p), ready \subseteq ready'
  PROVE  (\A e \in attempts'[p] : AttemptOK(p, e)') /\ LiveAreAccountedFor(p)' /\ RowOK(p)'
  <1>1. PICK plan \in Plan, v \in Version :
        /\ Executable(p) /\ plan = CurrentPlan(p)
        /\ publication'[p] = PublishedRow(p, v)
        /\ attempts'[p] = attempts[p] \cup {AttemptOf(p, KindOfResult(CurrentPlan(p)), v)}
        /\ versions'[plan.target][v].status \in Effective
        /\ versions'[plan.target][v].activated
        /\ versions'[plan.target][v].content = Finding[p].content
        /\ versions'[plan.target][v].major = plan.major
        /\ KindOfResult(plan) # "noop" => plan.relation # "conflict" /\ ~plan.major
    BY DEF RowPublishes
  <1>2. PICK kind \in ResultKind : kind = KindOfResult(plan)
    BY KindType
  <1>3. publication[p].plan \in PlanNumber
    BY <1>1, CurrentPlanType DEF Executable, AllOK
  <1>4. PICK e \in Attempt : e = AttemptOf(p, kind, v)
    BY <1>3, AttemptType
  <1>5. e.plan = publication[p].plan /\ e.version = v /\ e.outcome = kind
    BY <1>4 DEF AttemptOf
  <1>6. attempts'[p] = attempts[p] \cup {e}
    BY <1>1, <1>2, <1>4
  <1>7. /\ publication'[p].status = "published" /\ publication'[p].plan = publication[p].plan
        /\ publication'[p].kind = kind /\ publication'[p].version = v
        /\ publication'[p].gated = FALSE /\ publication'[p].last = e
    BY <1>1, <1>2, <1>4 DEF PublishedRow
  <1>8. /\ LiveAreAccountedFor(p)'
        /\ RowIsBound(p) /\ publication[p].plan # None
        /\ CurrentPlan(p)' = plan /\ TargetOf(p)' = plan.target
    BY <1>1, <1>5, <1>6, <1>7, NewResult
  <1>9. kind \notin {"pending_confirmation", "none"}
    BY DEF ResultKind
  <1>10. versions'[plan.target][v].status # "absent"
    BY <1>1 DEF Effective
  <1>11. AttemptOK(p, e)'
    BY <1>1, <1>2, <1>5, <1>9, <1>10, NewAttemptIsSound
  <1>12. \A a \in attempts'[p] : AttemptOK(p, a)'
    BY <1>6, <1>11, AttemptKept
  <1>13. v # None
    BY VersionsArePositive
  <1>14. /\ RowIsBound(p)' /\ ResultIsComplete(publication[p])' /\ ConfirmationIsBound(p)'
         /\ LastIsKnown(p)' /\ RowFollowsLastAttempt(p)'
    BY <1>5, <1>6, <1>7, <1>8, <1>9, <1>13
    DEF RowIsBound, ResultIsComplete, ConfirmationIsBound, LastIsKnown, RowFollowsLastAttempt
  <1>15. RowFollowsPlan(p)'
    BY <1>2, <1>7, <1>8 DEF RowFollowsPlan, KindOfResult
  <1>16. (publication[p].status = "published" =>
              versions[TargetOf(p)][publication[p].version].activated)'
    BY <1>1, <1>7, <1>8
  <1> QED BY <1>7, <1>8, <1>12, <1>14, <1>15, <1>16 DEF RowOK

LEMMA PendingRowIsSound ==
  ASSUME AllOK, Inv', ClosedRequestsAreDead', Types', Moves, NEW p \in Publication,
         Grows(p), RowPends(p), ready \subseteq ready'
  PROVE  (\A e \in attempts'[p] : AttemptOK(p, e)') /\ LiveAreAccountedFor(p)' /\ RowOK(p)'
  <1>1. PICK plan \in Plan, v \in Version :
        /\ Executable(p) /\ plan = CurrentPlan(p)
        /\ publication'[p] = PendingRow(p, v)
        /\ attempts'[p] = attempts[p] \cup {AttemptOf(p, "pending_confirmation", v)}
        /\ StillSeen(plan)'
        /\ versions'[plan.target][v].status = "pending_confirmation"
        /\ versions'[plan.target][v].content = Finding[p].content
        /\ versions'[plan.target][v].major = plan.major
        /\ confirmation'[plan.target][v]["active"].status = "pending"
    BY DEF RowPends
  <1>3. publication[p].plan \in PlanNumber
    BY <1>1, CurrentPlanType DEF Executable, AllOK
  <1>4. PICK e \in Attempt : e = AttemptOf(p, "pending_confirmation", v)
    BY <1>3, AttemptType
  <1>5. e.plan = publication[p].plan /\ e.version = v /\ e.outcome = "pending_confirmation"
    BY <1>3, <1>4, AttemptType
  <1>6. attempts'[p] = attempts[p] \cup {e}
    BY <1>1, <1>4
  <1>7. /\ publication'[p].status = "pending_confirmation"
        /\ publication'[p].plan = publication[p].plan
        /\ publication'[p].kind = "none" /\ publication'[p].version = v
        /\ publication'[p].gated = TRUE /\ publication'[p].last = e
    BY <1>1, <1>4 DEF PendingRow
  <1>8. /\ LiveAreAccountedFor(p)'
        /\ RowIsBound(p) /\ publication[p].plan # None
        /\ CurrentPlan(p)' = plan /\ TargetOf(p)' = plan.target
    BY <1>1, <1>5, <1>6, <1>7, NewResult
  <1>9. AttemptOK(p, e)'
    <2>1. e.outcome \notin ResultKind
      BY <1>5 DEF ResultKind
    <2> QED BY <1>1, <1>5, <2>1, NewAttemptIsSound
  <1>10. \A a \in attempts'[p] : AttemptOK(p, a)'
    BY <1>6, <1>9, AttemptKept
  <1>11. v # None
    BY VersionsArePositive
  <1>12. ConfirmationOf(p)' = "pending"
    BY <1>1, <1>7, <1>8 DEF ConfirmationOf
  <1>13. /\ RowIsBound(p)' /\ ResultIsComplete(publication[p])' /\ ConfirmationIsBound(p)'
         /\ LastIsKnown(p)' /\ RowFollowsLastAttempt(p)' /\ RowFollowsPlan(p)'
    BY <1>5, <1>6, <1>7, <1>8, <1>11, <1>12
    DEF RowIsBound, ResultIsComplete, ConfirmationIsBound, LastIsKnown, RowFollowsLastAttempt,
        RowFollowsPlan
  <1> QED BY <1>5, <1>7, <1>8, <1>10, <1>13 DEF RowOK

LEMMA ReconciledRow ==
  ASSUME NEW row \in PublicationRow, NEW kind \in ResultKind
  PROVE  [row EXCEPT !.status = "published", !.kind = kind] =
             [status |-> "published", plan |-> row.plan, kind |-> kind,
              version |-> row.version, gated |-> row.gated, last |-> row.last]
  <1>1. "published" \in Statuses
    BY DEF Statuses, Terminal
  <1>2. PICK r1 \in PublicationRow :
            r1 = [status |-> "published", plan |-> row.plan, kind |-> row.kind,
                  version |-> row.version, gated |-> row.gated, last |-> row.last]
    BY DEF PublicationRow, Terminal
  <1>3. [row EXCEPT !.status = "published"] = r1
    BY <1>1, <1>2, RowStatus
  <1>4. [r1 EXCEPT !.kind = kind] =
             [status |-> "published", plan |-> row.plan, kind |-> kind,
              version |-> row.version, gated |-> row.gated, last |-> row.last]
    BY <1>2, RowKind
  <1> QED BY <1>3, <1>4, Zenon

LEMMA ReconciledRowIsSound ==
  ASSUME AllOK, Moves, NEW p \in Publication, Grows(p), RowReconciles(p),
         ready \subseteq ready'
  PROVE  LiveAreAccountedFor(p)' /\ RowOK(p)'
  <1>1. /\ publication[p].status = "pending_confirmation"
        /\ attempts'[p] = attempts[p] /\ UNCHANGED vars
        /\ ConfirmationOf(p) \notin {"pending", "rejected", "cancelled"}
    BY DEF RowReconciles
  <1>2. /\ publication[p] \in PublicationRow /\ publication[p].plan # None
        /\ publication[p].version \in Version /\ publication[p].gated
        /\ TargetOf(p) \in Memory /\ ConfirmationOf(p) \in Decision \ {"none"}
    BY <1>1, WaitingRow
  <1>3. PICK kind \in ResultKind : kind = KindOfResult(CurrentPlan(p))
    BY KindType
  <1>4. publication'[p] =
            [status |-> "published", plan |-> publication[p].plan, kind |-> kind,
             version |-> publication[p].version, gated |-> publication[p].gated,
             last |-> publication[p].last]
    BY <1>2, <1>3, ReconciledRow DEF RowReconciles
  <1>5. /\ publication'[p].status = "published" /\ publication'[p].plan = publication[p].plan
        /\ publication'[p].kind = kind /\ publication'[p].version = publication[p].version
        /\ publication'[p].gated = publication[p].gated
        /\ publication'[p].last = publication[p].last
    BY <1>4
  <1>6. Types /\ RowOK(p) /\ Inv
    BY DEF AllOK, PublicationOK
  <1>7. CurrentPlan(p)' = CurrentPlan(p) /\ TargetOf(p)' = TargetOf(p)
    BY <1>2, <1>5, <1>6, CurrentPlanStays
  <1>8. ConfirmationOf(p) = "approved"
    BY <1>1, <1>2 DEF Decision
  <1>9. confirmation' = confirmation /\ versions' = versions
    BY <1>1 DEF vars
  <1>10. ConfirmationOf(p)' = "approved"
    BY <1>5, <1>7, <1>8, <1>9 DEF ConfirmationOf
  <1>11. versions[TargetOf(p)][publication[p].version].activated
    <2>1. "active" \in Target
      BY DEF Target
    <2> QED BY <1>2, <1>6, <1>8, <2>1 DEF Inv, ApprovalsTookEffect, ConfirmationOf
  <1>12. LiveAreAccountedFor(p)'
    <2> SUFFICES ASSUME NEW e \in attempts[p], e.outcome # "noop",
                        Live(PlanOf(p, e).target, e.version)'
                 PROVE  publication[p].version = e.version /\ publication[p].plan = e.plan
      BY <1>1, <1>5 DEF LiveAreAccountedFor, Written
    <2> QED BY LiveBefore
  <1>13. kind # "none" /\ publication[p].version # None
    BY <1>2, VersionsArePositive DEF ResultKind
  <1>14. /\ RowIsBound(p)
         /\ publication[p].last.version # None => publication[p].last \in attempts[p]
         /\ publication[p].last.plan = publication[p].plan
         /\ publication[p].last.version = publication[p].version
         /\ publication[p].last.outcome = "pending_confirmation"
    BY <1>1, <1>6 DEF RowOK, LastIsKnown, RowFollowsLastAttempt
  <1>15. /\ RowIsBound(p)' /\ ResultIsComplete(publication[p])' /\ ConfirmationIsBound(p)'
         /\ LastIsKnown(p)' /\ RowFollowsLastAttempt(p)'
    BY <1>1, <1>2, <1>5, <1>10, <1>13, <1>14
    DEF RowIsBound, ResultIsComplete, ConfirmationIsBound, LastIsKnown, RowFollowsLastAttempt
  <1>16. RowFollowsPlan(p)'
    BY <1>2, <1>3, <1>5, <1>7 DEF RowFollowsPlan, KindOfResult
  <1>17. (publication[p].status = "published" =>
              versions[TargetOf(p)][publication[p].version].activated)'
    BY <1>5, <1>7, <1>9, <1>11
  <1> QED BY <1>5, <1>12, <1>14, <1>15, <1>16, <1>17 DEF RowOK

LEMMA PublicationStays ==
  ASSUME AllOK, Inv', ClosedRequestsAreDead', Types', Moves, ready \subseteq ready',
         NEW p \in Publication, Advances(p)
  PROVE  PublicationOK(p)'
  <1>1. Grows(p) /\ RowMove(p)
    BY DEF Advances
  <1>2. BooksOK(p)'
    BY BooksKept
  <1>3. attempts'[p] = attempts[p] => (\A e \in attempts[p] : AttemptOK(p, e))'
    BY <1>1, AttemptKept
  <1> DEFINE Rest == /\ (\A e \in attempts[p] : AttemptOK(p, e))'
                     /\ LiveAreAccountedFor(p)' /\ RowOK(p)'
  <1>4. CASE publication'[p] = publication[p] /\ attempts'[p] = attempts[p]
    <2>1. Rest
      BY <1>1, <1>3, <1>4, UnmovedRow
    <2> QED BY <1>2, <2>1 DEF PublicationOK
  <1>5. CASE RowClears(p) /\ attempts'[p] = attempts[p]
    <2>1. Rest
      BY <1>1, <1>3, <1>5, ClearedRow
    <2> QED BY <1>2, <2>1 DEF PublicationOK
  <1>6. CASE RowFails(p)
    <2>1. attempts'[p] = attempts[p]
      BY <1>6 DEF RowFails
    <2>2. Rest
      BY <1>1, <1>3, <1>6, <2>1, FailedRowIsSound
    <2> QED BY <1>2, <2>2 DEF PublicationOK
  <1>7. CASE RowPublishes(p)
    <2>1. Rest
      BY <1>1, <1>7, PublishedRowIsSound
    <2> QED BY <1>2, <2>1 DEF PublicationOK
  <1>8. CASE RowPends(p)
    <2>1. Rest
      BY <1>1, <1>8, PendingRowIsSound
    <2> QED BY <1>2, <2>1 DEF PublicationOK
  <1>9. CASE RowReconciles(p)
    <2>1. attempts'[p] = attempts[p]
      BY <1>9 DEF RowReconciles
    <2>2. Rest
      BY <1>1, <1>3, <1>9, <2>1, ReconciledRowIsSound
    <2> QED BY <1>2, <2>2 DEF PublicationOK
  <1> QED BY <1>1, <1>4, <1>5, <1>6, <1>7, <1>8, <1>9 DEF RowMove

-----------------------------------------------------------------------------
(* The inductive invariant holds.                                          *)

LEMMA PublicationStarts == PublicationInit => AllOK
  <1> SUFFICES ASSUME PublicationInit PROVE AllOK
    OBVIOUS
  <1>1. Init /\ Inv
    BY InvInit DEF PublicationInit
  <1>2. ClosedRequestsAreDead
    BY <1>1 DEF Init, ClosedRequestsAreDead, NoConfirmation, Target
  <1>3. ASSUME NEW p \in Publication
        PROVE  /\ publication[p] = NoPublication /\ proposed[p] = {} /\ approved[p] = {}
               /\ accepted[p] = [proposal |-> NoProposal, times |-> 0]
               /\ plans[p] = <<>> /\ DOMAIN plans[p] = {} /\ attempts[p] = {}
    BY DEF PublicationInit
  <1>4. NoPublication \in PublicationRow
    BY DEF NoPublication, PublicationRow
  <1>5. Types
    <2>1. ready \subseteq Run /\ publication \in [Publication -> PublicationRow]
      BY <1>4 DEF PublicationInit
    <2>2. /\ proposed \in [Publication -> SUBSET Proposal]
          /\ approved \in [Publication -> SUBSET PlanNumber]
          /\ attempts \in [Publication -> SUBSET Attempt]
      BY DEF PublicationInit
    <2>3. accepted \in [Publication ->
              [proposal : Proposal \cup {NoProposal}, times : 0 .. MaxAcceptance]]
      <3>1. 0 \in 0 .. MaxAcceptance
        BY PublicationConstants
      <3> QED BY <3>1 DEF PublicationInit
    <2>4. plans \in [Publication -> Seq(Plan)]
      <3>1. <<>> \in Seq(Plan)
        OBVIOUS
      <3> QED BY <3>1 DEF PublicationInit
    <2>5. \A p \in Publication : Len(plans[p]) <= MaxPlan
      <3>1. Len(<<>>) = 0 /\ MaxPlan \in Nat
        BY PublicationConstants
      <3> QED BY <1>3, <3>1
    <2>6. \A p \in Publication : publication[p].plan = None
      BY <1>3 DEF NoPublication
    <2> QED
      BY <1>3, <2>1, <2>2, <2>3, <2>4, <2>5, <2>6 DEF Types, PublicationTypeOK
  <1>6. ASSUME NEW p \in Publication PROVE PublicationOK(p)
    <2>1. /\ publication[p].status = "absent" /\ publication[p].kind = "none"
          /\ publication[p].version = None /\ publication[p].gated = FALSE
          /\ publication[p].last.version = None
      BY <1>3 DEF NoPublication, NoAttempt
    <2>2. BooksOK(p)
      BY <1>3 DEF BooksOK, ApprovalsFitPlans, AcceptanceIsKnown
    <2>3. LiveAreAccountedFor(p)
      BY <1>3 DEF LiveAreAccountedFor, Written
    <2>4. RowOK(p)
      BY <2>1
      DEF RowOK, ResultIsComplete, ConfirmationIsBound, LastIsKnown, RowFollowsLastAttempt,
          RowFollowsPlan
    <2> QED BY <1>3, <2>2, <2>3, <2>4 DEF PublicationOK
  <1> QED BY <1>1, <1>2, <1>5, <1>6 DEF AllOK

(* Everything a step says about the tables, in one place.                  *)
LEMMA PublicationStep ==
  ASSUME AllOK, [PublicationNext]_allVars
  PROVE  /\ AllOK' /\ Inv' /\ ClosedRequestsAreDead' /\ Types' /\ Moves
         /\ ready \subseteq ready'
         /\ \A p \in Publication : Advances(p)
  <1>1. Inv /\ ClosedRequestsAreDead
    BY DEF AllOK
  <1>2. [Next]_vars
    BY CentralCalls
  <1>3. Inv' /\ ClosedRequestsAreDead'
    BY <1>1, <1>2, InvStep, ClosedStep
  <1>4. Moves
    BY <1>1, <1>2, StepMoves
  <1>5. Types' /\ ready \subseteq ready' /\ \A p \in Publication : Advances(p)
    BY EveryStepAdvances
  <1>6. \A p \in Publication : PublicationOK(p)'
    BY <1>3, <1>4, <1>5, PublicationStays
  <1>7. AllOK'
    BY <1>3, <1>5, <1>6 DEF AllOK
  <1> QED BY <1>3, <1>4, <1>5, <1>7

LEMMA PublicationInvariance == PublicationSpec => []AllOK
  <1>1. AllOK /\ [PublicationNext]_allVars => AllOK'
    BY PublicationStep
  <1> QED BY <1>1, PublicationStarts, PTL DEF PublicationSpec

-----------------------------------------------------------------------------
(* What holds in every state.                                              *)

(* Nothing history wrote is effective or waiting without a publication     *)
(* that waits for it or reports it, and what is reported took effect.      *)
THEOREM ResultsAreAccountedFor == PublicationSpec => []LiveResultsAreAccountedFor
  <1>1. AllOK => LiveResultsAreAccountedFor
    BY DEF AllOK, PublicationOK, LiveAreAccountedFor, RowOK, LiveResultsAreAccountedFor
  <1> QED BY <1>1, PublicationInvariance, PTL

(* What history wrote and what took effect had all decisions it needs: the *)
(* acceptance of its place, the approval of its plan and the confirmation  *)
(* of its version.                                                         *)
THEOREM HistoryIsReviewed == PublicationSpec => []EffectiveHistoryWasReviewed
  <1>1. ASSUME AllOK, NEW p \in Publication, NEW e \in Written(p),
               versions[PlanOf(p, e).target][e.version].activated
        PROVE  LET plan == PlanOf(p, e)
               IN  /\ plan.proposal \in Fresh => accepted[p].proposal = plan.proposal
                   /\ plan.relation \in {"update", "conflict"} => e.plan \in approved[p]
                   /\ plan.relation = "conflict" \/ plan.major =>
                          <<e.version, "active">> \in Approved(plan.target)
    <2>1. /\ e \in attempts[p] /\ e.outcome # "noop" /\ AttemptOK(p, e) /\ e \in Attempt
          /\ Inv /\ ClosedRequestsAreDead /\ Types /\ BooksOK(p)
      BY <1>1 DEF Written, AllOK, PublicationOK, Types, PublicationTypeOK
    <2>2. e.plan \in DOMAIN plans[p] /\ e.version \in Version
      BY <2>1 DEF AttemptOK, Attempt
    <2>3. PICK plan \in Plan : plan = PlanOf(p, e) /\ PlanOK(p, plan)
      BY <2>1, <2>2, PlanNumbers DEF PlanOf, BooksOK
    <2>4. plan.target \in Memory /\ plan.acceptance \in 0 .. MaxAcceptance
      BY DEF Plan
    <2>5. plan.proposal \in Fresh => accepted[p].proposal = plan.proposal
      BY <2>3 DEF PlanOK, PlanIsSound
    <2>6. plan.relation \in {"update", "conflict"} => e.plan \in approved[p]
      BY <2>1, <2>3 DEF AttemptOK
    <2>7. ASSUME plan.relation = "conflict" \/ plan.major
          PROVE  <<e.version, "active">> \in Approved(plan.target)
      <3>1. e.outcome = "pending_confirmation"
        BY <2>1, <2>3, <2>7 DEF AttemptOK, ResultKind
      <3>2. confirmation[plan.target][e.version]["active"].status # "none"
        BY <2>1, <2>3, <3>1 DEF AttemptOK, AttemptIsSound
      <3>3. confirmation[plan.target][e.version]["active"].status # "pending"
        BY <1>1, <2>1, <2>2, <2>3, <2>4, ActiveRequestIsOfCandidate
      <3>4. confirmation[plan.target][e.version]["active"].status \notin {"rejected", "cancelled"}
        BY <1>1, <2>1, <2>2, <2>3, <2>4 DEF ClosedRequestsAreDead
      <3>5. "active" \in Target
        BY DEF Target
      <3>6. confirmation[plan.target][e.version]["active"].status \in Decision
        BY <2>1, <2>2, <2>4, <3>5 DEF Inv, TypeOK, ConfirmationRow
      <3>7. confirmation[plan.target][e.version]["active"].status = "approved"
        BY <3>2, <3>3, <3>4, <3>6 DEF Decision
      <3> QED BY <2>2, <3>5, <3>7 DEF Approved, Request
    <2> QED BY <2>3, <2>5, <2>6, <2>7
  <1>2. AllOK => EffectiveHistoryWasReviewed
    BY <1>1 DEF EffectiveHistoryWasReviewed
  <1> QED BY <1>2, PublicationInvariance, PTL

(* The integrity audit never reports a store that only the services wrote  *)
(* to.                                                                     *)
THEOREM AuditIsQuiet == PublicationSpec => []AuditFindsNothing
  <1>1. ASSUME AllOK, NEW m \in Memory PROVE CurrentIsSound(m) /\ RequestsAreSound(m)
    <2>1. Inv /\ None \notin Version
      BY <1>1, VersionsArePositive DEF AllOK
    <2>2. CurrentIsSound(m)
      <3>1. current[m] \in Version \cup {None}
        BY <2>1 DEF Inv, TypeOK
      <3>2. \A v \in Version : versions[m][v].status \in Effective <=> v = current[m]
        BY <2>1 DEF Inv, OneEffectiveVersion
      <3> QED BY <2>1, <3>1, <3>2 DEF CurrentIsSound
    <2>3. ASSUME NEW r \in Pending(m), versions[m][r[1]].status # "pending_confirmation"
          PROVE  /\ confirmation[m][r[1]][r[2]].expected = r[1]
                 /\ r[2] \in {"locked", "retracted"}
                 /\ versions[m][r[1]].status \in Effective
      <3>1. PICK v \in Version, t \in Target : r = <<v, t>>
        BY DEF Pending, Request
      <3>2. /\ confirmation[m][v][t].status = "pending"
            /\ confirmation[m][v][t].expected = current[m]
        BY <2>1, <3>1, RequestsExpectCurrent DEF Pending
      <3>3. v \notin Candidates(m)
        BY <2>3, <3>1 DEF Candidates
      <3>4. v = current[m] /\ t \in {"locked", "retracted"}
        BY <2>1, <3>1, <3>3 DEF Inv, CandidatesAwaitOneDecision
      <3>5. versions[m][v].status \in Effective
        BY <2>1, <3>4 DEF Inv, OneEffectiveVersion
      <3> QED BY <3>1, <3>2, <3>4, <3>5
    <2> QED BY <2>2, <2>3 DEF RequestsAreSound
  <1>2. ASSUME AllOK, NEW p \in Publication
        PROVE  /\ publication[p].status # "absent" => RowIsBound(p)
               /\ ResultIsComplete(publication[p])
               /\ ConfirmationIsBound(p) /\ LastIsKnown(p)
               /\ RowFollowsLastAttempt(p) /\ RowFollowsPlan(p)
               /\ ApprovalsFitPlans(p) /\ AcceptanceIsKnown(p)
               /\ \A k \in DOMAIN plans[p] : PlanIsSound(p, plans[p][k])
               /\ \A e \in attempts[p] : AttemptIsSound(p, e)
    <2>1. BooksOK(p) /\ RowOK(p) /\ \A e \in attempts[p] : AttemptOK(p, e)
      BY <1>2 DEF AllOK, PublicationOK
    <2>2. \A k \in DOMAIN plans[p] : PlanIsSound(p, plans[p][k])
      BY <2>1 DEF BooksOK, PlanOK
    <2>3. \A e \in attempts[p] : AttemptIsSound(p, e)
      BY <2>1 DEF AttemptOK
    <2> QED BY <2>1, <2>2, <2>3 DEF BooksOK, RowOK
  <1>3. AllOK => AuditFindsNothing
    BY <1>1, <1>2 DEF AuditFindsNothing
  <1> QED BY <1>3, PublicationInvariance, PTL

-----------------------------------------------------------------------------
(* What no step does.                                                      *)

(* An attempt that was not there before is one of the plan the row named,  *)
(* and led to an effective version or to a candidate.                      *)
LEMMA NewAttempt ==
  ASSUME AllOK, NEW p \in Publication, Advances(p), NEW e \in attempts'[p], e \notin attempts[p]
  PROVE  /\ Executable(p)
         /\ e.plan = publication[p].plan
         /\ e.plan \in DOMAIN plans[p] /\ plans'[p][e.plan] = plans[p][e.plan]
         /\ StillSeen(plans[p][e.plan])
         /\ \/ /\ e.outcome \in ResultKind
               /\ versions'[plans[p][e.plan].target][e.version].status \in Effective
            \/ /\ e.outcome = "pending_confirmation"
               /\ versions'[plans[p][e.plan].target][e.version].status = "pending_confirmation"
               /\ confirmation'[plans[p][e.plan].target][e.version]["active"].status = "pending"
  <1>1. RowPublishes(p) \/ RowPends(p)
    BY DEF Advances, RowMove, RowFails, RowReconciles
  <1>2. Executable(p) /\ publication[p].plan # None /\ Types /\ Grows(p)
    BY <1>1 DEF RowPublishes, RowPends, Executable, AllOK, Advances
  <1>3. /\ publication[p].plan \in DOMAIN plans[p]
        /\ CurrentPlan(p) = plans[p][publication[p].plan]
    BY <1>2, CurrentPlanType
  <1>4. plans'[p][publication[p].plan] = plans[p][publication[p].plan]
    BY <1>2, <1>3 DEF Grows
  <1>5. CASE RowPublishes(p)
    <2>1. PICK plan \in Plan, v \in Version :
              /\ plan = CurrentPlan(p)
              /\ attempts'[p] = attempts[p] \cup {AttemptOf(p, KindOfResult(CurrentPlan(p)), v)}
              /\ StillSeen(plan)
              /\ versions'[plan.target][v].status \in Effective
      BY <1>5 DEF RowPublishes
    <2>2. e = AttemptOf(p, KindOfResult(CurrentPlan(p)), v)
      BY <2>1
    <2>3. e.plan = publication[p].plan /\ e.version = v /\ e.outcome = KindOfResult(CurrentPlan(p))
      BY <2>2 DEF AttemptOf
    <2>4. e.outcome \in ResultKind
      BY <2>3, KindType
    <2> QED BY <1>2, <1>3, <1>4, <2>1, <2>3, <2>4
  <1>6. CASE RowPends(p)
    <2>1. PICK plan \in Plan, v \in Version :
              /\ plan = CurrentPlan(p)
              /\ attempts'[p] = attempts[p] \cup {AttemptOf(p, "pending_confirmation", v)}
              /\ StillSeen(plan)
              /\ versions'[plan.target][v].status = "pending_confirmation"
              /\ confirmation'[plan.target][v]["active"].status = "pending"
      BY <1>6 DEF RowPends
    <2>2. e = AttemptOf(p, "pending_confirmation", v)
      BY <2>1
    <2>3. e.plan = publication[p].plan /\ e.version = v /\ e.outcome = "pending_confirmation"
      BY <2>2 DEF AttemptOf
    <2> QED BY <1>2, <1>3, <1>4, <2>1, <2>3
  <1> QED BY <1>1, <1>5, <1>6

NothingNewerStep ==
    \A p \in Publication : \A e \in attempts'[p] :
        /\ e.outcome \in {"created", "updated", "pending_confirmation"}
        /\ e.version \in NewlyActivated(plans[p][e.plan].target)
        =>
        StillSeen(plans[p][e.plan])

(* Old sessions never overwrite newer knowledge: what history wrote takes  *)
(* effect, then or much later, only in place of exactly what its plan saw. *)
THEOREM NewerKnowledgeStays == PublicationSpec => NothingNewerIsOverwritten
  <1>1. ASSUME AllOK, [PublicationNext]_allVars,
               NEW p \in Publication, NEW e \in attempts'[p],
               e.outcome \in {"created", "updated", "pending_confirmation"},
               e.version \in NewlyActivated(plans[p][e.plan].target)
        PROVE  StillSeen(plans[p][e.plan])
    <2>1. Moves /\ Advances(p) /\ Inv /\ Types
      BY <1>1, PublicationStep DEF AllOK
    <2>2. CASE e \notin attempts[p]
      BY <1>1, <2>1, <2>2, NewAttempt
    <2>3. CASE e \in attempts[p]
      <3>1. AttemptOK(p, e) /\ e \in Attempt
        BY <1>1, <2>1, <2>3 DEF AllOK, PublicationOK, Types, PublicationTypeOK
      <3>2. e.plan \in DOMAIN plans[p] /\ e.version \in Version
        BY <3>1 DEF AttemptOK, Attempt
      <3>3. PICK plan \in Plan : plan = plans[p][e.plan]
        BY <2>1, <3>2, PlanNumbers
      <3>4. PlanOf(p, e) = plan /\ plan.target \in Memory
        BY <3>3 DEF PlanOf, Plan
      <3>5. versions[plan.target][e.version].status # "absent"
        BY <3>1, <3>4 DEF AttemptOK, AttemptIsSound
      <3>6. versions[plan.target][e.version].status = "pending_confirmation"
        BY <1>1, <2>1, <3>2, <3>3, <3>4, <3>5, StoredStays
      <3>7. ~versions[plan.target][e.version].activated
        BY <1>1, <3>3 DEF NewlyActivated
      <3>8. e.outcome = "pending_confirmation"
        BY <1>1, <3>1, <3>4, <3>7 DEF AttemptOK, ResultKind
      <3>9. StillSeen(plan)
        BY <3>1, <3>4, <3>6, <3>8 DEF AttemptOK
      <3> QED BY <3>3, <3>9
    <2> QED BY <2>2, <2>3
  <1>2. AllOK /\ [PublicationNext]_allVars => [NothingNewerStep]_allVars
    BY <1>1 DEF NothingNewerStep
  <1>3. [NothingNewerStep]_allVars =>
            [\A p \in Publication : \A e \in attempts'[p] :
                /\ e.outcome \in {"created", "updated", "pending_confirmation"}
                /\ e.version \in NewlyActivated(plans[p][e.plan].target)
                =>
                LET plan == plans[p][e.plan]
                IN  /\ current[plan.target] = plan.seen.version
                    /\ CurrentStatus(plan.target) = plan.seen.status
                    /\ current[plan.target] # None =>
                           versions[plan.target][current[plan.target]].content = plan.seen.content]_allVars
    BY DEF NothingNewerStep, StillSeen
  <1> QED
    BY <1>2, <1>3, PublicationInvariance, PTL
    DEF PublicationSpec, NothingNewerIsOverwritten

(* The status each kind of move leads to.                                  *)
LEMMA NewStatus ==
  ASSUME AllOK, NEW p \in Publication
  PROVE  /\ RowClears(p) => publication'[p].status \notin {"pending_confirmation", "published"}
         /\ RowFails(p) => publication'[p].status \in {"needs_review", "retryable"}
         /\ RowPublishes(p) => publication'[p].status = "published"
         /\ RowPends(p) => publication'[p].status = "pending_confirmation"
         /\ RowReconciles(p) => publication'[p].status = "published"
  <1>1. ASSUME RowClears(p)
        PROVE  publication'[p].status \notin {"pending_confirmation", "published"}
    <2>1. PICK k \in DOMAIN plans'[p] \cup {None},
             s \in (Open \ {"retryable"}) \cup {"discarded", "superseded"} :
              publication'[p] = Cleared(k, s)
      BY <1>1 DEF RowClears
    <2>2. publication'[p].status = s
      BY <2>1 DEF Cleared
    <2> QED BY <2>2 DEF Open
  <1>2. ASSUME RowFails(p) PROVE publication'[p].status \in {"needs_review", "retryable"}
    <2>1. PICK o \in {"needs_review", "retryable"} : publication'[p] = FailedRow(p, o)
      BY <1>2 DEF RowFails
    <2>2. publication'[p].status = o
      BY <2>1 DEF FailedRow
    <2> QED BY <2>2
  <1>3. ASSUME RowPublishes(p) PROVE publication'[p].status = "published"
    <2>1. PICK v \in Version : publication'[p] = PublishedRow(p, v)
      BY <1>3 DEF RowPublishes
    <2> QED BY <2>1 DEF PublishedRow
  <1>4. ASSUME RowPends(p) PROVE publication'[p].status = "pending_confirmation"
    <2>1. PICK v \in Version : publication'[p] = PendingRow(p, v)
      BY <1>4 DEF RowPends
    <2> QED BY <2>1 DEF PendingRow
  <1>5. ASSUME RowReconciles(p) PROVE publication'[p].status = "published"
    <2>1. publication[p] \in PublicationRow
      BY DEF AllOK, Types, PublicationTypeOK
    <2>2. PICK row \in PublicationRow : row = publication[p]
      BY <2>1
    <2>3. PICK kind \in ResultKind : kind = KindOfResult(CurrentPlan(p))
      BY KindType
    <2>4. publication'[p] = [row EXCEPT !.status = "published", !.kind = kind]
      BY <1>5, <2>2, <2>3 DEF RowReconciles
    <2>5. [row EXCEPT !.status = "published", !.kind = kind] =
              [status |-> "published", plan |-> row.plan, kind |-> kind,
               version |-> row.version, gated |-> row.gated, last |-> row.last]
      BY ReconciledRow
    <2>6. publication'[p] =
              [status |-> "published", plan |-> row.plan, kind |-> kind,
               version |-> row.version, gated |-> row.gated, last |-> row.last]
      BY <2>4, <2>5, Zenon
    <2> QED BY <2>6
  <1> QED BY <1>1, <1>2, <1>3, <1>4, <1>5

(* The row moves as valid_transition and terminal_immutable allow.         *)
LEMMA RowTransitions ==
  ASSUME AllOK, NEW p \in Publication, RowMove(p)
  PROVE  /\ TerminalImmutable(p)
         /\ publication'[p] # publication[p] => ValidPublicationTransition(p)
  <1>1. CASE publication'[p] = publication[p]
    BY <1>1 DEF TerminalImmutable
  <1>2. CASE RowClears(p)
    BY <1>2 DEF RowClears, TerminalImmutable
  <1>3. CASE RowFails(p) \/ RowPublishes(p) \/ RowPends(p)
    <2>1. publication[p].status \in {"ready", "retryable"}
      BY <1>3 DEF RowFails, RowPublishes, RowPends, Executable
    <2>2. publication'[p].status \in
              {"needs_review", "retryable", "published", "pending_confirmation"}
      BY <1>3, NewStatus
    <2>3. ValidPublicationTransition(p)
      BY <2>1, <2>2 DEF ValidPublicationTransition
    <2>4. TerminalImmutable(p)
      BY <2>1 DEF TerminalImmutable, Terminal
    <2> QED BY <2>3, <2>4
  <1>4. CASE RowReconciles(p)
    <2>1. publication[p].status = "pending_confirmation"
      BY <1>4 DEF RowReconciles
    <2>2. publication'[p].status = "published"
      BY <1>4, NewStatus
    <2>3. ValidPublicationTransition(p)
      BY <2>1, <2>2 DEF ValidPublicationTransition
    <2>4. TerminalImmutable(p)
      BY <2>1 DEF TerminalImmutable, Terminal
    <2> QED BY <2>3, <2>4
  <1> QED BY <1>1, <1>2, <1>3, <1>4 DEF RowMove

LEMMA RowShape ==
  ASSUME AllOK', NEW p \in Publication
  PROVE  StateShape(p)
  <1>1. RowOK(p)' /\ publication'[p] \in PublicationRow
    BY DEF AllOK, PublicationOK, Types, PublicationTypeOK
  <1>2. ResultIsComplete(publication[p])' /\ RowFollowsPlan(p)'
    BY <1>1 DEF RowOK
  <1> QED BY <1>2 DEF StateShape, ResultIsComplete, RowFollowsPlan

(* A row that comes to wait does so because its candidate was just made.   *)
LEMMA PendingIsAsked ==
  ASSUME AllOK, NEW p \in Publication, Advances(p), publication'[p] # publication[p],
         publication'[p].status = "pending_confirmation"
  PROVE  confirmation'[CurrentPlan(p)'.target][publication'[p].version]["active"].status = "pending"
  <1>1. Types /\ Grows(p) /\ RowMove(p) /\ publication[p] \in PublicationRow
    BY DEF AllOK, Types, PublicationTypeOK, Advances
  <1>2. RowPends(p)
    BY <1>1, NewStatus DEF RowMove
  <1>3. PICK plan \in Plan, v \in Version :
            /\ Executable(p) /\ plan = CurrentPlan(p)
            /\ publication'[p] = PendingRow(p, v)
            /\ confirmation'[plan.target][v]["active"].status = "pending"
    BY <1>2 DEF RowPends
  <1>4. publication'[p].plan = publication[p].plan /\ publication'[p].version = v
    BY <1>3 DEF PendingRow
  <1>5. CurrentPlan(p)' = plan
    BY <1>1, <1>3, <1>4, CurrentPlanStays DEF Executable
  <1> QED BY <1>3, <1>4, <1>5

LEMMA ResultIsInScope ==
  ASSUME AllOK, AllOK', NEW p \in Publication, Advances(p), publication'[p] # publication[p]
  PROVE  ResultScope(p)
  <1> SUFFICES ASSUME publication'[p].version # None PROVE ResultScope(p)
    BY DEF ResultScope
  <1>1. /\ RowOK(p)' /\ publication'[p] \in PublicationRow
        /\ \A e \in attempts'[p] : AttemptOK(p, e)'
    BY DEF AllOK, PublicationOK, Types, PublicationTypeOK
  <1>2. /\ ResultIsComplete(publication[p])' /\ RowFollowsLastAttempt(p)' /\ LastIsKnown(p)'
        /\ ConfirmationIsBound(p)'
        /\ publication'[p].gated => publication'[p].last.outcome = "pending_confirmation"
    BY <1>1 DEF RowOK
  <1>3. publication'[p].status \in {"pending_confirmation", "published"}
    BY <1>2 DEF ResultIsComplete
  <1>4. PICK e : e = publication'[p].last
    OBVIOUS
  <1>5. e.plan = publication'[p].plan /\ e.version = publication'[p].version
    BY <1>2, <1>3, <1>4 DEF RowFollowsLastAttempt
  <1>6. e \in attempts'[p]
    BY <1>2, <1>4, <1>5 DEF LastIsKnown
  <1>7. e.outcome = IF publication'[p].gated THEN "pending_confirmation" ELSE publication'[p].kind
    BY <1>1, <1>2, <1>3, <1>4 DEF RowFollowsLastAttempt, ResultIsComplete, PublicationRow
  <1>8. PICK plan : plan = plans'[p][publication'[p].plan]
    OBVIOUS
  <1>9. /\ versions'[plan.target][publication'[p].version].content = Finding[p].content
        /\ versions'[plan.target][publication'[p].version].major = plan.major
    BY <1>1, <1>5, <1>6, <1>8 DEF AttemptOK, AttemptIsSound, PlanOf
  <1>10. CurrentPlan(p)' = plan
    BY <1>8 DEF CurrentPlan
  <1>11. publication'[p].gated /\ publication'[p].status = "pending_confirmation" =>
             confirmation'[plan.target][publication'[p].version]["active"].status = "pending"
    BY <1>10, PendingIsAsked
  <1>12. publication'[p].gated /\ publication'[p].status = "published" =>
             confirmation'[plan.target][publication'[p].version]["active"].status = "approved"
    BY <1>2, <1>10 DEF ConfirmationIsBound, ConfirmationOf, TargetOf
  <1> QED
    BY <1>5, <1>6, <1>7, <1>8, <1>9, <1>11, <1>12 DEF ResultScope

LEMMA AttemptIsInScope ==
  ASSUME AllOK, AllOK', NEW p \in Publication, Advances(p)
  PROVE  AttemptScope(p)
  <1> SUFFICES ASSUME NEW e \in attempts'[p], e \notin attempts[p]
               PROVE  LET plan == plans[p][e.plan]
                          row == versions'[plan.target][e.version]
                      IN  /\ publication[p].status \in {"ready", "retryable"}
                          /\ e.plan = publication[p].plan
                          /\ plan.relation \in {"update", "conflict"} => e.plan \in approved[p]
                          /\ e.outcome = "pending_confirmation" =>
                                 /\ row.status = "pending_confirmation"
                                 /\ confirmation'[plan.target][e.version]["active"].status = "pending"
                          /\ e.outcome \in ResultKind => row.status \in Effective
                          /\ e.outcome = "created" => ~plan.seen.exists
                          /\ e.outcome = "updated" => plan.relation \in {"update", "conflict"}
                          /\ e.outcome = "noop" => plan.relation = "noop"
    BY DEF AttemptScope
  <1>1. Executable(p) /\ e.plan = publication[p].plan /\ e.plan \in DOMAIN plans[p]
    BY NewAttempt
  <1>2. PICK plan : plan = plans[p][e.plan] /\ plan = plans'[p][e.plan]
    BY NewAttempt
  <1>3. /\ publication[p].status \in {"ready", "retryable"}
        /\ plan.relation \in {"update", "conflict"} => e.plan \in approved[p]
    BY <1>1, <1>2 DEF Executable, CurrentPlan
  <1>4. \/ /\ e.outcome \in ResultKind
           /\ versions'[plan.target][e.version].status \in Effective
        \/ /\ e.outcome = "pending_confirmation"
           /\ versions'[plan.target][e.version].status = "pending_confirmation"
           /\ confirmation'[plan.target][e.version]["active"].status = "pending"
    BY <1>2, NewAttempt
  <1>5. "pending_confirmation" \notin ResultKind
    BY DEF ResultKind
  <1>6. PlanOf(p, e)' = plan /\ AttemptOK(p, e)'
    BY <1>2 DEF PlanOf, AllOK, PublicationOK
  <1>7. /\ e.outcome = "created" => ~plan.seen.exists
        /\ e.outcome = "updated" => plan.relation \in {"update", "conflict"}
        /\ e.outcome = "noop" => plan.relation = "noop"
    BY <1>6 DEF AttemptOK, AttemptIsSound
  <1> QED BY <1>1, <1>2, <1>3, <1>4, <1>5, <1>7

LEMMA PlanIsInScope ==
  ASSUME AllOK, NEW p \in Publication, Advances(p)
  PROVE  PlanScope(p)
  <1>1. CASE plans'[p] = plans[p]
    BY <1>1 DEF PlanScope
  <1>2. CASE PlansAnew(p)
    <2>1. PICK plan \in Plan :
              /\ plans'[p] = Append(plans[p], plan) /\ PlanOK(p, plan)
              /\ publication[p].status \in PlanStatus
      BY <1>2 DEF PlansAnew
    <2>2. plans[p] \in Seq(Plan)
      BY DEF AllOK, Types
    <2>3. PICK s \in Seq(Plan) : s = plans[p]
      BY <2>2
    <2>4. /\ Len(s) \in Nat /\ DOMAIN s = 1 .. Len(s)
          /\ DOMAIN Append(s, plan) = 1 .. (Len(s) + 1)
          /\ Append(s, plan)[Len(s) + 1] = plan
      OBVIOUS
    <2>5. ASSUME NEW k \in DOMAIN plans'[p] \ DOMAIN plans[p]
          PROVE  k = Len(plans[p]) + 1 /\ plans'[p][k] = plan
      <3>1. k \in 1 .. (Len(s) + 1) /\ k \notin 1 .. Len(s)
        BY <2>1, <2>3, <2>4
      <3>2. k = Len(s) + 1
        BY <2>4, <3>1
      <3> QED BY <2>1, <2>3, <2>4, <3>2
    <2>6. /\ plan.proposal \in proposed[p]
          /\ plan.proposal \in Fresh => plan.acceptance # 0
          /\ Finding[p].major \/ plan.target \in LevelOne => plan.major
          /\ plan.relation = "new" <=> ~plan.seen.exists
          /\ plan.relation = "noop" =>
                 /\ plan.seen.version # None
                 /\ <<plan.seen.content, plan.seen.major>> = <<Finding[p].content, plan.major>>
      BY <2>1 DEF PlanOK, PlanIsSound, SnapshotIsComplete
    <2> QED BY <2>1, <2>5, <2>6 DEF PlanScope
  <1> QED BY <1>1, <1>2 DEF Advances, BooksMove

(* No call that passes the checks of the publication service is aborted by *)
(* the triggers of the publication tables, so that nothing is retried      *)
(* without end.                                                            *)
THEOREM PublicationTriggersAgree == PublicationSpec => PublicationStorageAccepts
  <1> DEFINE A == \A p \in Publication :
           /\ TerminalImmutable(p)
           /\ publication'[p] # publication[p] =>
                  /\ ValidPublicationTransition(p)
                  /\ StateShape(p)
                  /\ ResultScope(p)
           /\ AttemptScope(p)
           /\ PlanScope(p)
  <1>1. AllOK /\ [PublicationNext]_allVars => [A]_allVars
    <2> SUFFICES ASSUME AllOK, [PublicationNext]_allVars, NEW p \in Publication
                 PROVE  /\ TerminalImmutable(p)
                        /\ publication'[p] # publication[p] =>
                               /\ ValidPublicationTransition(p)
                               /\ StateShape(p)
                               /\ ResultScope(p)
                        /\ AttemptScope(p)
                        /\ PlanScope(p)
      OBVIOUS
    <2>1. AllOK' /\ Advances(p)
      BY PublicationStep
    <2>2. RowMove(p)
      BY <2>1 DEF Advances
    <2> QED
      BY <2>1, <2>2, RowTransitions, RowShape, ResultIsInScope, AttemptIsInScope, PlanIsInScope
  <1> QED BY <1>1, PublicationInvariance, PTL DEF PublicationSpec, PublicationStorageAccepts
=============================================================================
