---------------------------- MODULE CentralMemory ----------------------------
(***************************************************************************)
(* Version governance of the central memory: the stable memory rows, their *)
(* immutable versions and the human confirmations that stand between a     *)
(* proposed version and the effective one.  Every service call runs in one *)
(* BEGIN IMMEDIATE transaction of SQLite (repository.transaction), so each *)
(* call is one action; processes interleave between calls.                 *)
(*                                                                         *)
(* A version of None stands for SQL NULL in current_version and in         *)
(* expected_current_version.  Contents are values compared by the code's   *)
(* content hash, which covers the is_major flag as well.                   *)
(***************************************************************************)
EXTENDS Integers

CONSTANTS
    Memory,      \* stable memory ids
    Content,     \* title, summary, body, ... of a version, as one value
    NoContent,   \* content of a version that does not exist yet
    ReviewKind,  \* the kinds of review an author may ask for
    LevelOne,    \* memories whose immutable level is 1 (project rules)
    MaxVersion   \* bound: versions published per memory

ASSUME ConstantsAssumption ==
    /\ NoContent \notin Content
    /\ LevelOne \subseteq Memory
    /\ ReviewKind \subseteq {"conflict", "manual"}
    /\ MaxVersion \in Nat \ {0}

None    == 0
Version == 1 .. MaxVersion

Effective == {"active", "locked"}
Status    == Effective \cup
             {"absent", "pending_confirmation", "superseded", "retracted"}
Target    == {"active", "locked", "retracted"}
Kind      == {"major_rule", "conflict", "locked_override", "manual"}
Decision  == {"none", "pending", "approved", "rejected", "cancelled"}

VARIABLES
    current,       \* current[m]: the memory row's current_version
    versions,      \* versions[m][v]: the version row, "absent" until inserted
    confirmation   \* confirmation[m][v][t]: the latest request to make v a t

vars == <<current, versions, confirmation>>

(* basis is a history field: the version the author declared to have read. *)
VersionRow ==
    [status : Status, content : Content \cup {NoContent}, major : BOOLEAN,
     activated : BOOLEAN, basis : Version \cup {None}]

ConfirmationRow ==
    [status : Decision, expected : Version \cup {None}, kind : Kind]

NoVersion ==
    [status |-> "absent", content |-> NoContent, major |-> FALSE,
     activated |-> FALSE, basis |-> None]

NoConfirmation == [status |-> "none", expected |-> None, kind |-> "manual"]

(* What a caller of publish chooses besides the memory and the content.    *)
PublishInput ==
    [content : Content, major : BOOLEAN, target : Effective, ask : BOOLEAN,
     kind : ReviewKind, expected : Version \cup {None}]

-----------------------------------------------------------------------------
(* Reading the tables.                                                     *)

Stored(m)     == {v \in Version : versions[m][v].status # "absent"}
Candidates(m) == {v \in Version : versions[m][v].status = "pending_confirmation"}
Activated(m)  == {v \in Version : versions[m][v].activated}

IsNextVersion(m, v) ==
    /\ \A w \in Stored(m) : w < v
    /\ v - 1 \in Stored(m) \cup {None}

Request         == Version \X Target
Pending(m)      == {r \in Request : confirmation[m][r[1]][r[2]].status = "pending"}

CurrentStatus(m) ==
    IF current[m] = None THEN "absent" ELSE versions[m][current[m]].status

(* Majorness of the effective version only, which does not decide here.    *)
CurrentIsMajor(m) == current[m] # None /\ versions[m][current[m]].major

HasActivatedMajor(m) == \E v \in Activated(m) : versions[m][v].major

IsTombstone(m) ==
    /\ current[m] = None
    /\ \E v \in Activated(m) : versions[m][v].status = "retracted"

IsMajor(m, in) == in.major \/ m \in LevelOne \/ HasActivatedMajor(m)

(* Fault: a retracted memory comes back like a new one.                    *)
NeedsConfirmationUnlessRevived(m, in) ==
    \/ IsMajor(m, in)
    \/ in.target = "locked"
    \/ in.ask
    \/ CurrentStatus(m) = "locked"

(* Fault: the first version of a memory takes effect without anybody.      *)
NeedsConfirmationUnlessFirst(m, in) ==
    \/ IsMajor(m, in) /\ Activated(m) # {}
    \/ in.target = "locked"
    \/ in.ask
    \/ CurrentStatus(m) = "locked"
    \/ IsTombstone(m)

NeedsConfirmation(m, in) ==
    \/ IsMajor(m, in)
    \/ in.target = "locked"
    \/ in.ask
    \/ CurrentStatus(m) = "locked"
    \/ IsTombstone(m)

PublishKind(m, in) ==
    IF CurrentStatus(m) = "locked" THEN "locked_override"
    ELSE IF IsMajor(m, in) \/ in.target = "locked" THEN "major_rule"
    ELSE in.kind

(* Same content hash: same content and same governed is_major.             *)
SameHash(m, v, in) ==
    /\ versions[m][v].content = in.content
    /\ versions[m][v].major = IsMajor(m, in)

IsNoop(m, in) ==
    /\ current[m] # None
    /\ SameHash(m, current[m], in)
    /\ CurrentStatus(m) \in {"locked", in.target}

HasReusableRequest(m, in) ==
    \E v \in Candidates(m) :
        /\ SameHash(m, v, in)
        /\ confirmation[m][v][in.target] =
             [status |-> "pending", expected |-> current[m], kind |-> PublishKind(m, in)]

-----------------------------------------------------------------------------
(* Writing the tables.                                                     *)

(* The requests in settled take their decision, the others stay.           *)
Settle(m, settled, decision) ==
    [v \in Version |-> [t \in Target |->
        IF <<v, t>> \in settled
        THEN [confirmation[m][v][t] EXCEPT !.status = decision]
        ELSE confirmation[m][v][t]]]

(* decide_confirmation for the approved requests, then cancellation of the *)
(* cancelled ones.                                                         *)
Decided(m, approved, cancelled) ==
    [v \in Version |-> [t \in Target |->
        IF <<v, t>> \in approved
        THEN [confirmation[m][v][t] EXCEPT !.status = "approved"]
        ELSE IF <<v, t>> \in cancelled
        THEN [confirmation[m][v][t] EXCEPT !.status = "cancelled"]
        ELSE confirmation[m][v][t]]]

(* Fault: a closed request leaves its candidate in the queue.              *)
KeepCandidates(m, cancelled, rows) == rows

(* A cancelled request takes its candidate down with it.                   *)
DropCandidates(m, cancelled, rows) ==
    [v \in Version |->
        IF rows[v].status = "pending_confirmation" /\ (\E t \in Target : <<v, t>> \in cancelled)
        THEN [rows[v] EXCEPT !.status = "retracted"]
        ELSE rows[v]]

(* Requests that a move of the pointer to next leaves behind.              *)
StaleRequests(m, next) ==
    {r \in Pending(m) : confirmation[m][r[1]][r[2]].expected # next}

(* Fault: the replaced version keeps its status.                           *)
ActivateBesideCurrent(m, v, row, target, approved) ==
    LET cancelled == StaleRequests(m, v) \ approved
        rows == [versions[m] EXCEPT ![v] = [row EXCEPT !.status = target, !.activated = TRUE]]
    IN  /\ current' = [current EXCEPT ![m] = v]
        /\ versions' = [versions EXCEPT ![m] = DropCandidates(m, cancelled, rows)]
        /\ confirmation' = [confirmation EXCEPT ![m] = Decided(m, approved, cancelled)]

(* The current version gives way to v, whose row becomes row with the      *)
(* target status; requests made against another version are cancelled.     *)
ActivateCandidate(m, v, row, target, approved) ==
    LET cancelled == StaleRequests(m, v) \ approved
        rows == [w \in Version |->
            IF w = v
            THEN [row EXCEPT !.status = target, !.activated = TRUE]
            ELSE IF w = current[m]
            THEN [versions[m][w] EXCEPT !.status = "superseded"]
            ELSE versions[m][w]]
    IN  /\ current' = [current EXCEPT ![m] = v]
        /\ versions' = [versions EXCEPT ![m] = DropCandidates(m, cancelled, rows)]
        /\ confirmation' = [confirmation EXCEPT ![m] = Decided(m, approved, cancelled)]

(* Fault: locking leaves the requests made against the same version open.  *)
LockEffectiveKeepingRequests(m, v, approved) ==
    /\ versions' = [versions EXCEPT ![m][v].status = "locked"]
    /\ confirmation' = [confirmation EXCEPT ![m] = Decided(m, approved, {})]
    /\ UNCHANGED current

LockEffective(m, v, approved) ==
    LET cancelled == Pending(m) \ approved
        rows == [versions[m] EXCEPT ![v].status = "locked"]
    IN  /\ versions' = [versions EXCEPT ![m] = DropCandidates(m, cancelled, rows)]
        /\ confirmation' = [confirmation EXCEPT ![m] = Decided(m, approved, cancelled)]
        /\ UNCHANGED current

RetractEffective(m, v, approved) ==
    LET cancelled == StaleRequests(m, None) \ approved
        rows == [versions[m] EXCEPT ![v].status = "retracted"]
    IN  /\ current' = [current EXCEPT ![m] = None]
        /\ versions' = [versions EXCEPT ![m] = DropCandidates(m, cancelled, rows)]
        /\ confirmation' = [confirmation EXCEPT ![m] = Decided(m, approved, cancelled)]

-----------------------------------------------------------------------------
(* The service's operations.                                               *)

Init ==
    /\ current = [m \in Memory |-> None]
    /\ versions = [m \in Memory |-> [v \in Version |-> NoVersion]]
    /\ confirmation = [m \in Memory |-> [v \in Version |-> [t \in Target |-> NoConfirmation]]]

NewRow(m, in) ==
    [status |-> "pending_confirmation", content |-> in.content,
     major |-> IsMajor(m, in), activated |-> FALSE, basis |-> in.expected]

(* Fault: publish does not compare the version its author has read.        *)
PublishDirectUnchecked(m, v, in) ==
    /\ ~IsNoop(m, in)
    /\ ~NeedsConfirmation(m, in)
    /\ IsNextVersion(m, v)
    /\ ActivateCandidate(m, v, NewRow(m, in), in.target, {})

(* publish, ungoverned: the new version becomes effective at once.         *)
PublishDirect(m, v, in) ==
    /\ in.expected = current[m]
    /\ ~IsNoop(m, in)
    /\ ~NeedsConfirmation(m, in)
    /\ IsNextVersion(m, v)
    /\ ActivateCandidate(m, v, NewRow(m, in), in.target, {})

(* publish, governed: a candidate and its confirmation request are stored. *)
PublishForReview(m, v, in) ==
    /\ in.expected = current[m]
    /\ ~IsNoop(m, in)
    /\ NeedsConfirmation(m, in)
    /\ ~HasReusableRequest(m, in)
    /\ IsNextVersion(m, v)
    /\ versions' = [versions EXCEPT ![m][v] = NewRow(m, in)]
    /\ confirmation' = [confirmation EXCEPT ![m][v][in.target] =
           [status |-> "pending", expected |-> current[m], kind |-> PublishKind(m, in)]]
    /\ UNCHANGED current

StatusKind(m, target) ==
    IF CurrentStatus(m) = "locked" THEN "locked_override"
    ELSE IF target = "locked" THEN "major_rule" ELSE "manual"

(* request_lock and request_retraction of the version the caller expects.  *)
RequestStatusChange(m, v, target) ==
    /\ v = current[m]
    /\ versions[m][v].status \in Effective
    /\ target = "locked" => versions[m][v].status # "locked"
    /\ <<v, target>> \notin Pending(m)
    /\ confirmation' = [confirmation EXCEPT ![m][v][target] =
           [status |-> "pending", expected |-> v, kind |-> StatusKind(m, target)]]
    /\ UNCHANGED <<current, versions>>

(* approve: the three outcomes a pending confirmation can ask for.         *)
ApproveRetraction(m, v) ==
    /\ <<v, "retracted">> \in Pending(m)
    /\ confirmation[m][v]["retracted"].expected = current[m]
    /\ v = current[m]
    /\ versions[m][v].status \in Effective
    /\ RetractEffective(m, v, {<<v, "retracted">>})

ApproveLock(m, v) ==
    /\ <<v, "locked">> \in Pending(m)
    /\ confirmation[m][v]["locked"].expected = current[m]
    /\ v = current[m]
    /\ versions[m][v].status = "active"
    /\ LockEffective(m, v, {<<v, "locked">>})

ApproveCandidate(m, v, target) ==
    /\ <<v, target>> \in Pending(m)
    /\ confirmation[m][v][target].expected = current[m]
    /\ versions[m][v].status = "pending_confirmation"
    /\ ActivateCandidate(m, v, versions[m][v], target, {<<v, target>>})

(* reject and cancel: the request is closed and its candidate discarded.   *)
Decline(m, v, target, decision) ==
    /\ <<v, target>> \in Pending(m)
    /\ confirmation' = [confirmation EXCEPT ![m] = Settle(m, {<<v, target>>}, decision)]
    /\ versions' = [versions EXCEPT ![m] = DropCandidates(m, {<<v, target>>}, @)]
    /\ UNCHANGED current

Publish(m) ==
    \E v \in Version, in \in PublishInput :
        PublishDirect(m, v, in) \/ PublishForReview(m, v, in)

RequestChange(m) ==
    \E v \in Version, t \in {"locked", "retracted"} : RequestStatusChange(m, v, t)

Approve(m) ==
    \E v \in Version :
        \/ ApproveRetraction(m, v)
        \/ ApproveLock(m, v)
        \/ \E t \in Effective : ApproveCandidate(m, v, t)

DeclineRequest(m) ==
    \E v \in Version, t \in Target, d \in {"rejected", "cancelled"} : Decline(m, v, t, d)

Next ==
    \E m \in Memory : Publish(m) \/ RequestChange(m) \/ Approve(m) \/ DeclineRequest(m)

Spec == Init /\ [][Next]_vars
-----------------------------------------------------------------------------
(* What the rows may look like between two calls.                          *)

(* The rows keep the shape the table declarations give them.               *)
TypeOK ==
    /\ current \in [Memory -> Version \cup {None}]
    /\ versions \in [Memory -> [Version -> VersionRow]]
    /\ confirmation \in [Memory -> [Version -> [Target -> ConfirmationRow]]]

(* The memory row points at its one active or locked version, and at       *)
(* nothing when there is none: the unique index on effective versions and  *)
(* the pointer are written by different statements of each service call.   *)
OneEffectiveVersion ==
    \A m \in Memory, v \in Version :
        versions[m][v].status \in Effective <=> v = current[m]

(* A request a human can still approve was made against the version that   *)
(* is effective now: every call that moves the pointer cancels the others, *)
(* so no approval carries a decision over to a version nobody looked at.   *)
ApprovalsNeverStale ==
    \A m \in Memory : \A r \in Pending(m) :
        confirmation[m][r[1]][r[2]].expected = current[m]

(* Every candidate waits for exactly one open request to make it active or *)
(* locked, and every other open request is about the effective version: a  *)
(* candidate is never left without a decision to take, nor a request       *)
(* without something to decide.                                            *)
CandidatesAwaitOneDecision ==
    \A m \in Memory :
        /\ \A v \in Candidates(m) :
               \E t \in Effective : \A u \in Target : <<v, u>> \in Pending(m) <=> u = t
        /\ \A r \in Pending(m) :
               r[1] \notin Candidates(m) =>
                   /\ r[1] = current[m]
                   /\ r[2] \in {"locked", "retracted"}
                   /\ r[2] = "locked" => CurrentStatus(m) = "active"

(* An open request against a locked version says that it overrides a lock: *)
(* the human who decides is told so, also when the lock came after the     *)
(* request (lock_effective cancels those).                                 *)
LockIsOverriddenOpenly ==
    \A m \in Memory : \A r \in Pending(m) :
        confirmation[m][r[1]][r[2]].kind = "locked_override" <=> CurrentStatus(m) = "locked"

(* What a human finds in the queue can be decided, and says what deciding  *)
(* it does: it is about the effective version of now, it is the one        *)
(* request its candidate waits for, and it names the lock it overrides.    *)
RequestsStayDecidable ==
    ApprovalsNeverStale /\ CandidatesAwaitOneDecision /\ LockIsOverriddenOpenly

Approved(m) ==
    {r \in Request : confirmation[m][r[1]][r[2]].status = "approved"}

(* Whatever is governed took effect by an approval of exactly that version *)
(* and status: major versions, versions of project rules, locked versions  *)
(* and retractions of versions that were effective.                        *)
GovernedVersionsWereApproved ==
    \A m \in Memory : \A v \in Activated(m) :
        LET row == versions[m][v]
        IN  /\ row.major \/ m \in LevelOne => \E t \in Effective : <<v, t>> \in Approved(m)
            /\ row.status = "locked" => <<v, "locked">> \in Approved(m)
            /\ row.status = "retracted" => <<v, "retracted">> \in Approved(m)

(* Majorness is sticky: once a major version has been effective, every     *)
(* later version that took effect or still can is major, also after a      *)
(* retraction and a revival.                                               *)
MajorIsSticky ==
    \A m \in Memory : \A v \in Activated(m), w \in Activated(m) \cup Candidates(m) :
        versions[m][v].major /\ v < w => versions[m][w].major

(* Version numbers of one memory take effect in increasing order: the      *)
(* effective version is the newest that ever was, and a candidate is newer *)
(* than all of them (the revival trigger reads "latest" by version number).*)
ActivationMovesForward ==
    \A m \in Memory : \A w \in Activated(m) :
        /\ current[m] # None => w <= current[m]
        /\ \A v \in Candidates(m) : w < v

-----------------------------------------------------------------------------
(* What a call may never do.                                               *)

NewlyActivated(m) == {v \in Version : ~versions[m][v].activated /\ versions'[m][v].activated}

NewlyApproved(m) ==
    {r \in Request : /\ confirmation[m][r[1]][r[2]].status = "pending"
                     /\ confirmation'[m][r[1]][r[2]].status = "approved"}

(* No lost update: a version takes effect only in place of the version its *)
(* author declared to have read when publishing it, however long the       *)
(* candidate waited for its decision.                                      *)
NoLostUpdateStep ==
    \A m \in Memory : \A v \in NewlyActivated(m) : versions'[m][v].basis = current[m]

NoLostUpdate == [][NoLostUpdateStep]_vars

(* A locked version stops being effective only in the step in which a      *)
(* human approves a request made as a lock override against it.            *)
LockedLeavesStep ==
    \A m \in Memory :
        CurrentStatus(m) = "locked" /\ current'[m] # current[m] =>
            \E r \in NewlyApproved(m) :
                /\ confirmation[m][r[1]][r[2]].expected = current[m]
                /\ confirmation[m][r[1]][r[2]].kind = "locked_override"

LockedLeavesOnlyByOverride == [][LockedLeavesStep]_vars

(* A retracted memory is revived only by the approval of the version that  *)
(* revives it, requested after the retraction.                             *)
RevivalStep ==
    \A m \in Memory :
        IsTombstone(m) /\ current'[m] # None =>
            \E t \in Effective :
                /\ <<current'[m], t>> \in NewlyApproved(m)
                /\ confirmation[m][current'[m]][t].expected = None

RevivalNeedsApproval == [][RevivalStep]_vars

(* The effective version of a memory changes by the authority its state    *)
(* asks for: never over a version the author had not read, over a lock     *)
(* only by the override, after a retraction only by an approval.           *)
ChangesAreAuthorized ==
    [][NoLostUpdateStep /\ LockedLeavesStep /\ RevivalStep]_vars

-----------------------------------------------------------------------------
(* The triggers of the database, as conditions on one call: the row before *)
(* the call is unprimed, the row after it primed.                          *)

ValidTransition(m, v) ==
    <<versions[m][v].status, versions'[m][v].status>> \in
        {<<s, s>> : s \in Status}
        \cup {"absent"} \X (Status \ {"superseded", "retracted"})
        \cup {"pending_confirmation"} \X {"active", "locked", "retracted"}
        \cup {"active"} \X {"locked", "superseded", "retracted"}
        \cup {"locked"} \X {"superseded", "retracted"}

PayloadIsImmutable(m, v) ==
    versions[m][v].status # "absent" =>
        /\ versions'[m][v].content = versions[m][v].content
        /\ versions'[m][v].major = versions[m][v].major

TakesEffect(m, v) ==
    /\ versions[m][v].status \notin Effective
    /\ versions'[m][v].status \in Effective

ApprovedAfter(m, v, target) == confirmation'[m][v][target].status = "approved"

MajorOrLockedActivationRequiresConfirmation(m, v) ==
    /\ TakesEffect(m, v)
    /\ \/ versions'[m][v].major
       \/ versions'[m][v].status = "locked"
       \/ m \in LevelOne
       \/ \E w \in Activated(m) \ {v} : versions[m][w].major
    => ApprovedAfter(m, v, versions'[m][v].status)

LockedVersionRequiresConfirmation(m, v) ==
    versions[m][v].status = "locked" /\ versions'[m][v].status = "superseded" =>
        \E w \in Version \ {v}, t \in Effective :
            /\ ApprovedAfter(m, w, t)
            /\ confirmation'[m][w][t].expected = v
            /\ confirmation'[m][w][t].kind = "locked_override"

LockRequiresConfirmation(m, v) ==
    versions[m][v].status = "active" /\ versions'[m][v].status = "locked" =>
        /\ ApprovedAfter(m, v, "locked")
        /\ confirmation'[m][v]["locked"].expected = v

RetractionRequiresConfirmation(m, v) ==
    versions[m][v].status \in Effective /\ versions'[m][v].status = "retracted" =>
        /\ ApprovedAfter(m, v, "retracted")
        /\ confirmation'[m][v]["retracted"].expected = v

LatestActivatedIsRetracted(m, v) ==
    \E w \in Activated(m) \ {v} :
        /\ versions'[m][w].status = "retracted"
        /\ \A u \in Activated(m) \ {v} : u <= w

RevivalRequiresConfirmation(m, v) ==
    TakesEffect(m, v) /\ LatestActivatedIsRetracted(m, v) =>
        /\ ApprovedAfter(m, v, versions'[m][v].status)
        /\ confirmation'[m][v][versions'[m][v].status].expected = None

RequestIsImmutable(m, v, t) ==
    LET old == confirmation[m][v][t]
        new == confirmation'[m][v][t]
    IN  old.status = "pending" =>
            /\ new.expected = old.expected
            /\ new.kind = old.kind
            /\ new.status \in {"pending", "approved", "rejected", "cancelled"}

PointerIsEffective(m) ==
    current'[m] # None => versions'[m][current'[m]].status \in Effective

(* The service and the triggers agree: no call that passes the service's   *)
(* own checks is aborted by the storage, which would undo a decision the   *)
(* human has taken and leave the request open for ever.                    *)
StorageAccepts ==
    [][\A m \in Memory :
           /\ PointerIsEffective(m)
           /\ \A v \in Version :
                  /\ ValidTransition(m, v)
                  /\ PayloadIsImmutable(m, v)
                  /\ MajorOrLockedActivationRequiresConfirmation(m, v)
                  /\ LockedVersionRequiresConfirmation(m, v)
                  /\ LockRequiresConfirmation(m, v)
                  /\ RetractionRequiresConfirmation(m, v)
                  /\ RevivalRequiresConfirmation(m, v)
                  /\ \A t \in Target : RequestIsImmutable(m, v, t)]_vars

-----------------------------------------------------------------------------
(* The service keeps the promises of MemoryGovernance: the slot is read    *)
(* off the memory row and its versions, the endorsements are the approved  *)
(* confirmations.                                                          *)

Slot(m) ==
    IF current[m] # None THEN CurrentStatus(m)
    ELSE IF IsTombstone(m) THEN "tombstone" ELSE "empty"

Governance == INSTANCE MemoryGovernance WITH
    Rule      <- LevelOne,
    slot      <- [m \in Memory |-> Slot(m)],
    effective <- current,
    history   <- [m \in Memory |-> Activated(m)],
    rule      <- [m \in Memory |-> HasActivatedMajor(m)],
    endorsed  <- [m \in Memory |-> Approved(m)]

(* Every call of the service is a step of the abstract governance or       *)
(* leaves it unchanged: a version comes into effect, is locked or is       *)
(* retracted without an endorsement only where the promise allows it, and  *)
(* every approval has exactly the effect the human saw.                    *)
ImplementsGovernance == Governance!GovSpec
=============================================================================
