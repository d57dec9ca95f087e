------------------------- MODULE CentralMemory_proofs -------------------------
(***************************************************************************)
(* Theorems about CentralMemory for every set of memories and contents and *)
(* every number of versions.                                               *)
(*                                                                         *)
(* The argument: whenever the effective version of a memory changes or is  *)
(* locked, all open requests are settled and all candidates are gone (the  *)
(* three "Clears" lemmas); between such changes requests are only added    *)
(* against the unchanged effective version or closed one at a time.        *)
(*                                                                         *)
(* The last part is about CentralSystem, for any set of threads and        *)
(* projects: each step of the whole is a step of the worksets under an     *)
(* environment that only activates what is new, and a row is only ever     *)
(* given a version that is or was effective.                               *)
(***************************************************************************)
EXTENDS CentralSystem, TLAPS

LEMMA VersionsArePositive == None \notin Version /\ Version \subseteq Int /\ None \in Int
  BY ConstantsAssumption DEF None, Version

-----------------------------------------------------------------------------
(* The shape of the tables is kept by every call.                          *)

LEMMA DecidedType ==
  ASSUME TypeOK, NEW m \in Memory, NEW A, NEW C
  PROVE  Decided(m, A, C) \in [Version -> [Target -> ConfirmationRow]]
  <1> DEFINE D == Decided(m, A, C)
  <1>1. \A v \in Version, t \in Target : confirmation[m][v][t] \in ConfirmationRow
    BY DEF TypeOK
  <1>2. ASSUME NEW v \in Version, NEW t \in Target
        PROVE  /\ [confirmation[m][v][t] EXCEPT !.status = "approved"] \in ConfirmationRow
               /\ [confirmation[m][v][t] EXCEPT !.status = "cancelled"] \in ConfirmationRow
    BY <1>1 DEF ConfirmationRow, Decision
  <1> QED BY <1>1, <1>2 DEF Decided

LEMMA SettleType ==
  ASSUME TypeOK, NEW m \in Memory, NEW S, NEW d \in {"rejected", "cancelled"}
  PROVE  Settle(m, S, d) \in [Version -> [Target -> ConfirmationRow]]
  <1>1. \A v \in Version, t \in Target : confirmation[m][v][t] \in ConfirmationRow
    BY DEF TypeOK
  <1>2. ASSUME NEW v \in Version, NEW t \in Target
        PROVE  [confirmation[m][v][t] EXCEPT !.status = d] \in ConfirmationRow
    BY <1>1 DEF ConfirmationRow, Decision
  <1> QED BY <1>1, <1>2 DEF Settle

LEMMA DropCandidatesType ==
  ASSUME NEW m, NEW C, NEW rows \in [Version -> VersionRow]
  PROVE  DropCandidates(m, C, rows) \in [Version -> VersionRow]
  <1>1. \A v \in Version : [rows[v] EXCEPT !.status = "retracted"] \in VersionRow
    BY DEF VersionRow, Status
  <1> QED BY <1>1 DEF DropCandidates

LEMMA ActivateType ==
  ASSUME TypeOK, NEW m \in Memory, NEW v \in Version, NEW row \in VersionRow,
         NEW target \in Effective, NEW A,
         ActivateCandidate(m, v, row, target, A)
  PROVE  TypeOK'
  <1> DEFINE C == StaleRequests(m, v) \ A
             rows == [w \in Version |->
                IF w = v
                THEN [row EXCEPT !.status = target, !.activated = TRUE]
                ELSE IF w = current[m]
                THEN [versions[m][w] EXCEPT !.status = "superseded"]
                ELSE versions[m][w]]
  <1>1. rows \in [Version -> VersionRow]
    <2>1. [row EXCEPT !.status = target, !.activated = TRUE] \in VersionRow
      BY DEF VersionRow, Status, Effective
    <2>2. \A w \in Version : versions[m][w] \in VersionRow
      BY DEF TypeOK
    <2>3. \A w \in Version : [versions[m][w] EXCEPT !.status = "superseded"] \in VersionRow
      BY <2>2 DEF VersionRow, Status
    <2> QED BY <2>1, <2>2, <2>3
  <1>2. DropCandidates(m, C, rows) \in [Version -> VersionRow]
    BY <1>1, DropCandidatesType
  <1>3. Decided(m, A, C) \in [Version -> [Target -> ConfirmationRow]]
    BY DecidedType
  <1> QED BY <1>2, <1>3 DEF ActivateCandidate, TypeOK

LEMMA LockType ==
  ASSUME TypeOK, NEW m \in Memory, NEW v \in Version, NEW A, LockEffective(m, v, A)
  PROVE  TypeOK'
  <1> DEFINE C == Pending(m) \ A
             rows == [versions[m] EXCEPT ![v].status = "locked"]
  <1>1. rows \in [Version -> VersionRow]
    <2>1. versions[m] \in [Version -> VersionRow]
      BY DEF TypeOK
    <2>2. [versions[m][v] EXCEPT !.status = "locked"] \in VersionRow
      BY <2>1 DEF VersionRow, Status, Effective
    <2> QED BY <2>1, <2>2
  <1>2. DropCandidates(m, C, rows) \in [Version -> VersionRow]
    BY <1>1, DropCandidatesType
  <1>3. Decided(m, A, C) \in [Version -> [Target -> ConfirmationRow]]
    BY DecidedType
  <1> QED BY <1>2, <1>3 DEF LockEffective, TypeOK

LEMMA RetractType ==
  ASSUME TypeOK, NEW m \in Memory, NEW v \in Version, NEW A, RetractEffective(m, v, A)
  PROVE  TypeOK'
  <1> DEFINE C == StaleRequests(m, None) \ A
             rows == [versions[m] EXCEPT ![v].status = "retracted"]
  <1>1. rows \in [Version -> VersionRow]
    <2>1. versions[m] \in [Version -> VersionRow]
      BY DEF TypeOK
    <2>2. [versions[m][v] EXCEPT !.status = "retracted"] \in VersionRow
      BY <2>1 DEF VersionRow, Status
    <2> QED BY <2>1, <2>2
  <1>2. DropCandidates(m, C, rows) \in [Version -> VersionRow]
    BY <1>1, DropCandidatesType
  <1>3. Decided(m, A, C) \in [Version -> [Target -> ConfirmationRow]]
    BY DecidedType
  <1> QED BY <1>2, <1>3 DEF RetractEffective, TypeOK

LEMMA NewRowType ==
  ASSUME NEW m \in Memory, NEW in \in PublishInput
  PROVE  NewRow(m, in) \in VersionRow
  <1>1. IsMajor(m, in) \in BOOLEAN
    BY DEF IsMajor, PublishInput, HasActivatedMajor
  <1> QED BY <1>1 DEF NewRow, VersionRow, Status, PublishInput

LEMMA PublishKindType ==
  ASSUME NEW m \in Memory, NEW in \in PublishInput
  PROVE  PublishKind(m, in) \in Kind
  BY ConstantsAssumption DEF PublishKind, PublishInput, Kind

LEMMA TypeStep == TypeOK /\ [Next]_vars => TypeOK'
  <1> SUFFICES ASSUME TypeOK, [Next]_vars PROVE TypeOK'
    OBVIOUS
  <1>1. ASSUME NEW m \in Memory, NEW v \in Version, NEW in \in PublishInput,
               PublishDirect(m, v, in)
        PROVE  TypeOK'
    <2>1. NewRow(m, in) \in VersionRow /\ in.target \in Effective
      BY NewRowType DEF PublishInput
    <2> QED BY <1>1, <2>1, ActivateType DEF PublishDirect
  <1>2. ASSUME NEW m \in Memory, NEW v \in Version, NEW in \in PublishInput,
               PublishForReview(m, v, in)
        PROVE  TypeOK'
    <2>1. NewRow(m, in) \in VersionRow
      BY NewRowType
    <2>2. in.target \in Target
      BY DEF PublishInput, Effective, Target
    <2>3. [status |-> "pending", expected |-> current[m], kind |-> PublishKind(m, in)] \in ConfirmationRow
      BY PublishKindType DEF TypeOK, ConfirmationRow, Decision
    <2> HIDE DEF ConfirmationRow, VersionRow
    <2> QED BY <1>2, <2>1, <2>2, <2>3 DEF PublishForReview, TypeOK
  <1>3. ASSUME NEW m \in Memory, NEW v \in Version, NEW t \in {"locked", "retracted"},
               RequestStatusChange(m, v, t)
        PROVE  TypeOK'
    <2>1. [status |-> "pending", expected |-> v, kind |-> StatusKind(m, t)] \in ConfirmationRow
      BY DEF ConfirmationRow, Decision, StatusKind, Kind
    <2>2. t \in Target
      BY DEF Target
    <2> QED BY <1>3, <2>1, <2>2 DEF RequestStatusChange, TypeOK
  <1>4. ASSUME NEW m \in Memory, Approve(m) PROVE TypeOK'
    <2>1. ASSUME NEW v \in Version, ApproveRetraction(m, v) PROVE TypeOK'
      BY <2>1, RetractType DEF ApproveRetraction
    <2>2. ASSUME NEW v \in Version, ApproveLock(m, v) PROVE TypeOK'
      BY <2>2, LockType DEF ApproveLock
    <2>3. ASSUME NEW v \in Version, NEW t \in Effective, ApproveCandidate(m, v, t) PROVE TypeOK'
      <3>1. versions[m][v] \in VersionRow
        BY DEF TypeOK
      <3> QED BY <2>3, <3>1, ActivateType DEF ApproveCandidate
    <2> QED BY <1>4, <2>1, <2>2, <2>3 DEF Approve
  <1>5. ASSUME NEW m \in Memory, NEW v \in Version, NEW t \in Target,
               NEW d \in {"rejected", "cancelled"}, Decline(m, v, t, d)
        PROVE  TypeOK'
    <2>1. versions[m] \in [Version -> VersionRow]
      BY DEF TypeOK
    <2>2. DropCandidates(m, {<<v, t>>}, versions[m]) \in [Version -> VersionRow]
      BY <2>1, DropCandidatesType
    <2>3. Settle(m, {<<v, t>>}, d) \in [Version -> [Target -> ConfirmationRow]]
      BY SettleType
    <2> QED BY <1>5, <2>2, <2>3 DEF Decline, TypeOK
  <1>6. CASE UNCHANGED vars
    BY <1>6 DEF vars, TypeOK
  <1> QED
    BY <1>1, <1>2, <1>3, <1>4, <1>5, <1>6
    DEF Next, Publish, RequestChange, DeclineRequest

LEMMA TypeInit == Init => TypeOK
  BY DEF Init, TypeOK, NoVersion, NoConfirmation, VersionRow, ConfirmationRow,
         Status, Decision, Kind

(* The tables keep their declared shape in every behaviour of the service. *)
THEOREM TypeCorrect == Spec => []TypeOK
  BY TypeInit, TypeStep, PTL DEF Spec

-----------------------------------------------------------------------------
(* The inductive invariant.                                                *)

(* A row that is or was effective has its activation recorded.             *)
ActivationIsRecorded ==
    \A m \in Memory, v \in Version :
        /\ versions[m][v].status \in Effective \cup {"superseded"} => versions[m][v].activated
        /\ versions[m][v].status \in {"absent", "pending_confirmation"} => ~versions[m][v].activated

(* Nobody asked anything about a version that is not stored.               *)
UnstoredIsUnrequested ==
    \A m \in Memory, v \in Version, t \in Target :
        versions[m][v].status = "absent" => confirmation[m][v][t].status = "none"

(* What was approved took effect and cannot be undone.                     *)
ApprovalsTookEffect ==
    \A m \in Memory, v \in Version, t \in Target :
        confirmation[m][v][t].status = "approved" =>
            /\ versions[m][v].activated
            /\ t = "locked" => versions[m][v].status # "active"
            /\ t = "retracted" => versions[m][v].status = "retracted"

(* The author of a candidate had read the version that is effective now.   *)
CandidatesBuildOnCurrent ==
    \A m \in Memory : \A v \in Candidates(m) : versions[m][v].basis = current[m]

(* A project rule has only major versions.                                 *)
RulesAreMajor ==
    \A m \in LevelOne : \A v \in Stored(m) : versions[m][v].major

Inv ==
    /\ TypeOK
    /\ OneEffectiveVersion
    /\ ActivationIsRecorded
    /\ UnstoredIsUnrequested
    /\ ApprovalsNeverStale
    /\ CandidatesAwaitOneDecision
    /\ LockIsOverriddenOpenly
    /\ ApprovalsTookEffect
    /\ CandidatesBuildOnCurrent
    /\ RulesAreMajor
    /\ MajorIsSticky
    /\ ActivationMovesForward
    /\ GovernedVersionsWereApproved

LEMMA InvInit == Init => Inv
  <1> SUFFICES ASSUME Init PROVE Inv
    OBVIOUS
  <1>1. TypeOK
    BY TypeInit
  <1>2. \A m \in Memory : current[m] = None
    BY DEF Init
  <1>3. \A m \in Memory, v \in Version :
            versions[m][v].status = "absent" /\ versions[m][v].activated = FALSE
    BY DEF Init, NoVersion
  <1>4. \A m \in Memory, v \in Version, t \in Target : confirmation[m][v][t].status = "none"
    BY DEF Init, NoConfirmation
  <1>5. \A m \in Memory : Candidates(m) = {} /\ Activated(m) = {} /\ Stored(m) = {}
    BY <1>3 DEF Candidates, Activated, Stored
  <1>6. \A m \in Memory : Pending(m) = {} /\ Approved(m) = {}
    BY <1>4 DEF Pending, Approved, Request
  <1>7. OneEffectiveVersion /\ ActivationIsRecorded
    BY <1>2, <1>3, VersionsArePositive DEF OneEffectiveVersion, ActivationIsRecorded, Effective
  <1>8. UnstoredIsUnrequested /\ ApprovalsTookEffect
    BY <1>4 DEF UnstoredIsUnrequested, ApprovalsTookEffect
  <1>9. ApprovalsNeverStale /\ CandidatesAwaitOneDecision /\ LockIsOverriddenOpenly
    BY <1>5, <1>6 DEF ApprovalsNeverStale, CandidatesAwaitOneDecision, LockIsOverriddenOpenly
  <1>10. CandidatesBuildOnCurrent /\ RulesAreMajor
    BY <1>5, ConstantsAssumption DEF CandidatesBuildOnCurrent, RulesAreMajor
  <1>11. MajorIsSticky /\ ActivationMovesForward /\ GovernedVersionsWereApproved
    BY <1>5 DEF MajorIsSticky, ActivationMovesForward, GovernedVersionsWereApproved
  <1> QED BY <1>1, <1>7, <1>8, <1>9, <1>10, <1>11 DEF Inv

-----------------------------------------------------------------------------
(* Every change of the effective version, and every lock, has the same     *)
(* shape: version v takes a final status, the version it replaces is       *)
(* superseded, every candidate is dropped and every request is settled.    *)

Elsewhere(m) ==
    \A n \in Memory \ {m} :
        /\ current'[n] = current[n]
        /\ versions'[n] = versions[n]
        /\ confirmation'[n] = confirmation[n]

OthersRetire(m, v) ==
    \A w \in Version \ {v} :
        /\ versions'[m][w].status =
               IF w = current[m] THEN "superseded"
               ELSE IF versions[m][w].status = "pending_confirmation" THEN "retracted"
               ELSE versions[m][w].status
        /\ versions'[m][w].activated = versions[m][w].activated
        /\ versions'[m][w].major = versions[m][w].major
        /\ versions'[m][w].basis = versions[m][w].basis

QueueIsSettled(m, A) ==
    \A w \in Version, t \in Target :
        /\ confirmation'[m][w][t].status =
               IF <<w, t>> \in A THEN "approved"
               ELSE IF confirmation[m][w][t].status = "pending" THEN "cancelled"
               ELSE confirmation[m][w][t].status
        /\ confirmation'[m][w][t].expected = confirmation[m][w][t].expected
        /\ confirmation'[m][w][t].kind = confirmation[m][w][t].kind

VersionBecomes(m, v, status) ==
    /\ versions'[m][v].status = status
    /\ versions'[m][v].activated
    /\ current'[m] = IF status = "retracted" THEN None ELSE v

Clears(m, v, status, A) ==
    /\ Elsewhere(m)
    /\ OthersRetire(m, v)
    /\ QueueIsSettled(m, A)
    /\ VersionBecomes(m, v, status)

(* Under the invariant, the requests about another version than v are      *)
(* exactly the ones a move of the pointer cancels.                         *)
LEMMA RequestsExpectCurrent ==
  ASSUME Inv, NEW m \in Memory, NEW w \in Version, NEW t \in Target,
         confirmation[m][w][t].status = "pending"
  PROVE  /\ <<w, t>> \in Pending(m)
         /\ confirmation[m][w][t].expected = current[m]
  BY DEF Inv, ApprovalsNeverStale, Pending, Request

LEMMA CandidateHasRequest ==
  ASSUME Inv, NEW m \in Memory, NEW w \in Version,
         versions[m][w].status = "pending_confirmation"
  PROVE  \E t \in Target : <<w, t>> \in Pending(m)
  BY DEF Inv, CandidatesAwaitOneDecision, Candidates, Effective, Target

(* Decided and DropCandidates, seen at one request and at one version.     *)
LEMMA DecidedAt ==
  ASSUME TypeOK, NEW m \in Memory, NEW A, NEW C, NEW w \in Version, NEW t \in Target
  PROVE  LET new == Decided(m, A, C)[w][t]
             old == confirmation[m][w][t]
         IN  /\ new.status = IF <<w, t>> \in A THEN "approved"
                             ELSE IF <<w, t>> \in C THEN "cancelled" ELSE old.status
             /\ new.expected = old.expected
             /\ new.kind = old.kind
  <1>1. confirmation[m][w][t] \in ConfirmationRow
    BY DEF TypeOK
  <1> QED BY <1>1 DEF Decided, ConfirmationRow

LEMMA DropCandidatesAt ==
  ASSUME NEW m, NEW C, NEW rows \in [Version -> VersionRow], NEW w \in Version
  PROVE  LET new == DropCandidates(m, C, rows)[w]
             old == rows[w]
         IN  /\ new.status = IF old.status = "pending_confirmation" /\ (\E t \in Target : <<w, t>> \in C)
                             THEN "retracted" ELSE old.status
             /\ new.activated = old.activated
             /\ new.major = old.major
             /\ new.basis = old.basis
             /\ new.content = old.content
  <1>1. rows[w] \in VersionRow
    OBVIOUS
  <1> QED BY <1>1 DEF DropCandidates, VersionRow

LEMMA ActivateClears ==
  ASSUME Inv, NEW m \in Memory, NEW v \in Version, NEW row \in VersionRow,
         NEW target \in Effective, NEW A \in SUBSET ({v} \X Target),
         versions[m][v].status \notin Effective,
         ActivateCandidate(m, v, row, target, A)
  PROVE  /\ Clears(m, v, target, A)
         /\ versions'[m][v].major = row.major
         /\ versions'[m][v].basis = row.basis
  <1> DEFINE C == StaleRequests(m, v) \ A
             rows == [w \in Version |->
                IF w = v
                THEN [row EXCEPT !.status = target, !.activated = TRUE]
                ELSE IF w = current[m]
                THEN [versions[m][w] EXCEPT !.status = "superseded"]
                ELSE versions[m][w]]
  <1>0. TypeOK /\ v # current[m]
    BY DEF Inv, OneEffectiveVersion
  <1>1. /\ current' = [current EXCEPT ![m] = v]
        /\ versions' = [versions EXCEPT ![m] = DropCandidates(m, C, rows)]
        /\ confirmation' = [confirmation EXCEPT ![m] = Decided(m, A, C)]
    BY DEF ActivateCandidate
  <1>2. \A w \in Version : versions[m][w] \in VersionRow
    BY <1>0 DEF TypeOK
  <1>3. rows \in [Version -> VersionRow]
    <2>1. [row EXCEPT !.status = target, !.activated = TRUE] \in VersionRow
      BY DEF VersionRow, Status, Effective
    <2>2. \A w \in Version : [versions[m][w] EXCEPT !.status = "superseded"] \in VersionRow
      BY <1>2 DEF VersionRow, Status
    <2> QED BY <1>2, <2>1, <2>2
  <1>4. \A w \in Version, t \in Target :
            <<w, t>> \in C <=> confirmation[m][w][t].status = "pending" /\ <<w, t>> \notin A
    <2> SUFFICES ASSUME NEW w \in Version, NEW t \in Target
                 PROVE  <<w, t>> \in StaleRequests(m, v) <=> confirmation[m][w][t].status = "pending"
      OBVIOUS
    <2>1. ASSUME confirmation[m][w][t].status = "pending"
          PROVE  <<w, t>> \in StaleRequests(m, v)
      <3>1. /\ <<w, t>> \in Pending(m)
            /\ confirmation[m][w][t].expected # v
        BY <2>1, <1>0, RequestsExpectCurrent
      <3> QED BY <3>1 DEF StaleRequests
    <2> QED BY <2>1 DEF StaleRequests, Pending
  <1>5. Elsewhere(m)
    BY <1>0, <1>1 DEF Elsewhere, TypeOK
  <1>6. /\ versions'[m] = DropCandidates(m, C, rows)
        /\ confirmation'[m] = Decided(m, A, C)
        /\ current'[m] = v
    BY <1>0, <1>1 DEF TypeOK
  <1>7. QueueIsSettled(m, A)
    <2> HIDE DEF C
    <2> SUFFICES ASSUME NEW w \in Version, NEW t \in Target
                 PROVE  /\ confirmation'[m][w][t].status =
                               IF <<w, t>> \in A THEN "approved"
                               ELSE IF confirmation[m][w][t].status = "pending" THEN "cancelled"
                               ELSE confirmation[m][w][t].status
                        /\ confirmation'[m][w][t].expected = confirmation[m][w][t].expected
                        /\ confirmation'[m][w][t].kind = confirmation[m][w][t].kind
      BY DEF QueueIsSettled
    <2> QED BY <1>0, <1>4, <1>6, DecidedAt
  <1>8. OthersRetire(m, v)
    <2> SUFFICES ASSUME NEW w \in Version \ {v}
                 PROVE  /\ versions'[m][w].status =
                               IF w = current[m] THEN "superseded"
                               ELSE IF versions[m][w].status = "pending_confirmation" THEN "retracted"
                               ELSE versions[m][w].status
                        /\ versions'[m][w].activated = versions[m][w].activated
                        /\ versions'[m][w].major = versions[m][w].major
                        /\ versions'[m][w].basis = versions[m][w].basis
      BY DEF OthersRetire
    <2>1. versions[m][w].status = "pending_confirmation" => \E t \in Target : <<w, t>> \in C
      <3> HIDE DEF C
      <3>1. CASE versions[m][w].status = "pending_confirmation"
        <4>1. PICK t \in Target : <<w, t>> \in Pending(m)
          BY <3>1, CandidateHasRequest
        <4>2. confirmation[m][w][t].status = "pending"
          BY <4>1 DEF Pending
        <4>3. <<w, t>> \notin A
          OBVIOUS
        <4> QED BY <1>4, <4>2, <4>3
      <3> QED BY <3>1
    <2>2. rows[w] = IF w = current[m] THEN [versions[m][w] EXCEPT !.status = "superseded"]
                    ELSE versions[m][w]
      OBVIOUS
    <2>3. /\ rows[w].status = IF w = current[m] THEN "superseded" ELSE versions[m][w].status
          /\ rows[w].activated = versions[m][w].activated
          /\ rows[w].major = versions[m][w].major
          /\ rows[w].basis = versions[m][w].basis
      BY <1>2, <2>2 DEF VersionRow
    <2> HIDE DEF rows, C
    <2> QED BY <1>3, <1>6, <2>1, <2>3, DropCandidatesAt
  <1>9. /\ rows[v].status = target /\ rows[v].activated
        /\ rows[v].major = row.major /\ rows[v].basis = row.basis
    BY DEF VersionRow
  <1>10. /\ versions'[m][v].status = target /\ versions'[m][v].activated
         /\ versions'[m][v].major = row.major /\ versions'[m][v].basis = row.basis
    <2>1. target # "pending_confirmation" /\ target # "retracted"
      BY DEF Effective
    <2> HIDE DEF rows, C
    <2> QED BY <1>3, <1>6, <1>9, <2>1, DropCandidatesAt
  <1>11. VersionBecomes(m, v, target)
    BY <1>6, <1>10 DEF VersionBecomes, Effective
  <1> QED BY <1>5, <1>7, <1>8, <1>10, <1>11 DEF Clears

LEMMA LockClears ==
  ASSUME Inv, NEW m \in Memory, NEW v \in Version, NEW A \in SUBSET ({v} \X Target),
         v = current[m], LockEffective(m, v, A)
  PROVE  /\ Clears(m, v, "locked", A)
         /\ versions'[m][v].major = versions[m][v].major
  <1> DEFINE C == Pending(m) \ A
             rows == [versions[m] EXCEPT ![v].status = "locked"]
  <1>0. TypeOK /\ versions[m] \in [Version -> VersionRow] /\ versions[m][v].activated
        /\ v # None
    BY VersionsArePositive DEF Inv, TypeOK, OneEffectiveVersion, ActivationIsRecorded, Effective
  <1>1. /\ current' = current
        /\ versions' = [versions EXCEPT ![m] = DropCandidates(m, C, rows)]
        /\ confirmation' = [confirmation EXCEPT ![m] = Decided(m, A, C)]
    BY DEF LockEffective
  <1>3. rows \in [Version -> VersionRow]
    <2>1. [versions[m][v] EXCEPT !.status = "locked"] \in VersionRow
      BY <1>0 DEF VersionRow, Status, Effective
    <2> QED BY <1>0, <2>1
  <1>4. \A w \in Version, t \in Target :
            <<w, t>> \in C <=> confirmation[m][w][t].status = "pending" /\ <<w, t>> \notin A
    BY DEF Pending, Request
  <1>5. Elsewhere(m)
    BY <1>0, <1>1 DEF Elsewhere, TypeOK
  <1>6. /\ versions'[m] = DropCandidates(m, C, rows)
        /\ confirmation'[m] = Decided(m, A, C)
    BY <1>0, <1>1 DEF TypeOK
  <1>7. QueueIsSettled(m, A)
    <2> HIDE DEF C
    <2> SUFFICES ASSUME NEW w \in Version, NEW t \in Target
                 PROVE  /\ confirmation'[m][w][t].status =
                               IF <<w, t>> \in A THEN "approved"
                               ELSE IF confirmation[m][w][t].status = "pending" THEN "cancelled"
                               ELSE confirmation[m][w][t].status
                        /\ confirmation'[m][w][t].expected = confirmation[m][w][t].expected
                        /\ confirmation'[m][w][t].kind = confirmation[m][w][t].kind
      BY DEF QueueIsSettled
    <2> QED BY <1>0, <1>4, <1>6, DecidedAt
  <1>8. OthersRetire(m, v)
    <2> SUFFICES ASSUME NEW w \in Version \ {v}
                 PROVE  /\ versions'[m][w].status =
                               IF versions[m][w].status = "pending_confirmation" THEN "retracted"
                               ELSE versions[m][w].status
                        /\ versions'[m][w].activated = versions[m][w].activated
                        /\ versions'[m][w].major = versions[m][w].major
                        /\ versions'[m][w].basis = versions[m][w].basis
      BY DEF OthersRetire
    <2>1. versions[m][w].status = "pending_confirmation" => \E t \in Target : <<w, t>> \in C
      <3> HIDE DEF C
      <3>1. CASE versions[m][w].status = "pending_confirmation"
        <4>1. PICK t \in Target : <<w, t>> \in Pending(m)
          BY <3>1, CandidateHasRequest
        <4>2. confirmation[m][w][t].status = "pending"
          BY <4>1 DEF Pending
        <4>3. <<w, t>> \notin A
          OBVIOUS
        <4> QED BY <1>4, <4>2, <4>3
      <3> QED BY <3>1
    <2>2. rows[w] = versions[m][w]
      BY <1>0
    <2> HIDE DEF rows, C
    <2> QED BY <1>3, <1>6, <2>1, <2>2, DropCandidatesAt
  <1>9. rows[v].status = "locked" /\ rows[v].activated /\ rows[v].major = versions[m][v].major
    BY <1>0 DEF VersionRow
  <1>10. /\ versions'[m][v].status = "locked" /\ versions'[m][v].activated
         /\ versions'[m][v].major = versions[m][v].major
    <2> HIDE DEF rows, C
    <2> QED BY <1>3, <1>6, <1>9, DropCandidatesAt
  <1>11. VersionBecomes(m, v, "locked")
    BY <1>1, <1>10 DEF VersionBecomes
  <1> QED BY <1>5, <1>7, <1>8, <1>10, <1>11 DEF Clears

LEMMA RetractClears ==
  ASSUME Inv, NEW m \in Memory, NEW v \in Version, NEW A \in SUBSET ({v} \X Target),
         v = current[m], RetractEffective(m, v, A)
  PROVE  /\ Clears(m, v, "retracted", A)
         /\ versions'[m][v].major = versions[m][v].major
  <1> DEFINE C == StaleRequests(m, None) \ A
             rows == [versions[m] EXCEPT ![v].status = "retracted"]
  <1>0. TypeOK /\ versions[m] \in [Version -> VersionRow] /\ versions[m][v].activated
        /\ v # None
    BY VersionsArePositive DEF Inv, TypeOK, OneEffectiveVersion, ActivationIsRecorded, Effective
  <1>1. /\ current' = [current EXCEPT ![m] = None]
        /\ versions' = [versions EXCEPT ![m] = DropCandidates(m, C, rows)]
        /\ confirmation' = [confirmation EXCEPT ![m] = Decided(m, A, C)]
    BY DEF RetractEffective
  <1>3. rows \in [Version -> VersionRow]
    <2>1. [versions[m][v] EXCEPT !.status = "retracted"] \in VersionRow
      BY <1>0 DEF VersionRow, Status
    <2> QED BY <1>0, <2>1
  <1>4. \A w \in Version, t \in Target :
            <<w, t>> \in C <=> confirmation[m][w][t].status = "pending" /\ <<w, t>> \notin A
    <2> SUFFICES ASSUME NEW w \in Version, NEW t \in Target
                 PROVE  <<w, t>> \in StaleRequests(m, None) <=> confirmation[m][w][t].status = "pending"
      OBVIOUS
    <2>1. ASSUME confirmation[m][w][t].status = "pending"
          PROVE  <<w, t>> \in StaleRequests(m, None)
      <3>1. /\ <<w, t>> \in Pending(m)
            /\ confirmation[m][w][t].expected # None
        BY <2>1, <1>0, RequestsExpectCurrent
      <3> QED BY <3>1 DEF StaleRequests
    <2> QED BY <2>1 DEF StaleRequests, Pending
  <1>5. Elsewhere(m)
    BY <1>0, <1>1 DEF Elsewhere, TypeOK
  <1>6. /\ versions'[m] = DropCandidates(m, C, rows)
        /\ confirmation'[m] = Decided(m, A, C)
        /\ current'[m] = None
    BY <1>0, <1>1 DEF TypeOK
  <1>7. QueueIsSettled(m, A)
    <2> HIDE DEF C
    <2> SUFFICES ASSUME NEW w \in Version, NEW t \in Target
                 PROVE  /\ confirmation'[m][w][t].status =
                               IF <<w, t>> \in A THEN "approved"
                               ELSE IF confirmation[m][w][t].status = "pending" THEN "cancelled"
                               ELSE confirmation[m][w][t].status
                        /\ confirmation'[m][w][t].expected = confirmation[m][w][t].expected
                        /\ confirmation'[m][w][t].kind = confirmation[m][w][t].kind
      BY DEF QueueIsSettled
    <2> QED BY <1>0, <1>4, <1>6, DecidedAt
  <1>8. OthersRetire(m, v)
    <2> SUFFICES ASSUME NEW w \in Version \ {v}
                 PROVE  /\ versions'[m][w].status =
                               IF versions[m][w].status = "pending_confirmation" THEN "retracted"
                               ELSE versions[m][w].status
                        /\ versions'[m][w].activated = versions[m][w].activated
                        /\ versions'[m][w].major = versions[m][w].major
                        /\ versions'[m][w].basis = versions[m][w].basis
      BY DEF OthersRetire
    <2>1. versions[m][w].status = "pending_confirmation" => \E t \in Target : <<w, t>> \in C
      <3> HIDE DEF C
      <3>1. CASE versions[m][w].status = "pending_confirmation"
        <4>1. PICK t \in Target : <<w, t>> \in Pending(m)
          BY <3>1, CandidateHasRequest
        <4>2. confirmation[m][w][t].status = "pending"
          BY <4>1 DEF Pending
        <4>3. <<w, t>> \notin A
          OBVIOUS
        <4> QED BY <1>4, <4>2, <4>3
      <3> QED BY <3>1
    <2>2. rows[w] = versions[m][w]
      BY <1>0
    <2> HIDE DEF rows, C
    <2> QED BY <1>3, <1>6, <2>1, <2>2, DropCandidatesAt
  <1>9. rows[v].status = "retracted" /\ rows[v].activated /\ rows[v].major = versions[m][v].major
    BY <1>0 DEF VersionRow
  <1>10. /\ versions'[m][v].status = "retracted" /\ versions'[m][v].activated
         /\ versions'[m][v].major = versions[m][v].major
    <2> HIDE DEF rows, C
    <2> QED BY <1>3, <1>6, <1>9, DropCandidatesAt
  <1>11. VersionBecomes(m, v, "retracted")
    BY <1>6, <1>10 DEF VersionBecomes
  <1> QED BY <1>5, <1>7, <1>8, <1>10, <1>11 DEF Clears

(* Steps on one memory leave what is said of the others alone.             *)
LEMMA ElsewhereIsKept ==
  ASSUME NEW m \in Memory, Elsewhere(m), NEW n \in Memory \ {m}
  PROVE  /\ Stored(n)' = Stored(n)
         /\ Candidates(n)' = Candidates(n)
         /\ Activated(n)' = Activated(n)
         /\ Pending(n)' = Pending(n)
         /\ Approved(n)' = Approved(n)
         /\ CurrentStatus(n)' = CurrentStatus(n)
         /\ HasActivatedMajor(n)' = HasActivatedMajor(n)
         /\ IsTombstone(n)' = IsTombstone(n)
  BY DEF Elsewhere, Stored, Candidates, Activated, Pending, Approved, CurrentStatus,
         HasActivatedMajor, IsTombstone

LEMMA AfterClearing ==
  ASSUME Inv, NEW m \in Memory, NEW v \in Version, NEW status \in Target,
         NEW A \in SUBSET ({v} \X Target), Clears(m, v, status, A)
  PROVE  /\ Candidates(m)' = {}
         /\ Pending(m)' = {}
         /\ Activated(m)' = Activated(m) \cup {v}
         /\ Approved(m)' = Approved(m) \cup A
         /\ Stored(m)' = Stored(m) \cup {v}
  <1>1. status # "pending_confirmation" /\ status # "absent"
    BY DEF Target
  <1>2. Candidates(m)' = {}
    BY <1>1 DEF Candidates, Clears, OthersRetire, VersionBecomes
  <1>3. Pending(m)' = {}
    BY DEF Pending, Request, Clears, QueueIsSettled
  <1>4. Activated(m)' = Activated(m) \cup {v}
    BY DEF Activated, Clears, OthersRetire, VersionBecomes
  <1>5. Approved(m)' = Approved(m) \cup A
    BY DEF Approved, Request, Clears, QueueIsSettled
  <1>6. Stored(m)' = Stored(m) \cup {v}
    <2>1. ASSUME NEW w \in Version \ {v} PROVE w \in Stored(m)' <=> w \in Stored(m)
      <3>1. w = current[m] => versions[m][w].status \in Effective
        BY DEF Inv, OneEffectiveVersion
      <3> QED BY <3>1 DEF Stored, Clears, OthersRetire, Effective
    <2>2. v \in Stored(m)'
      BY <1>1 DEF Stored, Clears, VersionBecomes
    <2> QED BY <2>1, <2>2 DEF Stored
  <1> QED BY <1>2, <1>3, <1>4, <1>5, <1>6

(* What makes such a change proper: v is the newest version, it is major   *)
(* where it must be, and the approvals of v say what happened to it.       *)
IsProperChange(m, v, status, A) ==
    /\ \A w \in Activated(m) : w <= v
    /\ m \in LevelOne => versions'[m][v].major
    /\ \A w \in Activated(m) : w < v /\ versions[m][w].major => versions'[m][v].major
    /\ versions'[m][v].major \/ m \in LevelOne =>
           \E t \in Effective : <<v, t>> \in Approved(m) \cup A
    /\ status = "locked" => <<v, "locked">> \in Approved(m) \cup A
    /\ status = "retracted" => <<v, "retracted">> \in Approved(m) \cup A
    /\ \A t \in Target : <<v, t>> \in Approved(m) \cup A =>
           /\ t = "locked" => status # "active"
           /\ t = "retracted" => status = "retracted"

LEMMA ClearingPreservesInv ==
  ASSUME Inv, TypeOK', NEW m \in Memory, NEW v \in Version, NEW status \in Target,
         NEW A \in SUBSET ({v} \X Target), Clears(m, v, status, A),
         IsProperChange(m, v, status, A)
  PROVE  Inv'
  <1>0. /\ Elsewhere(m)
        /\ Candidates(m)' = {} /\ Pending(m)' = {}
        /\ Activated(m)' = Activated(m) \cup {v}
        /\ Approved(m)' = Approved(m) \cup A
        /\ Stored(m)' = Stored(m) \cup {v}
    BY AfterClearing DEF Clears
  <1>k. \A w \in Version \ {v} : w = current[m] => versions[m][w].status \in Effective
    BY DEF Inv, OneEffectiveVersion
  <1>1. OneEffectiveVersion'
    <2> SUFFICES ASSUME NEW n \in Memory, NEW w \in Version
                 PROVE  versions'[n][w].status \in Effective <=> w = current'[n]
      BY DEF OneEffectiveVersion
    <2>1. CASE n # m
      BY <2>1, <1>0 DEF Elsewhere, Inv, OneEffectiveVersion
    <2>2. CASE n = m /\ w = v
      BY <2>2, VersionsArePositive DEF Clears, VersionBecomes, Effective, Target
    <2>3. CASE n = m /\ w # v
      <3>1. versions'[m][w].status \in Effective => w # current[m] /\ versions[m][w].status \in Effective
        BY <2>3 DEF Clears, OthersRetire, Effective
      <3>2. versions'[m][w].status \notin Effective
        BY <3>1 DEF Inv, OneEffectiveVersion
      <3> QED BY <2>3, <3>2, VersionsArePositive DEF Clears, VersionBecomes
    <2> QED BY <2>1, <2>2, <2>3
  <1>2. ActivationIsRecorded'
    <2> SUFFICES ASSUME NEW n \in Memory, NEW w \in Version
                 PROVE  /\ versions'[n][w].status \in Effective \cup {"superseded"} => versions'[n][w].activated
                        /\ versions'[n][w].status \in {"absent", "pending_confirmation"} => ~versions'[n][w].activated
      BY DEF ActivationIsRecorded
    <2>1. CASE n # m
      BY <2>1, <1>0 DEF Elsewhere, Inv, ActivationIsRecorded
    <2>2. CASE n = m /\ w = v
      BY <2>2 DEF Clears, VersionBecomes, Target
    <2>3. CASE n = m /\ w # v
      BY <2>3, <1>k DEF Clears, OthersRetire, Inv, ActivationIsRecorded, Effective
    <2> QED BY <2>1, <2>2, <2>3
  <1>3. UnstoredIsUnrequested'
    <2> SUFFICES ASSUME NEW n \in Memory, NEW w \in Version, NEW t \in Target,
                        versions'[n][w].status = "absent"
                 PROVE  confirmation'[n][w][t].status = "none"
      BY DEF UnstoredIsUnrequested
    <2>1. CASE n # m
      BY <2>1, <1>0 DEF Elsewhere, Inv, UnstoredIsUnrequested
    <2>2. CASE n = m
      <3>1. w # v
        BY <2>2 DEF Clears, VersionBecomes, Target
      <3>2. versions[m][w].status = "absent"
        BY <2>2, <3>1 DEF Clears, OthersRetire
      <3>3. confirmation[m][w][t].status = "none" /\ <<w, t>> \notin A
        BY <3>1, <3>2 DEF Inv, UnstoredIsUnrequested
      <3> QED BY <2>2, <3>3 DEF Clears, QueueIsSettled
    <2> QED BY <2>1, <2>2
  <1>4. ApprovalsNeverStale'
    <2> SUFFICES ASSUME NEW n \in Memory, NEW r \in Pending(n)'
                 PROVE  confirmation'[n][r[1]][r[2]].expected = current'[n]
      BY DEF ApprovalsNeverStale
    <2>1. n # m
      BY <1>0
    <2> QED BY <2>1, <1>0, ElsewhereIsKept DEF Elsewhere, Inv, ApprovalsNeverStale
  <1>5. CandidatesAwaitOneDecision'
    BY <1>0, ElsewhereIsKept DEF Elsewhere, Inv, CandidatesAwaitOneDecision
  <1>6. LockIsOverriddenOpenly'
    BY <1>0, ElsewhereIsKept DEF Elsewhere, Inv, LockIsOverriddenOpenly
  <1>7. ApprovalsTookEffect'
    <2> SUFFICES ASSUME NEW n \in Memory, NEW w \in Version, NEW t \in Target,
                        confirmation'[n][w][t].status = "approved"
                 PROVE  /\ versions'[n][w].activated
                        /\ t = "locked" => versions'[n][w].status # "active"
                        /\ t = "retracted" => versions'[n][w].status = "retracted"
      BY DEF ApprovalsTookEffect
    <2>1. CASE n # m
      BY <2>1, <1>0 DEF Elsewhere, Inv, ApprovalsTookEffect
    <2>2. CASE n = m /\ w = v
      <3>1. <<v, t>> \in Approved(m) \cup A
        BY <2>2 DEF Clears, QueueIsSettled, Approved, Request
      <3> QED BY <2>2, <3>1 DEF Clears, VersionBecomes, IsProperChange
    <2>3. CASE n = m /\ w # v
      <3>0. <<w, t>> \notin A
        BY <2>3
      <3>1. confirmation[m][w][t].status = "approved"
        BY <2>3, <3>0 DEF Clears, QueueIsSettled
      <3>2. /\ versions[m][w].activated
            /\ t = "locked" => versions[m][w].status # "active"
            /\ t = "retracted" => versions[m][w].status = "retracted"
        BY <3>1 DEF Inv, ApprovalsTookEffect
      <3> QED BY <2>3, <3>2, <1>k DEF Clears, OthersRetire, Effective
    <2> QED BY <2>1, <2>2, <2>3
  <1>8. CandidatesBuildOnCurrent'
    BY <1>0, ElsewhereIsKept DEF Elsewhere, Inv, CandidatesBuildOnCurrent
  <1>9. RulesAreMajor'
    <2> SUFFICES ASSUME NEW n \in LevelOne, NEW w \in Stored(n)' PROVE versions'[n][w].major
      BY DEF RulesAreMajor
    <2>0. n \in Memory /\ w \in Version
      BY ConstantsAssumption DEF Stored
    <2>1. CASE n # m
      BY <2>0, <2>1, <1>0, ElsewhereIsKept DEF Elsewhere, Inv, RulesAreMajor
    <2>2. CASE n = m /\ w # v
      BY <2>0, <2>2, <1>0 DEF Clears, OthersRetire, Inv, RulesAreMajor
    <2>3. CASE n = m /\ w = v
      BY <2>3 DEF IsProperChange
    <2> QED BY <2>1, <2>2, <2>3
  <1>10. MajorIsSticky'
    <2> SUFFICES ASSUME NEW n \in Memory, NEW u \in Activated(n)',
                        NEW w \in Activated(n)' \cup Candidates(n)',
                        versions'[n][u].major, u < w
                 PROVE  versions'[n][w].major
      BY DEF MajorIsSticky
    <2>1. CASE n # m
      BY <2>1, <1>0, ElsewhereIsKept DEF Elsewhere, Inv, MajorIsSticky
    <2>2. CASE n = m
      <3>0. u \in Version /\ w \in Version
        BY <2>2, <1>0 DEF Activated
      <3>1. u # v
        BY <2>2, <3>0, <1>0, VersionsArePositive DEF IsProperChange
      <3>2. versions[m][u].major /\ u \in Activated(m)
        BY <2>2, <3>0, <3>1, <1>0 DEF Clears, OthersRetire
      <3>3. CASE w = v
        BY <2>2, <3>2, <3>3 DEF IsProperChange
      <3>4. CASE w # v
        BY <2>2, <3>0, <3>2, <3>4, <1>0 DEF Clears, OthersRetire, Inv, MajorIsSticky
      <3> QED BY <3>3, <3>4
    <2> QED BY <2>1, <2>2
  <1>11. ActivationMovesForward'
    <2> SUFFICES ASSUME NEW n \in Memory, NEW w \in Activated(n)'
                 PROVE  /\ current'[n] # None => w <= current'[n]
                        /\ \A u \in Candidates(n)' : w < u
      BY DEF ActivationMovesForward
    <2>1. CASE n # m
      BY <2>1, <1>0, ElsewhereIsKept DEF Elsewhere, Inv, ActivationMovesForward
    <2>2. CASE n = m
      <3>1. w <= v
        BY <2>2, <1>0, VersionsArePositive DEF IsProperChange
      <3> QED BY <2>2, <3>1, <1>0 DEF Clears, VersionBecomes
    <2> QED BY <2>1, <2>2
  <1>12. GovernedVersionsWereApproved'
    <2> SUFFICES ASSUME NEW n \in Memory, NEW w \in Activated(n)'
                 PROVE  /\ versions'[n][w].major \/ n \in LevelOne =>
                               \E t \in Effective : <<w, t>> \in Approved(n)'
                        /\ versions'[n][w].status = "locked" => <<w, "locked">> \in Approved(n)'
                        /\ versions'[n][w].status = "retracted" => <<w, "retracted">> \in Approved(n)'
      BY DEF GovernedVersionsWereApproved
    <2>1. CASE n # m
      <3>1. /\ Activated(n)' = Activated(n)
            /\ Approved(n)' = Approved(n)
            /\ versions'[n] = versions[n]
        BY <2>1, <1>0, ElsewhereIsKept DEF Elsewhere
      <3> HIDE DEF Approved
      <3> QED BY <3>1 DEF Inv, GovernedVersionsWereApproved
    <2>2. CASE n = m /\ w = v
      <3>1. /\ versions'[m][v].major \/ m \in LevelOne =>
                   \E t \in Effective : <<v, t>> \in Approved(m) \cup A
            /\ status = "locked" => <<v, "locked">> \in Approved(m) \cup A
            /\ status = "retracted" => <<v, "retracted">> \in Approved(m) \cup A
        BY DEF IsProperChange
      <3>2. versions'[m][v].status = status
        BY DEF Clears, VersionBecomes
      <3>3. Approved(n)' = Approved(m) \cup A
        BY <2>2, <1>0
      <3> HIDE DEF Approved
      <3> QED BY <2>2, <3>1, <3>2, <3>3
    <2>3. CASE n = m /\ w # v
      <3>0. w \in Version /\ w \in Activated(m)
        BY <2>3, <1>0 DEF Activated
      <3>1. /\ versions[m][w].major \/ m \in LevelOne => \E t \in Effective : <<w, t>> \in Approved(m)
            /\ versions[m][w].status = "locked" => <<w, "locked">> \in Approved(m)
            /\ versions[m][w].status = "retracted" => <<w, "retracted">> \in Approved(m)
        BY <3>0 DEF Inv, GovernedVersionsWereApproved
      <3>2. versions[m][w].status # "pending_confirmation"
        BY <3>0 DEF Inv, ActivationIsRecorded, Activated
      <3>3. /\ versions'[m][w].major = versions[m][w].major
            /\ versions'[m][w].status = "locked" => versions[m][w].status = "locked"
            /\ versions'[m][w].status = "retracted" => versions[m][w].status = "retracted"
        BY <2>3, <3>0, <3>2 DEF Clears, OthersRetire
      <3> QED BY <2>3, <3>1, <3>3, <1>0
    <2> QED BY <2>1, <2>2, <2>3
  <1> QED
    BY <1>1, <1>2, <1>3, <1>4, <1>5, <1>6, <1>7, <1>8, <1>9, <1>10, <1>11, <1>12 DEF Inv

-----------------------------------------------------------------------------
(* The calls that change the effective version or its lock.                *)

LEMMA PublishDirectStep ==
  ASSUME Inv, NEW m \in Memory, NEW v \in Version, NEW in \in PublishInput,
         PublishDirect(m, v, in)
  PROVE  /\ Inv'
         /\ Clears(m, v, "active", {})
         /\ versions'[m][v].basis = current[m]
         /\ ~versions'[m][v].major
         /\ versions[m][v].status = "absent"
  <1>1. /\ in.expected = current[m] /\ ~NeedsConfirmation(m, in)
        /\ IsNextVersion(m, v)
        /\ ActivateCandidate(m, v, NewRow(m, in), in.target, {})
        /\ in.target = "active" /\ ~IsMajor(m, in)
    BY DEF PublishDirect, NeedsConfirmation, PublishInput, Effective
  <1>2. NewRow(m, in) \in VersionRow /\ "active" \in Effective /\ "active" \in Target
    BY NewRowType DEF Effective, Target
  <1>3. versions[m][v].status = "absent" /\ versions[m][v].status \notin Effective
    BY <1>1, VersionsArePositive DEF IsNextVersion, Stored, Effective
  <1>4. TypeOK'
    BY <1>1, <1>2, ActivateType DEF Inv
  <1>5. {} \in SUBSET ({v} \X Target)
    OBVIOUS
  <1>6. /\ Clears(m, v, "active", {})
        /\ versions'[m][v].major = IsMajor(m, in)
        /\ versions'[m][v].basis = in.expected
    BY <1>1, <1>2, <1>3, <1>5, ActivateClears DEF NewRow
  <1>7. \A w \in Activated(m) : w <= v
    <2>1. ASSUME NEW w \in Activated(m) PROVE w \in Stored(m) /\ w \in Version
      BY DEF Inv, ActivationIsRecorded, Activated, Stored
    <2> QED BY <1>1, <2>1, VersionsArePositive DEF IsNextVersion
  <1>8. ~(m \in LevelOne) /\ \A w \in Activated(m) : ~versions[m][w].major
    BY <1>1 DEF IsMajor, HasActivatedMajor
  <1>9. \A t \in Target : <<v, t>> \notin Approved(m)
    BY <1>3 DEF Inv, UnstoredIsUnrequested, Approved
  <1>10. IsProperChange(m, v, "active", {})
    BY <1>1, <1>6, <1>7, <1>8, <1>9 DEF IsProperChange
  <1>11. Inv'
    BY <1>2, <1>4, <1>5, <1>6, <1>10, ClearingPreservesInv
  <1> QED BY <1>1, <1>3, <1>6, <1>11

LEMMA ApproveCandidateStep ==
  ASSUME Inv, NEW m \in Memory, NEW v \in Version, NEW target \in Effective,
         ApproveCandidate(m, v, target)
  PROVE  /\ Inv'
         /\ Clears(m, v, target, {<<v, target>>})
         /\ versions'[m][v].basis = current[m]
         /\ versions'[m][v].major = versions[m][v].major
         /\ v \in Candidates(m)
  <1> DEFINE A == {<<v, target>>}
  <1>1. /\ <<v, target>> \in Pending(m)
        /\ v \in Candidates(m)
        /\ versions[m][v].status = "pending_confirmation"
        /\ ActivateCandidate(m, v, versions[m][v], target, A)
    BY DEF ApproveCandidate, Candidates
  <1>2. versions[m][v] \in VersionRow /\ target \in Target
    BY DEF Inv, TypeOK, Effective, Target
  <1>3. versions[m][v].status \notin Effective /\ ~versions[m][v].activated
    BY <1>1 DEF Effective, Inv, ActivationIsRecorded
  <1>4. TypeOK'
    BY <1>1, <1>2, ActivateType DEF Inv
  <1>5. A \in SUBSET ({v} \X Target)
    BY <1>2
  <1>6. /\ Clears(m, v, target, A)
        /\ versions'[m][v].major = versions[m][v].major
        /\ versions'[m][v].basis = versions[m][v].basis
    BY <1>1, <1>2, <1>3, <1>5, ActivateClears
  <1>7. \A w \in Activated(m) : w < v /\ w <= v
    BY <1>1, VersionsArePositive DEF Inv, ActivationMovesForward, Activated
  <1>8. m \in LevelOne => versions[m][v].major
    BY <1>1 DEF Inv, RulesAreMajor, Stored
  <1>9. \A w \in Activated(m) : w < v /\ versions[m][w].major => versions[m][v].major
    BY <1>1 DEF Inv, MajorIsSticky
  <1>10. \A t \in Target : <<v, t>> \notin Approved(m)
    BY <1>3 DEF Inv, ApprovalsTookEffect, Approved
  <1>11. target # "retracted" /\ <<v, target>> \in Approved(m) \cup A
    BY DEF Effective
  <1>12. \A t \in Target : <<v, t>> \in Approved(m) \cup A => t = target
    BY <1>10
  <1>13. IsProperChange(m, v, target, A)
    BY <1>2, <1>6, <1>7, <1>8, <1>9, <1>11, <1>12 DEF IsProperChange
  <1>14. Inv'
    <2> HIDE DEF A
    <2> QED BY <1>2, <1>4, <1>5, <1>6, <1>13, ClearingPreservesInv
  <1>15. versions[m][v].basis = current[m]
    BY <1>1 DEF Inv, CandidatesBuildOnCurrent
  <1> QED BY <1>1, <1>6, <1>14, <1>15

LEMMA CurrentIsActivated ==
  ASSUME Inv, NEW m \in Memory, NEW v \in Version, v = current[m]
  PROVE  /\ versions[m][v].status \in Effective
         /\ v \in Activated(m)
         /\ \A w \in Activated(m) : w <= v
         /\ m \in LevelOne => versions[m][v].major
         /\ \A w \in Activated(m) : w < v /\ versions[m][w].major => versions[m][v].major
         /\ versions[m][v].major \/ m \in LevelOne => \E t \in Effective : <<v, t>> \in Approved(m)
  <1>1. versions[m][v].status \in Effective
    BY DEF Inv, OneEffectiveVersion
  <1>2. v \in Activated(m) /\ v \in Stored(m)
    BY <1>1 DEF Inv, ActivationIsRecorded, Activated, Stored, Effective
  <1>3. \A w \in Activated(m) : w <= v
    BY VersionsArePositive DEF Inv, ActivationMovesForward
  <1>4. m \in LevelOne => versions[m][v].major
    BY <1>2 DEF Inv, RulesAreMajor
  <1>5. \A w \in Activated(m) : w < v /\ versions[m][w].major => versions[m][v].major
    BY <1>2 DEF Inv, MajorIsSticky
  <1>6. versions[m][v].major \/ m \in LevelOne => \E t \in Effective : <<v, t>> \in Approved(m)
    BY <1>2 DEF Inv, GovernedVersionsWereApproved
  <1> QED BY <1>1, <1>2, <1>3, <1>4, <1>5, <1>6

LEMMA ApproveLockStep ==
  ASSUME Inv, NEW m \in Memory, NEW v \in Version, ApproveLock(m, v)
  PROVE  /\ Inv'
         /\ Clears(m, v, "locked", {<<v, "locked">>})
         /\ versions'[m][v].major = versions[m][v].major
         /\ v = current[m]
         /\ versions[m][v].status = "active"
         /\ <<v, "locked">> \in Pending(m)
  <1> DEFINE A == {<<v, "locked">>}
  <1>1. /\ <<v, "locked">> \in Pending(m) /\ v = current[m]
        /\ versions[m][v].status = "active"
        /\ LockEffective(m, v, A)
    BY DEF ApproveLock
  <1>2. "locked" \in Target /\ A \in SUBSET ({v} \X Target)
    BY DEF Target
  <1>3. TypeOK'
    BY <1>1, LockType DEF Inv
  <1>4. Clears(m, v, "locked", A) /\ versions'[m][v].major = versions[m][v].major
    BY <1>1, <1>2, LockClears
  <1>5. <<v, "retracted">> \notin Approved(m)
    BY <1>1 DEF Inv, ApprovalsTookEffect, Approved, Target
  <1>6. \A t \in Target : <<v, t>> \in Approved(m) \cup A => t # "retracted"
    BY <1>5
  <1>7. <<v, "locked">> \in Approved(m) \cup A
    OBVIOUS
  <1>8. versions'[m][v].major \/ m \in LevelOne =>
            \E t \in Effective : <<v, t>> \in Approved(m) \cup A
    BY <1>1, <1>4, CurrentIsActivated
  <1>9. IsProperChange(m, v, "locked", A)
    BY <1>1, <1>4, <1>6, <1>7, <1>8, CurrentIsActivated DEF IsProperChange
  <1>10. Inv'
    <2> HIDE DEF A
    <2> QED BY <1>2, <1>3, <1>4, <1>9, ClearingPreservesInv
  <1> QED BY <1>1, <1>4, <1>10

LEMMA ApproveRetractionStep ==
  ASSUME Inv, NEW m \in Memory, NEW v \in Version, ApproveRetraction(m, v)
  PROVE  /\ Inv'
         /\ Clears(m, v, "retracted", {<<v, "retracted">>})
         /\ versions'[m][v].major = versions[m][v].major
         /\ v = current[m]
         /\ <<v, "retracted">> \in Pending(m)
  <1> DEFINE A == {<<v, "retracted">>}
  <1>1. /\ <<v, "retracted">> \in Pending(m) /\ v = current[m]
        /\ RetractEffective(m, v, A)
    BY DEF ApproveRetraction
  <1>2. "retracted" \in Target /\ A \in SUBSET ({v} \X Target)
    BY DEF Target
  <1>3. TypeOK'
    BY <1>1, RetractType DEF Inv
  <1>4. Clears(m, v, "retracted", A) /\ versions'[m][v].major = versions[m][v].major
    BY <1>1, <1>2, RetractClears
  <1>5. <<v, "retracted">> \in Approved(m) \cup A
    OBVIOUS
  <1>6. versions'[m][v].major \/ m \in LevelOne =>
            \E t \in Effective : <<v, t>> \in Approved(m) \cup A
    BY <1>1, <1>4, CurrentIsActivated
  <1>7. IsProperChange(m, v, "retracted", A)
    BY <1>1, <1>4, <1>5, <1>6, CurrentIsActivated DEF IsProperChange
  <1>8. Inv'
    <2> HIDE DEF A
    <2> QED BY <1>2, <1>3, <1>4, <1>7, ClearingPreservesInv
  <1> QED BY <1>1, <1>4, <1>8

-----------------------------------------------------------------------------
(* The calls that only add or close a request.                             *)

(* What such a call leaves alone: the other memories, the pointer, and of  *)
(* the versions everything but the candidates.                             *)
LeavesEffective(m) ==
    /\ Elsewhere(m)
    /\ current' = current
    /\ Activated(m)' = Activated(m)
    /\ Approved(m)' = Approved(m)
    /\ \A w \in Activated(m) :
           /\ versions'[m][w].status = versions[m][w].status
           /\ versions'[m][w].major = versions[m][w].major

LEMMA LeavingKeepsGovernance ==
  ASSUME Inv, NEW m \in Memory, LeavesEffective(m)
  PROVE  GovernedVersionsWereApproved'
  <1> SUFFICES ASSUME NEW n \in Memory, NEW w \in Activated(n)'
               PROVE  /\ versions'[n][w].major \/ n \in LevelOne =>
                             \E t \in Effective : <<w, t>> \in Approved(n)'
                      /\ versions'[n][w].status = "locked" => <<w, "locked">> \in Approved(n)'
                      /\ versions'[n][w].status = "retracted" => <<w, "retracted">> \in Approved(n)'
    BY DEF GovernedVersionsWereApproved
  <1>1. /\ Activated(n)' = Activated(n)
        /\ Approved(n)' = Approved(n)
        /\ w \in Activated(n) =>
               /\ versions'[n][w].status = versions[n][w].status
               /\ versions'[n][w].major = versions[n][w].major
    BY ElsewhereIsKept DEF LeavesEffective, Elsewhere
  <1> HIDE DEF Approved
  <1> QED BY <1>1 DEF Inv, GovernedVersionsWereApproved

LEMMA PublishForReviewStep ==
  ASSUME Inv, NEW m \in Memory, NEW v \in Version, NEW in \in PublishInput,
         PublishForReview(m, v, in)
  PROVE  Inv' /\ LeavesEffective(m)
  <1>1. /\ in.expected = current[m]
        /\ IsNextVersion(m, v)
        /\ versions' = [versions EXCEPT ![m][v] = NewRow(m, in)]
        /\ confirmation' = [confirmation EXCEPT ![m][v][in.target] =
               [status |-> "pending", expected |-> current[m], kind |-> PublishKind(m, in)]]
        /\ current' = current
    BY DEF PublishForReview
  <1>2. in.target \in Effective /\ in.target \in Target /\ in.target # "retracted"
    BY DEF PublishInput, Effective, Target
  <1>3. TypeOK /\ TypeOK'
    <2>1. \E w \in Version, i \in PublishInput : PublishForReview(m, w, i)
      OBVIOUS
    <2>2. Next
      BY <2>1 DEF Next, Publish
    <2> QED BY <2>2, TypeStep DEF Inv
  <1>4. Elsewhere(m)
    BY <1>1, <1>3 DEF Elsewhere, TypeOK
  <1>5. \A w \in Version \ {v} : versions'[m][w] = versions[m][w]
    BY <1>1, <1>3 DEF TypeOK
  <1>6. /\ versions'[m][v].status = "pending_confirmation"
        /\ versions'[m][v].major = IsMajor(m, in)
        /\ versions'[m][v].activated = FALSE
        /\ versions'[m][v].basis = current[m]
    BY <1>1, <1>3 DEF TypeOK, NewRow
  <1>7. /\ confirmation'[m][v][in.target] =
               [status |-> "pending", expected |-> current[m], kind |-> PublishKind(m, in)]
        /\ \A w \in Version, t \in Target :
               w # v \/ t # in.target => confirmation'[m][w][t] = confirmation[m][w][t]
    BY <1>1, <1>2, <1>3 DEF TypeOK
  <1>8. versions[m][v].status = "absent" /\ ~versions[m][v].activated
    <2>1. versions[m][v].status = "absent"
      BY <1>1, VersionsArePositive DEF IsNextVersion, Stored
    <2> QED BY <2>1 DEF Inv, ActivationIsRecorded
  <1>9. \A t \in Target : confirmation[m][v][t].status = "none"
    BY <1>8 DEF Inv, UnstoredIsUnrequested
  <1>10. v # current[m]
    BY <1>8 DEF Inv, OneEffectiveVersion, Effective
  <1>11. /\ Activated(m)' = Activated(m)
         /\ Candidates(m)' = Candidates(m) \cup {v}
         /\ Stored(m)' = Stored(m) \cup {v}
    BY <1>5, <1>6, <1>8 DEF Activated, Candidates, Stored
  <1>12. /\ Pending(m)' = Pending(m) \cup {<<v, in.target>>}
         /\ \A t \in Target : <<v, t>> \notin Pending(m)
    BY <1>2, <1>7, <1>9 DEF Pending, Request
  <1>13. Approved(m)' = Approved(m)
    BY <1>2, <1>7, <1>9 DEF Approved, Request
  <1>14. CurrentStatus(m)' = CurrentStatus(m)
    <2>1. current[m] # None => current[m] \in Version /\ current[m] # v
      BY <1>3, <1>10 DEF TypeOK
    <2> QED BY <1>1, <1>5, <2>1 DEF CurrentStatus
  <1>15. v \notin Activated(m)
    BY <1>8 DEF Activated
  <1>16. LeavesEffective(m)
    <2>1. \A w \in Activated(m) : w \in Version \ {v}
      BY <1>15 DEF Activated
    <2> HIDE DEF Activated, Approved
    <2> QED BY <1>1, <1>4, <1>5, <1>11, <1>13, <2>1 DEF LeavesEffective
  <1>17. \A w \in Stored(m) : w < v
    BY <1>1 DEF IsNextVersion
  <1>18. \A w \in Activated(m) : w \in Stored(m)
    BY DEF Inv, ActivationIsRecorded, Activated, Stored
  <1>21. OneEffectiveVersion'
    <2> SUFFICES ASSUME NEW n \in Memory, NEW w \in Version
                 PROVE  versions'[n][w].status \in Effective <=> w = current'[n]
      BY DEF OneEffectiveVersion
    <2>1. CASE n = m /\ w = v
      BY <2>1, <1>1, <1>6, <1>10 DEF Effective
    <2>2. CASE n # m \/ w # v
      BY <2>2, <1>1, <1>4, <1>5 DEF Elsewhere, Inv, OneEffectiveVersion
    <2> QED BY <2>1, <2>2
  <1>22. ActivationIsRecorded'
    <2> SUFFICES ASSUME NEW n \in Memory, NEW w \in Version
                 PROVE  /\ versions'[n][w].status \in Effective \cup {"superseded"} => versions'[n][w].activated
                        /\ versions'[n][w].status \in {"absent", "pending_confirmation"} => ~versions'[n][w].activated
      BY DEF ActivationIsRecorded
    <2>1. CASE n = m /\ w = v
      BY <2>1, <1>6 DEF Effective
    <2>2. CASE n # m \/ w # v
      BY <2>2, <1>4, <1>5 DEF Elsewhere, Inv, ActivationIsRecorded
    <2> QED BY <2>1, <2>2
  <1>23. UnstoredIsUnrequested'
    <2> SUFFICES ASSUME NEW n \in Memory, NEW w \in Version, NEW t \in Target,
                        versions'[n][w].status = "absent"
                 PROVE  confirmation'[n][w][t].status = "none"
      BY DEF UnstoredIsUnrequested
    <2>1. n # m \/ w # v
      BY <1>6
    <2> QED BY <2>1, <1>4, <1>5, <1>7 DEF Elsewhere, Inv, UnstoredIsUnrequested
  <1>24. ApprovalsNeverStale'
    <2> SUFFICES ASSUME NEW n \in Memory, NEW r \in Pending(n)'
                 PROVE  confirmation'[n][r[1]][r[2]].expected = current'[n]
      BY DEF ApprovalsNeverStale
    <2>1. CASE n # m
      BY <2>1, <1>1, <1>4, ElsewhereIsKept DEF Elsewhere, Inv, ApprovalsNeverStale
    <2>2. CASE n = m /\ r = <<v, in.target>>
      BY <2>2, <1>1, <1>7
    <2>3. CASE n = m /\ r # <<v, in.target>>
      <3>1. r \in Pending(m) /\ r \in Request
        BY <2>3, <1>12 DEF Pending
      <3>2. confirmation'[m][r[1]][r[2]] = confirmation[m][r[1]][r[2]]
        BY <2>3, <3>1, <1>7 DEF Request
      <3> QED BY <2>3, <3>1, <3>2, <1>1 DEF Inv, ApprovalsNeverStale
    <2> QED BY <2>1, <2>2, <2>3
  <1>25. CandidatesAwaitOneDecision'
    <2> SUFFICES ASSUME NEW n \in Memory
                 PROVE  /\ \A w \in Candidates(n)' :
                              \E t \in Effective : \A u \in Target : <<w, u>> \in Pending(n)' <=> u = t
                        /\ \A r \in Pending(n)' :
                              r[1] \notin Candidates(n)' =>
                                  /\ r[1] = current'[n]
                                  /\ r[2] \in {"locked", "retracted"}
                                  /\ r[2] = "locked" => CurrentStatus(n)' = "active"
      BY DEF CandidatesAwaitOneDecision
    <2>1. CASE n # m
      BY <2>1, <1>1, <1>4, ElsewhereIsKept DEF Elsewhere, Inv, CandidatesAwaitOneDecision
    <2>2. CASE n = m
      <3>1. \A u \in Target : <<v, u>> \in Pending(m)' <=> u = in.target
        BY <1>12
      <3>2. ASSUME NEW w \in Candidates(m)
            PROVE  \E t \in Effective : \A u \in Target : <<w, u>> \in Pending(m)' <=> u = t
        <4>1. w # v
          BY <1>8 DEF Candidates
        <4>2. \A u \in Target : <<w, u>> \in Pending(m)' <=> <<w, u>> \in Pending(m)
          BY <4>1, <1>12
        <4>3. \E t \in Effective : \A u \in Target : <<w, u>> \in Pending(m) <=> u = t
          BY DEF Inv, CandidatesAwaitOneDecision
        <4> HIDE DEF Pending
        <4> QED BY <4>2, <4>3
      <3>3. ASSUME NEW r \in Pending(m)', r[1] \notin Candidates(m)'
            PROVE  /\ r[1] = current'[m]
                   /\ r[2] \in {"locked", "retracted"}
                   /\ r[2] = "locked" => CurrentStatus(m)' = "active"
        <4>1. r \in Pending(m) /\ r[1] \notin Candidates(m)
          BY <3>3, <1>11, <1>12
        <4> QED BY <4>1, <1>1, <1>14 DEF Inv, CandidatesAwaitOneDecision
      <3> HIDE DEF Pending, Candidates, CurrentStatus
      <3> QED BY <2>2, <3>1, <3>2, <3>3, <1>2, <1>11
    <2> QED BY <2>1, <2>2
  <1>26. LockIsOverriddenOpenly'
    <2> SUFFICES ASSUME NEW n \in Memory, NEW r \in Pending(n)'
                 PROVE  confirmation'[n][r[1]][r[2]].kind = "locked_override" <=> CurrentStatus(n)' = "locked"
      BY DEF LockIsOverriddenOpenly
    <2>1. CASE n # m
      BY <2>1, <1>4, ElsewhereIsKept DEF Elsewhere, Inv, LockIsOverriddenOpenly
    <2>2. CASE n = m /\ r = <<v, in.target>>
      <3>1. PublishKind(m, in) = "locked_override" <=> CurrentStatus(m) = "locked"
        BY ConstantsAssumption DEF PublishKind, PublishInput
      <3> QED BY <2>2, <3>1, <1>7, <1>14
    <2>3. CASE n = m /\ r # <<v, in.target>>
      <3>1. r \in Pending(m) /\ r \in Request
        BY <2>3, <1>12 DEF Pending
      <3>2. confirmation'[m][r[1]][r[2]] = confirmation[m][r[1]][r[2]]
        BY <2>3, <3>1, <1>7 DEF Request
      <3> QED BY <2>3, <3>1, <3>2, <1>14 DEF Inv, LockIsOverriddenOpenly
    <2> QED BY <2>1, <2>2, <2>3
  <1>27. ApprovalsTookEffect'
    <2> SUFFICES ASSUME NEW n \in Memory, NEW w \in Version, NEW t \in Target,
                        confirmation'[n][w][t].status = "approved"
                 PROVE  /\ versions'[n][w].activated
                        /\ t = "locked" => versions'[n][w].status # "active"
                        /\ t = "retracted" => versions'[n][w].status = "retracted"
      BY DEF ApprovalsTookEffect
    <2>1. n # m \/ w # v
      BY <1>7, <1>9
    <2> QED BY <2>1, <1>4, <1>5, <1>7 DEF Elsewhere, Inv, ApprovalsTookEffect
  <1>28. CandidatesBuildOnCurrent'
    <2> SUFFICES ASSUME NEW n \in Memory, NEW w \in Candidates(n)'
                 PROVE  versions'[n][w].basis = current'[n]
      BY DEF CandidatesBuildOnCurrent
    <2>1. CASE n # m
      BY <2>1, <1>4, ElsewhereIsKept DEF Elsewhere, Inv, CandidatesBuildOnCurrent
    <2>2. CASE n = m /\ w = v
      BY <2>2, <1>1, <1>6
    <2>3. CASE n = m /\ w # v
      <3>1. w \in Candidates(m) /\ w \in Version \ {v}
        BY <2>3, <1>11 DEF Candidates
      <3> QED BY <2>3, <3>1, <1>1, <1>5 DEF Inv, CandidatesBuildOnCurrent
    <2> QED BY <2>1, <2>2, <2>3
  <1>29. RulesAreMajor'
    <2> SUFFICES ASSUME NEW n \in LevelOne, NEW w \in Stored(n)' PROVE versions'[n][w].major
      BY DEF RulesAreMajor
    <2>0. n \in Memory /\ w \in Version
      BY ConstantsAssumption DEF Stored
    <2>1. CASE n # m
      BY <2>0, <2>1, <1>4, ElsewhereIsKept DEF Elsewhere, Inv, RulesAreMajor
    <2>2. CASE n = m /\ w # v
      BY <2>0, <2>2, <1>5, <1>11 DEF Inv, RulesAreMajor
    <2>3. CASE n = m /\ w = v
      BY <2>3, <1>6 DEF IsMajor
    <2> QED BY <2>1, <2>2, <2>3
  <1>30. MajorIsSticky'
    <2> SUFFICES ASSUME NEW n \in Memory, NEW u \in Activated(n)',
                        NEW w \in Activated(n)' \cup Candidates(n)',
                        versions'[n][u].major, u < w
                 PROVE  versions'[n][w].major
      BY DEF MajorIsSticky
    <2>1. CASE n # m
      BY <2>1, <1>4, ElsewhereIsKept DEF Elsewhere, Inv, MajorIsSticky
    <2>2. CASE n = m
      <3>1. u \in Activated(m) /\ u \in Version \ {v}
        BY <2>2, <1>11, <1>15 DEF Activated
      <3>2. versions[m][u].major
        BY <2>2, <3>1, <1>5
      <3>3. CASE w = v
        BY <2>2, <3>1, <3>2, <3>3, <1>6 DEF IsMajor, HasActivatedMajor
      <3>4. CASE w # v
        <4>1. w \in Activated(m) \cup Candidates(m) /\ w \in Version \ {v}
          BY <2>2, <3>4, <1>11 DEF Activated, Candidates
        <4> QED BY <2>2, <3>1, <3>2, <4>1, <1>5 DEF Inv, MajorIsSticky
      <3> QED BY <3>3, <3>4
    <2> QED BY <2>1, <2>2
  <1>31. ActivationMovesForward'
    <2> SUFFICES ASSUME NEW n \in Memory, NEW w \in Activated(n)'
                 PROVE  /\ current'[n] # None => w <= current'[n]
                        /\ \A u \in Candidates(n)' : w < u
      BY DEF ActivationMovesForward
    <2>1. CASE n # m
      BY <2>1, <1>4, ElsewhereIsKept DEF Elsewhere, Inv, ActivationMovesForward
    <2>2. CASE n = m
      <3>1. w \in Activated(m) /\ w < v
        BY <2>2, <1>11, <1>17, <1>18
      <3> QED BY <2>2, <3>1, <1>1, <1>11 DEF Inv, ActivationMovesForward
    <2> QED BY <2>1, <2>2
  <1>32. GovernedVersionsWereApproved'
    BY <1>16, LeavingKeepsGovernance
  <1> QED
    BY <1>3, <1>16, <1>21, <1>22, <1>23, <1>24, <1>25, <1>26, <1>27, <1>28, <1>29, <1>30,
       <1>31, <1>32 DEF Inv

(* Sets of requests are equal when they hold the same pairs.               *)
LEMMA SameRequests ==
  ASSUME NEW S \in SUBSET Request, NEW T \in SUBSET Request,
         \A w \in Version, t \in Target : <<w, t>> \in S <=> <<w, t>> \in T
  PROVE  S = T
  BY DEF Request

LEMMA RequestStatusChangeStep ==
  ASSUME Inv, NEW m \in Memory, NEW v \in Version, NEW target \in {"locked", "retracted"},
         RequestStatusChange(m, v, target)
  PROVE  Inv' /\ LeavesEffective(m)
  <1>1. /\ v = current[m]
        /\ versions[m][v].status \in Effective
        /\ target = "locked" => versions[m][v].status # "locked"
        /\ confirmation' = [confirmation EXCEPT ![m][v][target] =
               [status |-> "pending", expected |-> v, kind |-> StatusKind(m, target)]]
        /\ current' = current
        /\ versions' = versions
    BY DEF RequestStatusChange
  <1>2. target \in Target
    BY DEF Target
  <1>3. TypeOK /\ TypeOK'
    <2>1. \E w \in Version, t \in {"locked", "retracted"} : RequestStatusChange(m, w, t)
      OBVIOUS
    <2>2. Next
      BY <2>1 DEF Next, RequestChange
    <2> QED BY <2>2, TypeStep DEF Inv
  <1>4. Elsewhere(m)
    BY <1>1, <1>3 DEF Elsewhere, TypeOK
  <1>5. /\ confirmation'[m][v][target] =
               [status |-> "pending", expected |-> v, kind |-> StatusKind(m, target)]
        /\ \A w \in Version, t \in Target :
               w # v \/ t # target => confirmation'[m][w][t] = confirmation[m][w][t]
    BY <1>1, <1>2, <1>3 DEF TypeOK
  <1>6. /\ Activated(m)' = Activated(m)
        /\ Candidates(m)' = Candidates(m)
        /\ CurrentStatus(m)' = CurrentStatus(m)
    BY <1>1 DEF Activated, Candidates, CurrentStatus
  <1>7. Pending(m)' = Pending(m) \cup {<<v, target>>}
    <2>1. Pending(m)' \in SUBSET Request /\ Pending(m) \cup {<<v, target>>} \in SUBSET Request
      BY <1>2 DEF Pending, Request
    <2>2. ASSUME NEW w \in Version, NEW t \in Target
          PROVE  <<w, t>> \in Pending(m)' <=> <<w, t>> \in Pending(m) \cup {<<v, target>>}
      <3>1. <<w, t>> \in Request
        BY DEF Request
      <3>2. CASE w = v /\ t = target
        BY <3>1, <3>2, <1>5 DEF Pending
      <3>3. CASE w # v \/ t # target
        BY <3>1, <3>3, <1>5 DEF Pending
      <3> QED BY <3>2, <3>3
    <2> HIDE DEF Pending
    <2> QED BY <2>1, <2>2, SameRequests
  <1>8. confirmation[m][v][target].status # "approved"
    BY <1>1, <1>2 DEF Inv, ApprovalsTookEffect, Effective
  <1>9. Approved(m)' = Approved(m)
    <2>1. Approved(m)' \in SUBSET Request /\ Approved(m) \in SUBSET Request
      BY DEF Approved
    <2>2. ASSUME NEW w \in Version, NEW t \in Target
          PROVE  <<w, t>> \in Approved(m)' <=> <<w, t>> \in Approved(m)
      <3>1. <<w, t>> \in Request
        BY DEF Request
      <3>2. CASE w = v /\ t = target
        BY <3>1, <3>2, <1>5, <1>8 DEF Approved
      <3>3. CASE w # v \/ t # target
        BY <3>1, <3>3, <1>5 DEF Approved
      <3> QED BY <3>2, <3>3
    <2> HIDE DEF Approved
    <2> QED BY <2>1, <2>2, SameRequests
  <1>10. LeavesEffective(m)
    <2> HIDE DEF Approved
    <2> QED BY <1>1, <1>4, <1>6, <1>9 DEF LeavesEffective
  <1>11. v \notin Candidates(m)
    BY <1>1 DEF Candidates, Effective
  <1>21. OneEffectiveVersion' /\ ActivationIsRecorded'
    BY <1>1 DEF Inv, OneEffectiveVersion, ActivationIsRecorded
  <1>23. UnstoredIsUnrequested'
    <2> SUFFICES ASSUME NEW n \in Memory, NEW w \in Version, NEW t \in Target,
                        versions'[n][w].status = "absent"
                 PROVE  confirmation'[n][w][t].status = "none"
      BY DEF UnstoredIsUnrequested
    <2>1. n # m \/ w # v
      BY <1>1 DEF Effective
    <2> QED BY <2>1, <1>1, <1>4, <1>5 DEF Elsewhere, Inv, UnstoredIsUnrequested
  <1>24. ApprovalsNeverStale'
    <2> SUFFICES ASSUME NEW n \in Memory, NEW r \in Pending(n)'
                 PROVE  confirmation'[n][r[1]][r[2]].expected = current'[n]
      BY DEF ApprovalsNeverStale
    <2>1. CASE n # m
      BY <2>1, <1>1, <1>4, ElsewhereIsKept DEF Elsewhere, Inv, ApprovalsNeverStale
    <2>2. CASE n = m /\ r = <<v, target>>
      BY <2>2, <1>1, <1>5
    <2>3. CASE n = m /\ r # <<v, target>>
      <3>1. r \in Pending(m) /\ r \in Request
        BY <2>3, <1>7 DEF Pending
      <3>2. confirmation'[m][r[1]][r[2]] = confirmation[m][r[1]][r[2]]
        BY <2>3, <3>1, <1>5 DEF Request
      <3> QED BY <2>3, <3>1, <3>2, <1>1 DEF Inv, ApprovalsNeverStale
    <2> QED BY <2>1, <2>2, <2>3
  <1>25. CandidatesAwaitOneDecision'
    <2> SUFFICES ASSUME NEW n \in Memory
                 PROVE  /\ \A w \in Candidates(n)' :
                              \E t \in Effective : \A u \in Target : <<w, u>> \in Pending(n)' <=> u = t
                        /\ \A r \in Pending(n)' :
                              r[1] \notin Candidates(n)' =>
                                  /\ r[1] = current'[n]
                                  /\ r[2] \in {"locked", "retracted"}
                                  /\ r[2] = "locked" => CurrentStatus(n)' = "active"
      BY DEF CandidatesAwaitOneDecision
    <2>1. CASE n # m
      BY <2>1, <1>1, <1>4, ElsewhereIsKept DEF Elsewhere, Inv, CandidatesAwaitOneDecision
    <2>2. CASE n = m
      <3>1. ASSUME NEW w \in Candidates(m)
            PROVE  \E t \in Effective : \A u \in Target : <<w, u>> \in Pending(m)' <=> u = t
        <4>1. \A u \in Target : <<w, u>> \in Pending(m)' <=> <<w, u>> \in Pending(m)
          BY <1>7, <1>11
        <4>2. \E t \in Effective : \A u \in Target : <<w, u>> \in Pending(m) <=> u = t
          BY DEF Inv, CandidatesAwaitOneDecision
        <4> HIDE DEF Pending
        <4> QED BY <4>1, <4>2
      <3>2. ASSUME NEW r \in Pending(m)', r[1] \notin Candidates(m)'
            PROVE  /\ r[1] = current'[m]
                   /\ r[2] \in {"locked", "retracted"}
                   /\ r[2] = "locked" => CurrentStatus(m)' = "active"
        <4>1. CASE r = <<v, target>>
          <5>1. current[m] # None
            BY <1>1, VersionsArePositive
          <5>2. target = "locked" => CurrentStatus(m) = "active"
            BY <1>1, <5>1 DEF CurrentStatus, Effective
          <5> QED BY <4>1, <5>2, <1>1, <1>6
        <4>2. CASE r # <<v, target>>
          <5>1. r \in Pending(m) /\ r[1] \notin Candidates(m)
            BY <3>2, <4>2, <1>6, <1>7
          <5> QED BY <5>1, <1>1, <1>6 DEF Inv, CandidatesAwaitOneDecision
        <4> QED BY <4>1, <4>2
      <3> HIDE DEF Pending, Candidates, CurrentStatus
      <3> QED BY <2>2, <3>1, <3>2, <1>6
    <2> QED BY <2>1, <2>2
  <1>26. LockIsOverriddenOpenly'
    <2> SUFFICES ASSUME NEW n \in Memory, NEW r \in Pending(n)'
                 PROVE  confirmation'[n][r[1]][r[2]].kind = "locked_override" <=> CurrentStatus(n)' = "locked"
      BY DEF LockIsOverriddenOpenly
    <2>1. CASE n # m
      BY <2>1, <1>4, ElsewhereIsKept DEF Elsewhere, Inv, LockIsOverriddenOpenly
    <2>2. CASE n = m /\ r = <<v, target>>
      <3>1. StatusKind(m, target) = "locked_override" <=> CurrentStatus(m) = "locked"
        BY DEF StatusKind
      <3> QED BY <2>2, <3>1, <1>5, <1>6
    <2>3. CASE n = m /\ r # <<v, target>>
      <3>1. r \in Pending(m) /\ r \in Request
        BY <2>3, <1>7 DEF Pending
      <3>2. confirmation'[m][r[1]][r[2]] = confirmation[m][r[1]][r[2]]
        BY <2>3, <3>1, <1>5 DEF Request
      <3> QED BY <2>3, <3>1, <3>2, <1>6 DEF Inv, LockIsOverriddenOpenly
    <2> QED BY <2>1, <2>2, <2>3
  <1>27. ApprovalsTookEffect'
    <2> SUFFICES ASSUME NEW n \in Memory, NEW w \in Version, NEW t \in Target,
                        confirmation'[n][w][t].status = "approved"
                 PROVE  confirmation[n][w][t].status = "approved"
      BY <1>1 DEF Inv, ApprovalsTookEffect
    <2>1. CASE n # m
      BY <2>1, <1>4 DEF Elsewhere
    <2>2. CASE n = m
      BY <2>2, <1>5
    <2> QED BY <2>1, <2>2
  <1>28. CandidatesBuildOnCurrent' /\ RulesAreMajor' /\ MajorIsSticky' /\ ActivationMovesForward'
    BY <1>1 DEF Inv, CandidatesBuildOnCurrent, RulesAreMajor, MajorIsSticky,
                ActivationMovesForward, Candidates, Activated, Stored
  <1>32. GovernedVersionsWereApproved'
    BY <1>10, LeavingKeepsGovernance
  <1> QED
    BY <1>3, <1>10, <1>21, <1>23, <1>24, <1>25, <1>26, <1>27, <1>28, <1>32 DEF Inv

LEMMA DeclineStep ==
  ASSUME Inv, NEW m \in Memory, NEW v \in Version, NEW target \in Target,
         NEW decision \in {"rejected", "cancelled"}, Decline(m, v, target, decision)
  PROVE  Inv' /\ LeavesEffective(m)
  <1>1. /\ <<v, target>> \in Pending(m)
        /\ confirmation' = [confirmation EXCEPT ![m] = Settle(m, {<<v, target>>}, decision)]
        /\ versions' = [versions EXCEPT ![m] = DropCandidates(m, {<<v, target>>}, versions[m])]
        /\ current' = current
    BY DEF Decline
  <1>3. TypeOK /\ TypeOK'
    <2>1. \E w \in Version, t \in Target, d \in {"rejected", "cancelled"} : Decline(m, w, t, d)
      OBVIOUS
    <2>2. Next
      BY <2>1 DEF Next, DeclineRequest
    <2> QED BY <2>2, TypeStep DEF Inv
  <1>4. Elsewhere(m)
    BY <1>1, <1>3 DEF Elsewhere, TypeOK
  <1>5. /\ confirmation'[m][v][target].status = decision
        /\ \A w \in Version, t \in Target :
               w # v \/ t # target => confirmation'[m][w][t] = confirmation[m][w][t]
    <2>1. confirmation[m][v][target] \in ConfirmationRow
      BY <1>3 DEF TypeOK
    <2>2. confirmation'[m] = Settle(m, {<<v, target>>}, decision)
      BY <1>1, <1>3 DEF TypeOK
    <2> QED BY <2>1, <2>2 DEF Settle, ConfirmationRow
  <1>6. \A w \in Version :
            /\ versions'[m][w].status =
                   IF w = v /\ versions[m][w].status = "pending_confirmation"
                   THEN "retracted" ELSE versions[m][w].status
            /\ versions'[m][w].activated = versions[m][w].activated
            /\ versions'[m][w].major = versions[m][w].major
            /\ versions'[m][w].basis = versions[m][w].basis
    <2>1. versions[m] \in [Version -> VersionRow]
          /\ versions'[m] = DropCandidates(m, {<<v, target>>}, versions[m])
      BY <1>1, <1>3 DEF TypeOK
    <2> SUFFICES ASSUME NEW w \in Version
                 PROVE  /\ versions'[m][w].status =
                               IF w = v /\ versions[m][w].status = "pending_confirmation"
                               THEN "retracted" ELSE versions[m][w].status
                        /\ versions'[m][w].activated = versions[m][w].activated
                        /\ versions'[m][w].major = versions[m][w].major
                        /\ versions'[m][w].basis = versions[m][w].basis
      OBVIOUS
    <2>2. (\E t \in Target : <<w, t>> \in {<<v, target>>}) <=> w = v
      OBVIOUS
    <2> DEFINE new == DropCandidates(m, {<<v, target>>}, versions[m])[w]
    <2>3. /\ new.status =
                 IF /\ versions[m][w].status = "pending_confirmation"
                    /\ \E t \in Target : <<w, t>> \in {<<v, target>>}
                 THEN "retracted" ELSE versions[m][w].status
          /\ new.activated = versions[m][w].activated
          /\ new.major = versions[m][w].major
          /\ new.basis = versions[m][w].basis
      <3>1. versions[m][w] \in VersionRow
        BY <2>1
      <3> QED BY <3>1 DEF DropCandidates, VersionRow
    <2>4. new = versions'[m][w]
      BY <2>1
    <2> HIDE DEF new
    <2> QED BY <2>2, <2>3, <2>4
  <1>7. /\ Activated(m)' = Activated(m)
        /\ Candidates(m)' = Candidates(m) \ {v}
        /\ Stored(m)' = Stored(m)
    BY <1>6 DEF Activated, Candidates, Stored
  <1>8. /\ Pending(m)' = Pending(m) \ {<<v, target>>}
        /\ Approved(m)' = Approved(m)
    <2>0. confirmation[m][v][target].status = "pending"
      BY <1>1 DEF Pending
    <2>1. /\ Pending(m)' \in SUBSET Request /\ Pending(m) \ {<<v, target>>} \in SUBSET Request
          /\ Approved(m)' \in SUBSET Request /\ Approved(m) \in SUBSET Request
      BY DEF Pending, Approved
    <2>2. ASSUME NEW w \in Version, NEW t \in Target
          PROVE  /\ <<w, t>> \in Pending(m)' <=> <<w, t>> \in Pending(m) \ {<<v, target>>}
                 /\ <<w, t>> \in Approved(m)' <=> <<w, t>> \in Approved(m)
      <3>1. <<w, t>> \in Request
        BY DEF Request
      <3>2. CASE w = v /\ t = target
        BY <2>0, <3>1, <3>2, <1>5 DEF Pending, Approved
      <3>3. CASE w # v \/ t # target
        BY <3>1, <3>3, <1>5 DEF Pending, Approved
      <3> QED BY <3>2, <3>3
    <2> HIDE DEF Pending, Approved
    <2> QED BY <2>1, <2>2, SameRequests
  <1>9. \A w \in Activated(m) : versions[m][w].status # "pending_confirmation"
    BY DEF Inv, ActivationIsRecorded, Activated
  <1>10. LeavesEffective(m)
    <2>1. \A w \in Activated(m) : /\ versions'[m][w].status = versions[m][w].status
                                  /\ versions'[m][w].major = versions[m][w].major
      BY <1>6, <1>9 DEF Activated
    <2> HIDE DEF Approved, Activated
    <2> QED BY <2>1, <1>1, <1>4, <1>7, <1>8 DEF LeavesEffective
  <1>11. CurrentStatus(m)' = CurrentStatus(m)
    <2>1. current[m] # None => current[m] \in Version /\ versions[m][current[m]].status \in Effective
      BY <1>3 DEF TypeOK, Inv, OneEffectiveVersion
    <2> QED BY <2>1, <1>1, <1>6 DEF CurrentStatus, Effective
  <1>12. \A r \in Pending(m)' : r \in Pending(m) /\ confirmation'[m][r[1]][r[2]] = confirmation[m][r[1]][r[2]]
    BY <1>5, <1>8 DEF Pending, Request
  <1>21. OneEffectiveVersion'
    <2> SUFFICES ASSUME NEW n \in Memory, NEW w \in Version
                 PROVE  versions'[n][w].status \in Effective <=> w = current'[n]
      BY DEF OneEffectiveVersion
    <2>1. CASE n # m
      BY <2>1, <1>4 DEF Elsewhere, Inv, OneEffectiveVersion
    <2>2. CASE n = m
      <3>1. versions'[m][w].status \in Effective <=> versions[m][w].status \in Effective
        BY <1>6 DEF Effective
      <3> QED BY <2>2, <3>1, <1>1 DEF Inv, OneEffectiveVersion
    <2> QED BY <2>1, <2>2
  <1>22. ActivationIsRecorded'
    <2> SUFFICES ASSUME NEW n \in Memory, NEW w \in Version
                 PROVE  /\ versions'[n][w].status \in Effective \cup {"superseded"} => versions'[n][w].activated
                        /\ versions'[n][w].status \in {"absent", "pending_confirmation"} => ~versions'[n][w].activated
      BY DEF ActivationIsRecorded
    <2>1. CASE n # m
      BY <2>1, <1>4 DEF Elsewhere, Inv, ActivationIsRecorded
    <2>2. CASE n = m
      BY <2>2, <1>6 DEF Effective, Inv, ActivationIsRecorded
    <2> QED BY <2>1, <2>2
  <1>23. UnstoredIsUnrequested'
    <2> SUFFICES ASSUME NEW n \in Memory, NEW w \in Version, NEW t \in Target,
                        versions'[n][w].status = "absent"
                 PROVE  confirmation'[n][w][t].status = "none"
      BY DEF UnstoredIsUnrequested
    <2>1. CASE n # m
      BY <2>1, <1>4 DEF Elsewhere, Inv, UnstoredIsUnrequested
    <2>2. CASE n = m
      <3>1. versions[m][w].status = "absent"
        BY <2>2, <1>6
      <3>2. confirmation[m][w][t].status = "none"
        BY <3>1 DEF Inv, UnstoredIsUnrequested
      <3>3. <<w, t>> # <<v, target>>
        BY <3>2, <1>1 DEF Pending
      <3> QED BY <2>2, <3>2, <3>3, <1>5
    <2> QED BY <2>1, <2>2
  <1>24. ApprovalsNeverStale'
    <2> SUFFICES ASSUME NEW n \in Memory, NEW r \in Pending(n)'
                 PROVE  confirmation'[n][r[1]][r[2]].expected = current'[n]
      BY DEF ApprovalsNeverStale
    <2>1. CASE n # m
      BY <2>1, <1>1, <1>4, ElsewhereIsKept DEF Elsewhere, Inv, ApprovalsNeverStale
    <2>2. CASE n = m
      <3>1. r \in Pending(m) /\ confirmation'[n][r[1]][r[2]] = confirmation[m][r[1]][r[2]]
        BY <2>2, <1>12
      <3> QED BY <2>2, <3>1, <1>1 DEF Inv, ApprovalsNeverStale
    <2> QED BY <2>1, <2>2
  <1>25. CandidatesAwaitOneDecision'
    <2> SUFFICES ASSUME NEW n \in Memory
                 PROVE  /\ \A w \in Candidates(n)' :
                              \E t \in Effective : \A u \in Target : <<w, u>> \in Pending(n)' <=> u = t
                        /\ \A r \in Pending(n)' :
                              r[1] \notin Candidates(n)' =>
                                  /\ r[1] = current'[n]
                                  /\ r[2] \in {"locked", "retracted"}
                                  /\ r[2] = "locked" => CurrentStatus(n)' = "active"
      BY DEF CandidatesAwaitOneDecision
    <2>1. CASE n # m
      BY <2>1, <1>1, <1>4, ElsewhereIsKept DEF Elsewhere, Inv, CandidatesAwaitOneDecision
    <2>2. CASE n = m
      <3>1. ASSUME NEW w \in Candidates(m)'
            PROVE  \E t \in Effective : \A u \in Target : <<w, u>> \in Pending(m)' <=> u = t
        <4>1. w \in Candidates(m) /\ w # v
          BY <1>7
        <4>2. \A u \in Target : <<w, u>> \in Pending(m)' <=> <<w, u>> \in Pending(m)
          BY <4>1, <1>8
        <4>3. \E t \in Effective : \A u \in Target : <<w, u>> \in Pending(m) <=> u = t
          BY <4>1 DEF Inv, CandidatesAwaitOneDecision
        <4> HIDE DEF Pending
        <4> QED BY <4>2, <4>3
      <3>2. ASSUME NEW r \in Pending(m)', r[1] \notin Candidates(m)'
            PROVE  /\ r[1] = current'[m]
                   /\ r[2] \in {"locked", "retracted"}
                   /\ r[2] = "locked" => CurrentStatus(m)' = "active"
        <4>1. r \in Pending(m) /\ r # <<v, target>> /\ r \in Request
          BY <1>8 DEF Pending
        <4>2. r[1] \notin Candidates(m)
          <5>1. SUFFICES ASSUME r[1] = v, v \in Candidates(m) PROVE FALSE
            BY <3>2, <1>7
          <5>2. \E t \in Effective : \A u \in Target : <<v, u>> \in Pending(m) <=> u = t
            BY <5>1 DEF Inv, CandidatesAwaitOneDecision
          <5>3. r[2] = target
            <6>1. <<v, r[2]>> \in Pending(m) /\ r[2] \in Target
              BY <4>1, <5>1 DEF Request
            <6> HIDE DEF Pending
            <6> QED BY <5>2, <6>1, <1>1
          <5> QED BY <4>1, <5>1, <5>3 DEF Request
        <4> QED BY <4>1, <4>2, <1>1, <1>11 DEF Inv, CandidatesAwaitOneDecision
      <3> HIDE DEF Pending, Candidates, CurrentStatus
      <3> QED BY <2>2, <3>1, <3>2
    <2> QED BY <2>1, <2>2
  <1>26. LockIsOverriddenOpenly'
    <2> SUFFICES ASSUME NEW n \in Memory, NEW r \in Pending(n)'
                 PROVE  confirmation'[n][r[1]][r[2]].kind = "locked_override" <=> CurrentStatus(n)' = "locked"
      BY DEF LockIsOverriddenOpenly
    <2>1. CASE n # m
      BY <2>1, <1>4, ElsewhereIsKept DEF Elsewhere, Inv, LockIsOverriddenOpenly
    <2>2. CASE n = m
      BY <2>2, <1>11, <1>12 DEF Inv, LockIsOverriddenOpenly
    <2> QED BY <2>1, <2>2
  <1>27. ApprovalsTookEffect'
    <2> SUFFICES ASSUME NEW n \in Memory, NEW w \in Version, NEW t \in Target,
                        confirmation'[n][w][t].status = "approved"
                 PROVE  /\ versions'[n][w].activated
                        /\ t = "locked" => versions'[n][w].status # "active"
                        /\ t = "retracted" => versions'[n][w].status = "retracted"
      BY DEF ApprovalsTookEffect
    <2>1. CASE n # m
      BY <2>1, <1>4 DEF Elsewhere, Inv, ApprovalsTookEffect
    <2>2. CASE n = m
      <3>1. confirmation[m][w][t].status = "approved"
        BY <2>2, <1>5
      <3> QED BY <2>2, <3>1, <1>6 DEF Inv, ApprovalsTookEffect
    <2> QED BY <2>1, <2>2
  <1>28. CandidatesBuildOnCurrent'
    <2> SUFFICES ASSUME NEW n \in Memory, NEW w \in Candidates(n)'
                 PROVE  versions'[n][w].basis = current'[n]
      BY DEF CandidatesBuildOnCurrent
    <2>1. CASE n # m
      BY <2>1, <1>4, ElsewhereIsKept DEF Elsewhere, Inv, CandidatesBuildOnCurrent
    <2>2. CASE n = m
      <3>1. w \in Candidates(m) /\ w \in Version
        BY <2>2, <1>7 DEF Candidates
      <3> QED BY <2>2, <3>1, <1>1, <1>6 DEF Inv, CandidatesBuildOnCurrent
    <2> QED BY <2>1, <2>2
  <1>29. RulesAreMajor'
    <2> SUFFICES ASSUME NEW n \in LevelOne, NEW w \in Stored(n)' PROVE versions'[n][w].major
      BY DEF RulesAreMajor
    <2>0. n \in Memory /\ w \in Version
      BY ConstantsAssumption DEF Stored
    <2>1. CASE n # m
      BY <2>0, <2>1, <1>4, ElsewhereIsKept DEF Elsewhere, Inv, RulesAreMajor
    <2>2. CASE n = m
      BY <2>0, <2>2, <1>6, <1>7 DEF Inv, RulesAreMajor
    <2> QED BY <2>1, <2>2
  <1>30. MajorIsSticky'
    <2> SUFFICES ASSUME NEW n \in Memory, NEW u \in Activated(n)',
                        NEW w \in Activated(n)' \cup Candidates(n)',
                        versions'[n][u].major, u < w
                 PROVE  versions'[n][w].major
      BY DEF MajorIsSticky
    <2>1. CASE n # m
      BY <2>1, <1>4, ElsewhereIsKept DEF Elsewhere, Inv, MajorIsSticky
    <2>2. CASE n = m
      <3>1. /\ u \in Activated(m) /\ w \in Activated(m) \cup Candidates(m)
            /\ u \in Version /\ w \in Version
        BY <2>2, <1>7 DEF Activated, Candidates
      <3> QED BY <2>2, <3>1, <1>6 DEF Inv, MajorIsSticky
    <2> QED BY <2>1, <2>2
  <1>31. ActivationMovesForward'
    <2> SUFFICES ASSUME NEW n \in Memory, NEW w \in Activated(n)'
                 PROVE  /\ current'[n] # None => w <= current'[n]
                        /\ \A u \in Candidates(n)' : w < u
      BY DEF ActivationMovesForward
    <2>1. CASE n # m
      BY <2>1, <1>4, ElsewhereIsKept DEF Elsewhere, Inv, ActivationMovesForward
    <2>2. CASE n = m
      BY <2>2, <1>1, <1>7 DEF Inv, ActivationMovesForward
    <2> QED BY <2>1, <2>2
  <1>32. GovernedVersionsWereApproved'
    BY <1>10, LeavingKeepsGovernance
  <1> QED
    BY <1>3, <1>10, <1>21, <1>22, <1>23, <1>24, <1>25, <1>26, <1>27, <1>28, <1>29, <1>30,
       <1>31, <1>32 DEF Inv

-----------------------------------------------------------------------------
(* Every step is one of the calls above.                                   *)

LEMMA PublishDirectGuards ==
  ASSUME Inv, NEW m \in Memory, NEW v \in Version, NEW in \in PublishInput,
         PublishDirect(m, v, in)
  PROVE  CurrentStatus(m) # "locked" /\ ~IsTombstone(m)
  BY DEF PublishDirect, NeedsConfirmation

(* A step adds or closes one request, publishes a version at once, or      *)
(* approves a request.                                                     *)
LEMMA StepCases ==
  ASSUME Inv, [Next]_vars, NEW P,
         UNCHANGED vars => P,
         ASSUME NEW m \in Memory, Inv', LeavesEffective(m) PROVE P,
         ASSUME NEW m \in Memory, NEW v \in Version, NEW in \in PublishInput,
                PublishDirect(m, v, in) PROVE P,
         ASSUME NEW m \in Memory, NEW v \in Version, NEW t \in Effective,
                ApproveCandidate(m, v, t) PROVE P,
         ASSUME NEW m \in Memory, NEW v \in Version, ApproveLock(m, v) PROVE P,
         ASSUME NEW m \in Memory, NEW v \in Version, ApproveRetraction(m, v) PROVE P
  PROVE  P
  <1>1. ASSUME NEW m \in Memory, NEW v \in Version, NEW in \in PublishInput,
               PublishForReview(m, v, in)
        PROVE  P
    BY <1>1, PublishForReviewStep
  <1>2. ASSUME NEW m \in Memory, NEW v \in Version, NEW t \in {"locked", "retracted"},
               RequestStatusChange(m, v, t)
        PROVE  P
    BY <1>2, RequestStatusChangeStep
  <1>3. ASSUME NEW m \in Memory, NEW v \in Version, NEW t \in Target,
               NEW d \in {"rejected", "cancelled"}, Decline(m, v, t, d)
        PROVE  P
    BY <1>3, DeclineStep
  <1> QED
    BY <1>1, <1>2, <1>3 DEF Next, Publish, RequestChange, Approve, DeclineRequest

LEMMA InvStep == Inv /\ [Next]_vars => Inv'
  <1> SUFFICES ASSUME Inv, [Next]_vars PROVE Inv'
    OBVIOUS
  <1>1. CASE UNCHANGED vars
    <2>0. current' = current /\ versions' = versions /\ confirmation' = confirmation
      BY <1>1 DEF vars
    <2>1. TypeOK' /\ OneEffectiveVersion' /\ ActivationIsRecorded'
      BY <2>0 DEF Inv, TypeOK, OneEffectiveVersion, ActivationIsRecorded
    <2>2. UnstoredIsUnrequested' /\ ApprovalsTookEffect'
      BY <2>0 DEF Inv, UnstoredIsUnrequested, ApprovalsTookEffect
    <2>3. ApprovalsNeverStale'
      BY <2>0 DEF Inv, ApprovalsNeverStale, Pending
    <2>4. CandidatesAwaitOneDecision'
      BY <2>0 DEF Inv, CandidatesAwaitOneDecision, Candidates, Pending, CurrentStatus
    <2>5. LockIsOverriddenOpenly'
      BY <2>0 DEF Inv, LockIsOverriddenOpenly, Pending, CurrentStatus
    <2>6. CandidatesBuildOnCurrent' /\ RulesAreMajor' /\ MajorIsSticky' /\ ActivationMovesForward'
      BY <2>0 DEF Inv, CandidatesBuildOnCurrent, RulesAreMajor, MajorIsSticky,
                  ActivationMovesForward, Candidates, Activated, Stored
    <2>7. GovernedVersionsWereApproved'
      BY <2>0 DEF Inv, GovernedVersionsWereApproved, Activated, Approved
    <2> QED BY <2>1, <2>2, <2>3, <2>4, <2>5, <2>6, <2>7 DEF Inv
  <1> QED
    BY <1>1, StepCases, PublishDirectStep, ApproveCandidateStep, ApproveLockStep,
       ApproveRetractionStep

LEMMA Invariance == Spec => []Inv
  BY InvInit, InvStep, PTL DEF Spec

-----------------------------------------------------------------------------
(* What holds in every state.                                              *)

(* The memory row's pointer and the status of the versions always agree:   *)
(* one active or locked version, the one pointed at, or none.              *)
THEOREM EffectiveVersionIsUnique == Spec => []OneEffectiveVersion
  <1>1. Inv => OneEffectiveVersion
    BY DEF Inv
  <1> QED BY <1>1, Invariance, PTL

(* Every request that can still be approved was made against the version   *)
(* that is effective now.                                                  *)
THEOREM NoStaleApproval == Spec => []ApprovalsNeverStale
  <1>1. Inv => ApprovalsNeverStale
    BY DEF Inv
  <1> QED BY <1>1, Invariance, PTL

(* Every candidate has exactly one open request, and every other open      *)
(* request is about the effective version.                                 *)
THEOREM QueueIsConsistent == Spec => []CandidatesAwaitOneDecision
  <1>1. Inv => CandidatesAwaitOneDecision
    BY DEF Inv
  <1> QED BY <1>1, Invariance, PTL

(* Open requests against a locked version, and only those, say that they   *)
(* override a lock.                                                        *)
THEOREM OverridesAreNamed == Spec => []LockIsOverriddenOpenly
  <1>1. Inv => LockIsOverriddenOpenly
    BY DEF Inv
  <1> QED BY <1>1, Invariance, PTL

(* The queue of requests is consistent with the state they were made of.   *)
THEOREM QueueCanBeDecided == Spec => []RequestsStayDecidable
  <1>1. Inv => RequestsStayDecidable
    BY DEF Inv, RequestsStayDecidable
  <1> QED BY <1>1, Invariance, PTL

(* Major versions, versions of project rules, locks and retractions took   *)
(* effect by the approval of exactly that version and status.              *)
THEOREM GovernedByApproval == Spec => []GovernedVersionsWereApproved
  <1>1. Inv => GovernedVersionsWereApproved
    BY DEF Inv
  <1> QED BY <1>1, Invariance, PTL

(* After a major version every version that takes effect is major.         *)
THEOREM MajorStaysMajor == Spec => []MajorIsSticky
  <1>1. Inv => MajorIsSticky
    BY DEF Inv
  <1> QED BY <1>1, Invariance, PTL

(* The effective version is the newest that ever was effective, and every  *)
(* candidate is newer.                                                     *)
THEOREM VersionsMoveForward == Spec => []ActivationMovesForward
  <1>1. Inv => ActivationMovesForward
    BY DEF Inv
  <1> QED BY <1>1, Invariance, PTL

-----------------------------------------------------------------------------
(* What no step does.                                                      *)

LEMMA ApprovalIsNew ==
  ASSUME NEW m \in Memory, NEW v \in Version, NEW t \in Target, NEW status,
         <<v, t>> \in Pending(m), Clears(m, v, status, {<<v, t>>})
  PROVE  <<v, t>> \in NewlyApproved(m)
  BY DEF Pending, Request, Clears, QueueIsSettled, NewlyApproved

LEMMA OnlyOneNewlyActivated ==
  ASSUME Inv, NEW m \in Memory, NEW v \in Version, NEW status \in Target,
         NEW A \in SUBSET ({v} \X Target), Clears(m, v, status, A)
  PROVE  /\ NewlyActivated(m) \subseteq {v} \ Activated(m)
         /\ \A n \in Memory \ {m} : NewlyActivated(n) = {}
  BY DEF Clears, OthersRetire, Elsewhere, NewlyActivated, Activated

LEMMA NoLostUpdateByStep == Inv /\ [Next]_vars => NoLostUpdateStep
  <1> SUFFICES ASSUME Inv, [Next]_vars PROVE NoLostUpdateStep
    OBVIOUS
  <1>0. UNCHANGED vars => NoLostUpdateStep
    BY DEF vars, NoLostUpdateStep, NewlyActivated
  <1>1. ASSUME NEW m \in Memory, LeavesEffective(m) PROVE NoLostUpdateStep
    <2>1. \A n \in Memory : NewlyActivated(n) = {}
      BY <1>1 DEF LeavesEffective, Elsewhere, NewlyActivated, Activated
    <2> QED BY <2>1 DEF NoLostUpdateStep
  <1>2. ASSUME NEW m \in Memory, NEW v \in Version, NEW in \in PublishInput,
               PublishDirect(m, v, in)
        PROVE  NoLostUpdateStep
    <2>1. /\ Clears(m, v, "active", {}) /\ "active" \in Target
          /\ versions'[m][v].basis = current[m]
      BY <1>2, PublishDirectStep DEF Target
    <2> QED BY <2>1, OnlyOneNewlyActivated DEF NoLostUpdateStep
  <1>3. ASSUME NEW m \in Memory, NEW v \in Version, NEW t \in Effective,
               ApproveCandidate(m, v, t)
        PROVE  NoLostUpdateStep
    <2>1. /\ Clears(m, v, t, {<<v, t>>}) /\ t \in Target
          /\ versions'[m][v].basis = current[m]
      BY <1>3, ApproveCandidateStep DEF Target, Effective
    <2> QED BY <2>1, OnlyOneNewlyActivated DEF NoLostUpdateStep
  <1>4. ASSUME NEW m \in Memory, NEW v \in Version, ApproveLock(m, v)
        PROVE  NoLostUpdateStep
    <2>1. Clears(m, v, "locked", {<<v, "locked">>}) /\ v = current[m] /\ "locked" \in Target
      BY <1>4, ApproveLockStep DEF Target
    <2>2. v \in Activated(m)
      BY <2>1, CurrentIsActivated
    <2> QED BY <2>1, <2>2, OnlyOneNewlyActivated DEF NoLostUpdateStep
  <1>5. ASSUME NEW m \in Memory, NEW v \in Version, ApproveRetraction(m, v)
        PROVE  NoLostUpdateStep
    <2>1. /\ Clears(m, v, "retracted", {<<v, "retracted">>}) /\ v = current[m]
          /\ "retracted" \in Target
      BY <1>5, ApproveRetractionStep DEF Target
    <2>2. v \in Activated(m)
      BY <2>1, CurrentIsActivated
    <2> QED BY <2>1, <2>2, OnlyOneNewlyActivated DEF NoLostUpdateStep
  <1> QED BY <1>0, <1>1, <1>2, <1>3, <1>4, <1>5, StepCases

(* A version takes effect only in place of the version its author had      *)
(* read.                                                                   *)
THEOREM NothingIsOverwrittenUnseen == Spec => NoLostUpdate
  <1>1. Inv /\ [Next]_vars => [NoLostUpdateStep]_vars
    BY NoLostUpdateByStep
  <1> QED BY <1>1, Invariance, PTL DEF Spec, NoLostUpdate, NoLostUpdateStep

LEMMA LockedLeavesByStep == Inv /\ [Next]_vars => LockedLeavesStep
  <1> SUFFICES ASSUME Inv, [Next]_vars PROVE LockedLeavesStep
    OBVIOUS
  <1>0. UNCHANGED vars => LockedLeavesStep
    BY DEF vars, LockedLeavesStep
  <1>1. ASSUME NEW m \in Memory, LeavesEffective(m) PROVE LockedLeavesStep
    BY <1>1 DEF LeavesEffective, LockedLeavesStep
  <1>2. ASSUME NEW m \in Memory, NEW v \in Version, NEW in \in PublishInput,
               PublishDirect(m, v, in)
        PROVE  LockedLeavesStep
    <2>1. Elsewhere(m) /\ CurrentStatus(m) # "locked"
      BY <1>2, PublishDirectStep, PublishDirectGuards DEF Clears
    <2> QED BY <2>1 DEF LockedLeavesStep, Elsewhere
  <1>3. ASSUME NEW m \in Memory, NEW v \in Version, NEW t \in Target,
               <<v, t>> \in Pending(m), NEW status, Clears(m, v, status, {<<v, t>>})
        PROVE  LockedLeavesStep
    <2>1. <<v, t>> \in NewlyApproved(m) /\ Elsewhere(m)
      BY <1>3, ApprovalIsNew DEF Clears
    <2>2. /\ confirmation[m][v][t].expected = current[m]
          /\ CurrentStatus(m) = "locked" => confirmation[m][v][t].kind = "locked_override"
      BY <1>3 DEF Inv, ApprovalsNeverStale, LockIsOverriddenOpenly
    <2> QED BY <2>1, <2>2 DEF LockedLeavesStep, Elsewhere
  <1>4. ASSUME NEW m \in Memory, NEW v \in Version, NEW t \in Effective,
               ApproveCandidate(m, v, t)
        PROVE  LockedLeavesStep
    <2>1. <<v, t>> \in Pending(m) /\ t \in Target
      BY <1>4 DEF ApproveCandidate, Effective, Target
    <2> QED BY <1>3, <1>4, <2>1, ApproveCandidateStep
  <1>5. ASSUME NEW m \in Memory, NEW v \in Version, ApproveLock(m, v)
        PROVE  LockedLeavesStep
    <2>1. "locked" \in Target
      BY DEF Target
    <2> QED BY <1>3, <1>5, <2>1, ApproveLockStep
  <1>6. ASSUME NEW m \in Memory, NEW v \in Version, ApproveRetraction(m, v)
        PROVE  LockedLeavesStep
    <2>1. "retracted" \in Target
      BY DEF Target
    <2> QED BY <1>3, <1>6, <2>1, ApproveRetractionStep
  <1> QED BY <1>0, <1>1, <1>2, <1>4, <1>5, <1>6, StepCases

(* A locked version stops being effective only in the approval of an       *)
(* override of its lock.                                                   *)
THEOREM LocksHold == Spec => LockedLeavesOnlyByOverride
  <1>1. Inv /\ [Next]_vars => [LockedLeavesStep]_vars
    BY LockedLeavesByStep
  <1> QED BY <1>1, Invariance, PTL DEF Spec, LockedLeavesOnlyByOverride, LockedLeavesStep

LEMMA RevivalByStep == Inv /\ [Next]_vars => RevivalStep
  <1> SUFFICES ASSUME Inv, [Next]_vars PROVE RevivalStep
    OBVIOUS
  <1>a. \A m \in Memory : IsTombstone(m) => current[m] = None
    BY DEF IsTombstone
  <1>0. UNCHANGED vars => RevivalStep
    BY <1>a DEF vars, RevivalStep
  <1>1. ASSUME NEW m \in Memory, LeavesEffective(m) PROVE RevivalStep
    BY <1>1, <1>a DEF LeavesEffective, RevivalStep
  <1>2. ASSUME NEW m \in Memory, NEW v \in Version, NEW in \in PublishInput,
               PublishDirect(m, v, in)
        PROVE  RevivalStep
    <2>1. Elsewhere(m) /\ ~IsTombstone(m)
      BY <1>2, PublishDirectStep, PublishDirectGuards DEF Clears
    <2> QED BY <2>1, <1>a DEF RevivalStep, Elsewhere
  <1>3. ASSUME NEW m \in Memory, NEW v \in Version, NEW t \in Effective,
               ApproveCandidate(m, v, t)
        PROVE  RevivalStep
    <2>1. <<v, t>> \in Pending(m) /\ t \in Target
      BY <1>3 DEF ApproveCandidate, Effective, Target
    <2>2. Clears(m, v, t, {<<v, t>>})
      BY <1>3, ApproveCandidateStep
    <2>3. /\ <<v, t>> \in NewlyApproved(m)
          /\ Elsewhere(m)
          /\ current'[m] = v
      BY <2>1, <2>2, ApprovalIsNew DEF Clears, VersionBecomes, Effective
    <2>4. confirmation[m][v][t].expected = current[m]
      BY <2>1 DEF Inv, ApprovalsNeverStale
    <2> QED BY <2>3, <2>4, <1>a DEF RevivalStep, Elsewhere
  <1>4. ASSUME NEW m \in Memory, NEW v \in Version, v = current[m], Elsewhere(m)
        PROVE  RevivalStep
    BY <1>4, <1>a, VersionsArePositive DEF RevivalStep, Elsewhere
  <1>5. ASSUME NEW m \in Memory, NEW v \in Version, ApproveLock(m, v)
        PROVE  RevivalStep
    BY <1>4, <1>5, ApproveLockStep DEF Clears
  <1>6. ASSUME NEW m \in Memory, NEW v \in Version, ApproveRetraction(m, v)
        PROVE  RevivalStep
    BY <1>4, <1>6, ApproveRetractionStep DEF Clears
  <1> QED BY <1>0, <1>1, <1>2, <1>3, <1>5, <1>6, StepCases

(* A retracted memory comes back only in the approval of the version that  *)
(* revives it, requested while the memory was retracted.                   *)
THEOREM TombstonesHold == Spec => RevivalNeedsApproval
  <1>1. Inv /\ [Next]_vars => [RevivalStep]_vars
    BY RevivalByStep
  <1> QED BY <1>1, Invariance, PTL DEF Spec, RevivalNeedsApproval, RevivalStep

(* No order of service calls changes what is effective without the         *)
(* authority the memory's state asks for.                                  *)
THEOREM AuthorityHolds == Spec => ChangesAreAuthorized
  <1>1. Inv /\ [Next]_vars => [NoLostUpdateStep /\ LockedLeavesStep /\ RevivalStep]_vars
    BY NoLostUpdateByStep, LockedLeavesByStep, RevivalByStep
  <1> QED BY <1>1, Invariance, PTL DEF Spec, ChangesAreAuthorized

-----------------------------------------------------------------------------
(* The service implements the abstract governance.                         *)

LEMMA ElsewhereSlots ==
  ASSUME NEW m \in Memory, Elsewhere(m), NEW n \in Memory \ {m}
  PROVE  Slot(n)' = Slot(n)
  BY ElsewhereIsKept DEF Elsewhere, Slot

(* The abstract state after a call that leaves the effective version be.   *)
LEMMA LeavingIsStutter ==
  ASSUME Inv, Inv', NEW m \in Memory, LeavesEffective(m)
  PROVE  UNCHANGED Governance!govVars
  <1>1. \A w \in Activated(m) : /\ versions'[m][w].status = versions[m][w].status
                                /\ versions'[m][w].major = versions[m][w].major
    BY DEF LeavesEffective
  <1>2. HasActivatedMajor(m)' = HasActivatedMajor(m)
    <2> HIDE DEF Activated
    <2> QED BY <1>1 DEF LeavesEffective, HasActivatedMajor
  <1>3. IsTombstone(m)' = IsTombstone(m)
    <2> HIDE DEF Activated
    <2> QED BY <1>1 DEF LeavesEffective, IsTombstone
  <1>4. current[m] # None => current[m] \in Activated(m)
    BY CurrentIsActivated DEF Inv, TypeOK
  <1>5. CurrentStatus(m)' = CurrentStatus(m)
    BY <1>1, <1>4 DEF LeavesEffective, CurrentStatus
  <1>6. Slot(m)' = Slot(m)
    BY <1>3, <1>5 DEF Slot, LeavesEffective
  <1>7. \A n \in Memory : /\ Slot(n)' = Slot(n)
                          /\ Activated(n)' = Activated(n)
                          /\ HasActivatedMajor(n)' = HasActivatedMajor(n)
                          /\ Approved(n)' = Approved(n)
    <2> SUFFICES ASSUME NEW n \in Memory
                 PROVE  /\ Slot(n)' = Slot(n)
                        /\ Activated(n)' = Activated(n)
                        /\ HasActivatedMajor(n)' = HasActivatedMajor(n)
                        /\ Approved(n)' = Approved(n)
      OBVIOUS
    <2>1. CASE n # m
      BY <2>1, ElsewhereSlots, ElsewhereIsKept DEF LeavesEffective
    <2>2. CASE n = m
      BY <2>2, <1>2, <1>6 DEF LeavesEffective
    <2> QED BY <2>1, <2>2
  <1> QED BY <1>7 DEF Governance!govVars, LeavesEffective

(* The abstract state after a change of the effective version.             *)
MovesTo(m, v, status, next, major, A) ==
    /\ [n \in Memory |-> Slot(n)]' = [[n \in Memory |-> Slot(n)] EXCEPT ![m] = status]
    /\ current' = [current EXCEPT ![m] = next]
    /\ [n \in Memory |-> Activated(n)]' =
           [[n \in Memory |-> Activated(n)] EXCEPT ![m] = Activated(m) \cup {v}]
    /\ [n \in Memory |-> HasActivatedMajor(n)]' =
           [[n \in Memory |-> HasActivatedMajor(n)] EXCEPT ![m] = (HasActivatedMajor(m) \/ major)]
    /\ [n \in Memory |-> Approved(n)]' =
           [[n \in Memory |-> Approved(n)] EXCEPT ![m] = Approved(m) \cup A]

LEMMA ClearsAbstractly ==
  ASSUME Inv, TypeOK', NEW m \in Memory, NEW v \in Version, NEW status \in Target,
         NEW A \in SUBSET ({v} \X Target), Clears(m, v, status, A),
         v \in Activated(m) => versions'[m][v].major = versions[m][v].major
  PROVE  /\ status # "retracted" => MovesTo(m, v, status, v, versions'[m][v].major, A)
         /\ status = "retracted" => MovesTo(m, v, "tombstone", None, versions'[m][v].major, A)
  <1>1. /\ Elsewhere(m)
        /\ Activated(m)' = Activated(m) \cup {v}
        /\ Approved(m)' = Approved(m) \cup A
        /\ current'[m] = IF status = "retracted" THEN None ELSE v
        /\ versions'[m][v].status = status
    BY AfterClearing DEF Clears, VersionBecomes
  <1>2. HasActivatedMajor(m)' <=> HasActivatedMajor(m) \/ versions'[m][v].major
    <2>1. \A w \in Activated(m) : w # v => versions'[m][w].major = versions[m][w].major
      BY DEF Clears, OthersRetire, Activated
    <2> HIDE DEF Activated
    <2> QED BY <1>1, <2>1 DEF HasActivatedMajor
  <1>3. HasActivatedMajor(m)' = (HasActivatedMajor(m) \/ versions'[m][v].major)
    BY <1>2 DEF HasActivatedMajor
  <1>4. Slot(m)' = IF status = "retracted" THEN "tombstone" ELSE status
    <2>1. CASE status = "retracted"
      BY <1>1, <2>1 DEF Slot, IsTombstone
    <2>2. CASE status # "retracted"
      BY <1>1, <2>2, VersionsArePositive DEF Slot, CurrentStatus
    <2> QED BY <2>1, <2>2
  <1>5. \A n \in Memory \ {m} :
            /\ Slot(n)' = Slot(n)
            /\ Activated(n)' = Activated(n)
            /\ HasActivatedMajor(n)' = HasActivatedMajor(n)
            /\ Approved(n)' = Approved(n)
            /\ current'[n] = current[n]
    BY <1>1, ElsewhereSlots, ElsewhereIsKept DEF Elsewhere
  <1>6. current \in [Memory -> Version \cup {None}] /\ current' \in [Memory -> Version \cup {None}]
    BY DEF Inv, TypeOK
  <1> HIDE DEF Slot, Activated, HasActivatedMajor, Approved
  <1>11. [n \in Memory |-> Slot(n)]' =
            [[n \in Memory |-> Slot(n)] EXCEPT
                ![m] = IF status = "retracted" THEN "tombstone" ELSE status]
    BY <1>4, <1>5
  <1>12. current' = [current EXCEPT ![m] = IF status = "retracted" THEN None ELSE v]
    BY <1>1, <1>5, <1>6
  <1>13. [n \in Memory |-> Activated(n)]' =
            [[n \in Memory |-> Activated(n)] EXCEPT ![m] = Activated(m) \cup {v}]
    BY <1>1, <1>5
  <1>14. [n \in Memory |-> HasActivatedMajor(n)]' =
            [[n \in Memory |-> HasActivatedMajor(n)] EXCEPT
                ![m] = (HasActivatedMajor(m) \/ versions'[m][v].major)]
    BY <1>3, <1>5
  <1>15. [n \in Memory |-> Approved(n)]' =
            [[n \in Memory |-> Approved(n)] EXCEPT ![m] = Approved(m) \cup A]
    BY <1>1, <1>5
  <1> QED BY <1>11, <1>12, <1>13, <1>14, <1>15 DEF MovesTo

LEMMA NothingNew ==
  ASSUME NEW m \in Memory, NEW v, NEW status, NEW next, NEW major, NEW A,
         MovesTo(m, v, status, next, major, A),
         v \in Activated(m), HasActivatedMajor(m) = (HasActivatedMajor(m) \/ major)
  PROVE  /\ [n \in Memory |-> Activated(n)]' = [n \in Memory |-> Activated(n)]
         /\ [n \in Memory |-> HasActivatedMajor(n)]' = [n \in Memory |-> HasActivatedMajor(n)]
  <1> HIDE DEF Activated, HasActivatedMajor
  <1>1. Activated(m) \cup {v} = Activated(m)
    OBVIOUS
  <1>2. [n \in Memory |-> Activated(n)]' = [[n \in Memory |-> Activated(n)] EXCEPT ![m] = Activated(m)]
    BY <1>1 DEF MovesTo
  <1>3. [n \in Memory |-> HasActivatedMajor(n)]' =
            [[n \in Memory |-> HasActivatedMajor(n)] EXCEPT ![m] = HasActivatedMajor(m)]
    <2> DEFINE h == HasActivatedMajor(m) \/ major
    <2>1. [n \in Memory |-> HasActivatedMajor(n)]' =
              [[n \in Memory |-> HasActivatedMajor(n)] EXCEPT ![m] = h]
      BY DEF MovesTo
    <2>2. h = HasActivatedMajor(m)
      OBVIOUS
    <2> HIDE DEF h
    <2> QED BY <2>1, <2>2
  <1>4. [n \in Memory |-> Activated(n)]' = [n \in Memory |-> Activated(n)]
    BY <1>2
  <1>5. [n \in Memory |-> HasActivatedMajor(n)]' = [n \in Memory |-> HasActivatedMajor(n)]
    BY <1>3
  <1> QED BY <1>4, <1>5

LEMMA RefinementInit == Init => Governance!GovInit
  <1> SUFFICES ASSUME Init PROVE Governance!GovInit
    OBVIOUS
  <1>1. \A m \in Memory : Activated(m) = {} /\ Approved(m) = {} /\ current[m] = None
    BY DEF Init, NoVersion, NoConfirmation, Activated, Approved, Request
  <1>2. \A m \in Memory : Slot(m) = "empty" /\ HasActivatedMajor(m) = FALSE
    BY <1>1 DEF Slot, IsTombstone, HasActivatedMajor
  <1>3. current = [m \in Memory |-> None]
    BY DEF Init
  <1> QED BY <1>1, <1>2, <1>3 DEF Governance!GovInit

LEMMA RefinementStep == Inv /\ Inv' /\ [Next]_vars => [Governance!GovNext]_(Governance!govVars)
  <1> SUFFICES ASSUME Inv, Inv', [Next]_vars
               PROVE  Governance!GovNext \/ UNCHANGED Governance!govVars
    OBVIOUS
  <1> DEFINE Goal == Governance!GovNext \/ UNCHANGED Governance!govVars
  <1>0. UNCHANGED vars => Goal
    BY DEF vars, Governance!govVars, Slot, CurrentStatus, IsTombstone, Activated,
           HasActivatedMajor, Approved
  <1>1. ASSUME NEW m \in Memory, LeavesEffective(m) PROVE Goal
    BY <1>1, LeavingIsStutter
  <1>2. ASSUME NEW m \in Memory, NEW v \in Version, NEW in \in PublishInput,
               PublishDirect(m, v, in)
        PROVE  Goal
    <2>1. /\ Clears(m, v, "active", {}) /\ "active" \in Target /\ {} \in SUBSET ({v} \X Target)
          /\ ~versions'[m][v].major /\ versions[m][v].status = "absent"
      BY <1>2, PublishDirectStep DEF Target
    <2>2. v \notin Activated(m)
      BY <2>1 DEF Inv, ActivationIsRecorded, Activated
    <2>3. /\ CurrentStatus(m) # "locked" /\ ~IsTombstone(m)
          /\ m \notin LevelOne /\ ~HasActivatedMajor(m)
          /\ IsNextVersion(m, v)
      BY <1>2 DEF PublishDirect, NeedsConfirmation, IsMajor
    <2>4. Slot(m) \in {"empty", "active"}
      <3>1. current[m] # None => CurrentStatus(m) \in Effective
        BY CurrentIsActivated DEF Inv, TypeOK, CurrentStatus
      <3> QED BY <2>3, <3>1 DEF Slot, Effective
    <2>5. \A w \in Activated(m) : w < v
      <3>1. \A w \in Activated(m) : w \in Stored(m)
        BY DEF Inv, ActivationIsRecorded, Activated, Stored
      <3> QED BY <2>3, <3>1 DEF IsNextVersion
    <2>6. [n \in Memory |-> Approved(n)]' = [n \in Memory |-> Approved(n)]
      <3> HIDE DEF Approved
      <3>0. Approved(m)' = Approved(m) \cup {}
        BY <2>1, AfterClearing
      <3>1. \A n \in Memory : Approved(n)' = Approved(n)
        BY <2>1, <3>0, ElsewhereIsKept DEF Clears
      <3> QED BY <3>1
    <2>7. HasActivatedMajor(m) = FALSE /\ versions'[m][v].major = FALSE
      <3>1. versions'[m][v].major \in BOOLEAN
        BY DEF Inv, TypeOK, VersionRow
      <3> QED BY <2>1, <2>3, <3>1 DEF HasActivatedMajor
    <2>8. Governance!Revise(m, v)
      <3> HIDE DEF Slot, Activated, HasActivatedMajor, Approved
      <3>1. MovesTo(m, v, "active", v, versions'[m][v].major, {})
        BY <2>1, <2>2, ClearsAbstractly DEF Inv
      <3> QED BY <2>3, <2>4, <2>5, <2>6, <2>7, <3>1
              DEF MovesTo, Governance!Revise, Governance!Install
    <2> QED BY <2>8 DEF Governance!GovNext
  <1>3. ASSUME NEW m \in Memory, NEW v \in Version, NEW t \in Effective,
               ApproveCandidate(m, v, t)
        PROVE  Goal
    <2>1. /\ Clears(m, v, t, {<<v, t>>}) /\ v \in Candidates(m)
          /\ versions'[m][v].major = versions[m][v].major
      BY <1>3, ApproveCandidateStep
    <2>2. /\ t \in Target /\ t # "retracted" /\ {<<v, t>>} \in SUBSET ({v} \X Target)
          /\ t \in {"active", "locked"}
      BY DEF Effective, Target
    <2>3. v \notin Activated(m) /\ <<v, t>> \notin Approved(m)
      BY <2>1 DEF Inv, ActivationIsRecorded, ApprovalsTookEffect, Activated, Candidates, Approved,
                  Request
    <2>4. \A w \in Activated(m) : w < v
      BY <2>1 DEF Inv, ActivationMovesForward
    <2>5. versions[m][v].major \in BOOLEAN
      BY DEF Inv, TypeOK, VersionRow
    <2>6. HasActivatedMajor(m) \/ m \in LevelOne => versions[m][v].major
      <3>1. m \in LevelOne => versions[m][v].major
        BY <2>1 DEF Inv, RulesAreMajor, Candidates, Stored
      <3>2. HasActivatedMajor(m) => versions[m][v].major
        BY <2>1, <2>4 DEF Inv, MajorIsSticky, HasActivatedMajor
      <3> QED BY <3>1, <3>2
    <2>7. Governance!EndorseVersion(m, v, t)
      <3> HIDE DEF Slot, Activated, HasActivatedMajor, Approved
      <3>1. MovesTo(m, v, t, v, versions[m][v].major, {<<v, t>>})
        BY <2>1, <2>2, <2>3, ClearsAbstractly DEF Inv
      <3> QED BY <2>3, <2>4, <2>5, <2>6, <3>1
              DEF MovesTo, Governance!EndorseVersion, Governance!Endorse, Governance!Install
    <2> QED BY <2>2, <2>7 DEF Governance!GovNext
  <1>4. ASSUME NEW m \in Memory, NEW v \in Version, ApproveLock(m, v)
        PROVE  Goal
    <2>1. /\ Clears(m, v, "locked", {<<v, "locked">>}) /\ v = current[m]
          /\ versions'[m][v].major = versions[m][v].major
          /\ versions[m][v].status = "active"
          /\ <<v, "locked">> \in Pending(m)
      BY <1>4, ApproveLockStep
    <2>2. "locked" \in Target /\ {<<v, "locked">>} \in SUBSET ({v} \X Target)
      BY DEF Target
    <2>3. v \in Activated(m) /\ Slot(m) = "active"
      BY <2>1, CurrentIsActivated, VersionsArePositive DEF Slot, CurrentStatus
    <2>4. <<v, "locked">> \notin Approved(m)
      BY <2>1 DEF Pending, Approved
    <2>5. HasActivatedMajor(m) = (HasActivatedMajor(m) \/ versions'[m][v].major)
      BY <2>1, <2>3 DEF HasActivatedMajor
    <2>6. Governance!EndorseLock(m, v)
      <3> HIDE DEF Slot, Activated, HasActivatedMajor, Approved
      <3>1. MovesTo(m, v, "locked", v, versions'[m][v].major, {<<v, "locked">>})
        BY <2>1, <2>2, ClearsAbstractly DEF Inv
      <3>2. current \in [Memory -> Version \cup {None}]
        BY DEF Inv, TypeOK
      <3>3. /\ current' = current
            /\ [n \in Memory |-> Activated(n)]' = [n \in Memory |-> Activated(n)]
            /\ [n \in Memory |-> HasActivatedMajor(n)]' = [n \in Memory |-> HasActivatedMajor(n)]
        <4>1. current' = current
          BY <2>1, <3>1, <3>2 DEF MovesTo
        <4> QED BY <2>3, <2>5, <3>1, <4>1, NothingNew
      <3> QED BY <2>1, <2>3, <2>4, <3>1, <3>3
              DEF MovesTo, Governance!EndorseLock, Governance!Endorse
    <2> QED BY <2>6 DEF Governance!GovNext
  <1>5. ASSUME NEW m \in Memory, NEW v \in Version, ApproveRetraction(m, v)
        PROVE  Goal
    <2>1. /\ Clears(m, v, "retracted", {<<v, "retracted">>}) /\ v = current[m]
          /\ versions'[m][v].major = versions[m][v].major
          /\ <<v, "retracted">> \in Pending(m)
      BY <1>5, ApproveRetractionStep
    <2>2. "retracted" \in Target /\ {<<v, "retracted">>} \in SUBSET ({v} \X Target)
      BY DEF Target
    <2>3. v \in Activated(m) /\ Slot(m) \in {"active", "locked"}
      BY <2>1, CurrentIsActivated, VersionsArePositive DEF Slot, CurrentStatus, Effective
    <2>4. <<v, "retracted">> \notin Approved(m)
      BY <2>1 DEF Pending, Approved
    <2>5. HasActivatedMajor(m) = (HasActivatedMajor(m) \/ versions'[m][v].major)
      BY <2>1, <2>3 DEF HasActivatedMajor
    <2>6. Governance!EndorseRetraction(m, v)
      <3> HIDE DEF Slot, Activated, HasActivatedMajor, Approved
      <3>1. MovesTo(m, v, "tombstone", None, versions'[m][v].major, {<<v, "retracted">>})
        BY <2>1, <2>2, ClearsAbstractly DEF Inv
      <3>2. /\ [n \in Memory |-> Activated(n)]' = [n \in Memory |-> Activated(n)]
            /\ [n \in Memory |-> HasActivatedMajor(n)]' = [n \in Memory |-> HasActivatedMajor(n)]
        BY <2>3, <2>5, <3>1, NothingNew
      <3> QED BY <2>1, <2>3, <2>4, <3>1, <3>2
              DEF MovesTo, Governance!EndorseRetraction, Governance!Endorse
    <2> QED BY <2>6 DEF Governance!GovNext
  <1> HIDE DEF Goal
  <1>6. Goal
    BY <1>0, <1>1, <1>2, <1>3, <1>4, <1>5, StepCases
  <1> QED BY <1>6 DEF Goal

(* Every call of the service keeps the abstract promise: it is one of the  *)
(* abstract steps, or changes nothing the promise speaks of.               *)
THEOREM GovernanceIsImplemented == Spec => ImplementsGovernance
  BY RefinementInit, RefinementStep, Invariance, PTL
     DEF Spec, ImplementsGovernance, Governance!GovSpec

-----------------------------------------------------------------------------
(* What a call does to one version and to one request.                     *)

RowMoves(m, w) ==
    /\ ValidTransition(m, w)
    /\ PayloadIsImmutable(m, w)
    /\ versions[m][w].activated => versions'[m][w].activated
    /\ w \in NewlyActivated(m) => TakesEffect(m, w)

(* A request to activate is made once; others can be made again.           *)
RequestMoves(m, w, t) ==
    /\ RequestIsImmutable(m, w, t)
    /\ confirmation[m][w][t].status # "pending" =>
           confirmation'[m][w][t].status \in {confirmation[m][w][t].status, "pending"}
    /\ t = "active" /\ confirmation[m][w][t].status \notin {"none", "pending"} =>
           confirmation'[m][w][t].status = confirmation[m][w][t].status

Moves ==
    \A m \in Memory, w \in Version :
        RowMoves(m, w) /\ \A t \in Target : RequestMoves(m, w, t)

LEMMA StayingMoves ==
  ASSUME TypeOK, NEW m \in Memory, NEW w \in Version,
         versions'[m][w] = versions[m][w]
  PROVE  RowMoves(m, w)
  <1>1. versions[m][w].status \in Status
    BY DEF TypeOK, VersionRow
  <1> QED
    BY <1>1 DEF RowMoves, ValidTransition, PayloadIsImmutable, NewlyActivated

LEMMA StayingRequestMoves ==
  ASSUME TypeOK, NEW m \in Memory, NEW w \in Version, NEW t \in Target,
         confirmation'[m][w][t] = confirmation[m][w][t]
  PROVE  RequestMoves(m, w, t)
  BY DEF RequestMoves, RequestIsImmutable

LEMMA ElsewhereMoves ==
  ASSUME TypeOK, NEW m \in Memory, Elsewhere(m), NEW n \in Memory \ {m}, NEW w \in Version
  PROVE  RowMoves(n, w) /\ \A t \in Target : RequestMoves(n, w, t)
  BY StayingMoves, StayingRequestMoves DEF Elsewhere

(* The texts of the versions, which the lemmas above are silent about.     *)
LEMMA ActivateContent ==
  ASSUME TypeOK, NEW m \in Memory, NEW v \in Version, NEW row \in VersionRow,
         NEW target \in Effective, NEW A,
         ActivateCandidate(m, v, row, target, A), NEW w \in Version
  PROVE  versions'[m][w].content = IF w = v THEN row.content ELSE versions[m][w].content
  <1> DEFINE C == StaleRequests(m, v) \ A
             rows == [u \in Version |->
                IF u = v
                THEN [row EXCEPT !.status = target, !.activated = TRUE]
                ELSE IF u = current[m]
                THEN [versions[m][u] EXCEPT !.status = "superseded"]
                ELSE versions[m][u]]
  <1>1. versions' = [versions EXCEPT ![m] = DropCandidates(m, C, rows)]
    BY DEF ActivateCandidate
  <1>2. \A u \in Version : versions[m][u] \in VersionRow
    BY DEF TypeOK
  <1>3. rows \in [Version -> VersionRow]
    <2>1. [row EXCEPT !.status = target, !.activated = TRUE] \in VersionRow
      BY DEF VersionRow, Status, Effective
    <2>2. \A u \in Version : [versions[m][u] EXCEPT !.status = "superseded"] \in VersionRow
      BY <1>2 DEF VersionRow, Status
    <2> QED BY <1>2, <2>1, <2>2
  <1>4. rows[w].content = IF w = v THEN row.content ELSE versions[m][w].content
    BY <1>2 DEF VersionRow
  <1>5. versions'[m] = DropCandidates(m, C, rows)
    BY <1>1 DEF TypeOK
  <1> HIDE DEF rows, C
  <1> QED BY <1>3, <1>4, <1>5, DropCandidatesAt

LEMMA LockContent ==
  ASSUME TypeOK, NEW m \in Memory, NEW v \in Version, NEW A, LockEffective(m, v, A),
         NEW w \in Version
  PROVE  versions'[m][w].content = versions[m][w].content
  <1> DEFINE C == Pending(m) \ A
             rows == [versions[m] EXCEPT ![v].status = "locked"]
  <1>1. versions[m] \in [Version -> VersionRow]
    BY DEF TypeOK
  <1>2. versions'[m] = DropCandidates(m, C, rows)
    BY DEF LockEffective, TypeOK
  <1>3. rows \in [Version -> VersionRow]
    <2>1. [versions[m][v] EXCEPT !.status = "locked"] \in VersionRow
      BY <1>1 DEF VersionRow, Status, Effective
    <2> QED BY <1>1, <2>1
  <1>4. rows[w].content = versions[m][w].content
    <2>1. versions[m][w] \in VersionRow
      BY <1>1
    <2> QED BY <1>1, <2>1 DEF VersionRow
  <1> HIDE DEF rows, C
  <1> QED BY <1>2, <1>3, <1>4, DropCandidatesAt

LEMMA RetractContent ==
  ASSUME TypeOK, NEW m \in Memory, NEW v \in Version, NEW A, RetractEffective(m, v, A),
         NEW w \in Version
  PROVE  versions'[m][w].content = versions[m][w].content
  <1> DEFINE C == StaleRequests(m, None) \ A
             rows == [versions[m] EXCEPT ![v].status = "retracted"]
  <1>1. versions[m] \in [Version -> VersionRow]
    BY DEF TypeOK
  <1>2. versions'[m] = DropCandidates(m, C, rows)
    BY DEF RetractEffective, TypeOK
  <1>3. rows \in [Version -> VersionRow]
    <2>1. [versions[m][v] EXCEPT !.status = "retracted"] \in VersionRow
      BY <1>1 DEF VersionRow, Status
    <2> QED BY <1>1, <2>1
  <1>4. rows[w].content = versions[m][w].content
    <2>1. versions[m][w] \in VersionRow
      BY <1>1
    <2> QED BY <1>1, <2>1 DEF VersionRow
  <1> HIDE DEF rows, C
  <1> QED BY <1>2, <1>3, <1>4, DropCandidatesAt

LEMMA ClearingMoves ==
  ASSUME Inv, NEW m \in Memory, NEW v \in Version, NEW status \in Target,
         NEW A \in SUBSET ({v} \X Target), Clears(m, v, status, A), A \subseteq Pending(m),
         \A w \in Version \ {v} : versions'[m][w].content = versions[m][w].content,
         ValidTransition(m, v), PayloadIsImmutable(m, v),
         v \in NewlyActivated(m) => TakesEffect(m, v)
  PROVE  Moves
  <1>1. Elsewhere(m) /\ OthersRetire(m, v) /\ QueueIsSettled(m, A) /\ VersionBecomes(m, v, status)
    BY DEF Clears
  <1>2. ASSUME NEW w \in Version \ {v} PROVE RowMoves(m, w)
    <2>1. versions[m][w].status \in Status
      BY DEF Inv, TypeOK, VersionRow
    <2>2. w = current[m] => versions[m][w].status \in Effective
      BY DEF Inv, OneEffectiveVersion
    <2>3. ValidTransition(m, w)
      BY <1>1, <2>1, <2>2 DEF OthersRetire, ValidTransition, Effective
    <2> QED BY <1>1, <2>3 DEF OthersRetire, RowMoves, PayloadIsImmutable, NewlyActivated
  <1>3. RowMoves(m, v)
    BY <1>1 DEF VersionBecomes, RowMoves
  <1>4. ASSUME NEW w \in Version, NEW t \in Target PROVE RequestMoves(m, w, t)
    <2>1. <<w, t>> \in A => confirmation[m][w][t].status = "pending"
      BY DEF Pending
    <2>2. /\ confirmation'[m][w][t].expected = confirmation[m][w][t].expected
          /\ confirmation'[m][w][t].kind = confirmation[m][w][t].kind
      BY <1>1 DEF QueueIsSettled
    <2>3. confirmation'[m][w][t].status =
              IF <<w, t>> \in A THEN "approved"
              ELSE IF confirmation[m][w][t].status = "pending" THEN "cancelled"
              ELSE confirmation[m][w][t].status
      BY <1>1 DEF QueueIsSettled
    <2> QED BY <2>1, <2>2, <2>3 DEF RequestMoves, RequestIsImmutable
  <1>5. \A n \in Memory \ {m}, w \in Version : RowMoves(n, w) /\ \A t \in Target : RequestMoves(n, w, t)
    BY <1>1, ElsewhereMoves DEF Inv
  <1> QED BY <1>2, <1>3, <1>4, <1>5 DEF Moves

(* The conditions of the triggers on a change of status.                   *)
Triggers(m, v) ==
    /\ MajorOrLockedActivationRequiresConfirmation(m, v)
    /\ LockedVersionRequiresConfirmation(m, v)
    /\ LockRequiresConfirmation(m, v)
    /\ RetractionRequiresConfirmation(m, v)
    /\ RevivalRequiresConfirmation(m, v)

StatusIsKept(m, v) ==
    \/ versions'[m][v].status = versions[m][v].status
    \/ versions'[m][v].status = "pending_confirmation"
    \/ versions[m][v].status = "pending_confirmation" /\ versions'[m][v].status = "retracted"

LEMMA QuietTriggers ==
  ASSUME NEW m, NEW v, StatusIsKept(m, v)
  PROVE  Triggers(m, v)
  BY DEF Triggers, StatusIsKept, MajorOrLockedActivationRequiresConfirmation, TakesEffect,
         LockedVersionRequiresConfirmation, LockRequiresConfirmation,
         RetractionRequiresConfirmation, RevivalRequiresConfirmation, Effective

LEMMA PublishForReviewMoves ==
  ASSUME Inv, NEW m \in Memory, NEW v \in Version, NEW in \in PublishInput,
         PublishForReview(m, v, in)
  PROVE  Moves /\ \A n \in Memory, w \in Version : StatusIsKept(n, w)
  <1>1. /\ IsNextVersion(m, v)
        /\ versions' = [versions EXCEPT ![m][v] = NewRow(m, in)]
        /\ confirmation' = [confirmation EXCEPT ![m][v][in.target] =
               [status |-> "pending", expected |-> current[m], kind |-> PublishKind(m, in)]]
    BY DEF PublishForReview
  <1>2. TypeOK
    BY DEF Inv
  <1>3. in.target \in Target
    BY DEF PublishInput, Effective, Target
  <1>4. versions[m][v].status = "absent" /\ ~versions[m][v].activated
    <2>1. versions[m][v].status = "absent"
      BY <1>1, VersionsArePositive DEF IsNextVersion, Stored
    <2> QED BY <2>1 DEF Inv, ActivationIsRecorded
  <1>5. \A t \in Target : confirmation[m][v][t].status = "none"
    BY <1>4 DEF Inv, UnstoredIsUnrequested
  <1>6. /\ versions'[m][v].status = "pending_confirmation"
        /\ versions'[m][v].activated = FALSE
    BY <1>1, <1>2 DEF TypeOK, NewRow
  <1>7. /\ \A w \in Version \ {v} : versions'[m][w] = versions[m][w]
        /\ \A n \in Memory \ {m} : versions'[n] = versions[n]
    BY <1>1, <1>2 DEF TypeOK
  <1>8. /\ confirmation'[m][v][in.target].status = "pending"
        /\ \A w \in Version, t \in Target :
               w # v \/ t # in.target => confirmation'[m][w][t] = confirmation[m][w][t]
        /\ \A n \in Memory \ {m} : confirmation'[n] = confirmation[n]
    BY <1>1, <1>2, <1>3 DEF TypeOK
  <1>9. RowMoves(m, v)
    BY <1>4, <1>6 DEF RowMoves, ValidTransition, PayloadIsImmutable, NewlyActivated, Status,
                      Effective
  <1>10. RequestMoves(m, v, in.target)
    BY <1>3, <1>5, <1>8 DEF RequestMoves, RequestIsImmutable
  <1>11. \A n \in Memory, w \in Version : n # m \/ w # v => versions'[n][w] = versions[n][w]
    BY <1>7
  <1>12. \A n \in Memory, w \in Version, t \in Target :
             n # m \/ w # v \/ t # in.target => confirmation'[n][w][t] = confirmation[n][w][t]
    BY <1>8
  <1>13. \A n \in Memory, w \in Version : RowMoves(n, w)
    BY <1>2, <1>9, <1>11, StayingMoves
  <1>14. \A n \in Memory, w \in Version, t \in Target : RequestMoves(n, w, t)
    BY <1>2, <1>10, <1>12, StayingRequestMoves
  <1>15. \A n \in Memory, w \in Version : StatusIsKept(n, w)
    BY <1>6, <1>11 DEF StatusIsKept
  <1> QED BY <1>13, <1>14, <1>15 DEF Moves

LEMMA RequestStatusChangeMoves ==
  ASSUME Inv, NEW m \in Memory, NEW v \in Version, NEW target \in {"locked", "retracted"},
         RequestStatusChange(m, v, target)
  PROVE  Moves /\ \A n \in Memory, w \in Version : StatusIsKept(n, w)
  <1>1. /\ <<v, target>> \notin Pending(m)
        /\ confirmation' = [confirmation EXCEPT ![m][v][target] =
               [status |-> "pending", expected |-> v, kind |-> StatusKind(m, target)]]
        /\ versions' = versions
    BY DEF RequestStatusChange
  <1>2. TypeOK /\ target \in Target /\ target # "active"
    BY DEF Inv, Target
  <1>3. confirmation[m][v][target].status # "pending"
    BY <1>1, <1>2 DEF Pending, Request
  <1>4. /\ confirmation'[m][v][target].status = "pending"
        /\ \A n \in Memory, w \in Version, t \in Target :
               n # m \/ w # v \/ t # target => confirmation'[n][w][t] = confirmation[n][w][t]
    BY <1>1, <1>2 DEF TypeOK
  <1>5. RequestMoves(m, v, target)
    BY <1>2, <1>3, <1>4 DEF RequestMoves, RequestIsImmutable
  <1>6. \A n \in Memory, w \in Version, t \in Target : RequestMoves(n, w, t)
    BY <1>2, <1>4, <1>5, StayingRequestMoves
  <1>7. \A n \in Memory, w \in Version : RowMoves(n, w)
    BY <1>1, <1>2, StayingMoves
  <1> QED BY <1>1, <1>6, <1>7 DEF Moves, StatusIsKept

LEMMA DeclineMoves ==
  ASSUME Inv, NEW m \in Memory, NEW v \in Version, NEW target \in Target,
         NEW decision \in {"rejected", "cancelled"}, Decline(m, v, target, decision)
  PROVE  /\ Moves
         /\ \A n \in Memory, w \in Version : StatusIsKept(n, w)
         /\ confirmation'[m][v][target].status = decision
         /\ \A n \in Memory, w \in Version, t \in Target :
                n # m \/ w # v \/ t # target => confirmation'[n][w][t] = confirmation[n][w][t]
         /\ versions[m][v].status = "pending_confirmation" => versions'[m][v].status = "retracted"
  <1>1. /\ <<v, target>> \in Pending(m)
        /\ confirmation' = [confirmation EXCEPT ![m] = Settle(m, {<<v, target>>}, decision)]
        /\ versions' = [versions EXCEPT ![m] = DropCandidates(m, {<<v, target>>}, versions[m])]
    BY DEF Decline
  <1>2. TypeOK
    BY DEF Inv
  <1>3. confirmation[m][v][target].status = "pending"
    BY <1>1 DEF Pending
  <1>4. /\ versions'[m] = DropCandidates(m, {<<v, target>>}, versions[m])
        /\ versions[m] \in [Version -> VersionRow]
        /\ \A n \in Memory \ {m} : versions'[n] = versions[n] /\ confirmation'[n] = confirmation[n]
        /\ confirmation'[m] = Settle(m, {<<v, target>>}, decision)
    BY <1>1, <1>2 DEF TypeOK
  <1>5. /\ confirmation'[m][v][target].status = decision
        /\ confirmation'[m][v][target].expected = confirmation[m][v][target].expected
        /\ confirmation'[m][v][target].kind = confirmation[m][v][target].kind
        /\ \A w \in Version, t \in Target :
               w # v \/ t # target => confirmation'[m][w][t] = confirmation[m][w][t]
    <2>1. confirmation[m][v][target] \in ConfirmationRow
      BY <1>2 DEF TypeOK
    <2> QED BY <1>4, <2>1 DEF Settle, ConfirmationRow
  <1>6. ASSUME NEW w \in Version
        PROVE  /\ versions'[m][w].status =
                      IF w = v /\ versions[m][w].status = "pending_confirmation"
                      THEN "retracted" ELSE versions[m][w].status
               /\ versions'[m][w].activated = versions[m][w].activated
               /\ versions'[m][w].major = versions[m][w].major
               /\ versions'[m][w].content = versions[m][w].content
    <2>1. (\E t \in Target : <<w, t>> \in {<<v, target>>}) <=> w = v
      OBVIOUS
    <2>2. versions[m][w] \in VersionRow
      BY <1>4
    <2>3. versions'[m][w] = IF versions[m][w].status = "pending_confirmation" /\ w = v
                            THEN [versions[m][w] EXCEPT !.status = "retracted"]
                            ELSE versions[m][w]
      BY <1>4, <2>1 DEF DropCandidates
    <2> QED BY <2>2, <2>3 DEF VersionRow
  <1>7. ASSUME NEW w \in Version PROVE RowMoves(m, w) /\ StatusIsKept(m, w)
    <2>1. versions[m][w].status \in Status
      BY <1>2 DEF TypeOK, VersionRow
    <2> QED BY <1>6, <2>1 DEF RowMoves, ValidTransition, PayloadIsImmutable, NewlyActivated,
                              StatusIsKept
  <1>8. RequestMoves(m, v, target)
    BY <1>3, <1>5 DEF RequestMoves, RequestIsImmutable
  <1>9. \A w \in Version, t \in Target : RequestMoves(m, w, t)
    BY <1>2, <1>5, <1>8, StayingRequestMoves
  <1>10. \A n \in Memory \ {m}, w \in Version :
             StatusIsKept(n, w) /\ RowMoves(n, w) /\ \A t \in Target : RequestMoves(n, w, t)
    BY <1>2, <1>4, StayingMoves, StayingRequestMoves DEF StatusIsKept
  <1>11. \A n \in Memory, w \in Version, t \in Target :
                n # m \/ w # v \/ t # target => confirmation'[n][w][t] = confirmation[n][w][t]
    BY <1>4, <1>5
  <1> QED BY <1>5, <1>6, <1>7, <1>9, <1>10, <1>11 DEF Moves

(* In a step that clears the queue the triggers have to look at v and at   *)
(* the version it replaces.                                                *)
LEMMA ClearingTriggers ==
  ASSUME Inv, NEW m \in Memory, NEW v \in Version, NEW status \in Target,
         NEW A \in SUBSET ({v} \X Target), Clears(m, v, status, A), A \subseteq Pending(m),
         v # current[m] /\ CurrentStatus(m) = "locked" => \E t \in Effective : <<v, t>> \in A,
         Triggers(m, v)
  PROVE  \A n \in Memory, w \in Version : Triggers(n, w)
  <1>1. Elsewhere(m) /\ OthersRetire(m, v) /\ QueueIsSettled(m, A)
    BY DEF Clears
  <1>2. ASSUME NEW n \in Memory \ {m}, NEW w \in Version PROVE Triggers(n, w)
    BY <1>1, QuietTriggers DEF Elsewhere, StatusIsKept
  <1>3. ASSUME NEW w \in Version \ {v}, w # current[m] PROVE Triggers(m, w)
    <2>1. StatusIsKept(m, w)
      BY <1>1, <1>3 DEF OthersRetire, StatusIsKept
    <2> QED BY <2>1, QuietTriggers
  <1>4. ASSUME NEW w \in Version \ {v}, w = current[m] PROVE Triggers(m, w)
    <2>1. versions'[m][w].status = "superseded" /\ v # current[m]
      BY <1>1, <1>4 DEF OthersRetire
    <2>2. ASSUME versions[m][w].status = "locked"
          PROVE  \E u \in Version \ {w}, t \in Effective :
                     /\ ApprovedAfter(m, u, t)
                     /\ confirmation'[m][u][t].expected = w
                     /\ confirmation'[m][u][t].kind = "locked_override"
      <3>1. CurrentStatus(m) = "locked"
        BY <2>2, <1>4, VersionsArePositive DEF CurrentStatus
      <3>2. PICK t \in Effective : <<v, t>> \in A
        BY <2>1, <3>1
      <3>3. t \in Target /\ <<v, t>> \in Pending(m)
        BY <3>2 DEF Effective, Target
      <3>4. confirmation[m][v][t].expected = current[m]
        BY <3>3 DEF Inv, ApprovalsNeverStale
      <3>5. confirmation[m][v][t].kind = "locked_override"
        BY <3>1, <3>3 DEF Inv, LockIsOverriddenOpenly
      <3>6. /\ confirmation'[m][v][t].status = "approved"
            /\ confirmation'[m][v][t].expected = w
            /\ confirmation'[m][v][t].kind = "locked_override"
        BY <1>1, <1>4, <3>2, <3>3, <3>4, <3>5 DEF QueueIsSettled
      <3> QED BY <3>6 DEF ApprovedAfter
    <2>3. LockedVersionRequiresConfirmation(m, w)
      BY <2>2 DEF LockedVersionRequiresConfirmation
    <2> QED
      BY <2>1, <2>3
      DEF Triggers, MajorOrLockedActivationRequiresConfirmation, TakesEffect,
          LockRequiresConfirmation, RetractionRequiresConfirmation,
          RevivalRequiresConfirmation, Effective
  <1> QED BY <1>2, <1>3, <1>4

(* The latest version that was effective can only be a retracted one after *)
(* a step that replaces the current version if there is none.              *)
LEMMA RevivalIsOfNothing ==
  ASSUME Inv, NEW m \in Memory, NEW v \in Version, NEW status \in Target,
         NEW A \in SUBSET ({v} \X Target), Clears(m, v, status, A), v # current[m],
         LatestActivatedIsRetracted(m, v)
  PROVE  current[m] = None /\ IsTombstone(m)
  <1>1. OthersRetire(m, v)
    BY DEF Clears
  <1>2. PICK w \in Activated(m) \ {v} :
            /\ versions'[m][w].status = "retracted"
            /\ \A u \in Activated(m) \ {v} : u <= w
    BY DEF LatestActivatedIsRetracted
  <1>3. w \in Version /\ versions[m][w].activated /\ w # v
    BY <1>2 DEF Activated
  <1>4. current[m] = None
    <2> SUFFICES ASSUME current[m] # None PROVE FALSE
      OBVIOUS
    <2> DEFINE c == current[m]
    <2>1. c \in Version
      BY DEF Inv, TypeOK
    <2>2. c \in Activated(m) /\ w <= c
      BY <1>2, <2>1, CurrentIsActivated
    <2>3. c <= w
      BY <1>2, <2>2
    <2>4. w = c
      <3>1. w \in Int /\ c \in Int
        BY <1>3, <2>1, VersionsArePositive
      <3> HIDE DEF c
      <3> QED BY <2>2, <2>3, <3>1
    <2>5. versions'[m][w].status = "superseded"
      BY <1>1, <1>3, <2>4 DEF OthersRetire
    <2> QED BY <1>2, <2>5
  <1>5. versions[m][w].status # "pending_confirmation"
    BY <1>3 DEF Inv, ActivationIsRecorded
  <1>6. w # current[m]
    BY <1>3, <1>4, VersionsArePositive
  <1>7. versions[m][w].status = "retracted"
    BY <1>1, <1>2, <1>3, <1>5, <1>6 DEF OthersRetire
  <1> QED BY <1>2, <1>4, <1>7 DEF IsTombstone

LEMMA PublishDirectMoves ==
  ASSUME Inv, NEW m \in Memory, NEW v \in Version, NEW in \in PublishInput,
         PublishDirect(m, v, in)
  PROVE  /\ Moves
         /\ \A n \in Memory, w \in Version : Triggers(n, w)
         /\ versions'[m][v].content = in.content
  <1>1. /\ ~NeedsConfirmation(m, in) /\ ~IsMajor(m, in)
        /\ ActivateCandidate(m, v, NewRow(m, in), in.target, {})
        /\ in.target \in Effective
    BY DEF PublishDirect, NeedsConfirmation, PublishInput
  <1>2. /\ Clears(m, v, "active", {}) /\ ~versions'[m][v].major
        /\ versions[m][v].status = "absent"
    BY PublishDirectStep
  <1>3. CurrentStatus(m) # "locked" /\ ~IsTombstone(m)
    BY PublishDirectGuards
  <1>4. "active" \in Target /\ "active" \in Effective /\ {} \in SUBSET ({v} \X Target)
    BY DEF Target, Effective
  <1>5. TypeOK /\ NewRow(m, in) \in VersionRow /\ NewRow(m, in).content = in.content
    BY NewRowType DEF Inv, NewRow
  <1>6. \A w \in Version :
            versions'[m][w].content = IF w = v THEN in.content ELSE versions[m][w].content
    BY <1>1, <1>5, ActivateContent
  <1>7. versions'[m][v].status = "active"
    BY <1>2 DEF Clears, VersionBecomes
  <1>8. ValidTransition(m, v) /\ PayloadIsImmutable(m, v) /\ TakesEffect(m, v)
    BY <1>2, <1>7 DEF ValidTransition, PayloadIsImmutable, TakesEffect, Status, Effective
  <1>9. {} \subseteq Pending(m)
    OBVIOUS
  <1>10. Moves
    BY <1>2, <1>4, <1>6, <1>8, <1>9, ClearingMoves
  <1>11. v # current[m]
    BY <1>2 DEF Inv, OneEffectiveVersion, Effective
  <1>12. ~LatestActivatedIsRetracted(m, v)
    BY <1>2, <1>3, <1>4, <1>11, RevivalIsOfNothing
  <1>13. m \notin LevelOne /\ \A w \in Activated(m) : ~versions[m][w].major
    BY <1>1 DEF IsMajor, HasActivatedMajor
  <1>14. MajorOrLockedActivationRequiresConfirmation(m, v)
    BY <1>2, <1>7, <1>13 DEF MajorOrLockedActivationRequiresConfirmation
  <1>15. Triggers(m, v)
    BY <1>2, <1>7, <1>12, <1>14
    DEF Triggers, LockedVersionRequiresConfirmation, LockRequiresConfirmation,
        RetractionRequiresConfirmation, RevivalRequiresConfirmation, Effective
  <1>16. \A n \in Memory, w \in Version : Triggers(n, w)
    BY <1>2, <1>3, <1>4, <1>9, <1>15, ClearingTriggers
  <1> QED BY <1>6, <1>10, <1>16

LEMMA ApproveCandidateMoves ==
  ASSUME Inv, NEW m \in Memory, NEW v \in Version, NEW target \in Effective,
         ApproveCandidate(m, v, target)
  PROVE  Moves /\ \A n \in Memory, w \in Version : Triggers(n, w)
  <1> DEFINE A == {<<v, target>>}
  <1>1. /\ <<v, target>> \in Pending(m)
        /\ versions[m][v].status = "pending_confirmation"
        /\ ActivateCandidate(m, v, versions[m][v], target, A)
    BY DEF ApproveCandidate
  <1>2. /\ Clears(m, v, target, A) /\ versions'[m][v].major = versions[m][v].major
    BY ApproveCandidateStep
  <1>3. TypeOK /\ versions[m][v] \in VersionRow /\ target \in Target
    BY DEF Inv, TypeOK, Effective, Target
  <1>4. A \in SUBSET ({v} \X Target) /\ A \subseteq Pending(m) /\ <<v, target>> \in A
    BY <1>1, <1>3
  <1> HIDE DEF A
  <1>5. \A w \in Version : versions'[m][w].content = versions[m][w].content
    BY <1>1, <1>3, ActivateContent
  <1>6. versions'[m][v].status = target
    BY <1>2 DEF Clears, VersionBecomes
  <1>7. ValidTransition(m, v) /\ PayloadIsImmutable(m, v) /\ TakesEffect(m, v)
    BY <1>1, <1>2, <1>5, <1>6 DEF ValidTransition, PayloadIsImmutable, TakesEffect, Effective
  <1>8. Moves
    BY <1>2, <1>3, <1>4, <1>5, <1>7, ClearingMoves
  <1>9. v # current[m]
    BY <1>1 DEF Inv, OneEffectiveVersion, Effective
  <1>10. /\ confirmation'[m][v][target].status = "approved"
         /\ confirmation'[m][v][target].expected = current[m]
    <2>1. confirmation[m][v][target].expected = current[m]
      BY <1>1 DEF Inv, ApprovalsNeverStale
    <2> QED BY <1>2, <1>3, <1>4, <2>1 DEF Clears, QueueIsSettled
  <1>11. RevivalRequiresConfirmation(m, v)
    <2>1. LatestActivatedIsRetracted(m, v) => current[m] = None
      BY <1>2, <1>3, <1>4, <1>9, RevivalIsOfNothing
    <2> QED BY <1>6, <1>10, <2>1 DEF RevivalRequiresConfirmation, ApprovedAfter
  <1>12. MajorOrLockedActivationRequiresConfirmation(m, v)
    BY <1>6, <1>10 DEF MajorOrLockedActivationRequiresConfirmation, ApprovedAfter
  <1>13. Triggers(m, v)
    BY <1>1, <1>11, <1>12
    DEF Triggers, LockedVersionRequiresConfirmation, LockRequiresConfirmation,
        RetractionRequiresConfirmation, Effective
  <1>14. \A n \in Memory, w \in Version : Triggers(n, w)
    BY <1>2, <1>3, <1>4, <1>13, ClearingTriggers
  <1> QED BY <1>8, <1>14

LEMMA ApproveLockMoves ==
  ASSUME Inv, NEW m \in Memory, NEW v \in Version, ApproveLock(m, v)
  PROVE  Moves /\ \A n \in Memory, w \in Version : Triggers(n, w)
  <1> DEFINE A == {<<v, "locked">>}
  <1>1. /\ LockEffective(m, v, A) /\ <<v, "locked">> \in Pending(m)
    BY DEF ApproveLock
  <1>2. /\ Clears(m, v, "locked", A) /\ versions'[m][v].major = versions[m][v].major
        /\ v = current[m] /\ versions[m][v].status = "active"
    BY ApproveLockStep
  <1>3. TypeOK /\ "locked" \in Target
    BY DEF Inv, Target
  <1>4. A \in SUBSET ({v} \X Target) /\ A \subseteq Pending(m) /\ <<v, "locked">> \in A
    BY <1>1, <1>3
  <1> HIDE DEF A
  <1>5. \A w \in Version : versions'[m][w].content = versions[m][w].content
    BY <1>1, <1>3, LockContent
  <1>6. versions'[m][v].status = "locked"
    BY <1>2 DEF Clears, VersionBecomes
  <1>7. ValidTransition(m, v) /\ PayloadIsImmutable(m, v)
    BY <1>2, <1>5, <1>6 DEF ValidTransition, PayloadIsImmutable
  <1>8. v \notin NewlyActivated(m)
    BY <1>2, CurrentIsActivated DEF NewlyActivated, Activated
  <1>9. Moves
    BY <1>2, <1>3, <1>4, <1>5, <1>7, <1>8, ClearingMoves
  <1>10. /\ confirmation'[m][v]["locked"].status = "approved"
         /\ confirmation'[m][v]["locked"].expected = v
    <2>1. confirmation[m][v]["locked"].expected = current[m]
      BY <1>1 DEF Inv, ApprovalsNeverStale
    <2> QED BY <1>2, <1>3, <1>4, <2>1 DEF Clears, QueueIsSettled
  <1>11. Triggers(m, v)
    BY <1>2, <1>6, <1>10
    DEF Triggers, MajorOrLockedActivationRequiresConfirmation, TakesEffect,
        LockedVersionRequiresConfirmation, LockRequiresConfirmation, ApprovedAfter,
        RetractionRequiresConfirmation, RevivalRequiresConfirmation, Effective
  <1>12. \A n \in Memory, w \in Version : Triggers(n, w)
    BY <1>2, <1>3, <1>4, <1>11, ClearingTriggers
  <1> QED BY <1>9, <1>12

LEMMA ApproveRetractionMoves ==
  ASSUME Inv, NEW m \in Memory, NEW v \in Version, ApproveRetraction(m, v)
  PROVE  Moves /\ \A n \in Memory, w \in Version : Triggers(n, w)
  <1> DEFINE A == {<<v, "retracted">>}
  <1>1. /\ RetractEffective(m, v, A) /\ <<v, "retracted">> \in Pending(m)
    BY DEF ApproveRetraction
  <1>2. /\ Clears(m, v, "retracted", A) /\ versions'[m][v].major = versions[m][v].major
        /\ v = current[m]
    BY ApproveRetractionStep
  <1>3. TypeOK /\ "retracted" \in Target /\ versions[m][v].status \in Effective
    BY <1>2 DEF Inv, Target, OneEffectiveVersion
  <1>4. A \in SUBSET ({v} \X Target) /\ A \subseteq Pending(m) /\ <<v, "retracted">> \in A
    BY <1>1, <1>3
  <1> HIDE DEF A
  <1>5. \A w \in Version : versions'[m][w].content = versions[m][w].content
    BY <1>1, <1>3, RetractContent
  <1>6. versions'[m][v].status = "retracted"
    BY <1>2 DEF Clears, VersionBecomes
  <1>7. ValidTransition(m, v) /\ PayloadIsImmutable(m, v)
    BY <1>2, <1>3, <1>5, <1>6 DEF ValidTransition, PayloadIsImmutable, Effective
  <1>8. v \notin NewlyActivated(m)
    BY <1>2, CurrentIsActivated DEF NewlyActivated, Activated
  <1>9. Moves
    BY <1>2, <1>3, <1>4, <1>5, <1>7, <1>8, ClearingMoves
  <1>10. /\ confirmation'[m][v]["retracted"].status = "approved"
         /\ confirmation'[m][v]["retracted"].expected = v
    <2>1. confirmation[m][v]["retracted"].expected = current[m]
      BY <1>1 DEF Inv, ApprovalsNeverStale
    <2> QED BY <1>2, <1>3, <1>4, <2>1 DEF Clears, QueueIsSettled
  <1>11. Triggers(m, v)
    BY <1>2, <1>6, <1>10
    DEF Triggers, MajorOrLockedActivationRequiresConfirmation, TakesEffect,
        LockedVersionRequiresConfirmation, LockRequiresConfirmation, ApprovedAfter,
        RetractionRequiresConfirmation, RevivalRequiresConfirmation, Effective
  <1>12. \A n \in Memory, w \in Version : Triggers(n, w)
    BY <1>2, <1>3, <1>4, <1>11, ClearingTriggers
  <1> QED BY <1>9, <1>12

LEMMA StepMoves ==
  Inv /\ [Next]_vars => Moves /\ \A m \in Memory, v \in Version : Triggers(m, v)
  <1> SUFFICES ASSUME Inv, [Next]_vars
               PROVE  Moves /\ \A m \in Memory, v \in Version : Triggers(m, v)
    OBVIOUS
  <1> DEFINE P == Moves /\ \A m \in Memory, v \in Version : Triggers(m, v)
  <1>1. UNCHANGED vars => P
    BY StayingMoves, StayingRequestMoves, QuietTriggers DEF vars, Inv, Moves, StatusIsKept
  <1>2. (\A m \in Memory, v \in Version : StatusIsKept(m, v)) =>
            \A m \in Memory, v \in Version : Triggers(m, v)
    BY QuietTriggers
  <1>3. ASSUME NEW m \in Memory, Publish(m) PROVE P
    BY <1>2, <1>3, PublishDirectMoves, PublishForReviewMoves DEF Publish
  <1>4. ASSUME NEW m \in Memory, RequestChange(m) PROVE P
    BY <1>2, <1>4, RequestStatusChangeMoves DEF RequestChange
  <1>5. ASSUME NEW m \in Memory, Approve(m) PROVE P
    BY <1>5, ApproveRetractionMoves, ApproveLockMoves, ApproveCandidateMoves DEF Approve
  <1>6. ASSUME NEW m \in Memory, DeclineRequest(m) PROVE P
    BY <1>2, <1>6, DeclineMoves DEF DeclineRequest
  <1> QED BY <1>1, <1>3, <1>4, <1>5, <1>6 DEF Next

(* The triggers of the database abort no call that passes the checks of    *)
(* the service: a decision a human has taken is never undone by them.      *)
THEOREM TriggersAgree == Spec => StorageAccepts
  <1> DEFINE A == \A m \in Memory :
           /\ PointerIsEffective(m)
           /\ \A v \in Version :
                  /\ ValidTransition(m, v)
                  /\ PayloadIsImmutable(m, v)
                  /\ MajorOrLockedActivationRequiresConfirmation(m, v)
                  /\ LockedVersionRequiresConfirmation(m, v)
                  /\ LockRequiresConfirmation(m, v)
                  /\ RetractionRequiresConfirmation(m, v)
                  /\ RevivalRequiresConfirmation(m, v)
                  /\ \A t \in Target : RequestIsImmutable(m, v, t)
  <1>1. Inv /\ [Next]_vars => [A]_vars
    <2> SUFFICES ASSUME Inv, [Next]_vars PROVE A
      OBVIOUS
    <2>1. Moves /\ \A m \in Memory, v \in Version : Triggers(m, v)
      BY StepMoves
    <2>2. Inv'
      BY InvStep
    <2>3. \A m \in Memory : PointerIsEffective(m)
      BY <2>2 DEF Inv, TypeOK, OneEffectiveVersion, PointerIsEffective
    <2> QED BY <2>1, <2>3 DEF Moves, RowMoves, RequestMoves, Triggers
  <1> QED BY <1>1, Invariance, PTL DEF Spec, StorageAccepts

-----------------------------------------------------------------------------
(* A version whose request to activate it was turned down never takes      *)
(* effect.                                                                 *)

ClosedRequestsAreDead ==
    \A m \in Memory, v \in Version :
        confirmation[m][v]["active"].status \in {"rejected", "cancelled"} =>
            versions[m][v].status = "retracted" /\ ~versions[m][v].activated

Closed(m, v) == confirmation[m][v]["active"].status \in {"rejected", "cancelled"}

(* In a step that clears the queue, what is turned down is dropped.        *)
LEMMA ClearingDrops ==
  ASSUME Inv, NEW m \in Memory, NEW v \in Version, NEW status \in Target,
         NEW A \in SUBSET ({v} \X Target), Clears(m, v, status, A),
         <<v, "active">> \notin A => <<v, "active">> \notin Pending(m),
         NEW n \in Memory, NEW w \in Version, ~Closed(n, w), Closed(n, w)'
  PROVE  versions'[n][w].status = "retracted" /\ ~versions'[n][w].activated
  <1>1. Elsewhere(m) /\ OthersRetire(m, v) /\ QueueIsSettled(m, A)
    BY DEF Clears
  <1>2. "active" \in Target
    BY DEF Target
  <1>3. n = m
    BY <1>1 DEF Elsewhere, Closed
  <1>4. <<w, "active">> \notin A /\ confirmation[m][w]["active"].status = "pending"
    BY <1>1, <1>2, <1>3 DEF QueueIsSettled, Closed
  <1>5. <<w, "active">> \in Pending(m)
    BY <1>2, <1>4 DEF Pending, Request
  <1>6. w # v
    BY <1>4, <1>5
  <1>7. w \in Candidates(m)
    BY <1>5 DEF Inv, CandidatesAwaitOneDecision
  <1>8. versions[m][w].status = "pending_confirmation" /\ ~versions[m][w].activated
    BY <1>7 DEF Candidates, Inv, ActivationIsRecorded
  <1>9. w # current[m]
    BY <1>8 DEF Inv, OneEffectiveVersion, Effective
  <1> QED BY <1>1, <1>3, <1>6, <1>8, <1>9 DEF OthersRetire

LEMMA ActiveRequestIsOfCandidate ==
  ASSUME Inv, NEW m \in Memory, NEW v \in Version,
         confirmation[m][v]["active"].status = "pending"
  PROVE  /\ versions[m][v].status = "pending_confirmation"
         /\ ~versions[m][v].activated
         /\ \A t \in Target : <<v, t>> \in Pending(m) => t = "active"
  <1>1. "active" \in Target
    BY DEF Target
  <1>2. <<v, "active">> \in Pending(m)
    BY <1>1 DEF Pending, Request
  <1>3. v \in Candidates(m)
    BY <1>2 DEF Inv, CandidatesAwaitOneDecision
  <1>4. \A t \in Target : <<v, t>> \in Pending(m) => t = "active"
    BY <1>1, <1>2, <1>3 DEF Inv, CandidatesAwaitOneDecision
  <1> QED BY <1>3, <1>4 DEF Candidates, Inv, ActivationIsRecorded

LEMMA ClosedStep == Inv /\ ClosedRequestsAreDead /\ [Next]_vars => ClosedRequestsAreDead'
  <1> SUFFICES ASSUME Inv, ClosedRequestsAreDead, [Next]_vars,
                      NEW n \in Memory, NEW w \in Version, Closed(n, w)'
               PROVE  versions'[n][w].status = "retracted" /\ ~versions'[n][w].activated
    BY DEF ClosedRequestsAreDead, Closed
  <1> DEFINE P == versions'[n][w].status = "retracted" /\ ~versions'[n][w].activated
  <1>0. Moves /\ "active" \in Target
    BY StepMoves DEF Target
  <1>1. CASE Closed(n, w)
    <2>1. versions[n][w].status = "retracted" /\ ~versions[n][w].activated
      BY <1>1 DEF ClosedRequestsAreDead, Closed
    <2>2. RowMoves(n, w)
      BY <1>0 DEF Moves
    <2> QED
      BY <2>1, <2>2 DEF RowMoves, ValidTransition, NewlyActivated, TakesEffect, Effective
  <1>2. CASE ~Closed(n, w)
    <2>1. RequestMoves(n, w, "active")
      BY <1>0 DEF Moves
    <2>2. confirmation[n][w]["active"].status = "pending"
      BY <1>2, <2>1 DEF RequestMoves, Closed
    <2>3. /\ versions[n][w].status = "pending_confirmation" /\ ~versions[n][w].activated
          /\ \A t \in Target : <<w, t>> \in Pending(n) => t = "active"
      BY <2>2, ActiveRequestIsOfCandidate
    <2>4. <<w, "active">> \in Pending(n)
      BY <1>0, <2>2 DEF Pending, Request
    <2>5. UNCHANGED vars => P
      BY <1>2 DEF vars, Closed
    <2>6. ASSUME NEW m \in Memory, NEW v \in Version, NEW in \in PublishInput,
                 PublishDirect(m, v, in)
          PROVE  P
      <3>1. Clears(m, v, "active", {}) /\ versions[m][v].status = "absent"
        BY <2>6, PublishDirectStep
      <3>2. <<v, "active">> \notin Pending(m)
        BY <3>1 DEF Inv, UnstoredIsUnrequested, Pending, Target
      <3>3. {} \in SUBSET ({v} \X Target)
        OBVIOUS
      <3> QED BY <1>0, <1>2, <3>1, <3>2, <3>3, ClearingDrops
    <2>7. ASSUME NEW m \in Memory, NEW v \in Version, NEW in \in PublishInput,
                 PublishForReview(m, v, in)
          PROVE  P
      <3>1. confirmation'[n][w]["active"] = confirmation[n][w]["active"]
            \/ confirmation'[n][w]["active"].status = "pending"
        <4>1. confirmation' = [confirmation EXCEPT ![m][v][in.target] =
                 [status |-> "pending", expected |-> current[m], kind |-> PublishKind(m, in)]]
          BY <2>7 DEF PublishForReview
        <4> QED BY <1>0, <4>1 DEF Inv, TypeOK
      <3> QED BY <1>2, <3>1 DEF Closed
    <2>8. ASSUME NEW m \in Memory, NEW v \in Version, NEW t \in {"locked", "retracted"},
                 RequestStatusChange(m, v, t)
          PROVE  P
      <3>1. confirmation'[n][w]["active"] = confirmation[n][w]["active"]
        <4>1. confirmation' = [confirmation EXCEPT ![m][v][t] =
                 [status |-> "pending", expected |-> v, kind |-> StatusKind(m, t)]]
          BY <2>8 DEF RequestStatusChange
        <4> QED BY <1>0, <4>1 DEF Inv, TypeOK
      <3> QED BY <1>2, <3>1 DEF Closed
    <2>9. ASSUME NEW m \in Memory, NEW v \in Version, NEW t \in Effective,
                 ApproveCandidate(m, v, t)
          PROVE  P
      <3>1. Clears(m, v, t, {<<v, t>>})
        BY <2>9, ApproveCandidateStep
      <3>2. <<v, t>> \in Pending(m) /\ t \in Target /\ versions[m][v].status = "pending_confirmation"
        BY <2>9 DEF ApproveCandidate, Effective, Target
      <3>3. <<v, "active">> \notin {<<v, t>>} => <<v, "active">> \notin Pending(m)
        BY <1>0, <3>2 DEF Inv, CandidatesAwaitOneDecision, Candidates
      <3>4. {<<v, t>>} \in SUBSET ({v} \X Target)
        BY <3>2
      <3> QED BY <1>2, <3>1, <3>2, <3>3, <3>4, ClearingDrops
    <2>10. ASSUME NEW m \in Memory, NEW v \in Version, NEW t \in {"locked", "retracted"},
                  v = current[m], Clears(m, v, t, {<<v, t>>})
           PROVE  P
      <3>1. t \in Target /\ {<<v, t>>} \in SUBSET ({v} \X Target)
        BY DEF Target
      <3>2. <<v, "active">> \notin Pending(m)
        <4>1. versions[m][v].status \in Effective
          BY <2>10 DEF Inv, OneEffectiveVersion
        <4>2. confirmation[m][v]["active"].status # "pending"
          BY <4>1, ActiveRequestIsOfCandidate DEF Effective
        <4> QED BY <4>2 DEF Pending
      <3> QED BY <1>2, <2>10, <3>1, <3>2, ClearingDrops
    <2>11. ASSUME NEW m \in Memory, NEW v \in Version, ApproveLock(m, v) PROVE P
      BY <2>10, <2>11, ApproveLockStep
    <2>12. ASSUME NEW m \in Memory, NEW v \in Version, ApproveRetraction(m, v) PROVE P
      BY <2>10, <2>12, ApproveRetractionStep
    <2>13. ASSUME NEW m \in Memory, NEW v \in Version, NEW t \in Target,
                  NEW d \in {"rejected", "cancelled"}, Decline(m, v, t, d)
           PROVE  P
      <3>1. n = m /\ w = v /\ t = "active"
        BY <1>0, <1>2, <2>13, DeclineMoves DEF Closed
      <3>2. versions'[n][w].status = "retracted"
        BY <2>3, <2>13, <3>1, DeclineMoves
      <3>3. RowMoves(n, w)
        BY <1>0 DEF Moves
      <3> QED BY <2>3, <3>2, <3>3 DEF RowMoves, NewlyActivated, TakesEffect, Effective
    <2> QED
      BY <2>5, <2>6, <2>7, <2>8, <2>9, <2>11, <2>12, <2>13
      DEF Next, Publish, RequestChange, Approve, DeclineRequest
  <1> QED BY <1>1, <1>2

-----------------------------------------------------------------------------
(* Governance and distribution together.  A step of the system brings a    *)
(* version into effect, takes the effective version away, leaves both      *)
(* sides of that question alone, or is about threads and links only.       *)

Activation(m, v) ==
    /\ current' = [current EXCEPT ![m] = v]
    /\ \A n \in Memory :
           Activated(n)' = IF n = m THEN Activated(m) \cup {v} ELSE Activated(n)
    /\ \A w \in Activated(m) : w < v
    /\ Distribute(m, v)

SameActivations == \A n \in Memory : Activated(n)' = Activated(n)

Withdrawal(m) ==
    /\ current[m] # None
    /\ current' = [current EXCEPT ![m] = None]
    /\ SameActivations
    /\ Withdraw(m)

Undistributed ==
    /\ current' = current
    /\ SameActivations
    /\ UNCHANGED distribution

LEMMA LeavingIsUndistributed ==
  ASSUME NEW m \in Memory, LeavesEffective(m), UNCHANGED distribution
  PROVE  Undistributed
  <1>1. \A n \in Memory \ {m} : Activated(n)' = Activated(n)
    BY ElsewhereIsKept DEF LeavesEffective
  <1> QED BY <1>1 DEF LeavesEffective, Undistributed, SameActivations

LEMMA ClearingActivates ==
  ASSUME Inv, Inv', NEW m \in Memory, NEW v \in Version, NEW status \in Effective,
         NEW A \in SUBSET ({v} \X Target), Clears(m, v, status, A),
         \A w \in Activated(m) : w < v, Distribute(m, v)
  PROVE  Activation(m, v)
  <1>1. status \in Target /\ status # "retracted"
    BY DEF Effective, Target
  <1>2. Activated(m)' = Activated(m) \cup {v} /\ current'[m] = v
    BY <1>1, AfterClearing DEF Clears, VersionBecomes
  <1>3. \A n \in Memory \ {m} : Activated(n)' = Activated(n) /\ current'[n] = current[n]
    BY ElsewhereIsKept DEF Clears, Elsewhere
  <1>4. current' = [current EXCEPT ![m] = v]
    BY <1>2, <1>3 DEF Inv, TypeOK
  <1>5. \A n \in Memory :
          Activated(n)' = IF n = m THEN Activated(m) \cup {v} ELSE Activated(n)
    BY <1>2, <1>3
  <1> QED BY <1>4, <1>5 DEF Activation

LEMMA SystemPublishMoves ==
  ASSUME Inv, NEW m \in Memory, SystemPublish(m)
  PROVE  /\ Inv'
         /\ Undistributed \/ \E v \in Version : Activation(m, v)
  <1>1. PICK v \in Version, in \in PublishInput :
          \/ PublishDirect(m, v, in) /\ Distribute(m, v)
          \/ PublishForReview(m, v, in) /\ UNCHANGED distribution
    BY DEF SystemPublish
  <1>2. CASE PublishDirect(m, v, in) /\ Distribute(m, v)
    <2>1. Inv' /\ Clears(m, v, "active", {})
      BY <1>2, PublishDirectStep
    <2>2. \A w \in Activated(m) : w < v
      <3>1. \A w \in Activated(m) : w \in Stored(m)
        BY DEF Inv, ActivationIsRecorded, Activated, Stored
      <3> QED BY <1>2, <3>1 DEF PublishDirect, IsNextVersion
    <2>3. "active" \in Effective /\ {} \in SUBSET ({v} \X Target)
      BY DEF Effective
    <2>4. Activation(m, v)
      BY <1>2, <2>1, <2>2, <2>3, ClearingActivates
    <2> QED BY <2>1, <2>4
  <1>3. CASE PublishForReview(m, v, in) /\ UNCHANGED distribution
    BY <1>3, PublishForReviewStep, LeavingIsUndistributed
  <1> QED BY <1>1, <1>2, <1>3

LEMMA SystemApproveMoves ==
  ASSUME Inv, NEW m \in Memory, SystemApprove(m)
  PROVE  /\ Inv'
         /\ Undistributed \/ Withdrawal(m) \/ \E v \in Version : Activation(m, v)
  <1>1. PICK v \in Version :
          \/ ApproveRetraction(m, v) /\ Withdraw(m)
          \/ ApproveLock(m, v) /\ UNCHANGED distribution
          \/ \E t \in Effective : ApproveCandidate(m, v, t) /\ Distribute(m, v)
    BY DEF SystemApprove
  <1>2. ASSUME ApproveRetraction(m, v), Withdraw(m)
        PROVE  Inv' /\ Withdrawal(m)
    <2>1. Inv' /\ Clears(m, v, "retracted", {<<v, "retracted">>}) /\ v = current[m]
      BY <1>2, ApproveRetractionStep
    <2>2. "retracted" \in Target /\ {<<v, "retracted">>} \in SUBSET ({v} \X Target)
      BY DEF Target
    <2>3. Activated(m)' = Activated(m) \cup {v}
      BY <2>1, <2>2, AfterClearing
    <2>4. v \in Activated(m)
      BY <2>1, CurrentIsActivated
    <2>5. \A n \in Memory \ {m} : Activated(n)' = Activated(n)
      BY <2>1, ElsewhereIsKept DEF Clears
    <2>6. current' = [current EXCEPT ![m] = None]
      BY <1>2 DEF ApproveRetraction, RetractEffective
    <2>7. SameActivations
      <3>1. Activated(m)' = Activated(m)
        BY <2>3, <2>4
      <3> QED BY <2>5, <3>1 DEF SameActivations
    <2>8. current[m] # None
      BY <2>1, VersionsArePositive
    <2> QED BY <1>2, <2>1, <2>6, <2>7, <2>8 DEF Withdrawal
  <1>3. ASSUME ApproveLock(m, v), UNCHANGED distribution
        PROVE  Inv' /\ Undistributed
    <2>1. Inv' /\ Clears(m, v, "locked", {<<v, "locked">>}) /\ v = current[m]
      BY <1>3, ApproveLockStep
    <2>2. "locked" \in Target /\ {<<v, "locked">>} \in SUBSET ({v} \X Target)
      BY DEF Target
    <2>3. Activated(m)' = Activated(m) \cup {v}
      BY <2>1, <2>2, AfterClearing
    <2>4. v \in Activated(m)
      BY <2>1, CurrentIsActivated
    <2>5. \A n \in Memory \ {m} : Activated(n)' = Activated(n)
      BY <2>1, ElsewhereIsKept DEF Clears
    <2>6. SameActivations
      <3>1. Activated(m)' = Activated(m)
        BY <2>3, <2>4
      <3> QED BY <2>5, <3>1 DEF SameActivations
    <2>7. current' = current
      BY <1>3 DEF ApproveLock, LockEffective
    <2> QED BY <1>3, <2>1, <2>6, <2>7 DEF Undistributed
  <1>4. ASSUME NEW t \in Effective, ApproveCandidate(m, v, t), Distribute(m, v)
        PROVE  Inv' /\ Activation(m, v)
    <2>1. Inv' /\ Clears(m, v, t, {<<v, t>>}) /\ v \in Candidates(m)
      BY <1>4, ApproveCandidateStep
    <2>2. {<<v, t>>} \in SUBSET ({v} \X Target)
      BY DEF Effective, Target
    <2>3. \A w \in Activated(m) : w < v
      BY <2>1 DEF Inv, ActivationMovesForward
    <2> QED BY <1>4, <2>1, <2>2, <2>3, ClearingActivates
  <1> QED BY <1>1, <1>2, <1>3, <1>4

LEMMA SystemRequestMoves ==
  ASSUME Inv, NEW m \in Memory, SystemRequest(m)
  PROVE  Inv' /\ Undistributed
  <1>1. UNCHANGED distribution
    BY DEF SystemRequest
  <1>2. Inv' /\ LeavesEffective(m)
    <2>1. ASSUME NEW v \in Version, NEW t \in {"locked", "retracted"},
                 RequestStatusChange(m, v, t)
          PROVE  Inv' /\ LeavesEffective(m)
      BY <2>1, RequestStatusChangeStep
    <2>2. ASSUME NEW v \in Version, NEW t \in Target,
                 NEW d \in {"rejected", "cancelled"}, Decline(m, v, t, d)
          PROVE  Inv' /\ LeavesEffective(m)
      BY <2>2, DeclineStep
    <2> QED BY <2>1, <2>2 DEF SystemRequest, RequestChange, DeclineRequest
  <1> QED BY <1>1, <1>2, LeavingIsUndistributed

(* The four kinds of steps.                                                *)
LEMMA SystemMoves ==
  ASSUME Inv, [SystemNext]_system
  PROVE  /\ Inv'
         /\ \/ Undistributed
            \/ \E m \in Memory : Withdrawal(m)
            \/ \E m \in Memory, v \in Version : Activation(m, v)
            \/ ThreadStep
  <1>1. CASE UNCHANGED system
    <2>1. Inv'
      BY <1>1, InvStep DEF system
    <2> QED BY <1>1, <2>1 DEF system, vars, Undistributed, SameActivations, Activated
  <1>2. ASSUME NEW m \in Memory, SystemPublish(m) \/ SystemApprove(m) \/ SystemRequest(m)
        PROVE  /\ Inv'
               /\ \/ Undistributed
                  \/ Withdrawal(m)
                  \/ \E v \in Version : Activation(m, v)
    BY <1>2, SystemPublishMoves, SystemApproveMoves, SystemRequestMoves
  <1>3. CASE ThreadStep
    <2>1. Inv'
      BY <1>3, InvStep DEF ThreadStep
    <2> QED BY <1>3, <2>1
  <1> QED BY <1>1, <1>2, <1>3 DEF SystemNext

-----------------------------------------------------------------------------
(* The distribution the system implements: what is effective is current,   *)
(* and the newest version is the greatest one activated, which exists.     *)

HasNewest ==
    \A m \in Memory :
        Activated(m) # {} => \E v \in Activated(m) : \A w \in Activated(m) : w <= v

LEMMA NewestIsGreatest ==
  ASSUME NEW m \in Memory, HasNewest
  PROVE  /\ Activated(m) = {} => Newest(m) = None
         /\ Activated(m) # {} =>
                Newest(m) \in Activated(m) /\ \A w \in Activated(m) : w <= Newest(m)
  <1> HIDE DEF Activated
  <1>1. CASE Activated(m) = {}
    BY <1>1 DEF Newest
  <1>2. CASE Activated(m) # {}
    <2>1. \E v \in Activated(m) : \A w \in Activated(m) : w <= v
      BY <1>2 DEF HasNewest
    <2>2. Newest(m) = CHOOSE v \in Activated(m) : \A w \in Activated(m) : w <= v
      BY <1>2 DEF Newest
    <2> QED BY <1>2, <2>1, <2>2
  <1> QED BY <1>1, <1>2

(* The newest version depends on nothing but what was activated.           *)
LEMMA NewestFollows ==
  ASSUME NEW n, Activated(n)' = Activated(n)
  PROVE  Newest(n)' = Newest(n)
  <1> DEFINE GreatestOf(S) == IF S = {} THEN None
                              ELSE CHOOSE v \in S : \A w \in S : w <= v
  <1>1. Newest(n) = GreatestOf(Activated(n)) /\ Newest(n)' = GreatestOf(Activated(n)')
    BY DEF Newest
  <1> HIDE DEF GreatestOf
  <1> QED BY <1>1

(* What Activation does to the newest version.                             *)
LEMMA ActivationIsNewest ==
  ASSUME HasNewest, NEW m \in Memory, NEW v \in Version, Activation(m, v)
  PROVE  /\ HasNewest'
         /\ v > Newest(m)
         /\ [n \in Memory |-> Newest(n)]' = [[n \in Memory |-> Newest(n)] EXCEPT ![m] = v]
  <1>1. /\ Activated(m)' = Activated(m) \cup {v}
        /\ \A n \in Memory \ {m} : Activated(n)' = Activated(n)
        /\ \A w \in Activated(m) : w < v
    BY DEF Activation
  <1>2. Activated(m) \subseteq Version /\ Version \subseteq Int /\ v > None
    BY VersionsArePositive, ConstantsAssumption DEF Activated, Version, None
  <1>3. ASSUME NEW w \in Activated(m)'
        PROVE  w <= v
    <2>1. w \in Activated(m) \/ w = v
      BY <1>1
    <2>2. w \in Int /\ v \in Int
      BY <1>2, <2>1
    <2>3. w \in Activated(m) => w < v
      BY <1>1
    <2> QED BY <2>1, <2>2, <2>3
  <1>4. HasNewest'
    <2> SUFFICES ASSUME NEW n \in Memory, Activated(n)' # {}
                 PROVE  \E x \in Activated(n)' : \A w \in Activated(n)' : w <= x
      BY DEF HasNewest
    <2> HIDE DEF Activated
    <2>1. CASE n = m
      BY <1>1, <1>3, <2>1
    <2>2. CASE n # m
      BY <1>1, <2>2 DEF HasNewest
    <2> QED BY <2>1, <2>2
  <1>5. v > Newest(m)
    <2> HIDE DEF Activated
    <2>1. Activated(m) # {} => Newest(m) \in Activated(m)
      BY NewestIsGreatest
    <2>2. Activated(m) = {} => Newest(m) = None
      BY NewestIsGreatest
    <2> QED BY <1>1, <1>2, <2>1, <2>2
  <1>6. Newest(m)' = v
    <2> HIDE DEF Activated
    <2>1. Newest(m)' = CHOOSE x \in Activated(m)' : \A w \in Activated(m)' : w <= x
      BY <1>1 DEF Newest
    <2>2. v \in Activated(m)' /\ Activated(m)' \subseteq Version
      BY <1>1, <1>2
    <2>3. Newest(m)' \in Activated(m)' /\ v <= Newest(m)'
      BY <1>3, <2>1, <2>2
    <2>4. Newest(m)' <= v /\ Newest(m)' \in Int /\ v \in Int
      BY <1>2, <1>3, <2>2, <2>3
    <2> QED BY <2>3, <2>4
  <1>7. \A n \in Memory \ {m} : Newest(n)' = Newest(n)
    BY <1>1, NewestFollows
  <1>8. [n \in Memory |-> Newest(n)]' = [[n \in Memory |-> Newest(n)] EXCEPT ![m] = v]
    <2> HIDE DEF Newest
    <2> QED BY <1>6, <1>7
  <1> QED BY <1>4, <1>5, <1>8

LEMMA SameNewest ==
  ASSUME SameActivations
  PROVE  /\ HasNewest => HasNewest'
         /\ [n \in Memory |-> Newest(n)]' = [n \in Memory |-> Newest(n)]
  <1>1. \A n \in Memory : Newest(n)' = Newest(n)
    BY NewestFollows DEF SameActivations
  <1>2. HasNewest => HasNewest'
    <2> HIDE DEF Activated
    <2> QED BY DEF SameActivations, HasNewest
  <1> QED BY <1>1, <1>2

LEMMA ThreadStepIsQuiet ==
  ASSUME ThreadStep
  PROVE  SameActivations /\ current' = current
  BY DEF ThreadStep, vars, SameActivations, Activated

LEMMA DistributionInit == SystemInit => Distribution!Init /\ HasNewest
  <1> SUFFICES ASSUME SystemInit PROVE Distribution!Init /\ HasNewest
    OBVIOUS
  <1>1. \A m \in Memory : Activated(m) = {}
    BY DEF SystemInit, Init, NoVersion, Activated
  <1>2. \A m \in Memory : Newest(m) = None
    BY <1>1 DEF Newest
  <1>3. HasNewest
    BY <1>1 DEF HasNewest
  <1>4. Distribution!None = None /\ Distribution!Version = Version
    BY DEF Distribution!None, Distribution!Version, None, Version
  <1>5. /\ current = [m \in Memory |-> Distribution!None]
        /\ [m \in Memory |-> Newest(m)] = [m \in Memory |-> Distribution!None]
    BY <1>2, <1>4 DEF SystemInit, Init
  <1>6. Distribution!Init
    BY <1>4, <1>5 DEF SystemInit, Distribution!Init
  <1> QED BY <1>3, <1>6

LEMMA DistributionStep ==
  ASSUME Inv, HasNewest, [SystemNext]_system
  PROVE  HasNewest' /\ [Distribution!Next]_(Distribution!vars)
  <1>0. Distribution!None = None /\ Distribution!Version = Version
    BY DEF Distribution!None, Distribution!Version, None, Version
  <1>1. CASE Undistributed
    <2>1. HasNewest' /\ [n \in Memory |-> Newest(n)]' = [n \in Memory |-> Newest(n)]
      BY <1>1, SameNewest DEF Undistributed
    <2>2. UNCHANGED Distribution!vars
      BY <1>1, <2>1 DEF Undistributed, distribution, Distribution!vars
    <2> QED BY <2>1, <2>2
  <1>2. ASSUME NEW m \in Memory, Withdrawal(m)
        PROVE  HasNewest' /\ Distribution!Next
    <2>1. HasNewest' /\ [n \in Memory |-> Newest(n)]' = [n \in Memory |-> Newest(n)]
      BY <1>2, SameNewest DEF Withdrawal
    <2>2. Distribution!Retract(m)
      BY <1>0, <1>2, <2>1 DEF Withdrawal, Withdraw, Distribution!Retract
    <2> QED BY <2>1, <2>2 DEF Distribution!Next
  <1>3. ASSUME NEW m \in Memory, NEW v \in Version, Activation(m, v)
        PROVE  HasNewest' /\ Distribution!Next
    <2>1. /\ HasNewest'
          /\ v > Newest(m)
          /\ [n \in Memory |-> Newest(n)]' = [[n \in Memory |-> Newest(n)] EXCEPT ![m] = v]
      BY <1>3, ActivationIsNewest
    <2>2. PICK source \in Distribution!Source : Distribution!DistributeActivation(m, v, source)
      BY <1>3 DEF Activation, Distribute
    <2>3. v > [n \in Memory |-> Newest(n)][m]
      BY <2>1
    <2>4. Distribution!Activate(m, v, source)
      BY <1>3, <2>1, <2>2, <2>3 DEF Activation, Distribution!Activate
    <2> QED BY <1>0, <2>1, <2>4 DEF Distribution!Next
  <1>4. CASE ThreadStep
    <2>1. HasNewest'
      BY <1>4, ThreadStepIsQuiet, SameNewest
    <2>2. Distribution!Next
      BY <1>4 DEF ThreadStep, Distribution!Next
    <2> QED BY <2>1, <2>2
  <1> QED BY <1>1, <1>2, <1>3, <1>4, SystemMoves

LEMMA SystemStepsGovern == [SystemNext]_system => [Next]_vars
  BY DEF system, SystemNext, SystemPublish, SystemApprove, SystemRequest, ThreadStep,
         Next, Publish, Approve

LEMMA SystemInvariance == SystemSpec => [](Inv /\ HasNewest)
  <1>1. SystemInit => Inv /\ HasNewest
    BY InvInit, DistributionInit DEF SystemInit
  <1>2. Inv /\ HasNewest /\ [SystemNext]_system => (Inv /\ HasNewest)'
    BY SystemMoves, DistributionStep
  <1> QED BY <1>1, <1>2, PTL DEF SystemSpec

(* Every transaction of the service, with all it does to worksets and      *)
(* dependencies, is a step of Worksets: governance is the environment that *)
(* component assumes, and what is proved of it holds of the whole.         *)
THEOREM DistributionIsImplemented == SystemSpec => ImplementsDistribution
  BY DistributionInit, DistributionStep, SystemInvariance, PTL
     DEF SystemSpec, ImplementsDistribution, Distribution!Spec

(* The service's rules of governance hold of the whole system.             *)
THEOREM SystemIsGoverned == SystemSpec => Spec
  BY SystemStepsGovern, PTL DEF SystemSpec, SystemInit, Spec

-----------------------------------------------------------------------------
(* What a thread was given or promised took effect.  Versions stay         *)
(* activated, and each statement on a workset row writes either the        *)
(* effective version or one the row has already.                           *)

GivenRow(A) ==
    [state : {"absent", "pending", "current", "retracted"},
     synced : A \cup {None}, consumed : A \cup {None}, pending : A \cup {None},
     own : BOOLEAN]

RowsGiven ==
    /\ workset \in [Thread -> [Memory -> GivenRow(Version)]]
    /\ \A th \in Thread, m \in Memory : workset[th][m] \in GivenRow(Activated(m))

LEMMA GivenStaged ==
  ASSUME NEW A, NEW row \in GivenRow(A), NEW v \in A, NEW th, NEW S
  PROVE  /\ Distribution!Staged(row, v, FALSE) \in GivenRow(A)
         /\ Distribution!Staged(row, v, th \in S) \in GivenRow(A)
  <1>1. ASSUME NEW own \in BOOLEAN
        PROVE  Distribution!Staged(row, v, own) \in GivenRow(A)
    BY <1>1 DEF GivenRow, Distribution!Staged
  <1>2. CASE th \in S
    <2>1. Distribution!Staged(row, v, th \in S) = Distribution!Staged(row, v, TRUE)
      BY <1>2, Zenon DEF Distribution!Staged
    <2> QED BY <1>1, <2>1
  <1>3. CASE th \notin S
    <2>1. Distribution!Staged(row, v, th \in S) = Distribution!Staged(row, v, FALSE)
      BY <1>3, Zenon DEF Distribution!Staged
    <2> QED BY <1>1, <2>1
  <1> QED BY <1>1, <1>2, <1>3

LEMMA GivenRetracted ==
  ASSUME NEW A, NEW row \in GivenRow(A)
  PROVE  Distribution!Retracted(row) \in GivenRow(A)
  BY DEF GivenRow, Distribution!Retracted, Distribution!None, None

LEMMA GivenBrought ==
  ASSUME NEW A, NEW row \in GivenRow(A)
  PROVE  /\ [row EXCEPT !.state = "current", !.synced = row.pending,
                        !.pending = Distribution!None] \in GivenRow(A)
         /\ [row EXCEPT !.state = "current", !.pending = Distribution!None] \in GivenRow(A)
         /\ [row EXCEPT !.consumed = row.synced] \in GivenRow(A)
         /\ Distribution!NoWorkset \in GivenRow(A)
  <1>1. [row EXCEPT !.state = "current", !.synced = row.pending,
                    !.pending = Distribution!None] \in GivenRow(A)
    BY DEF GivenRow, Distribution!None, None
  <1>2. [row EXCEPT !.state = "current", !.pending = Distribution!None] \in GivenRow(A)
    BY DEF GivenRow, Distribution!None, None
  <1>3. [row EXCEPT !.consumed = row.synced] \in GivenRow(A)
    BY DEF GivenRow
  <1>4. Distribution!NoWorkset \in GivenRow(A)
    BY DEF GivenRow, Distribution!NoWorkset, Distribution!None, None
  <1> QED BY <1>1, <1>2, <1>3, <1>4

LEMMA GivenGrows ==
  ASSUME NEW A, NEW B, A \subseteq B
  PROVE  GivenRow(A) \subseteq GivenRow(B)
  BY DEF GivenRow

(* The function's shape follows from its rows.                             *)
LEMMA RowsGivenSuffice ==
  ASSUME RowsGiven,
         workset' = [th \in Thread |-> [m \in Memory |-> workset'[th][m]]],
         \A th \in Thread, m \in Memory : workset'[th][m] \in GivenRow(Activated(m)')
  PROVE  RowsGiven'
  <1>1. \A m \in Memory : Activated(m)' \subseteq Version
    BY DEF Activated
  <1>2. \A th \in Thread, m \in Memory : workset'[th][m] \in GivenRow(Version)
    BY <1>1, GivenGrows
  <1>3. workset' \in [Thread -> [Memory -> GivenRow(Version)]]
    BY <1>2
  <1> QED BY <1>3 DEF RowsGiven

(* Rows change one thread at a time, in the steps of a thread.             *)
LEMMA OneThreadSuffices ==
  ASSUME RowsGiven, SameActivations, NEW th \in Thread, NEW rows,
         workset' = [workset EXCEPT ![th] = rows],
         rows = [m \in Memory |-> rows[m]],
         \A m \in Memory : rows[m] \in GivenRow(Activated(m))
  PROVE  RowsGiven'
  <1>1. \A t \in Thread : workset'[t] = IF t = th THEN rows ELSE workset[t]
    BY DEF RowsGiven
  <1>2. \A t \in Thread : workset'[t] = [m \in Memory |-> workset'[t][m]]
    BY <1>1 DEF RowsGiven
  <1>3. workset' = [t \in Thread |-> [m \in Memory |-> workset'[t][m]]]
    <2>1. workset' = [t \in Thread |-> workset'[t]]
      BY DEF RowsGiven
    <2> QED BY <1>2, <2>1
  <1>4. \A t \in Thread, m \in Memory : workset'[t][m] \in GivenRow(Activated(m)')
    BY <1>1 DEF RowsGiven, SameActivations
  <1> QED BY <1>3, <1>4, RowsGivenSuffice

LEMMA ActivationGives ==
  ASSUME RowsGiven, NEW m \in Memory, NEW v \in Version, Activation(m, v)
  PROVE  RowsGiven'
  <1>1. PICK source \in Distribution!Source : Distribution!DistributeActivation(m, v, source)
    BY DEF Activation, Distribute
  <1>2. workset' = [th \in Thread |-> [workset[th] EXCEPT ![m] =
           IF Distribution!HearsOf(th, m) \/ (th \in source /\ Distribution!Live(th))
           THEN Distribution!Staged(workset[th][m], v, th \in source) ELSE workset[th][m]]]
    BY <1>1 DEF Distribution!DistributeActivation
  <1>3. \A n \in Memory :
          Activated(n)' = IF n = m THEN Activated(m) \cup {v} ELSE Activated(n)
    BY DEF Activation
  <1>4. workset' = [th \in Thread |-> [n \in Memory |-> workset'[th][n]]]
    BY <1>2 DEF RowsGiven
  <1>5. ASSUME NEW th \in Thread, NEW n \in Memory
        PROVE  workset'[th][n] \in GivenRow(Activated(n)')
    <2>1. Activated(n) \subseteq Activated(n)'
      BY <1>3
    <2>2. workset[th][n] \in GivenRow(Activated(n)')
      BY <2>1, GivenGrows DEF RowsGiven
    <2>3. \/ workset'[th][n] = workset[th][n]
          \/ n = m /\ workset'[th][n] = Distribution!Staged(workset[th][n], v, th \in source)
      BY <1>2 DEF RowsGiven
    <2>4. n = m => Distribution!Staged(workset[th][n], v, th \in source)
                       \in GivenRow(Activated(n)')
      <3>1. n = m => v \in Activated(n)'
        BY <1>3
      <3> QED BY <2>2, <3>1, GivenStaged
    <2> QED BY <2>2, <2>3, <2>4
  <1> QED BY <1>4, <1>5, RowsGivenSuffice

LEMMA WithdrawalGives ==
  ASSUME RowsGiven, NEW m \in Memory, Withdrawal(m)
  PROVE  RowsGiven'
  <1>1. workset' = [th \in Thread |-> [workset[th] EXCEPT ![m] =
           IF Distribution!Live(th) /\ Distribution!Holds(th, m)
           THEN Distribution!Retracted(workset[th][m]) ELSE workset[th][m]]]
    BY DEF Withdrawal, Withdraw, Distribution!DistributeRetraction
  <1>2. workset' = [th \in Thread |-> [n \in Memory |-> workset'[th][n]]]
    BY <1>1 DEF RowsGiven
  <1>3. ASSUME NEW th \in Thread, NEW n \in Memory
        PROVE  workset'[th][n] \in GivenRow(Activated(n)')
    <2>1. workset[th][n] \in GivenRow(Activated(n)')
      BY DEF RowsGiven, Withdrawal, SameActivations
    <2>2. workset'[th][n] \in {workset[th][n], Distribution!Retracted(workset[th][n])}
      BY <1>1 DEF RowsGiven
    <2> QED BY <2>1, <2>2, GivenRetracted
  <1> QED BY <1>2, <1>3, RowsGivenSuffice

LEMMA CurrentWasActivated ==
  ASSUME Inv, NEW m \in Memory, current[m] # None
  PROVE  current[m] \in Activated(m)
  BY CurrentIsActivated DEF Inv, TypeOK

LEMMA StagedForGives ==
  ASSUME Inv, RowsGiven, NEW th \in Thread, NEW status, NEW selectors, NEW m \in Memory
  PROVE  Distribution!StagedFor(th, status, selectors)[m] \in GivenRow(Activated(m))
  <1>1. workset[th][m] \in GivenRow(Activated(m))
    BY DEF RowsGiven
  <1>2. current[m] # None =>
          Distribution!Staged(workset[th][m], current[m], FALSE) \in GivenRow(Activated(m))
    BY <1>1, CurrentWasActivated, GivenStaged
  <1> QED BY <1>1, <1>2 DEF Distribution!StagedFor, Distribution!None, None

LEMMA RegisterThreadGives ==
  ASSUME Inv, RowsGiven, SameActivations, NEW th \in Thread, NEW status, NEW selectors,
         Distribution!RegisterThread(th, status, selectors)
  PROVE  RowsGiven'
  <1> DEFINE rows == Distribution!StagedFor(th, status, subscription[th] \cup selectors)
  <1>1. workset' = [workset EXCEPT ![th] = rows]
    BY DEF Distribution!RegisterThread
  <1>2. rows = [m \in Memory |-> rows[m]]
    BY DEF Distribution!StagedFor
  <1>3. \A m \in Memory : rows[m] \in GivenRow(Activated(m))
    BY StagedForGives
  <1> HIDE DEF rows
  <1> QED BY <1>1, <1>2, <1>3, OneThreadSuffices

LEMMA ConfigureThreadGives ==
  ASSUME Inv, RowsGiven, SameActivations, NEW th \in Thread, NEW status, NEW selectors,
         NEW toggles, Distribution!ConfigureThread(th, status, selectors, toggles)
  PROVE  RowsGiven'
  <1> DEFINE stages == \/ thread[th] # status
                       \/ toggles
                       \/ selectors \ subscription[th] # {}
             staged == IF stages THEN Distribution!StagedFor(th, status, selectors)
                       ELSE workset[th]
             reconciled == [m \in Memory |->
                 IF /\ status = "live"
                    /\ current[m] = Distribution!None
                    /\ staged[m].state # "absent"
                 THEN Distribution!Retracted(staged[m]) ELSE staged[m]]
             rows == [m \in Memory |->
                 IF Distribution!Removed(reconciled[m],
                        Distribution!MatchesWith(th, m, status, selectors))
                 THEN Distribution!NoWorkset ELSE reconciled[m]]
  <1>1. workset' = [workset EXCEPT ![th] = rows]
    BY DEF Distribution!ConfigureThread
  <1>2. ASSUME NEW m \in Memory
        PROVE  rows[m] \in GivenRow(Activated(m))
    <2>1. staged[m] \in GivenRow(Activated(m))
      <3>1. staged \in {Distribution!StagedFor(th, status, selectors), workset[th]}
        OBVIOUS
      <3>2. workset[th][m] \in GivenRow(Activated(m))
        BY DEF RowsGiven
      <3> HIDE DEF staged
      <3> QED BY <3>1, <3>2, StagedForGives
    <2>2. reconciled[m] \in {Distribution!Retracted(staged[m]), staged[m]}
      <3> HIDE DEF staged
      <3> QED OBVIOUS
    <2>3. rows[m] \in {Distribution!NoWorkset, reconciled[m]}
      <3> HIDE DEF reconciled
      <3> QED OBVIOUS
    <2> HIDE DEF staged, reconciled, rows
    <2>4. Distribution!Retracted(staged[m]) \in GivenRow(Activated(m))
      BY <2>1, GivenRetracted
    <2>5. Distribution!NoWorkset \in GivenRow(Activated(m))
      BY <2>1, GivenBrought
    <2> QED BY <2>1, <2>2, <2>3, <2>4, <2>5
  <1>3. rows = [m \in Memory |-> rows[m]]
    <2> HIDE DEF reconciled
    <2> QED OBVIOUS
  <1> HIDE DEF rows
  <1> QED BY <1>1, <1>2, <1>3, OneThreadSuffices

LEMMA RevokeProjectLinkGives ==
  ASSUME RowsGiven, SameActivations, NEW source, NEW target,
         Distribution!RevokeProjectLink(source, target)
  PROVE  RowsGiven'
  <1>1. workset' = [th \in Thread |-> [m \in Memory |->
           IF Distribution!LosesWithLink(th, m, source, target)
           THEN Distribution!Retracted(workset[th][m]) ELSE workset[th][m]]]
    BY DEF Distribution!RevokeProjectLink
  <1>2. workset' = [th \in Thread |-> [m \in Memory |-> workset'[th][m]]]
    BY <1>1
  <1>3. ASSUME NEW th \in Thread, NEW m \in Memory
        PROVE  workset'[th][m] \in GivenRow(Activated(m)')
    <2>1. workset[th][m] \in GivenRow(Activated(m)')
      BY DEF RowsGiven, SameActivations
    <2>2. workset'[th][m] \in {workset[th][m], Distribution!Retracted(workset[th][m])}
      BY <1>1
    <2> QED BY <2>1, <2>2, GivenRetracted
  <1> QED BY <1>2, <1>3, RowsGivenSuffice

LEMMA SyncGives ==
  ASSUME RowsGiven, SameActivations, NEW th \in Thread,
         Distribution!SyncAtSafeBoundary(th)
  PROVE  RowsGiven'
  <1> DEFINE rows == [m \in Memory |->
           IF workset[th][m].state = "pending" THEN Distribution!Synced(th, m)
           ELSE workset[th][m]]
  <1>1. workset' = [workset EXCEPT ![th] = rows]
    BY DEF Distribution!SyncAtSafeBoundary
  <1>2. ASSUME NEW m \in Memory
        PROVE  rows[m] \in GivenRow(Activated(m))
    <2> DEFINE row == workset[th][m]
               brought == [row EXCEPT !.state = "current", !.synced = row.pending,
                                      !.pending = Distribution!None]
    <2>1. row \in GivenRow(Activated(m))
      BY DEF RowsGiven
    <2>2. rows[m] \in {row, Distribution!Retracted(row), brought}
      BY DEF Distribution!Synced
    <2>3. brought \in GivenRow(Activated(m)) /\ Distribution!Retracted(row) \in GivenRow(Activated(m))
      <3> HIDE DEF row
      <3> QED BY <2>1, GivenRetracted, GivenBrought
    <2> HIDE DEF row, brought, rows
    <2> QED BY <2>1, <2>2, <2>3
  <1>3. rows = [m \in Memory |-> rows[m]]
    OBVIOUS
  <1> HIDE DEF rows
  <1> QED BY <1>1, <1>2, <1>3, OneThreadSuffices

LEMMA RecallGives ==
  ASSUME Inv, RowsGiven, SameActivations, NEW th \in Thread, NEW found \in SUBSET Memory,
         Distribution!RecallAndStage(th, found)
  PROVE  RowsGiven'
  <1> DEFINE rows == [m \in Memory |->
           IF m \in found THEN Distribution!Recalled(workset[th][m], current[m])
           ELSE workset[th][m]]
  <1>1. workset' = [workset EXCEPT ![th] = rows]
    BY DEF Distribution!RecallAndStage
  <1>2. ASSUME NEW m \in Memory
        PROVE  rows[m] \in GivenRow(Activated(m))
    <2> DEFINE row == workset[th][m]
               kept == [row EXCEPT !.state = "current", !.pending = Distribution!None]
    <2>1. row \in GivenRow(Activated(m))
      BY DEF RowsGiven
    <2>2. CASE m \in found
      <3>1. current[m] \in Activated(m)
        BY <2>2, CurrentWasActivated DEF Distribution!RecallAndStage, Distribution!None, None
      <3>2. rows[m] \in {kept, Distribution!Staged(row, current[m], FALSE)}
        BY <2>2 DEF Distribution!Recalled
      <3>3. kept \in GivenRow(Activated(m))
        <4> HIDE DEF row
        <4> QED BY <2>1, GivenBrought
      <3>4. Distribution!Staged(row, current[m], FALSE) \in GivenRow(Activated(m))
        <4> HIDE DEF row
        <4> QED BY <2>1, <3>1, GivenStaged
      <3> HIDE DEF rows, kept, row
      <3> QED BY <3>2, <3>3, <3>4
    <2>3. CASE m \notin found
      BY <2>1, <2>3
    <2> QED BY <2>2, <2>3
  <1>3. rows = [m \in Memory |-> rows[m]]
    OBVIOUS
  <1> HIDE DEF rows
  <1> QED BY <1>1, <1>2, <1>3, OneThreadSuffices

LEMMA ConsumeGives ==
  ASSUME RowsGiven, SameActivations, NEW th \in Thread, NEW m \in Memory,
         Distribution!Consume(th, m)
  PROVE  RowsGiven'
  <1> DEFINE row  == workset[th][m]
             used == [row EXCEPT !.consumed = row.synced]
             rows == [n \in Memory |-> IF n = m THEN used ELSE workset[th][n]]
  <1>1. workset' = [workset EXCEPT ![th] = rows]
    BY DEF Distribution!Consume, RowsGiven
  <1>2. ASSUME NEW n \in Memory
        PROVE  rows[n] \in GivenRow(Activated(n))
    <2>1. row \in GivenRow(Activated(m)) /\ workset[th][n] \in GivenRow(Activated(n))
      BY DEF RowsGiven
    <2>2. used \in GivenRow(Activated(m))
      <3> HIDE DEF row
      <3> QED BY <2>1, GivenBrought
    <2> HIDE DEF row, used
    <2> QED BY <2>1, <2>2
  <1>3. rows = [n \in Memory |-> rows[n]]
    OBVIOUS
  <1> HIDE DEF rows
  <1> QED BY <1>1, <1>2, <1>3, OneThreadSuffices

LEMMA UntouchedGives ==
  ASSUME RowsGiven, SameActivations, UNCHANGED workset
  PROVE  RowsGiven'
  BY DEF RowsGiven, SameActivations

LEMMA ThreadStepGives ==
  ASSUME Inv, RowsGiven, ThreadStep
  PROVE  RowsGiven'
  <1>1. SameActivations
    BY ThreadStepIsQuiet
  <1>2. ASSUME NEW th \in Thread, NEW status, NEW selectors,
               Distribution!RegisterThread(th, status, selectors)
        PROVE  RowsGiven'
    BY <1>1, <1>2, RegisterThreadGives
  <1>3. ASSUME NEW th \in Thread, NEW status, NEW selectors, NEW toggles,
               Distribution!ConfigureThread(th, status, selectors, toggles)
        PROVE  RowsGiven'
    BY <1>1, <1>3, ConfigureThreadGives
  <1>4. ASSUME NEW source, NEW target, Distribution!RevokeProjectLink(source, target)
        PROVE  RowsGiven'
    BY <1>1, <1>4, RevokeProjectLinkGives
  <1>5. ASSUME NEW th \in Thread, Distribution!SyncAtSafeBoundary(th)
        PROVE  RowsGiven'
    BY <1>1, <1>5, SyncGives
  <1>6. ASSUME NEW th \in Thread, NEW found \in SUBSET Memory,
               Distribution!RecallAndStage(th, found)
        PROVE  RowsGiven'
    BY <1>1, <1>6, RecallGives
  <1>7. ASSUME NEW th \in Thread, NEW m \in Memory, Distribution!Consume(th, m)
        PROVE  RowsGiven'
    BY <1>1, <1>7, ConsumeGives
  <1>8. CASE UNCHANGED workset
    BY <1>1, <1>8, UntouchedGives
  <1> QED BY <1>2, <1>3, <1>4, <1>5, <1>6, <1>7, <1>8
       DEF ThreadStep, Distribution!LinkProjects, Distribution!AddDependency

LEMMA RowsGivenInit == SystemInit => RowsGiven
  <1> SUFFICES ASSUME SystemInit PROVE RowsGiven
    OBVIOUS
  <1>1. \A A : Distribution!NoWorkset \in GivenRow(A)
    BY DEF GivenRow, Distribution!NoWorkset, Distribution!None, None
  <1> QED BY <1>1 DEF SystemInit, RowsGiven

LEMMA RowsGivenStep ==
  ASSUME Inv, RowsGiven, [SystemNext]_system
  PROVE  RowsGiven'
  <1>1. CASE Undistributed
    BY <1>1, UntouchedGives DEF Undistributed, distribution
  <1> QED BY <1>1, SystemMoves, WithdrawalGives, ActivationGives, ThreadStepGives

(* Whatever a thread holds, has used or awaits was in effect once, and     *)
(* where a human's approval was needed for that it was given.              *)
THEOREM GivenVersionsAreDecided == SystemSpec => []GivenVersionsWereDecided
  <1>1. SystemInit => RowsGiven
    BY RowsGivenInit
  <1>2. Inv /\ HasNewest /\ RowsGiven /\ [SystemNext]_system => RowsGiven'
    BY RowsGivenStep
  <1>3. Inv /\ RowsGiven => GivenVersionsWereDecided
    <2> SUFFICES ASSUME Inv, RowsGiven, NEW th \in Thread, NEW m \in Memory,
                        NEW v \in {workset[th][m].synced, workset[th][m].consumed,
                                   workset[th][m].pending} \ {None}
                 PROVE  /\ versions[m][v].activated
                        /\ versions[m][v].major \/ m \in LevelOne =>
                               \E t \in Effective : <<v, t>> \in Approved(m)
      BY DEF GivenVersionsWereDecided
    <2>1. workset[th][m] \in GivenRow(Activated(m))
      BY DEF RowsGiven
    <2>2. v \in Activated(m)
      BY <2>1 DEF GivenRow
    <2>3. versions[m][v].activated
      BY <2>2 DEF Activated
    <2>4. versions[m][v].major \/ m \in LevelOne =>
              \E t \in Effective : <<v, t>> \in Approved(m)
      BY <2>2 DEF Inv, GovernedVersionsWereApproved
    <2> QED BY <2>3, <2>4
  <1> QED BY <1>1, <1>2, <1>3, SystemInvariance, PTL DEF SystemSpec
=============================================================================
