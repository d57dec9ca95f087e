--------------------------- MODULE Worksets_proofs ---------------------------
(***************************************************************************)
(* Theorems about Worksets for every set of threads, memories, selectors,  *)
(* projects and subjects and every number of versions, and about Delivery  *)
(* for every number of turns and receipts.                                 *)
(*                                                                         *)
(* The argument works row by row: the lemmas of the first part say what    *)
(* the four statements on a workset row leave behind, those of the second  *)
(* what each operation does to an arbitrary row; the steps of the          *)
(* invariants then only compare a row with the memory, the link and the    *)
(* subscription it depends on.                                             *)
(***************************************************************************)
EXTENDS Delivery, TLAPS, FiniteSetTheorems, WellFoundedInduction

LEMMA VersionsArePositive ==
  /\ Version \subseteq Ref
  /\ None \in Ref
  /\ Ref \subseteq Int
  /\ \A v \in Version : v > None
  BY ConstantsAssumption DEF None, Version, Ref

-----------------------------------------------------------------------------
(* What the statements on a row leave behind.                              *)

LEMMA NoWorksetRow == NoWorkset \in WorksetRow
  BY VersionsArePositive DEF NoWorkset, WorksetRow

LEMMA StagedRow ==
  ASSUME NEW row \in WorksetRow, NEW v \in Version, NEW own \in BOOLEAN
  PROVE  /\ Staged(row, v, own) \in WorksetRow
         /\ Staged(row, v, own).state = "pending"
         /\ Staged(row, v, own).pending = v
         /\ Staged(row, v, own).synced = row.synced
         /\ Staged(row, v, own).consumed = row.consumed
  BY VersionsArePositive DEF Staged, WorksetRow

LEMMA StagedForMember ==
  ASSUME NEW row \in WorksetRow, NEW v \in Version, NEW x, NEW A
  PROVE  \E own \in BOOLEAN : Staged(row, v, x \in A) = Staged(row, v, own)
  <1>1. CASE x \in A
    <2>1. Staged(row, v, x \in A) = Staged(row, v, TRUE)
      BY <1>1, Zenon DEF Staged
    <2> QED BY <2>1
  <1>2. CASE x \notin A
    <2>1. Staged(row, v, x \in A) = Staged(row, v, FALSE)
      BY <1>2, Zenon DEF Staged
    <2> QED BY <2>1
  <1> QED BY <1>1, <1>2

LEMMA RetractedRow ==
  ASSUME NEW row \in WorksetRow
  PROVE  /\ Retracted(row) \in WorksetRow
         /\ Retracted(row).state = "retracted"
         /\ Retracted(row).synced = row.synced
         /\ Retracted(row).consumed = row.consumed
  BY VersionsArePositive DEF Retracted, WorksetRow

LEMMA RecalledRow ==
  ASSUME NEW row \in WorksetRow, NEW v \in Version
  PROVE  /\ Recalled(row, v) \in WorksetRow
         /\ Recalled(row, v).synced = row.synced
         /\ Recalled(row, v).consumed = row.consumed
         /\ \/ /\ row.state # "retracted"
               /\ Recalled(row, v).state = "current"
               /\ Recalled(row, v).synced = v
            \/ /\ Recalled(row, v).state = "pending"
               /\ Recalled(row, v).pending = v
  <1>1. CASE row.synced = v /\ row.state # "retracted"
    BY <1>1, VersionsArePositive DEF Recalled, WorksetRow
  <1>2. CASE ~(row.synced = v /\ row.state # "retracted")
    <2>1. Recalled(row, v) = Staged(row, v, FALSE)
      BY <1>2 DEF Recalled
    <2>2. /\ Staged(row, v, FALSE) \in WorksetRow
          /\ Staged(row, v, FALSE).state = "pending"
          /\ Staged(row, v, FALSE).pending = v
          /\ Staged(row, v, FALSE).synced = row.synced
          /\ Staged(row, v, FALSE).consumed = row.consumed
      BY StagedRow
    <2> QED BY <2>1, <2>2
  <1> QED BY <1>1, <1>2

LEMMA SyncedRow ==
  ASSUME TypeOK, NEW th \in Thread, NEW m \in Memory
  PROVE  LET row == workset[th][m]
             new == Synced(th, m)
         IN  /\ new \in WorksetRow
             /\ new.consumed = row.consumed
             /\ \/ /\ ~InScope(th, m) \/ effective[m] = None
                   /\ new.state = "retracted"
                   /\ new.synced = row.synced
                \/ /\ InScope(th, m)
                   /\ effective[m] # None
                   /\ effective[m] # row.pending
                   /\ new = row
                \/ /\ InScope(th, m)
                   /\ effective[m] # None
                   /\ effective[m] = row.pending
                   /\ new.state = "current"
                   /\ new.synced = effective[m]
  <1> DEFINE row == workset[th][m]
  <1>1. row \in WorksetRow
    BY DEF TypeOK
  <1>2. CASE ~InScope(th, m) \/ effective[m] = None
    <2>1. Synced(th, m) = Retracted(row)
      BY <1>2 DEF Synced
    <2> QED BY <1>1, <1>2, <2>1, RetractedRow
  <1>3. CASE InScope(th, m) /\ effective[m] # None /\ effective[m] # row.pending
    <2>1. Synced(th, m) = row
      BY <1>3 DEF Synced
    <2> QED BY <1>1, <1>3, <2>1
  <1>4. CASE InScope(th, m) /\ effective[m] # None /\ effective[m] = row.pending
    <2>1. Synced(th, m) = [row EXCEPT !.state = "current", !.synced = row.pending,
                                      !.pending = None]
      BY <1>4 DEF Synced
    <2> QED BY <1>1, <1>4, <2>1, VersionsArePositive DEF WorksetRow
  <1> QED BY <1>2, <1>3, <1>4

-----------------------------------------------------------------------------
(* The inductive invariant, row by row, and what a step may do to a row.   *)

(* A row in use is in scope; a subscriber has or awaits the effective      *)
(* version; what was used was given before, and what was given was         *)
(* effective by then.                                                      *)
RowOK(th, m) ==
  /\ Holds(th, m) /\ workset[th][m].state # "retracted" => InScope(th, m)
  /\ Matches(th, m) /\ effective[m] # None =>
         \/ workset[th][m].state = "pending" /\ workset[th][m].pending = effective[m]
         \/ workset[th][m].state = "current" /\ workset[th][m].synced = effective[m]
  /\ workset[th][m].consumed <= workset[th][m].synced
  /\ workset[th][m].synced <= newest[m]

(* The effective version is the newest that ever was.                      *)
NewestIsEffective == \A m \in Memory : effective[m] \in {None, newest[m]}

(* No project is linked to itself: revoking a link never touches the rows  *)
(* a thread holds of its own project.                                      *)
NoSelfLink == \A p \in Project : <<p, p>> \notin link

IInv ==
  /\ TypeOK
  /\ NoSelfLink
  /\ NewestIsEffective
  /\ CurrentDependenciesHold
  /\ \A th \in Thread, m \in Memory : RowOK(th, m)

RowStep(th, m) ==
  /\ workset'[th][m].state # "absent" /\ workset'[th][m].synced # workset[th][m].synced
     => /\ workset'[th][m].synced = effective[m]
        /\ workset'[th][m].synced > workset[th][m].synced
        /\ InScope(th, m)
  /\ workset[th][m].consumed # None => workset'[th][m].consumed >= workset[th][m].consumed
  /\ workset[th][m].state = "retracted" => workset'[th][m].state # "current"

LEMMA RowNumbers ==
  ASSUME TypeOK, NEW th \in Thread, NEW m \in Memory
  PROVE  /\ workset[th][m] \in WorksetRow
         /\ workset[th][m].synced \in Int
         /\ workset[th][m].consumed \in Int
         /\ workset[th][m].pending \in Int
         /\ workset[th][m].synced >= None
         /\ workset[th][m].consumed >= None
         /\ workset[th][m].own \in BOOLEAN
         /\ effective[m] \in Ref
         /\ effective[m] # None => effective[m] \in Version
         /\ newest[m] \in Int
         /\ newest[m] >= None
  BY VersionsArePositive DEF TypeOK, WorksetRow, Ref, Version, None

LEMMA UntouchedThreads ==
  ASSUME NEW th, NEW m, UNCHANGED <<thread, subscription, link>>
  PROVE  (InScope(th, m)' <=> InScope(th, m)) /\ (Matches(th, m)' <=> Matches(th, m))
  <1>1. InScope(th, m)' <=> InScope(th, m)
    BY DEF InScope, Linked, SameProject
  <1>2. Matches(th, m)' <=> Matches(th, m)
    BY DEF Matches, MatchesWith, SameProject
  <1> QED BY <1>1, <1>2

(* A row left alone stays in order while its memory, scope and             *)
(* subscription do.                                                        *)
LEMMA UntouchedRow ==
  ASSUME TypeOK, NEW th \in Thread, NEW m \in Memory, RowOK(th, m),
         workset'[th][m] = workset[th][m],
         effective'[m] = effective[m], newest'[m] = newest[m],
         InScope(th, m) => InScope(th, m)',
         Matches(th, m)' => Matches(th, m)
  PROVE  RowOK(th, m)' /\ RowStep(th, m)
  <1>1. workset[th][m].consumed >= workset[th][m].consumed
    BY RowNumbers
  <1> QED BY <1>1 DEF RowOK, RowStep, Holds

(* A row that comes to wait for v of a memory in scope is in order as soon *)
(* as v is what is effective.                                              *)
LEMMA RowStagedForEffective ==
  ASSUME TypeOK, NEW th \in Thread, NEW m \in Memory, RowOK(th, m),
         NEW v \in Version, NEW own \in BOOLEAN,
         workset'[th][m] = Staged(workset[th][m], v, own),
         effective'[m] = v, newest'[m] \in Int, newest[m] <= newest'[m],
         InScope(th, m)'
  PROVE  RowOK(th, m)' /\ RowStep(th, m)
  <1>1. /\ workset'[th][m].state = "pending"
        /\ workset'[th][m].pending = v
        /\ workset'[th][m].synced = workset[th][m].synced
        /\ workset'[th][m].consumed = workset[th][m].consumed
    BY RowNumbers, StagedRow
  <1>2. workset'[th][m].synced <= newest'[m]
    BY <1>1, RowNumbers DEF RowOK
  <1>3. workset'[th][m].consumed >= workset[th][m].consumed
    BY <1>1, RowNumbers
  <1> QED BY <1>1, <1>2, <1>3 DEF RowOK, RowStep, Holds

(* A retracted row is in order whenever nothing of the memory is to be     *)
(* expected by the thread.                                                 *)
LEMMA RowRetracted ==
  ASSUME TypeOK, NEW th \in Thread, NEW m \in Memory, RowOK(th, m),
         workset'[th][m] = Retracted(workset[th][m]),
         newest'[m] = newest[m],
         ~Matches(th, m)' \/ effective'[m] = None
  PROVE  RowOK(th, m)' /\ RowStep(th, m)
  <1>1. /\ workset'[th][m].state = "retracted"
        /\ workset'[th][m].synced = workset[th][m].synced
        /\ workset'[th][m].consumed = workset[th][m].consumed
    BY RowNumbers, RetractedRow
  <1>2. workset'[th][m].consumed >= workset[th][m].consumed
    BY <1>1, RowNumbers
  <1> QED BY <1>1, <1>2 DEF RowOK, RowStep, Holds

-----------------------------------------------------------------------------
(* Governance moves an effective version.                                  *)

LEMMA ActivateKeeps ==
  ASSUME IInv, NEW m \in Memory, NEW v \in Version, NEW source \in Source,
         Activate(m, v, source)
  PROVE  IInv' /\ \A th \in Thread, n \in Memory : RowStep(th, n)
  <1> DEFINE reached(th) == HearsOf(th, m) \/ (th \in source /\ Live(th))
  <1> USE DEF IInv
  <1>1. \A th \in Thread, n \in Memory : workset'[th][n] =
          IF n = m /\ reached(th)
          THEN Staged(workset[th][m], v, th \in source) ELSE workset[th][n]
    BY DEF Activate, DistributeActivation, TypeOK
  <1>2. \A n \in Memory : /\ effective'[n] = IF n = m THEN v ELSE effective[n]
                          /\ newest'[n] = IF n = m THEN v ELSE newest[n]
    BY DEF Activate, TypeOK
  <1>3. newest[m] \in Int /\ newest[m] <= v /\ v \in Int
    <2>1. newest[m] \in Int /\ v \in Int
      BY VersionsArePositive DEF TypeOK
    <2> QED BY <2>1 DEF Activate
  <1>4. \A th \in Thread, n \in Memory :
          (InScope(th, n)' <=> InScope(th, n)) /\ (Matches(th, n)' <=> Matches(th, n))
    <2>1. UNCHANGED <<thread, subscription, link>>
      BY DEF Activate, DistributeActivation
    <2> QED BY <2>1, UntouchedThreads
  <1>5. TypeOK'
    <2>1. ASSUME NEW th \in Thread, NEW n \in Memory
          PROVE  workset'[th][n] \in WorksetRow
      <3>1. workset[th][m] \in WorksetRow /\ workset[th][n] \in WorksetRow
        BY RowNumbers
      <3>2. PICK own \in BOOLEAN :
              Staged(workset[th][m], v, th \in source) = Staged(workset[th][m], v, own)
        BY <3>1, StagedForMember
      <3>3. Staged(workset[th][m], v, own) \in WorksetRow
        BY <3>1, StagedRow
      <3> QED BY <1>1, <3>1, <3>2, <3>3
    <2>2. workset' \in [Thread -> [Memory -> WorksetRow]]
      BY <2>1 DEF Activate, DistributeActivation, TypeOK
    <2>3. dependency' \in [Subject -> [Memory -> [Version -> DependencyStatus]]]
      BY DEF Activate, DistributeActivation, DependencyAfterActivation, TypeOK, DependencyStatus
    <2>4. effective' \in [Memory -> Ref] /\ newest' \in [Memory -> Ref]
      BY VersionsArePositive DEF Activate, TypeOK
    <2> QED BY <2>2, <2>3, <2>4 DEF Activate, DistributeActivation, TypeOK
  <1>6. NewestIsEffective'
    BY <1>2 DEF NewestIsEffective
  <1>7. CurrentDependenciesHold'
    BY <1>2 DEF CurrentDependenciesHold, Activate, DistributeActivation, DependencyAfterActivation
  <1>8. ASSUME NEW th \in Thread, NEW n \in Memory
        PROVE  RowOK(th, n)' /\ RowStep(th, n)
    <2>1. RowOK(th, n)
      OBVIOUS
    <2>2. CASE n = m /\ reached(th)
      <3>1. InScope(th, m)
        BY <2>2 DEF HearsOf, Matches, MatchesWith, InScope, Activate,
                    DistributeActivation, IsSourceThread
      <3>2. effective'[m] = v /\ newest'[m] = v
        BY <1>2
      <3>3. PICK own \in BOOLEAN :
              Staged(workset[th][m], v, th \in source) = Staged(workset[th][m], v, own)
        BY RowNumbers, StagedForMember
      <3>4. workset'[th][m] = Staged(workset[th][m], v, own)
        BY <1>1, <2>2, <3>3
      <3> QED BY <1>3, <1>4, <2>1, <2>2, <3>1, <3>2, <3>3, <3>4, RowStagedForEffective
    <2>3. CASE n = m /\ ~reached(th)
      <3>1. ~Matches(th, m)
        BY <2>3 DEF HearsOf
      <3>2. workset'[th][n] = workset[th][n]
        BY <1>1, <2>3
      <3>3. newest'[n] = v
        BY <1>2, <2>3
      <3>4. workset[th][n].synced <= newest'[n]
        BY <1>3, <2>1, <2>3, <3>3, RowNumbers DEF RowOK
      <3>5. workset'[th][n].consumed >= workset[th][n].consumed
        BY <3>2, RowNumbers
      <3> QED BY <1>4, <2>1, <2>3, <3>1, <3>2, <3>4, <3>5 DEF RowOK, RowStep, Holds
    <2>4. CASE n # m
      BY <1>1, <1>2, <1>4, <2>1, <2>4, UntouchedRow
    <2> QED BY <2>2, <2>3, <2>4
  <1>9. NoSelfLink'
    BY DEF NoSelfLink, Activate, DistributeActivation
  <1> QED BY <1>5, <1>6, <1>7, <1>8, <1>9

LEMMA RetractKeeps ==
  ASSUME IInv, NEW m \in Memory, Retract(m)
  PROVE  IInv' /\ \A th \in Thread, n \in Memory : RowStep(th, n)
  <1> USE DEF IInv
  <1>1. \A th \in Thread, n \in Memory : workset'[th][n] =
          IF n = m /\ Live(th) /\ Holds(th, m)
          THEN Retracted(workset[th][m]) ELSE workset[th][n]
    BY DEF Retract, DistributeRetraction, TypeOK
  <1>2. newest' = newest /\ \A n \in Memory :
          effective'[n] = IF n = m THEN None ELSE effective[n]
    BY DEF Retract, TypeOK
  <1>3. \A th \in Thread, n \in Memory :
          (InScope(th, n)' <=> InScope(th, n)) /\ (Matches(th, n)' <=> Matches(th, n))
    <2>1. UNCHANGED <<thread, subscription, link>>
      BY DEF Retract, DistributeRetraction
    <2> QED BY <2>1, UntouchedThreads
  <1>4. TypeOK'
    <2>1. \A th \in Thread, n \in Memory : workset'[th][n] \in WorksetRow
      BY <1>1, RowNumbers, RetractedRow
    <2>2. workset' \in [Thread -> [Memory -> WorksetRow]]
      BY <2>1 DEF Retract, DistributeRetraction, TypeOK
    <2>3. dependency' \in [Subject -> [Memory -> [Version -> DependencyStatus]]]
      BY DEF Retract, DistributeRetraction, DependencyAfterRetraction, TypeOK, DependencyStatus
    <2>4. effective' \in [Memory -> Ref] /\ newest' \in [Memory -> Ref]
      BY VersionsArePositive DEF Retract, TypeOK
    <2> QED BY <2>2, <2>3, <2>4 DEF Retract, DistributeRetraction, TypeOK
  <1>5. NewestIsEffective'
    BY <1>2 DEF NewestIsEffective
  <1>6. CurrentDependenciesHold'
    BY <1>2 DEF CurrentDependenciesHold, Retract, DistributeRetraction, DependencyAfterRetraction
  <1>7. ASSUME NEW th \in Thread, NEW n \in Memory
        PROVE  RowOK(th, n)' /\ RowStep(th, n)
    <2>1. RowOK(th, n)
      OBVIOUS
    <2>2. CASE n = m /\ Live(th) /\ Holds(th, m)
      BY <1>1, <1>2, <2>1, <2>2, RowRetracted
    <2>3. CASE n = m /\ ~(Live(th) /\ Holds(th, m))
      <3>1. workset'[th][n] = workset[th][n] /\ effective'[n] = None
        BY <1>1, <1>2, <2>3
      <3>2. workset'[th][n].consumed >= workset[th][n].consumed
        BY <3>1, RowNumbers
      <3> QED BY <1>2, <1>3, <2>1, <3>1, <3>2 DEF RowOK, RowStep, Holds
    <2>4. CASE n # m
      BY <1>1, <1>2, <1>3, <2>1, <2>4, UntouchedRow
    <2> QED BY <2>2, <2>3, <2>4
  <1>8. NoSelfLink'
    BY DEF NoSelfLink, Retract, DistributeRetraction
  <1> QED BY <1>4, <1>5, <1>6, <1>7, <1>8

-----------------------------------------------------------------------------
(* Threads, subscriptions and links.                                       *)

(* An operation that leaves memories, dependencies and numbers alone keeps *)
(* the invariant when it keeps the tables' shape and every row.            *)
LEMMA RowsSuffice ==
  ASSUME IInv,
         UNCHANGED <<effective, newest, dependency>>,
         thread' \in [Thread -> Status],
         subscription' \in [Thread -> SUBSET Selector],
         link' \subseteq Project \X Project,
         workset' \in [Thread -> [Memory -> WorksetRow]],
         NoSelfLink',
         \A th \in Thread, n \in Memory : RowOK(th, n)'
  PROVE  IInv'
  <1>1. TypeOK'
    BY DEF IInv, TypeOK
  <1>2. NewestIsEffective' /\ CurrentDependenciesHold'
    BY DEF IInv, NewestIsEffective, CurrentDependenciesHold
  <1> QED BY <1>1, <1>2 DEF IInv

LEMMA StagedForRow ==
  ASSUME TypeOK, NEW th \in Thread, NEW status, NEW selectors, NEW n \in Memory
  PROVE  /\ StagedFor(th, status, selectors)[n] \in WorksetRow
         /\ \/ /\ effective[n] # None
               /\ MatchesWith(th, n, status, selectors)
               /\ StagedFor(th, status, selectors)[n] = Staged(workset[th][n], effective[n], FALSE)
            \/ /\ ~(effective[n] # None /\ MatchesWith(th, n, status, selectors))
               /\ StagedFor(th, status, selectors)[n] = workset[th][n]
  <1>1. workset[th][n] \in WorksetRow /\ (effective[n] # None => effective[n] \in Version)
    BY RowNumbers
  <1>2. effective[n] # None => Staged(workset[th][n], effective[n], FALSE) \in WorksetRow
    BY <1>1, StagedRow
  <1> QED BY <1>1, <1>2 DEF StagedFor

LEMMA RegisterThreadKeeps ==
  ASSUME IInv, NEW th \in Thread, NEW status \in RegisteredStatus,
         NEW selectors \in SUBSET Selector, RegisterThread(th, status, selectors)
  PROVE  IInv' /\ \A t \in Thread, n \in Memory : RowStep(t, n)
  <1> DEFINE enabled == subscription[th] \cup selectors
             S == StagedFor(th, status, enabled)
  <1>1. TypeOK
    BY DEF IInv
  <1>2. UNCHANGED <<effective, newest, link, dependency>>
    BY DEF RegisterThread
  <1>3. /\ workset' = [workset EXCEPT ![th] = S]
        /\ thread' = [thread EXCEPT ![th] = status]
        /\ subscription' = [subscription EXCEPT ![th] = enabled]
    BY DEF RegisterThread
  <1>4. \A t \in Thread : /\ workset'[t] = IF t = th THEN S ELSE workset[t]
                          /\ thread'[t] = IF t = th THEN status ELSE thread[t]
                          /\ subscription'[t] = IF t = th THEN enabled ELSE subscription[t]
    BY <1>1, <1>3 DEF TypeOK
  <1>5. S \in [Memory -> WorksetRow]
    <2>1. \A n \in Memory : S[n] \in WorksetRow
      BY <1>1, StagedForRow
    <2> QED BY <2>1 DEF StagedFor
  <1>6. ASSUME NEW t \in Thread, NEW n \in Memory
        PROVE  RowOK(t, n)' /\ RowStep(t, n)
    <2>1. RowOK(t, n)
      BY DEF IInv
    <2>2. InScope(t, n)' <=> InScope(t, n)
      BY <1>2 DEF InScope, Linked, SameProject
    <2>3. CASE t # th
      <3>1. Matches(t, n)' <=> Matches(t, n)
        BY <1>4, <2>3 DEF Matches, MatchesWith, SameProject
      <3>2. workset'[t][n] = workset[t][n]
        BY <1>4, <2>3
      <3> QED BY <1>1, <1>2, <2>1, <2>2, <3>1, <3>2, UntouchedRow
    <2>4. CASE t = th
      <3>1. Matches(t, n)' <=> MatchesWith(th, n, status, enabled)
        BY <1>4, <2>4 DEF Matches, MatchesWith, SameProject
      <3>2. workset'[t][n] = S[n]
        BY <1>4, <2>4
      <3>3. CASE effective[n] # None /\ MatchesWith(th, n, status, enabled)
        <4>1. workset'[t][n] = Staged(workset[t][n], effective[n], FALSE)
          BY <1>1, <2>4, <3>2, <3>3, StagedForRow
        <4>2. InScope(t, n)'
          BY <2>2, <2>4, <3>3 DEF MatchesWith, InScope
        <4>3. effective'[n] = effective[n] /\ newest'[n] = newest[n] /\ effective[n] \in Version
          BY <1>1, <1>2, <3>3, RowNumbers
        <4>4. newest'[n] \in Int /\ newest[n] <= newest'[n]
          BY <1>1, <4>3, RowNumbers
        <4> QED BY <1>1, <2>1, <4>1, <4>2, <4>3, <4>4, RowStagedForEffective
      <3>4. CASE ~(effective[n] # None /\ MatchesWith(th, n, status, enabled))
        <4>1. workset'[t][n] = workset[t][n]
          BY <2>4, <3>2, <3>4 DEF StagedFor
        <4>2. workset'[t][n].consumed >= workset[t][n].consumed
          BY <1>1, <4>1, RowNumbers
        <4>3. ~(Matches(t, n)' /\ effective'[n] # None)
          BY <1>2, <3>1, <3>4
        <4> QED BY <1>2, <2>1, <2>2, <4>1, <4>2, <4>3 DEF RowOK, RowStep, Holds
      <3> QED BY <3>3, <3>4
    <2> QED BY <2>3, <2>4
  <1>7. /\ thread' \in [Thread -> Status]
        /\ subscription' \in [Thread -> SUBSET Selector]
        /\ workset' \in [Thread -> [Memory -> WorksetRow]]
        /\ link' \subseteq Project \X Project
    BY <1>1, <1>2, <1>3, <1>5 DEF TypeOK, RegisteredStatus, Status
  <1>8. IInv'
    <2>1. NoSelfLink'
      BY <1>2 DEF IInv, NoSelfLink
    <2> QED BY <1>2, <1>6, <1>7, <2>1, RowsSuffice
  <1> QED BY <1>6, <1>8

LEMMA ConfigureThreadKeeps ==
  ASSUME IInv, NEW th \in Thread, NEW status \in RegisteredStatus,
         NEW selectors \in SUBSET Selector, NEW toggles \in BOOLEAN,
         ConfigureThread(th, status, selectors, toggles)
  PROVE  IInv' /\ \A t \in Thread, n \in Memory : RowStep(t, n)
  <1> DEFINE stages == \/ thread[th] # status
                       \/ toggles
                       \/ selectors \ subscription[th] # {}
             staged == IF stages THEN StagedFor(th, status, selectors)
                       ELSE workset[th]
             reconciled == [n \in Memory |->
                 IF /\ status = "live"
                    /\ effective[n] = None
                    /\ staged[n].state # "absent"
                 THEN Retracted(staged[n]) ELSE staged[n]]
             final == [n \in Memory |->
                 IF Removed(reconciled[n], MatchesWith(th, n, status, selectors))
                 THEN NoWorkset ELSE reconciled[n]]
  <1>1. TypeOK
    BY DEF IInv
  <1>2. UNCHANGED <<effective, newest, link, dependency>>
    BY DEF ConfigureThread
  <1>3. /\ workset' = [workset EXCEPT ![th] = final]
        /\ thread' = [thread EXCEPT ![th] = status]
        /\ subscription' = [subscription EXCEPT ![th] = selectors]
    BY DEF ConfigureThread
  <1>4. \A t \in Thread : /\ workset'[t] = IF t = th THEN final ELSE workset[t]
                          /\ thread'[t] = IF t = th THEN status ELSE thread[t]
                          /\ subscription'[t] = IF t = th THEN selectors ELSE subscription[t]
    BY <1>1, <1>3 DEF TypeOK
  <1>5. ASSUME NEW n \in Memory
        PROVE  /\ staged[n] \in WorksetRow
               /\ \/ /\ effective[n] # None
                     /\ MatchesWith(th, n, status, selectors)
                     /\ staged[n] = Staged(workset[th][n], effective[n], FALSE)
                  \/ /\ effective[n] # None => ~MatchesWith(th, n, status, selectors) \/ ~stages
                     /\ staged[n] = workset[th][n]
    <2>1. CASE stages
      <3>1. staged[n] = StagedFor(th, status, selectors)[n]
        BY <2>1
      <3>2. /\ StagedFor(th, status, selectors)[n] \in WorksetRow
            /\ \/ /\ effective[n] # None
                  /\ MatchesWith(th, n, status, selectors)
                  /\ StagedFor(th, status, selectors)[n] = Staged(workset[th][n], effective[n], FALSE)
               \/ /\ ~(effective[n] # None /\ MatchesWith(th, n, status, selectors))
                  /\ StagedFor(th, status, selectors)[n] = workset[th][n]
        BY <1>1, StagedForRow
      <3> HIDE DEF staged, stages
      <3> QED BY <3>1, <3>2
    <2>2. CASE ~stages
      <3>1. staged[n] = workset[th][n]
        BY <2>2
      <3> HIDE DEF staged, stages
      <3> QED BY <1>1, <2>2, <3>1, RowNumbers
    <2> QED BY <2>1, <2>2
  <1>6. \A n \in Memory :
          /\ reconciled[n] = IF /\ status = "live"
                                /\ effective[n] = None
                                /\ staged[n].state # "absent"
                             THEN Retracted(staged[n]) ELSE staged[n]
          /\ final[n] = IF Removed(reconciled[n], MatchesWith(th, n, status, selectors))
                        THEN NoWorkset ELSE reconciled[n]
    OBVIOUS
  <1>7. ~stages => thread[th] = status /\ selectors \subseteq subscription[th]
    OBVIOUS
  <1>8. final \in [Memory -> WorksetRow]
    <2>1. \A n \in Memory : reconciled[n] \in WorksetRow
      <3> HIDE DEF staged, reconciled
      <3> QED BY <1>5, <1>6, RetractedRow
    <2>2. \A n \in Memory : final[n] \in WorksetRow
      <3> HIDE DEF reconciled, final
      <3> QED BY <1>6, <2>1, NoWorksetRow
    <2> QED BY <2>2
  <1> HIDE DEF stages, staged, reconciled, final
  <1>9. ASSUME NEW t \in Thread, NEW n \in Memory
        PROVE  RowOK(t, n)' /\ RowStep(t, n)
    <2>1. RowOK(t, n)
      BY DEF IInv
    <2>2. InScope(t, n)' <=> InScope(t, n)
      BY <1>2 DEF InScope, Linked, SameProject
    <2>3. CASE t # th
      <3>1. Matches(t, n)' <=> Matches(t, n)
        BY <1>4, <2>3 DEF Matches, MatchesWith, SameProject
      <3>2. workset'[t][n] = workset[t][n]
        BY <1>4, <2>3
      <3> QED BY <1>1, <1>2, <2>1, <2>2, <3>1, <3>2, UntouchedRow
    <2>4. CASE t = th
      <3>1. Matches(t, n)' <=> MatchesWith(th, n, status, selectors)
        BY <1>4, <2>4 DEF Matches, MatchesWith, SameProject
      <3>2. workset'[t][n] = final[n]
        BY <1>4, <2>4
      <3>3. effective'[n] = effective[n] /\ newest'[n] = newest[n]
        BY <1>2
      <3>4. CASE Removed(reconciled[n], MatchesWith(th, n, status, selectors))
        <4>1. workset'[t][n] = NoWorkset /\ ~Matches(t, n)'
          BY <1>6, <3>1, <3>2, <3>4 DEF Removed
        <4>2. reconciled[n].consumed = workset[t][n].consumed
          <5>1. staged[n].consumed = workset[th][n].consumed
            <6>1. workset[th][n] \in WorksetRow /\ (effective[n] # None => effective[n] \in Version)
              BY <1>1, RowNumbers
            <6>2. effective[n] # None =>
                    Staged(workset[th][n], effective[n], FALSE).consumed = workset[th][n].consumed
              BY <6>1, StagedRow
            <6> QED BY <1>5, <6>2
          <5>2. staged[n] \in WorksetRow
            BY <1>5
          <5>3. Retracted(staged[n]).consumed = staged[n].consumed
            BY <5>2, RetractedRow
          <5> QED BY <1>6, <2>4, <5>1, <5>3
        <4>3. workset[t][n].consumed = None
          BY <3>4, <4>2 DEF Removed
        <4>4. newest[n] >= None /\ newest[n] \in Int
          BY <1>1, RowNumbers
        <4> QED BY <3>3, <4>1, <4>3, <4>4 DEF RowOK, RowStep, Holds, NoWorkset, None
      <3>5. CASE /\ ~Removed(reconciled[n], MatchesWith(th, n, status, selectors))
                 /\ effective[n] # None
                 /\ MatchesWith(th, n, status, selectors)
                 /\ staged[n] = Staged(workset[th][n], effective[n], FALSE)
        <4>1. workset'[t][n] = Staged(workset[t][n], effective[n], FALSE)
          BY <1>6, <2>4, <3>2, <3>5
        <4>2. InScope(t, n)'
          BY <2>2, <2>4, <3>5 DEF MatchesWith, InScope
        <4>3. effective[n] \in Version /\ newest'[n] \in Int /\ newest[n] <= newest'[n]
          BY <1>1, <3>3, <3>5, RowNumbers
        <4> QED BY <1>1, <2>1, <3>3, <4>1, <4>2, <4>3, RowStagedForEffective
      <3>6. CASE /\ ~Removed(reconciled[n], MatchesWith(th, n, status, selectors))
                 /\ effective[n] # None => ~MatchesWith(th, n, status, selectors) \/ ~stages
                 /\ staged[n] = workset[th][n]
        <4>1. CASE status = "live" /\ effective[n] = None /\ staged[n].state # "absent"
          <5>1. workset'[t][n] = Retracted(workset[t][n])
            BY <1>6, <2>4, <3>2, <3>6, <4>1
          <5> QED BY <1>1, <2>1, <3>3, <4>1, <5>1, RowRetracted
        <4>2. CASE ~(status = "live" /\ effective[n] = None /\ staged[n].state # "absent")
          <5>1. workset'[t][n] = workset[t][n]
            BY <1>6, <2>4, <3>2, <3>6, <4>2
          <5>2. effective[n] # None /\ Matches(t, n)' => Matches(t, n)
            BY <1>7, <2>4, <3>1, <3>6 DEF Matches, MatchesWith
          <5>3. workset'[t][n].consumed >= workset[t][n].consumed
            BY <1>1, <5>1, RowNumbers
          <5> QED BY <2>1, <2>2, <3>3, <5>1, <5>2, <5>3 DEF RowOK, RowStep, Holds
        <4> QED BY <4>1, <4>2
      <3> QED BY <1>5, <3>4, <3>5, <3>6
    <2> QED BY <2>3, <2>4
  <1>10. /\ thread' \in [Thread -> Status]
         /\ subscription' \in [Thread -> SUBSET Selector]
         /\ workset' \in [Thread -> [Memory -> WorksetRow]]
         /\ link' \subseteq Project \X Project
    BY <1>1, <1>2, <1>3, <1>8 DEF TypeOK, RegisteredStatus, Status
  <1>11. IInv'
    <2>1. NoSelfLink'
      BY <1>2 DEF IInv, NoSelfLink
    <2> QED BY <1>2, <1>9, <1>10, <2>1, RowsSuffice
  <1> QED BY <1>9, <1>11

LEMMA LinkProjectsKeeps ==
  ASSUME IInv, NEW source \in Project, NEW target \in Project,
         LinkProjects(source, target)
  PROVE  IInv' /\ \A th \in Thread, n \in Memory : RowStep(th, n)
  <1>1. TypeOK
    BY DEF IInv
  <1>2. UNCHANGED <<effective, newest, thread, subscription, workset, dependency>>
    BY DEF LinkProjects
  <1>3. ASSUME NEW th \in Thread, NEW n \in Memory
        PROVE  RowOK(th, n)' /\ RowStep(th, n)
    <2>1. RowOK(th, n)
      BY DEF IInv
    <2>2. InScope(th, n) => InScope(th, n)'
      BY DEF LinkProjects, InScope, Linked, SameProject
    <2>3. Matches(th, n)' <=> Matches(th, n)
      BY <1>2 DEF Matches, MatchesWith, SameProject
    <2> QED BY <1>1, <1>2, <2>1, <2>2, <2>3, UntouchedRow
  <1>4. link' \subseteq Project \X Project
    BY <1>1 DEF LinkProjects, TypeOK
  <1>5. NoSelfLink'
    BY DEF IInv, NoSelfLink, LinkProjects
  <1>6. IInv'
    BY <1>1, <1>2, <1>3, <1>4, <1>5, RowsSuffice DEF TypeOK
  <1> QED BY <1>3, <1>6

LEMMA RevokeProjectLinkKeeps ==
  ASSUME IInv, NEW source \in Project, NEW target \in Project,
         RevokeProjectLink(source, target)
  PROVE  IInv' /\ \A th \in Thread, n \in Memory : RowStep(th, n)
  <1>1. TypeOK
    BY DEF IInv
  <1>2. UNCHANGED <<effective, newest, thread, subscription, dependency>>
    BY DEF RevokeProjectLink
  <1>3. \A th \in Thread, n \in Memory : workset'[th][n] =
          IF LosesWithLink(th, n, source, target)
          THEN Retracted(workset[th][n]) ELSE workset[th][n]
    BY DEF RevokeProjectLink
  <1>4. workset' \in [Thread -> [Memory -> WorksetRow]]
    <2>1. \A th \in Thread, n \in Memory : workset'[th][n] \in WorksetRow
      BY <1>1, <1>3, RowNumbers, RetractedRow
    <2> QED BY <2>1 DEF RevokeProjectLink
  <1>5. ASSUME NEW th \in Thread, NEW n \in Memory
        PROVE  RowOK(th, n)' /\ RowStep(th, n)
    <2>1. RowOK(th, n)
      BY DEF IInv
    <2>2. Matches(th, n)' <=> Matches(th, n)
      BY <1>2 DEF Matches, MatchesWith, SameProject
    <2>3. CASE LosesWithLink(th, n, source, target) /\ ~SameProject(th, n)
      <3>1. ~Matches(th, n)'
        BY <2>2, <2>3 DEF Matches, MatchesWith
      <3> QED BY <1>1, <1>2, <1>3, <2>1, <2>3, <3>1, RowRetracted
    <2>4. CASE ~LosesWithLink(th, n, source, target)
      <3>1. workset'[th][n] = workset[th][n]
        BY <1>3, <2>4
      <3>2. InScope(th, n) /\ Holds(th, n) => InScope(th, n)'
        <4>1. Holds(th, n) => <<MemoryProject[n], ThreadProject[th]>> # <<source, target>>
          BY <2>4 DEF LosesWithLink
        <4> QED BY <4>1 DEF RevokeProjectLink, InScope, Linked, SameProject
      <3>3. workset'[th][n].consumed >= workset[th][n].consumed
        BY <1>1, <3>1, RowNumbers
      <3> QED BY <1>2, <2>1, <2>2, <3>1, <3>2, <3>3 DEF RowOK, RowStep, Holds
    <2>5. LosesWithLink(th, n, source, target) => ~SameProject(th, n)
      <3>1. source # target
        BY DEF IInv, NoSelfLink, RevokeProjectLink
      <3> QED BY <3>1 DEF LosesWithLink, SameProject
    <2> QED BY <2>3, <2>4, <2>5
  <1>6. link' \subseteq Project \X Project
    BY <1>1 DEF RevokeProjectLink, TypeOK
  <1>7. NoSelfLink'
    BY DEF IInv, NoSelfLink, RevokeProjectLink
  <1>8. IInv'
    BY <1>1, <1>2, <1>4, <1>5, <1>6, <1>7, RowsSuffice DEF TypeOK
  <1> QED BY <1>5, <1>8

-----------------------------------------------------------------------------
(* A thread reads, recalls, uses and cites.                                *)

(* What these operations leave alone, with the invariant for the rest.     *)
LEMMA OnlyRowsChange ==
  ASSUME IInv,
         UNCHANGED <<effective, newest, thread, subscription, link, dependency>>,
         workset' \in [Thread -> [Memory -> WorksetRow]],
         \A th \in Thread, n \in Memory : RowOK(th, n)'
  PROVE  IInv'
  <1>1. NoSelfLink'
    BY DEF IInv, NoSelfLink
  <1>2. /\ thread' \in [Thread -> Status]
        /\ subscription' \in [Thread -> SUBSET Selector]
        /\ link' \subseteq Project \X Project
    BY DEF IInv, TypeOK
  <1> QED BY <1>1, <1>2, RowsSuffice

LEMMA SyncAtSafeBoundaryKeeps ==
  ASSUME IInv, NEW th \in Thread, SyncAtSafeBoundary(th)
  PROVE  IInv' /\ \A t \in Thread, n \in Memory : RowStep(t, n)
  <1>1. TypeOK
    BY DEF IInv
  <1>2. UNCHANGED <<effective, newest, thread, subscription, link, dependency>>
    BY DEF SyncAtSafeBoundary
  <1>3. \A t \in Thread, n \in Memory : workset'[t][n] =
          IF t = th /\ workset[th][n].state = "pending"
          THEN Synced(th, n) ELSE workset[t][n]
    BY <1>1 DEF SyncAtSafeBoundary, TypeOK
  <1>4. workset' \in [Thread -> [Memory -> WorksetRow]]
    <2>1. \A n \in Memory : Synced(th, n) \in WorksetRow /\ workset[th][n] \in WorksetRow
      BY <1>1, SyncedRow, RowNumbers
    <2>2. [n \in Memory |-> IF workset[th][n].state = "pending" THEN Synced(th, n)
                            ELSE workset[th][n]] \in [Memory -> WorksetRow]
      BY <2>1
    <2> QED BY <1>1, <2>2 DEF SyncAtSafeBoundary, TypeOK
  <1>5. ASSUME NEW t \in Thread, NEW n \in Memory
        PROVE  RowOK(t, n)' /\ RowStep(t, n)
    <2>1. RowOK(t, n)
      BY DEF IInv
    <2>2. (InScope(t, n)' <=> InScope(t, n)) /\ (Matches(t, n)' <=> Matches(t, n))
      BY <1>2, UntouchedThreads
    <2>3. CASE t # th \/ workset[th][n].state # "pending"
      BY <1>1, <1>2, <1>3, <2>1, <2>2, <2>3, UntouchedRow
    <2>4. CASE t = th /\ workset[th][n].state = "pending"
      <3>1. workset'[t][n] = Synced(t, n) /\ effective'[n] = effective[n] /\ newest'[n] = newest[n]
        BY <1>2, <1>3, <2>4
      <3> DEFINE new == Synced(t, n)
      <3>2. /\ new.consumed = workset[t][n].consumed
            /\ \/ /\ ~InScope(t, n) \/ effective[n] = None
                  /\ new.state = "retracted"
                  /\ new.synced = workset[t][n].synced
               \/ /\ InScope(t, n)
                  /\ effective[n] # None
                  /\ effective[n] # workset[t][n].pending
                  /\ new = workset[t][n]
               \/ /\ InScope(t, n)
                  /\ effective[n] # None
                  /\ effective[n] = workset[t][n].pending
                  /\ new.state = "current"
                  /\ new.synced = effective[n]
        BY <1>1, SyncedRow
      <3> HIDE DEF new
      <3>3. workset'[t][n] = new
        BY <3>1 DEF new
      <3>4. new.consumed >= workset[t][n].consumed
        BY <1>1, <3>2, RowNumbers
      <3>5. CASE /\ ~InScope(t, n) \/ effective[n] = None
                 /\ new.state = "retracted"
                 /\ new.synced = workset[t][n].synced
        <4>1. ~Matches(t, n) \/ effective[n] = None
          BY <3>5 DEF Matches, MatchesWith, InScope
        <4> QED BY <2>1, <2>2, <3>1, <3>2, <3>3, <3>4, <3>5, <4>1 DEF RowOK, RowStep, Holds
      <3>6. CASE new = workset[t][n]
        BY <1>1, <1>2, <2>1, <2>2, <3>3, <3>6, UntouchedRow
      <3>7. CASE /\ InScope(t, n)
                 /\ effective[n] # None
                 /\ new.state = "current"
                 /\ new.synced = effective[n]
        <4>1. effective[n] = newest[n]
          BY <3>7 DEF IInv, NewestIsEffective
        <4>2. /\ workset[t][n].synced \in Int /\ workset[t][n].consumed \in Int
              /\ newest[n] \in Int
          BY <1>1, RowNumbers
        <4>3. /\ workset[t][n].synced <= new.synced
              /\ new.consumed <= new.synced
              /\ new.synced <= newest'[n]
          BY <2>1, <3>1, <3>2, <3>7, <4>1, <4>2 DEF RowOK
        <4>4. new.synced # workset[t][n].synced => new.synced > workset[t][n].synced
          BY <3>7, <4>1, <4>2, <4>3
        <4>5. workset[t][n].state # "retracted"
          BY <2>4
        <4> QED BY <2>2, <3>1, <3>3, <3>4, <3>7, <4>3, <4>4, <4>5 DEF RowOK, RowStep, Holds
      <3> QED BY <3>2, <3>5, <3>6, <3>7
    <2> QED BY <2>3, <2>4
  <1>6. IInv'
    BY <1>2, <1>4, <1>5, OnlyRowsChange
  <1> QED BY <1>5, <1>6

LEMMA RecallAndStageKeeps ==
  ASSUME IInv, NEW th \in Thread, NEW found \in SUBSET Memory, RecallAndStage(th, found)
  PROVE  IInv' /\ \A t \in Thread, n \in Memory : RowStep(t, n)
  <1>1. TypeOK
    BY DEF IInv
  <1>2. UNCHANGED <<effective, newest, thread, subscription, link, dependency>>
    BY DEF RecallAndStage
  <1>3. \A t \in Thread, n \in Memory : workset'[t][n] =
          IF t = th /\ n \in found
          THEN Recalled(workset[th][n], effective[n]) ELSE workset[t][n]
    BY <1>1 DEF RecallAndStage, TypeOK
  <1>4. \A n \in found : effective[n] \in Version /\ InScope(th, n)
    BY <1>1, RowNumbers DEF RecallAndStage
  <1>5. workset' \in [Thread -> [Memory -> WorksetRow]]
    <2>1. ASSUME NEW n \in Memory
          PROVE  /\ workset[th][n] \in WorksetRow
                 /\ n \in found => Recalled(workset[th][n], effective[n]) \in WorksetRow
      <3>1. workset[th][n] \in WorksetRow
        BY <1>1, RowNumbers
      <3> QED BY <1>4, <3>1, RecalledRow
    <2>2. [n \in Memory |-> IF n \in found THEN Recalled(workset[th][n], effective[n])
                            ELSE workset[th][n]] \in [Memory -> WorksetRow]
      BY <2>1
    <2> QED BY <1>1, <2>2 DEF RecallAndStage, TypeOK
  <1>6. ASSUME NEW t \in Thread, NEW n \in Memory
        PROVE  RowOK(t, n)' /\ RowStep(t, n)
    <2>1. RowOK(t, n)
      BY DEF IInv
    <2>2. (InScope(t, n)' <=> InScope(t, n)) /\ (Matches(t, n)' <=> Matches(t, n))
      BY <1>2, UntouchedThreads
    <2>3. CASE ~(t = th /\ n \in found)
      BY <1>1, <1>2, <1>3, <2>1, <2>2, <2>3, UntouchedRow
    <2>4. CASE t = th /\ n \in found
      <3> DEFINE new == Recalled(workset[t][n], effective[n])
      <3>1. workset'[t][n] = new /\ effective'[n] = effective[n] /\ newest'[n] = newest[n]
        BY <1>2, <1>3, <2>4
      <3>2. effective[n] \in Version /\ InScope(t, n) /\ workset[t][n] \in WorksetRow
        BY <1>1, <1>4, <2>4, RowNumbers
      <3>3. /\ new.synced = workset[t][n].synced
            /\ new.consumed = workset[t][n].consumed
            /\ \/ /\ workset[t][n].state # "retracted"
                  /\ new.state = "current"
                  /\ new.synced = effective[n]
               \/ /\ new.state = "pending"
                  /\ new.pending = effective[n]
        BY <3>2, RecalledRow
      <3> HIDE DEF new
      <3>4. new.consumed >= workset[t][n].consumed
        BY <1>1, <3>3, RowNumbers
      <3> QED BY <2>1, <2>2, <3>1, <3>2, <3>3, <3>4 DEF RowOK, RowStep, Holds
    <2> QED BY <2>3, <2>4
  <1>7. IInv'
    BY <1>2, <1>5, <1>6, OnlyRowsChange
  <1> QED BY <1>6, <1>7

LEMMA ConsumeKeeps ==
  ASSUME IInv, NEW th \in Thread, NEW m \in Memory, Consume(th, m)
  PROVE  IInv' /\ \A t \in Thread, n \in Memory : RowStep(t, n)
  <1> DEFINE new == [workset[th][m] EXCEPT !.consumed = workset[th][m].synced]
  <1>1. TypeOK
    BY DEF IInv
  <1>2. UNCHANGED <<effective, newest, thread, subscription, link, dependency>>
    BY DEF Consume
  <1>3. \A t \in Thread, n \in Memory : workset'[t][n] =
          IF t = th /\ n = m THEN new ELSE workset[t][n]
    BY <1>1 DEF Consume, TypeOK
  <1>4. /\ new \in WorksetRow
        /\ new.state = workset[th][m].state
        /\ new.pending = workset[th][m].pending
        /\ new.synced = workset[th][m].synced
        /\ new.consumed = workset[th][m].synced
    BY <1>1, RowNumbers DEF WorksetRow
  <1>5. workset' \in [Thread -> [Memory -> WorksetRow]]
    BY <1>1, <1>4 DEF Consume, TypeOK
  <1> HIDE DEF new
  <1>6. ASSUME NEW t \in Thread, NEW n \in Memory
        PROVE  RowOK(t, n)' /\ RowStep(t, n)
    <2>1. RowOK(t, n)
      BY DEF IInv
    <2>2. (InScope(t, n)' <=> InScope(t, n)) /\ (Matches(t, n)' <=> Matches(t, n))
      BY <1>2, UntouchedThreads
    <2>3. CASE ~(t = th /\ n = m)
      BY <1>1, <1>2, <1>3, <2>1, <2>2, <2>3, UntouchedRow
    <2>4. CASE t = th /\ n = m
      <3>1. workset'[t][n] = new /\ effective'[n] = effective[n] /\ newest'[n] = newest[n]
        BY <1>2, <1>3, <2>4
      <3>2. new.consumed <= new.synced /\ new.consumed >= workset[t][n].consumed
        BY <1>1, <1>4, <2>1, <2>4, RowNumbers DEF RowOK
      <3>3. workset[t][n].state # "retracted"
        BY <2>4 DEF Consume
      <3> QED BY <1>4, <2>1, <2>2, <2>4, <3>1, <3>2, <3>3 DEF RowOK, RowStep, Holds
    <2> QED BY <2>3, <2>4
  <1>7. IInv'
    BY <1>2, <1>5, <1>6, OnlyRowsChange
  <1> QED BY <1>6, <1>7

LEMMA UntouchedRows ==
  ASSUME IInv, UNCHANGED <<effective, newest, thread, subscription, link, workset>>
  PROVE  \A th \in Thread, n \in Memory : RowOK(th, n)' /\ RowStep(th, n)
  <1> TAKE th \in Thread, n \in Memory
  <1>1. TypeOK /\ RowOK(th, n)
    BY DEF IInv
  <1>2. (InScope(th, n)' <=> InScope(th, n)) /\ (Matches(th, n)' <=> Matches(th, n))
    BY UntouchedThreads
  <1> QED BY <1>1, <1>2, UntouchedRow

LEMMA AddDependencyKeeps ==
  ASSUME IInv, NEW th \in Thread, NEW s \in Subject, NEW m \in Memory,
         AddDependency(th, s, m)
  PROVE  IInv' /\ \A t \in Thread, n \in Memory : RowStep(t, n)
  <1>1. TypeOK /\ NewestIsEffective /\ NoSelfLink /\ CurrentDependenciesHold
    BY DEF IInv
  <1>2. UNCHANGED <<effective, newest, thread, subscription, link, workset>>
    BY DEF AddDependency
  <1>3. effective[m] \in Version
    BY <1>1, RowNumbers DEF AddDependency
  <1>4. dependency' = [dependency EXCEPT ![s][m][effective[m]] = "current"]
    BY DEF AddDependency
  <1>5. dependency' \in [Subject -> [Memory -> [Version -> DependencyStatus]]]
    BY <1>1, <1>3, <1>4 DEF TypeOK, DependencyStatus
  <1>6. CurrentDependenciesHold'
    <2>1. ASSUME NEW r \in Subject, NEW n \in Memory, NEW v \in Version,
                 dependency'[r][n][v] = "current"
          PROVE  effective[n] = v
      <3>1. dependency'[r][n][v] = dependency[r][n][v] \/ (n = m /\ v = effective[m])
        BY <1>1, <1>3, <1>4 DEF TypeOK
      <3> QED BY <1>1, <2>1, <3>1 DEF CurrentDependenciesHold
    <2> QED BY <1>2, <2>1 DEF CurrentDependenciesHold
  <1>7. TypeOK' /\ NewestIsEffective' /\ NoSelfLink'
    BY <1>1, <1>2, <1>5 DEF TypeOK, NewestIsEffective, NoSelfLink
  <1>8. \A t \in Thread, n \in Memory : RowOK(t, n)' /\ RowStep(t, n)
    BY <1>2, UntouchedRows
  <1> QED BY <1>6, <1>7, <1>8 DEF IInv

-----------------------------------------------------------------------------
(* Every step, and the theorems.                                           *)

LEMMA InitKeeps == Init => IInv
  <1> SUFFICES ASSUME Init PROVE IInv
    OBVIOUS
  <1>1. TypeOK
    BY VersionsArePositive, NoWorksetRow DEF Init, TypeOK, Status, DependencyStatus
  <1>2. NewestIsEffective /\ NoSelfLink /\ CurrentDependenciesHold
    BY DEF Init, NewestIsEffective, NoSelfLink, CurrentDependenciesHold
  <1>3. ASSUME NEW th \in Thread, NEW m \in Memory
        PROVE  RowOK(th, m)
    BY DEF Init, RowOK, Holds, Matches, MatchesWith, NoWorkset, None
  <1> QED BY <1>1, <1>2, <1>3 DEF IInv

LEMMA StepKeeps ==
  ASSUME IInv, [Next]_vars
  PROVE  IInv' /\ \A th \in Thread, n \in Memory : RowStep(th, n)
  <1>1. CASE UNCHANGED vars
    <2>1. TypeOK' /\ NewestIsEffective' /\ NoSelfLink' /\ CurrentDependenciesHold'
      BY <1>1 DEF IInv, vars, TypeOK, NewestIsEffective, NoSelfLink, CurrentDependenciesHold
    <2>2. \A th \in Thread, n \in Memory : RowOK(th, n)' /\ RowStep(th, n)
      BY <1>1, UntouchedRows DEF vars
    <2> QED BY <2>1, <2>2 DEF IInv
  <1>2. ASSUME NEW m \in Memory, NEW v \in Version, NEW source \in Source,
               Activate(m, v, source)
        PROVE  IInv' /\ \A th \in Thread, n \in Memory : RowStep(th, n)
    BY <1>2, ActivateKeeps
  <1>3. ASSUME NEW m \in Memory, Retract(m)
        PROVE  IInv' /\ \A th \in Thread, n \in Memory : RowStep(th, n)
    BY <1>3, RetractKeeps
  <1>4. ASSUME NEW th \in Thread, NEW status \in RegisteredStatus,
               NEW selectors \in SUBSET Selector, RegisterThread(th, status, selectors)
        PROVE  IInv' /\ \A t \in Thread, n \in Memory : RowStep(t, n)
    BY <1>4, RegisterThreadKeeps
  <1>5. ASSUME NEW th \in Thread, NEW status \in RegisteredStatus,
               NEW selectors \in SUBSET Selector, NEW toggles \in BOOLEAN,
               ConfigureThread(th, status, selectors, toggles)
        PROVE  IInv' /\ \A t \in Thread, n \in Memory : RowStep(t, n)
    BY <1>5, ConfigureThreadKeeps
  <1>6. ASSUME NEW source \in Project, NEW target \in Project,
               LinkProjects(source, target)
        PROVE  IInv' /\ \A t \in Thread, n \in Memory : RowStep(t, n)
    BY <1>6, LinkProjectsKeeps
  <1>7. ASSUME NEW source \in Project, NEW target \in Project,
               RevokeProjectLink(source, target)
        PROVE  IInv' /\ \A t \in Thread, n \in Memory : RowStep(t, n)
    BY <1>7, RevokeProjectLinkKeeps
  <1>8. ASSUME NEW th \in Thread, SyncAtSafeBoundary(th)
        PROVE  IInv' /\ \A t \in Thread, n \in Memory : RowStep(t, n)
    BY <1>8, SyncAtSafeBoundaryKeeps
  <1>9. ASSUME NEW th \in Thread, NEW found \in SUBSET Memory, RecallAndStage(th, found)
        PROVE  IInv' /\ \A t \in Thread, n \in Memory : RowStep(t, n)
    BY <1>9, RecallAndStageKeeps
  <1>10. ASSUME NEW th \in Thread, NEW m \in Memory, Consume(th, m)
         PROVE  IInv' /\ \A t \in Thread, n \in Memory : RowStep(t, n)
    BY <1>10, ConsumeKeeps
  <1>11. ASSUME NEW th \in Thread, NEW s \in Subject, NEW m \in Memory,
                AddDependency(th, s, m)
         PROVE  IInv' /\ \A t \in Thread, n \in Memory : RowStep(t, n)
    BY <1>11, AddDependencyKeeps
  <1> QED
    BY <1>1, <1>2, <1>3, <1>4, <1>5, <1>6, <1>7, <1>8, <1>9, <1>10, <1>11 DEF Next

LEMMA Invariance == Spec => []IInv
  <1>1. Init => IInv
    BY InitKeeps
  <1>2. IInv /\ [Next]_vars => IInv'
    BY StepKeeps
  <1> QED BY <1>1, <1>2, PTL DEF Spec

(* The worksets keep the shape of their tables.                            *)
THEOREM TypeCorrect == Spec => []TypeOK
  <1>1. IInv => TypeOK
    BY DEF IInv
  <1> QED BY <1>1, Invariance, PTL

(* revoke_project_link leaves no thread, live or dormant, anything that    *)
(* rests on the revoked link.                                              *)
THEOREM LinksGovernSharing == Spec => []RevokedLinksLeaveNothing
  <1>1. IInv => RevokedLinksLeaveNothing
    BY DEF IInv, RowOK, RevokedLinksLeaveNothing
  <1> QED BY <1>1, Invariance, PTL

(* Every live subscriber holds or awaits the effective version.            *)
THEOREM SubscribersAreServed == Spec => []SubscribersKeepUp
  <1>1. IInv => SubscribersKeepUp
    BY DEF IInv, RowOK, SubscribersKeepUp
  <1> QED BY <1>1, Invariance, PTL

(* A dependency marked current cites the effective version.                *)
THEOREM DependenciesAreHonest == Spec => []CurrentDependenciesHold
  <1>1. IInv => CurrentDependenciesHold
    BY DEF IInv
  <1> QED BY <1>1, Invariance, PTL

(* Only the effective version, in scope and newer than the last, is given. *)
THEOREM DeliveriesMoveForward == Spec => OnlyEffectiveVersionsAreGiven
  <1> DEFINE Given == \A th \in Thread, m \in Memory :
          LET row == workset[th][m] IN
          /\ workset'[th][m].state # "absent"
          /\ workset'[th][m].synced # row.synced
          => /\ workset'[th][m].synced = effective[m]
             /\ workset'[th][m].synced > row.synced
             /\ InScope(th, m)
  <1>1. IInv /\ [Next]_vars => [Given]_vars
    BY StepKeeps DEF RowStep
  <1> QED BY <1>1, Invariance, PTL DEF Spec, OnlyEffectiveVersionsAreGiven

(* A row its thread has used is never lost or set back.                    *)
THEOREM UseIsRemembered == Spec => UsedRowsStay
  <1> DEFINE Stays == \A th \in Thread, m \in Memory :
          workset[th][m].consumed # None =>
              workset'[th][m].consumed >= workset[th][m].consumed
  <1>1. IInv /\ [Next]_vars => [Stays]_vars
    BY StepKeeps DEF RowStep
  <1> QED BY <1>1, Invariance, PTL DEF Spec, UsedRowsStay

(* What was retracted is given again before it counts as current.          *)
THEOREM RetractionsAreAnswered == Spec => RetractedRowsAreGivenAgain
  <1> DEFINE Again == \A th \in Thread, m \in Memory :
          workset[th][m].state = "retracted" => workset'[th][m].state # "current"
  <1>1. IInv /\ [Next]_vars => [Again]_vars
    BY StepKeeps DEF RowStep
  <1> QED BY <1>1, Invariance, PTL DEF Spec, RetractedRowsAreGivenAgain

(* Both together: a thread's rows remember its use and its retractions.    *)
THEOREM RowsRemember == Spec => RowsAreRemembered
  <1> DEFINE Remembered == \A th \in Thread, m \in Memory :
          LET row == workset[th][m]
              new == workset'[th][m]
          IN  /\ row.consumed # None => new.consumed >= row.consumed
              /\ row.state = "retracted" => new.state # "current"
  <1>1. IInv /\ [Next]_vars => [Remembered]_vars
    BY StepKeeps DEF RowStep
  <1> QED BY <1>1, Invariance, PTL DEF Spec, RowsAreRemembered

-----------------------------------------------------------------------------
(* Only Consume and record_turn write what a thread has used: every other  *)
(* operation leaves it, or forgets it with the row.                        *)

KeepsUse ==
  \A th \in Thread, n \in Memory :
      workset'[th][n].consumed \in {workset[th][n].consumed, None}

LEMMA ActivateKeepsUse ==
  ASSUME TypeOK, NEW m \in Memory, NEW v \in Version, NEW source \in Source,
         Activate(m, v, source)
  PROVE  KeepsUse
  <1> DEFINE reached(th) == HearsOf(th, m) \/ (th \in source /\ Live(th))
  <1> SUFFICES ASSUME NEW th \in Thread, NEW n \in Memory
               PROVE  workset'[th][n].consumed = workset[th][n].consumed
    BY DEF KeepsUse
  <1>1. workset'[th][n] = IF n = m /\ reached(th)
          THEN Staged(workset[th][m], v, th \in source) ELSE workset[th][n]
    BY DEF Activate, DistributeActivation, TypeOK
  <1>2. PICK own \in BOOLEAN :
          Staged(workset[th][m], v, th \in source) = Staged(workset[th][m], v, own)
    BY RowNumbers, StagedForMember
  <1>3. Staged(workset[th][m], v, own).consumed = workset[th][m].consumed
    BY RowNumbers, StagedRow
  <1> HIDE DEF reached
  <1> QED BY <1>1, <1>2, <1>3

LEMMA RetractKeepsUse ==
  ASSUME TypeOK, NEW m \in Memory, Retract(m)
  PROVE  KeepsUse
  <1> SUFFICES ASSUME NEW th \in Thread, NEW n \in Memory
               PROVE  workset'[th][n].consumed = workset[th][n].consumed
    BY DEF KeepsUse
  <1>1. workset'[th][n] \in {Retracted(workset[th][n]), workset[th][n]}
    BY DEF Retract, DistributeRetraction, TypeOK
  <1>2. Retracted(workset[th][n]).consumed = workset[th][n].consumed
    BY RowNumbers, RetractedRow
  <1> QED BY <1>1, <1>2

LEMMA RevokeKeepsUse ==
  ASSUME TypeOK, NEW source \in Project, NEW target \in Project,
         RevokeProjectLink(source, target)
  PROVE  KeepsUse
  <1> SUFFICES ASSUME NEW th \in Thread, NEW n \in Memory
               PROVE  workset'[th][n].consumed = workset[th][n].consumed
    BY DEF KeepsUse
  <1>1. workset'[th][n] \in {Retracted(workset[th][n]), workset[th][n]}
    BY DEF RevokeProjectLink
  <1>2. Retracted(workset[th][n]).consumed = workset[th][n].consumed
    BY RowNumbers, RetractedRow
  <1> QED BY <1>1, <1>2

LEMMA StagedForKeepsUse ==
  ASSUME TypeOK, NEW th \in Thread, NEW status, NEW selectors, NEW n \in Memory
  PROVE  StagedFor(th, status, selectors)[n].consumed = workset[th][n].consumed
  <1>1. workset[th][n] \in WorksetRow /\ (effective[n] # None => effective[n] \in Version)
    BY RowNumbers
  <1>2. effective[n] # None =>
          Staged(workset[th][n], effective[n], FALSE).consumed = workset[th][n].consumed
    BY <1>1, StagedRow
  <1> QED BY <1>2, StagedForRow

LEMMA RegisterThreadKeepsUse ==
  ASSUME TypeOK, NEW th \in Thread, NEW status, NEW selectors,
         RegisterThread(th, status, selectors)
  PROVE  KeepsUse
  <1> DEFINE S == StagedFor(th, status, subscription[th] \cup selectors)
  <1>1. \A t \in Thread : workset'[t] = IF t = th THEN S ELSE workset[t]
    BY DEF RegisterThread, TypeOK
  <1>2. \A n \in Memory : S[n].consumed = workset[th][n].consumed
    BY StagedForKeepsUse
  <1> HIDE DEF S
  <1> QED BY <1>1, <1>2 DEF KeepsUse

LEMMA ConfigureThreadKeepsUse ==
  ASSUME TypeOK, NEW th \in Thread, NEW status, NEW selectors, NEW toggles,
         ConfigureThread(th, status, selectors, toggles)
  PROVE  KeepsUse
  <1> DEFINE stages == \/ thread[th] # status
                       \/ toggles
                       \/ selectors \ subscription[th] # {}
             staged == IF stages THEN StagedFor(th, status, selectors)
                       ELSE workset[th]
             reconciled == [n \in Memory |->
                 IF /\ status = "live"
                    /\ effective[n] = None
                    /\ staged[n].state # "absent"
                 THEN Retracted(staged[n]) ELSE staged[n]]
             final == [n \in Memory |->
                 IF Removed(reconciled[n], MatchesWith(th, n, status, selectors))
                 THEN NoWorkset ELSE reconciled[n]]
  <1>1. \A t \in Thread : workset'[t] = IF t = th THEN final ELSE workset[t]
    BY DEF ConfigureThread, TypeOK
  <1>2. ASSUME NEW n \in Memory
        PROVE  staged[n] \in WorksetRow /\ staged[n].consumed = workset[th][n].consumed
    <2>1. staged \in {StagedFor(th, status, selectors), workset[th]}
      OBVIOUS
    <2>2. StagedFor(th, status, selectors)[n].consumed = workset[th][n].consumed
      BY StagedForKeepsUse
    <2>3. StagedFor(th, status, selectors)[n] \in WorksetRow /\ workset[th][n] \in WorksetRow
      BY StagedForRow, RowNumbers
    <2> HIDE DEF staged
    <2> QED BY <2>1, <2>2, <2>3
  <1>3. ASSUME NEW n \in Memory
        PROVE  final[n].consumed \in {workset[th][n].consumed, None}
    <2>1. reconciled[n] \in {Retracted(staged[n]), staged[n]}
      <3> HIDE DEF staged
      <3> QED OBVIOUS
    <2>2. Retracted(staged[n]).consumed = staged[n].consumed
      BY <1>2, RetractedRow
    <2>3. final[n] \in {NoWorkset, reconciled[n]}
      <3> HIDE DEF reconciled
      <3> QED OBVIOUS
    <2>4. NoWorkset.consumed = None
      BY DEF NoWorkset
    <2> HIDE DEF staged, reconciled, final
    <2> QED BY <1>2, <2>1, <2>2, <2>3, <2>4
  <1> HIDE DEF final
  <1> QED BY <1>1, <1>3 DEF KeepsUse

LEMMA SyncKeepsUse ==
  ASSUME TypeOK, NEW th \in Thread, SyncAtSafeBoundary(th)
  PROVE  KeepsUse
  <1> SUFFICES ASSUME NEW t \in Thread, NEW n \in Memory
               PROVE  workset'[t][n].consumed = workset[t][n].consumed
    BY DEF KeepsUse
  <1>1. workset'[t][n] \in {workset[t][n]} \cup (IF t = th THEN {Synced(th, n)} ELSE {})
    BY DEF SyncAtSafeBoundary, TypeOK
  <1>2. Synced(th, n).consumed = workset[th][n].consumed
    BY SyncedRow
  <1> QED BY <1>1, <1>2

LEMMA RecallKeepsUse ==
  ASSUME TypeOK, NEW th \in Thread, NEW found \in SUBSET Memory, RecallAndStage(th, found)
  PROVE  KeepsUse
  <1> SUFFICES ASSUME NEW t \in Thread, NEW n \in Memory
               PROVE  workset'[t][n].consumed = workset[t][n].consumed
    BY DEF KeepsUse
  <1>1. workset'[t][n] = IF t = th /\ n \in found
                         THEN Recalled(workset[th][n], effective[n]) ELSE workset[t][n]
    BY DEF RecallAndStage, TypeOK
  <1>2. n \in found =>
          Recalled(workset[th][n], effective[n]).consumed = workset[th][n].consumed
    <2>1. n \in found => effective[n] \in Version /\ workset[th][n] \in WorksetRow
      BY RowNumbers DEF RecallAndStage
    <2> QED BY <2>1, RecalledRow
  <1> QED BY <1>1, <1>2

-----------------------------------------------------------------------------
(* The delivery ledger.  Its invariant adds to that of the worksets the    *)
(* shape of the ledger's tables, the size of the ledger, and a count: the  *)
(* generation of a receipt is below the number of receipts equal to it, so *)
(* a next generation can always be found, and is new.                      *)

BuildOK ==
  building \in [phase : {"idle", "begun", "synced", "read"}, mode : Mode,
               entries : SUBSET (Memory \X Version)]

LedgerOK ==
  /\ turn \in Turn \cup {NoTurn}
  /\ capability \in {NoTurn, turn}
  /\ ledger \subseteq Receipt
  /\ acknowledged \cup superseded \subseteq ledger
  /\ told \subseteq [memory : Memory, version : Ref, turn : Turn]

LedgerIsBounded ==
  /\ IsFiniteSet(ledger)
  /\ Cardinality(ledger) <= MaxReceipts

Equals(d) == {e \in ledger : SameContent(e, d)}

GenerationsCount == \A d \in ledger : d.generation < Cardinality(Equals(d))

DInv ==
  /\ IInv
  /\ BuildOK
  /\ LedgerOK
  /\ LedgerIsBounded
  /\ GenerationsCount
  /\ UsedWasAcknowledged

LEMMA DeliveryInitKeeps == DeliveryInit => DInv
  <1> SUFFICES ASSUME DeliveryInit PROVE DInv
    OBVIOUS
  <1>1. IInv
    BY InitKeeps DEF DeliveryInit
  <1>2. BuildOK /\ LedgerOK /\ GenerationsCount
    BY DEF DeliveryInit, BuildOK, LedgerOK, GenerationsCount, Idle, Mode
  <1>3. LedgerIsBounded
    BY FS_EmptySet, DeliveryAssumption DEF DeliveryInit, LedgerIsBounded
  <1>4. UsedWasAcknowledged
    BY DeliveryAssumption DEF DeliveryInit, Init, UsedWasAcknowledged, Row, NoWorkset
  <1> QED BY <1>1, <1>2, <1>3, <1>4 DEF DInv

(* The worksets' part of a step that writes no receipt and acknowledges    *)
(* none.                                                                   *)
LEMMA WorksetStepKeeps ==
  ASSUME DInv, Next, KeepsUse, BuildOK',
         UNCHANGED <<turn, capability, ledger, acknowledged, superseded, told>>
  PROVE  DInv'
  <1>1. IInv'
    BY StepKeeps DEF DInv
  <1>2. LedgerOK' /\ LedgerIsBounded'
    BY DEF DInv, LedgerOK, LedgerIsBounded
  <1>3. GenerationsCount'
    BY DEF DInv, GenerationsCount, Equals
  <1>4. UsedWasAcknowledged'
    BY DeliveryAssumption DEF DInv, UsedWasAcknowledged, KeepsUse, Row
  <1> QED BY <1>1, <1>2, <1>3, <1>4 DEF DInv

LEMMA NothingUsed ==
  ASSUME UNCHANGED workset
  PROVE  KeepsUse
  BY DEF KeepsUse

LEMMA EnvironmentKeeps ==
  ASSUME DInv, Environment
  PROVE  DInv'
  <1>1. TypeOK /\ Session \in Thread
    BY DeliveryAssumption DEF DInv, IInv
  <1>2. UNCHANGED <<turn, capability, ledger, acknowledged, superseded, told>> /\ BuildOK'
    BY DEF DInv, BuildOK, Environment, deliveryVars
  <1>3. Next /\ KeepsUse
    <2>1. ASSUME NEW m \in Memory, NEW v \in Version, NEW source \in Source,
                 Activate(m, v, source)
          PROVE  Next /\ KeepsUse
      BY <1>1, <2>1, ActivateKeepsUse DEF Next
    <2>2. ASSUME NEW m \in Memory, Retract(m)
          PROVE  Next /\ KeepsUse
      BY <1>1, <2>2, RetractKeepsUse DEF Next
    <2>3. ASSUME NEW source \in Project, NEW target \in Project, LinkProjects(source, target)
          PROVE  Next /\ KeepsUse
      <3>1. UNCHANGED workset
        BY <2>3 DEF LinkProjects
      <3> QED BY <2>3, <3>1, NothingUsed DEF Next
    <2>4. ASSUME NEW source \in Project, NEW target \in Project,
                 RevokeProjectLink(source, target)
          PROVE  Next /\ KeepsUse
      BY <1>1, <2>4, RevokeKeepsUse DEF Next
    <2>5. ASSUME NEW found \in SUBSET Memory, RecallAndStage(Session, found)
          PROVE  Next /\ KeepsUse
      BY <1>1, <2>5, RecallKeepsUse DEF Next
    <2>6. ASSUME NEW status \in RegisteredStatus, NEW sel \in SUBSET Selector,
                 RegisterThread(Session, status, sel)
          PROVE  Next /\ KeepsUse
      BY <1>1, <2>6, RegisterThreadKeepsUse DEF Next
    <2>7. ASSUME NEW status \in RegisteredStatus, NEW sel \in SUBSET Selector,
                 ConfigureThread(Session, status, sel, FALSE)
          PROVE  Next /\ KeepsUse
      BY <1>1, <2>7, ConfigureThreadKeepsUse DEF Next
    <2> QED BY <2>1, <2>2, <2>3, <2>4, <2>5, <2>6, <2>7 DEF Environment
  <1> QED BY <1>2, <1>3, WorksetStepKeeps

LEMMA SessionSync ==
  ASSUME DInv, SyncAtSafeBoundary(Session)
  PROVE  Next /\ KeepsUse
  <1>1. TypeOK /\ Session \in Thread
    BY DeliveryAssumption DEF DInv, IInv
  <1> QED BY <1>1, SyncKeepsUse DEF Next

LEMMA SyncContextKeeps ==
  ASSUME DInv, SyncContext
  PROVE  DInv'
  <1>1. Next /\ KeepsUse
    BY SessionSync DEF SyncContext
  <1>2. UNCHANGED <<turn, capability, ledger, acknowledged, superseded, told>>
    BY DEF SyncContext
  <1>3. BuildOK'
    BY DEF DInv, BuildOK, SyncContext
  <1> QED BY <1>1, <1>2, <1>3, WorksetStepKeeps

LEMMA PostCompactKeeps ==
  ASSUME DInv, PostCompact
  PROVE  DInv'
  <1>1. Next /\ KeepsUse
    BY SessionSync DEF PostCompact
  <1>2. UNCHANGED <<turn, capability, ledger, acknowledged, superseded, told>> /\ BuildOK'
    BY DEF PostCompact, deliveryVars, DInv, BuildOK
  <1> QED BY <1>1, <1>2, WorksetStepKeeps

(* Steps of a build that leave the worksets and the receipts alone.        *)
LEMMA BuildStepKeeps ==
  ASSUME DInv, BuildOK', LedgerOK',
         UNCHANGED <<worksetVars, ledger, acknowledged>>
  PROVE  DInv'
  <1>1. IInv'
    BY StepKeeps DEF DInv, worksetVars
  <1>2. LedgerIsBounded' /\ GenerationsCount'
    BY DEF DInv, LedgerIsBounded, GenerationsCount, Equals
  <1>3. UsedWasAcknowledged'
    BY DEF DInv, UsedWasAcknowledged, Row, worksetVars, vars
  <1> QED BY <1>1, <1>2, <1>3 DEF DInv

LEMMA BeginContextKeeps ==
  ASSUME DInv, NEW mode \in Mode, BeginContext(mode)
  PROVE  DInv'
  <1>1. BuildOK'
    BY DEF BeginContext, BuildOK
  <1>2. LedgerOK'
    BY DEF DInv, LedgerOK, BeginContext
  <1>3. UNCHANGED <<worksetVars, ledger, acknowledged>>
    BY DEF BeginContext
  <1> QED BY <1>1, <1>2, <1>3, BuildStepKeeps

LEMMA SelectedEntries ==
  ASSUME TypeOK, NEW mode, NEW recalled
  PROVE  Selected(mode, recalled) \subseteq Memory \X Version
  <1>1. ContextEntries \subseteq Memory \X Version
    <2>1. ASSUME NEW m \in Memory, Row(m).synced # None, Row(m).synced = effective[m]
          PROVE  effective[m] \in Version
      BY <2>1 DEF TypeOK, Ref
    <2> QED BY <2>1 DEF ContextEntries
  <1> QED BY <1>1 DEF Selected

LEMMA ReadEntriesKeeps ==
  ASSUME DInv, NEW recalled \in SUBSET Memory, ReadEntries(recalled)
  PROVE  DInv'
  <1>1. Selected(building.mode, recalled) \subseteq Memory \X Version
    BY SelectedEntries DEF DInv, IInv
  <1>2. BuildOK'
    BY <1>1 DEF ReadEntries, DInv, BuildOK
  <1>3. LedgerOK' /\ UNCHANGED <<worksetVars, ledger, acknowledged>>
    BY DEF ReadEntries, DInv, LedgerOK
  <1> QED BY <1>2, <1>3, BuildStepKeeps

LEMMA CrashKeeps ==
  ASSUME DInv, Crash
  PROVE  DInv'
  <1>1. BuildOK' /\ LedgerOK' /\ UNCHANGED <<worksetVars, ledger, acknowledged>>
    BY DEF Crash, DInv, BuildOK, LedgerOK, Idle, Mode
  <1> QED BY <1>1, BuildStepKeeps

-----------------------------------------------------------------------------
(* What is staged.                                                         *)

LEMMA NumbersHaveALeast ==
  ASSUME NEW S, S \subseteq Nat, S # {}
  PROVE  \E i \in S : \A j \in S : i <= j
  <1> DEFINE R == OpToRel(<, Nat)
  <1>1. IsWellFoundedOn(R, Nat)
    BY NatLessThanWellFounded
  <1>2. \A i, j \in Nat : i < j => <<i, j>> \in R
    BY DEF OpToRel
  <1>3. \E i \in S : \A j \in S : ~ (<<j, i>> \in R)
    <2> HIDE DEF R
    <2> QED BY <1>1, WFMin
  <1>4. PICK i \in S : \A j \in S : ~ (j < i)
    <2> HIDE DEF R
    <2> QED BY <1>2, <1>3
  <1> QED BY <1>4

LEMMA SizeOfEquals ==
  ASSUME DInv, NEW content
  PROVE  LET earlier == {d \in ledger : SameContent(d, content)}
         IN  /\ IsFiniteSet(earlier)
             /\ Cardinality(earlier) \in 0 .. MaxReceipts
  <1> DEFINE earlier == {d \in ledger : SameContent(d, content)}
  <1>1. IsFiniteSet(ledger) /\ Cardinality(ledger) <= MaxReceipts
    BY DEF DInv, LedgerIsBounded
  <1>2. earlier \subseteq ledger
    OBVIOUS
  <1> HIDE DEF earlier
  <1>3. IsFiniteSet(earlier) /\ Cardinality(earlier) <= Cardinality(ledger)
    BY <1>1, <1>2, FS_Subset
  <1>4. Cardinality(earlier) \in Nat /\ Cardinality(ledger) \in Nat /\ MaxReceipts \in Nat
    BY <1>1, <1>3, FS_CardinalityType, DeliveryAssumption
  <1>5. IsFiniteSet(earlier) /\ Cardinality(earlier) \in 0 .. MaxReceipts
    BY <1>1, <1>3, <1>4
  <1> QED BY <1>5 DEF earlier

(* There is a next generation, above every equal receipt and no higher     *)
(* than their number.                                                      *)
LEMMA NextGenerationIsNew ==
  ASSUME DInv, NEW content
  PROVE  LET earlier == {d \in ledger : SameContent(d, content)}
             g == NextGeneration(content)
         IN  /\ g \in 0 .. MaxReceipts
             /\ \A d \in earlier : d.generation < g
             /\ g <= Cardinality(earlier)
  <1> DEFINE earlier == {d \in ledger : SameContent(d, content)}
             free == {h \in 0 .. MaxReceipts : \A d \in earlier : d.generation < h}
  <1>1. Cardinality(earlier) \in 0 .. MaxReceipts
    BY SizeOfEquals
  <1>2. ASSUME NEW d \in earlier
        PROVE  d.generation < Cardinality(earlier)
    <2>1. Equals(d) = earlier
      BY DEF Equals, SameContent
    <2>2. d.generation < Cardinality(Equals(d))
      BY DEF DInv, GenerationsCount
    <2> QED BY <2>1, <2>2
  <1>3. Cardinality(earlier) \in free
    <2> HIDE DEF earlier
    <2> QED BY <1>1, <1>2
  <1>4. free \subseteq Nat
    BY DeliveryAssumption
  <1>5. PICK i \in free : \A j \in free : i <= j
    <2> HIDE DEF free
    <2> QED BY <1>3, <1>4, NumbersHaveALeast
  <1>6. NextGeneration(content) = CHOOSE g \in 0 .. MaxReceipts :
            /\ \A d \in earlier : d.generation < g
            /\ \A h \in 0 .. MaxReceipts :
                   (\A d \in earlier : d.generation < h) => g <= h
    BY Zenon DEF NextGeneration
  <1> DEFINE g == NextGeneration(content)
  <1>7. /\ g \in 0 .. MaxReceipts
        /\ \A d \in earlier : d.generation < g
        /\ \A h \in 0 .. MaxReceipts : (\A d \in earlier : d.generation < h) => g <= h
    <2>1. \E k \in 0 .. MaxReceipts :
            /\ \A d \in earlier : d.generation < k
            /\ \A h \in 0 .. MaxReceipts : (\A d \in earlier : d.generation < h) => k <= h
      <3> HIDE DEF earlier
      <3> QED BY <1>5
    <2> HIDE DEF earlier, g
    <2> QED BY <1>6, <2>1, Zenon DEF g
  <1>8. g <= Cardinality(earlier)
    <2> HIDE DEF earlier, g
    <2> QED BY <1>1, <1>2, <1>7
  <1> QED BY <1>7, <1>8

LEMMA ContentShape ==
  ASSUME DInv
  PROVE  /\ Content.event \in {"SessionStart", "UserPromptSubmit"}
         /\ Content.turn \in Turn \cup {NoTurn}
         /\ Content.memories \in SUBSET (Memory \X Version)
         /\ Content.retractions \in SUBSET (Memory \X Ref)
  <1>1. Content.event \in {"SessionStart", "UserPromptSubmit"}
    BY DEF Content, EventName
  <1>2. Content.turn \in Turn \cup {NoTurn}
    BY DEF Content, Boundary, DInv, LedgerOK
  <1>3. Content.memories \in SUBSET (Memory \X Version)
    BY DEF Content, DInv, BuildOK
  <1>4. ASSUME NEW n \in Memory
        PROVE  Row(n).synced \in Ref
    BY DeliveryAssumption DEF DInv, IInv, TypeOK, Row, WorksetRow
  <1>5. Content.retractions \in SUBSET (Memory \X Ref)
    <2>1. Notices(building.mode) \subseteq {<<m, Row(m).synced>> : m \in {n \in Memory : Withdrawn(n)}}
      BY Zenon DEF Notices
    <2>2. {<<m, Row(m).synced>> : m \in {n \in Memory : Withdrawn(n)}} \subseteq Memory \X Ref
      BY <1>4
    <2>3. Content.retractions = Notices(building.mode)
      BY DEF Content
    <2> QED BY <2>1, <2>2, <2>3
  <1> QED BY <1>1, <1>2, <1>3, <1>5

(* What is staged is an open receipt, or one that was never in the ledger. *)
LEMMA StagedReceiptShape ==
  ASSUME DInv
  PROVE  /\ StagedReceipt \in Receipt
         /\ SameContent(StagedReceipt, Content)
         /\ \/ StagedReceipt \in ledger /\ ~Terminal(StagedReceipt)
            \/ /\ StagedReceipt \notin ledger
               /\ StagedReceipt.generation <= Cardinality({d \in ledger : SameContent(d, Content)})
  <1> DEFINE reusable == {d \in ledger : Reuses(d, Content)}
             fresh == [event |-> Content.event, turn |-> Content.turn,
                       memories |-> Content.memories, retractions |-> Content.retractions,
                       generation |-> NextGeneration(Content)]
  <1>1. CASE reusable # {}
    <2>1. StagedReceipt = CHOOSE d \in reusable : TRUE
      BY <1>1, Zenon DEF StagedReceipt
    <2>2. StagedReceipt \in reusable
      <3> HIDE DEF reusable
      <3> QED BY <1>1, <2>1
    <2>3. /\ StagedReceipt \in ledger
          /\ SameContent(StagedReceipt, Content)
          /\ ~Terminal(StagedReceipt)
      BY <2>2 DEF Reuses
    <2> QED BY <2>3 DEF DInv, LedgerOK
  <1>2. CASE reusable = {}
    <2>1. StagedReceipt = fresh
      BY <1>2, Zenon DEF StagedReceipt
    <2> DEFINE g == NextGeneration(Content)
               earlier == {d \in ledger : SameContent(d, Content)}
    <2>2. /\ g \in 0 .. MaxReceipts
          /\ \A d \in earlier : d.generation < g
          /\ g <= Cardinality(earlier)
      BY NextGenerationIsNew
    <2>3. StagedReceipt.generation = g
      BY <2>1
    <2>4. StagedReceipt \in Receipt
      <3> HIDE DEF g
      <3>1. g \in 0 .. MaxReceipts
        BY <2>2
      <3> QED BY <2>1, <3>1, ContentShape DEF Receipt, g
    <2>5. SameContent(StagedReceipt, Content)
      BY <2>1 DEF SameContent
    <2>6. StagedReceipt \notin ledger
      <3>1. SUFFICES ASSUME StagedReceipt \in earlier PROVE FALSE
        BY <2>5
      <3>2. StagedReceipt.generation < StagedReceipt.generation
        BY <2>2, <2>3, <3>1
      <3>3. StagedReceipt.generation \in Int
        BY <2>2, <2>3, DeliveryAssumption
      <3> QED BY <3>2, <3>3
    <2> HIDE DEF g
    <2> QED BY <2>2, <2>3, <2>4, <2>5, <2>6
  <1> QED BY <1>1, <1>2

LEMMA StageContextKeeps ==
  ASSUME DInv, StageContext
  PROVE  DInv'
  <1>1. CASE Content.memories = {} /\ Content.retractions = {}
    <2>1. UNCHANGED <<worksetVars, ledger, acknowledged, turn, capability, superseded, told>>
      BY <1>1, Zenon DEF StageContext
    <2>2. BuildOK'
      BY DEF StageContext, BuildOK, Idle, Mode
    <2>3. LedgerOK'
      BY <2>1 DEF DInv, LedgerOK
    <2> QED BY <2>1, <2>2, <2>3, BuildStepKeeps
  <1>2. CASE ~(Content.memories = {} /\ Content.retractions = {})
    <2>1. PICK r \in Receipt : r = StagedReceipt
      BY StagedReceiptShape
    <2>2. /\ SameContent(r, Content)
          /\ \/ r \in ledger /\ ~Terminal(r)
             \/ /\ r \notin ledger
                /\ r.generation <= Cardinality({d \in ledger : SameContent(d, Content)})
      BY <2>1, StagedReceiptShape
    <2>3. /\ Cardinality(ledger \cup {r}) <= MaxReceipts
          /\ ledger' = ledger \cup {r}
          /\ superseded' \subseteq superseded \cup ledger
          /\ told' \subseteq told
          /\ UNCHANGED <<worksetVars, turn, capability, acknowledged>>
          /\ building' = Idle
      BY <1>2, <2>1 DEF StageContext, Open
    <2>4. IInv'
      BY <2>3, StepKeeps DEF DInv, worksetVars
    <2>5. BuildOK'
      BY <2>3 DEF BuildOK, Idle, Mode
    <2>6. LedgerOK'
      BY <2>3 DEF DInv, LedgerOK
    <2>7. IsFiniteSet(ledger) /\ IsFiniteSet(ledger')
      BY <2>3, FS_AddElement DEF DInv, LedgerIsBounded
    <2>8. LedgerIsBounded'
      BY <2>3, <2>7 DEF LedgerIsBounded
    <2>9. UsedWasAcknowledged'
      BY <2>3 DEF DInv, UsedWasAcknowledged, Row, worksetVars, vars
    <2>10. GenerationsCount'
      <3>1. ASSUME NEW d \in ledger
            PROVE  d.generation < Cardinality({e \in ledger' : SameContent(e, d)})
        <4> DEFINE before == {e \in ledger : SameContent(e, d)}
                   after == {e \in ledger' : SameContent(e, d)}
        <4>1. IsFiniteSet(after) /\ before \subseteq after /\ after \subseteq ledger'
          <5>1. before \subseteq after /\ after \subseteq ledger'
            BY <2>3
          <5> HIDE DEF before, after
          <5> QED BY <2>7, <5>1, FS_Subset
        <4>2. d.generation < Cardinality(before)
          BY DEF DInv, GenerationsCount, Equals
        <4>3. d.generation \in Nat
          BY DeliveryAssumption DEF DInv, LedgerOK, Receipt
        <4> HIDE DEF before, after
        <4>4. Cardinality(before) <= Cardinality(after) /\ IsFiniteSet(before)
          BY <4>1, FS_Subset
        <4>5. Cardinality(before) \in Nat /\ Cardinality(after) \in Nat
          BY <4>1, <4>4, FS_CardinalityType
        <4>6. d.generation < Cardinality(after)
          BY <4>2, <4>3, <4>4, <4>5
        <4> QED BY <4>6 DEF after
      <3>2. CASE r \in ledger
        BY <2>3, <3>1, <3>2 DEF GenerationsCount, Equals
      <3>3. CASE r \notin ledger
        <4> DEFINE before == {d \in ledger : SameContent(d, Content)}
                   after == {e \in ledger' : SameContent(e, r)}
        <4>1. after = before \cup {r} /\ r \notin before
          BY <2>2, <2>3, <3>3 DEF SameContent
        <4>2. IsFiniteSet(before)
          <5>1. before \subseteq ledger
            OBVIOUS
          <5> HIDE DEF before
          <5> QED BY <2>7, <5>1, FS_Subset
        <4>3. r.generation <= Cardinality(before)
          BY <2>2, <3>3
        <4>4. r.generation \in Nat
          BY DeliveryAssumption DEF Receipt
        <4> HIDE DEF before, after
        <4>5. Cardinality(after) = Cardinality(before) + 1 /\ Cardinality(before) \in Nat
          BY <4>1, <4>2, FS_AddElement, FS_CardinalityType
        <4>6. r.generation < Cardinality(after)
          BY <4>3, <4>4, <4>5
        <4>7. r.generation < Cardinality({e \in ledger' : SameContent(e, r)})
          BY <4>6 DEF after
        <4> QED BY <2>3, <3>1, <4>7 DEF GenerationsCount, Equals
      <3> QED BY <3>2, <3>3
    <2> QED BY <2>4, <2>5, <2>6, <2>8, <2>9, <2>10 DEF DInv
  <1> QED BY <1>1, <1>2

-----------------------------------------------------------------------------
(* record_turn, for the worksets: some rows at a synchronized version      *)
(* become used at it.                                                      *)

LEMMA RecordTurnRows ==
  ASSUME DInv, NEW ids \in SUBSET ledger, RecordTurn(ids)
  PROVE  /\ IInv'
         /\ \A t \in Thread, n \in Memory : RowStep(t, n)
         /\ \A n \in Memory :
                \/ workset'[Session][n].consumed = workset[Session][n].consumed
                \/ \E d \in ids : <<n, workset'[Session][n].consumed>> \in d.memories
  <1> DEFINE used(n) == Consumes(ids \ acknowledged, n)
             new(n) == [workset[Session][n] EXCEPT !.consumed = workset[Session][n].synced]
  <1>1. IInv /\ TypeOK /\ Session \in Thread
    BY DeliveryAssumption DEF DInv, IInv
  <1>2. UNCHANGED <<effective, newest, thread, subscription, link, dependency>>
    BY DEF RecordTurn
  <1>3. workset' = [workset EXCEPT ![Session] = [m \in Memory |->
            IF Consumes(ids \ acknowledged, m)
            THEN [Row(m) EXCEPT !.consumed = Row(m).synced] ELSE Row(m)]]
    BY DEF RecordTurn
  <1>4. \A t \in Thread, n \in Memory : workset'[t][n] =
          IF t = Session /\ used(n) THEN new(n) ELSE workset[t][n]
    BY <1>1, <1>3 DEF TypeOK, Row
  <1>5. \A n \in Memory : /\ new(n) \in WorksetRow
                          /\ new(n).state = workset[Session][n].state
                          /\ new(n).pending = workset[Session][n].pending
                          /\ new(n).synced = workset[Session][n].synced
                          /\ new(n).consumed = workset[Session][n].synced
    BY <1>1, RowNumbers DEF WorksetRow
  <1>6. \A n \in Memory : used(n) =>
          /\ workset[Session][n].state = "current"
          /\ \E d \in ids : <<n, workset[Session][n].synced>> \in d.memories
    BY DEF Consumes, Row
  <1> HIDE DEF new, used
  <1>7. workset' \in [Thread -> [Memory -> WorksetRow]]
    <2>1. \A n \in Memory :
            (IF used(n) THEN new(n) ELSE workset[Session][n]) \in WorksetRow
      BY <1>1, <1>5, RowNumbers
    <2>2. workset' = [workset EXCEPT ![Session] = [m \in Memory |->
            IF used(m) THEN new(m) ELSE workset[Session][m]]]
      BY <1>3 DEF used, new, Row
    <2> QED BY <1>1, <2>1, <2>2 DEF TypeOK
  <1>8. ASSUME NEW t \in Thread, NEW n \in Memory
        PROVE  RowOK(t, n)' /\ RowStep(t, n)
    <2>1. RowOK(t, n)
      BY <1>1 DEF IInv
    <2>2. (InScope(t, n)' <=> InScope(t, n)) /\ (Matches(t, n)' <=> Matches(t, n))
      BY <1>2, UntouchedThreads
    <2>3. CASE ~(t = Session /\ used(n))
      BY <1>1, <1>2, <1>4, <2>1, <2>2, <2>3, UntouchedRow
    <2>4. CASE t = Session /\ used(n)
      <3>1. workset'[t][n] = new(n) /\ effective'[n] = effective[n] /\ newest'[n] = newest[n]
        BY <1>2, <1>4, <2>4
      <3>2. new(n).consumed <= new(n).synced /\ new(n).consumed >= workset[t][n].consumed
        BY <1>1, <1>5, <2>1, <2>4, RowNumbers DEF RowOK
      <3>3. workset[t][n].state = "current"
        BY <1>6, <2>4
      <3> QED BY <1>5, <2>1, <2>2, <2>4, <3>1, <3>2, <3>3 DEF RowOK, RowStep, Holds
    <2> QED BY <2>3, <2>4
  <1>9. IInv'
    BY <1>1, <1>2, <1>7, <1>8, OnlyRowsChange
  <1>10. ASSUME NEW n \in Memory
         PROVE  \/ workset'[Session][n].consumed = workset[Session][n].consumed
                \/ \E d \in ids : <<n, workset'[Session][n].consumed>> \in d.memories
    <2>1. CASE used(n)
      <3>1. workset'[Session][n].consumed = workset[Session][n].synced
        BY <1>1, <1>4, <1>5, <2>1
      <3> QED BY <1>6, <2>1, <3>1
    <2>2. CASE ~used(n)
      BY <1>1, <1>4, <2>2
    <2> QED BY <2>1, <2>2
  <1> QED BY <1>8, <1>9, <1>10

LEMMA RecordTurnKeeps ==
  ASSUME DInv, NEW ids \in SUBSET ledger, RecordTurn(ids)
  PROVE  DInv'
  <1>1. IInv'
    BY RecordTurnRows
  <1>2. /\ acknowledged' = acknowledged \cup ids
        /\ UNCHANGED <<turn, capability, ledger, superseded, building>>
    BY DEF RecordTurn
  <1>3. BuildOK' /\ LedgerIsBounded'
    BY <1>2 DEF DInv, BuildOK, LedgerIsBounded
  <1>4. GenerationsCount'
    BY <1>2 DEF DInv, GenerationsCount, Equals
  <1>5. LedgerOK'
    <2>1. capability \in Turn
      BY DEF RecordTurn, DInv, LedgerOK
    <2>2. ASSUME NEW r \in UNION {d.retractions : d \in ids \ acknowledged}
          PROVE  [memory |-> r[1], version |-> r[2], turn |-> capability]
                     \in [memory : Memory, version : Ref, turn : Turn]
      <3>1. r \in Memory \X Ref
        BY DEF DInv, LedgerOK, Receipt
      <3> QED BY <2>1, <3>1
    <2>3. told' \subseteq told
            \cup {[memory |-> r[1], version |-> r[2], turn |-> capability] :
                  r \in UNION {d.retractions : d \in ids \ acknowledged}}
      BY DEF RecordTurn
    <2>4. told' \subseteq [memory : Memory, version : Ref, turn : Turn]
      BY <2>2, <2>3 DEF DInv, LedgerOK
    <2> QED BY <1>2, <2>4 DEF DInv, LedgerOK
  <1>6. UsedWasAcknowledged'
    <2>1. ASSUME NEW n \in Memory, workset'[Session][n].consumed # None
          PROVE  \E d \in acknowledged' : <<n, workset'[Session][n].consumed>> \in d.memories
      <3>1. \/ workset'[Session][n].consumed = workset[Session][n].consumed
            \/ \E d \in ids : <<n, workset'[Session][n].consumed>> \in d.memories
        BY RecordTurnRows
      <3>2. workset[Session][n].consumed # None =>
              \E d \in acknowledged : <<n, workset[Session][n].consumed>> \in d.memories
        BY DEF DInv, UsedWasAcknowledged, Row
      <3> QED BY <1>2, <2>1, <3>1, <3>2
    <2> QED BY <2>1 DEF UsedWasAcknowledged, Row
  <1> QED BY <1>1, <1>3, <1>4, <1>5, <1>6 DEF DInv

LEMMA DeliveryStepKeeps ==
  ASSUME DInv, [DeliveryNext]_allVars
  PROVE  DInv'
  <1>1. CASE UNCHANGED allVars
    <2>1. UNCHANGED <<worksetVars, ledger, acknowledged>> /\ BuildOK' /\ LedgerOK'
      BY <1>1 DEF allVars, deliveryVars, DInv, BuildOK, LedgerOK
    <2> QED BY <2>1, BuildStepKeeps
  <1>2. CASE Environment
    BY <1>2, EnvironmentKeeps
  <1>3. ASSUME NEW mode \in Mode, BeginContext(mode)
        PROVE  DInv'
    BY <1>3, BeginContextKeeps
  <1>4. CASE SyncContext
    BY <1>4, SyncContextKeeps
  <1>5. ASSUME NEW recalled \in SUBSET Memory, ReadEntries(recalled)
        PROVE  DInv'
    BY <1>5, ReadEntriesKeeps
  <1>6. CASE StageContext
    BY <1>6, StageContextKeeps
  <1>7. CASE Crash
    BY <1>7, CrashKeeps
  <1>8. CASE PostCompact
    BY <1>8, PostCompactKeeps
  <1>9. ASSUME NEW ids \in SUBSET ledger, RecordTurn(ids)
        PROVE  DInv'
    BY <1>9, RecordTurnKeeps
  <1> QED BY <1>1, <1>2, <1>3, <1>4, <1>5, <1>6, <1>7, <1>8, <1>9 DEF DeliveryNext

LEMMA DeliveryInvariance == DeliverySpec => []DInv
  <1>1. DeliveryInit => DInv
    BY DeliveryInitKeeps
  <1>2. DInv /\ [DeliveryNext]_allVars => DInv'
    BY DeliveryStepKeeps
  <1> QED BY <1>1, <1>2, PTL DEF DeliverySpec

(* What the session is recorded to have used was carried by a receipt it   *)
(* acknowledged: synchronizing alone never counts as use.                  *)
THEOREM UseIsAcknowledged == DeliverySpec => []UsedWasAcknowledged
  <1>1. DInv => UsedWasAcknowledged
    BY DEF DInv
  <1> QED BY <1>1, DeliveryInvariance, PTL

(* Every packet goes out under a receipt nobody has acknowledged: an old   *)
(* acknowledgement never stands in for new output, however often the same  *)
(* content is delivered.                                                   *)
THEOREM OutputIsNews == DeliverySpec => []OutputIsUnacknowledged
  <1>1. DInv => OutputIsUnacknowledged
    <2> SUFFICES ASSUME DInv PROVE StagedReceipt \notin acknowledged
      BY DEF OutputIsUnacknowledged
    <2>1. \/ StagedReceipt \in ledger /\ ~Terminal(StagedReceipt)
          \/ StagedReceipt \notin ledger
      BY StagedReceiptShape
    <2> QED BY <2>1 DEF Terminal, DInv, LedgerOK
  <1> QED BY <1>1, DeliveryInvariance, PTL

(* The worksets' promises hold of a task whose versions are consumed by    *)
(* record_turn, too: what rests on a revoked link is gone, and the task    *)
(* has or awaits the effective version of what it subscribes to.           *)
THEOREM DeliveryKeepsWorksets ==
  DeliverySpec => [](RevokedLinksLeaveNothing /\ SubscribersKeepUp)
  <1>1. DInv => RevokedLinksLeaveNothing /\ SubscribersKeepUp
    BY DEF DInv, IInv, RowOK, RevokedLinksLeaveNothing, SubscribersKeepUp
  <1> QED BY <1>1, DeliveryInvariance, PTL

LEMMA DeliveryStepRows ==
  ASSUME DInv, [DeliveryNext]_allVars
  PROVE  \A t \in Thread, n \in Memory : RowStep(t, n)
  <1>1. IInv /\ Session \in Thread
    BY DeliveryAssumption DEF DInv
  <1>2. CASE [Next]_vars
    BY <1>1, <1>2, StepKeeps
  <1>3. ASSUME NEW ids \in SUBSET ledger, RecordTurn(ids)
        PROVE  \A t \in Thread, n \in Memory : RowStep(t, n)
    BY <1>3, RecordTurnRows
  <1>4. CASE Environment
    <2>1. Next
      BY <1>1, <1>4 DEF Environment, Next
    <2> QED BY <1>2, <2>1
  <1>5. CASE SyncContext \/ PostCompact
    <2>1. Next
      BY <1>5, SessionSync DEF SyncContext, PostCompact
    <2> QED BY <1>2, <2>1
  <1>6. CASE UNCHANGED worksetVars
    BY <1>2, <1>6 DEF worksetVars
  <1> QED BY <1>3, <1>4, <1>5, <1>6
       DEF DeliveryNext, allVars, BeginContext, ReadEntries, StageContext, Crash

(* Nothing a hook, a recall or record_turn does loses a version the task   *)
(* has used or counts a retracted one as current.                          *)
THEOREM DeliveryRemembersRows == DeliverySpec => RowsAreRemembered
  <1> DEFINE Remembered == \A th \in Thread, m \in Memory :
          LET row == workset[th][m]
              new == workset'[th][m]
          IN  /\ row.consumed # None => new.consumed >= row.consumed
              /\ row.state = "retracted" => new.state # "current"
  <1>1. DInv /\ [DeliveryNext]_allVars => [Remembered]_vars
    BY DeliveryStepRows DEF RowStep
  <1> QED BY <1>1, DeliveryInvariance, PTL DEF DeliverySpec, RowsAreRemembered
-----------------------------------------------------------------------------
(* Withdrawals.  For memories of the session's own project: a receipt that *)
(* carries the withdrawal of the newest version is only written when       *)
(* nothing is effective any more (WithdrawnIsGone, by RetractedIsOld), so  *)
(* that nothing written in a later turn can show that version again        *)
(* (ToldIsOver); and once such a receipt was acknowledged, either the      *)
(* session counts as told or an open receipt carries it (ToldOrOpen),      *)
(* since whatever supersedes an open receipt repeats its withdrawals.      *)

Own(m) == SameProject(Session, m)

WithdrawnIsGone ==
  \A d \in ledger, m \in Memory :
      Own(m) /\ <<m, newest[m]>> \in d.retractions => effective[m] = None

RetractedIsOld ==
  \A m \in Memory :
      Own(m) /\ Row(m).state = "retracted" /\ effective[m] # None =>
          Row(m).synced < newest[m]

ToldIsOver ==
  \A t \in told : Own(t.memory) /\ t.version = newest[t.memory] =>
      /\ \A d \in ledger : <<t.memory, t.version>> \in d.memories => d.turn <= t.turn
      /\ <<t.memory, t.version>> \in building.entries => capability <= t.turn

LedgerIsPast ==
  \A d \in ledger :
      /\ d.turn <= turn
      /\ \A m \in Memory, v \in Ref : <<m, v>> \in d.retractions => v <= newest[m]

ToldWasAcknowledged ==
  \A t \in told : \E d \in acknowledged : <<t.memory, t.version>> \in d.retractions

ToldOrOpen ==
  \A m \in Memory, d \in acknowledged :
      Own(m) /\ Holds(Session, m) /\ Row(m).synced = newest[m]
      /\ <<m, newest[m]>> \in d.retractions =>
          \/ \E t \in told : t.memory = m /\ t.version = newest[m]
          \/ \E e \in Open : <<m, newest[m]>> \in e.retractions

EntriesAreRead == building.phase # "read" => building.entries = {}

WInv ==
  /\ WithdrawnIsGone
  /\ RetractedIsOld
  /\ ToldIsOver
  /\ LedgerIsPast
  /\ ToldWasAcknowledged
  /\ ToldOrOpen
  /\ EntriesAreRead

(* What the worksets' operations do to the rows of the session's own       *)
(* memories: one becomes retracted only when nothing is effective, one is  *)
(* made only when something is, and what takes effect is new.              *)
OwnStep ==
  \A n \in Memory :
      /\ \/ newest'[n] = newest[n] /\ effective'[n] \in {effective[n], None}
         \/ newest'[n] > newest[n] /\ effective'[n] = newest'[n]
      /\ Own(n) => \/ workset'[Session][n] = workset[Session][n]
                   \/ effective'[n] # None /\ workset'[Session][n].state # "retracted"
                   \/ /\ effective'[n] = None
                      /\ workset'[Session][n].state # "absent" => Holds(Session, n)

LEMMA ActivateOwn ==
  ASSUME TypeOK, NEW m \in Memory, NEW v \in Version, NEW source \in Source,
         Activate(m, v, source)
  PROVE  OwnStep
  <1> DEFINE reached == HearsOf(Session, m) \/ (Session \in source /\ Live(Session))
  <1> SUFFICES ASSUME NEW n \in Memory
               PROVE  /\ \/ newest'[n] = newest[n] /\ effective'[n] \in {effective[n], None}
                         \/ newest'[n] > newest[n] /\ effective'[n] = newest'[n]
                      /\ \/ workset'[Session][n] = workset[Session][n]
                         \/ /\ effective'[n] # None
                            /\ workset'[Session][n].state # "retracted"
    BY DEF OwnStep
  <1>1. \/ newest'[n] = newest[n] /\ effective'[n] = effective[n]
        \/ newest'[n] > newest[n] /\ effective'[n] = newest'[n]
    BY DEF Activate, TypeOK
  <1>2. workset'[Session][n] = IF n = m /\ reached
          THEN Staged(workset[Session][m], v, Session \in source) ELSE workset[Session][n]
    BY DeliveryAssumption DEF Activate, DistributeActivation, TypeOK
  <1>3. PICK own \in BOOLEAN : Staged(workset[Session][m], v, Session \in source)
                               = Staged(workset[Session][m], v, own)
    BY DeliveryAssumption, RowNumbers, StagedForMember
  <1>4. Staged(workset[Session][m], v, own).state = "pending"
    BY DeliveryAssumption, RowNumbers, StagedRow
  <1>5. n = m => effective'[n] # None
    BY VersionsArePositive DEF Activate, TypeOK
  <1> HIDE DEF reached
  <1> QED BY <1>1, <1>2, <1>3, <1>4, <1>5

LEMMA RetractOwn ==
  ASSUME TypeOK, NEW m \in Memory, Retract(m)
  PROVE  OwnStep
  <1>1. newest' = newest /\ \A n \in Memory :
          effective'[n] = IF n = m THEN None ELSE effective[n]
    BY DEF Retract, TypeOK
  <1>2. \A n \in Memory : workset'[Session][n] =
          IF n = m /\ Live(Session) /\ Holds(Session, m)
          THEN Retracted(workset[Session][m]) ELSE workset[Session][n]
    BY DeliveryAssumption DEF Retract, DistributeRetraction, TypeOK
  <1> QED BY <1>1, <1>2 DEF OwnStep

(* Steps that leave the effective versions alone.                          *)
LEMMA RowsOnlyOwn ==
  ASSUME UNCHANGED <<effective, newest>>,
         \A n \in Memory : Own(n) =>
             \/ workset'[Session][n] = workset[Session][n]
             \/ effective[n] # None /\ workset'[Session][n].state # "retracted"
             \/ /\ effective[n] = None
                /\ workset'[Session][n].state # "absent" => Holds(Session, n)
  PROVE  OwnStep
  BY DEF OwnStep

LEMMA RevokeOwn ==
  ASSUME IInv, NEW source \in Project, NEW target \in Project,
         RevokeProjectLink(source, target)
  PROVE  OwnStep
  <1>1. source # target
    BY DEF IInv, NoSelfLink, RevokeProjectLink
  <1>2. \A n \in Memory : Own(n) => workset'[Session][n] = workset[Session][n]
    BY <1>1, DeliveryAssumption DEF RevokeProjectLink, LosesWithLink, Own, SameProject
  <1> QED BY <1>2, RowsOnlyOwn DEF RevokeProjectLink

LEMMA SyncOwn ==
  ASSUME TypeOK, SyncAtSafeBoundary(Session)
  PROVE  OwnStep
  <1>1. ASSUME NEW n \in Memory, Own(n)
        PROVE  \/ workset'[Session][n] = workset[Session][n]
               \/ effective[n] # None /\ workset'[Session][n].state # "retracted"
               \/ effective[n] = None /\ Holds(Session, n)
    <2>1. workset'[Session][n] = IF workset[Session][n].state = "pending"
            THEN Synced(Session, n) ELSE workset[Session][n]
      BY DeliveryAssumption DEF SyncAtSafeBoundary, TypeOK
    <2>2. workset[Session][n] \in WorksetRow /\ InScope(Session, n)
      BY <1>1, DeliveryAssumption, RowNumbers DEF InScope, Own
    <2>3. effective[n] # None =>
            Synced(Session, n) = workset[Session][n] \/ Synced(Session, n).state = "current"
      BY <2>2 DEF Synced, WorksetRow
    <2> QED BY <2>1, <2>3 DEF Holds
  <1> QED BY <1>1, RowsOnlyOwn DEF SyncAtSafeBoundary

LEMMA RecallOwn ==
  ASSUME TypeOK, NEW found \in SUBSET Memory, RecallAndStage(Session, found)
  PROVE  OwnStep
  <1>1. ASSUME NEW n \in Memory
        PROVE  \/ workset'[Session][n] = workset[Session][n]
               \/ effective[n] # None /\ workset'[Session][n].state # "retracted"
    <2>1. workset'[Session][n] = IF n \in found
            THEN Recalled(workset[Session][n], effective[n]) ELSE workset[Session][n]
      BY DeliveryAssumption DEF RecallAndStage, TypeOK
    <2>2. n \in found => /\ effective[n] \in Version /\ effective[n] # None
                        /\ workset[Session][n] \in WorksetRow
      BY DeliveryAssumption, RowNumbers DEF RecallAndStage
    <2>3. n \in found => Recalled(workset[Session][n], effective[n]).state # "retracted"
      BY <2>2 DEF Recalled, Staged, WorksetRow
    <2> QED BY <2>1, <2>2, <2>3
  <1> QED BY <1>1, RowsOnlyOwn DEF RecallAndStage

LEMMA StagedForState ==
  ASSUME TypeOK, NEW status, NEW selectors, NEW n \in Memory
  PROVE  LET row == StagedFor(Session, status, selectors)[n]
         IN  \/ row = workset[Session][n]
             \/ effective[n] # None /\ row.state = "pending"
  <1>1. workset[Session][n] \in WorksetRow /\ (effective[n] # None => effective[n] \in Version)
    BY DeliveryAssumption, RowNumbers
  <1>2. effective[n] # None =>
          Staged(workset[Session][n], effective[n], FALSE).state = "pending"
    BY <1>1, StagedRow
  <1> QED BY <1>2 DEF StagedFor

LEMMA RegisterOwn ==
  ASSUME TypeOK, NEW status, NEW selectors, RegisterThread(Session, status, selectors)
  PROVE  OwnStep
  <1> DEFINE S == StagedFor(Session, status, subscription[Session] \cup selectors)
  <1>1. workset'[Session] = S
    BY DeliveryAssumption DEF RegisterThread, TypeOK
  <1>2. ASSUME NEW n \in Memory
        PROVE  \/ S[n] = workset[Session][n]
               \/ effective[n] # None /\ S[n].state = "pending"
    BY StagedForState
  <1> HIDE DEF S
  <1> QED BY <1>1, <1>2, RowsOnlyOwn DEF RegisterThread

LEMMA ConfigureOwn ==
  ASSUME TypeOK, NEW status, NEW selectors, NEW toggles,
         ConfigureThread(Session, status, selectors, toggles)
  PROVE  OwnStep
  <1> DEFINE stages == \/ thread[Session] # status
                       \/ toggles
                       \/ selectors \ subscription[Session] # {}
             staged == IF stages THEN StagedFor(Session, status, selectors)
                       ELSE workset[Session]
             reconciled == [n \in Memory |->
                 IF /\ status = "live"
                    /\ effective[n] = None
                    /\ staged[n].state # "absent"
                 THEN Retracted(staged[n]) ELSE staged[n]]
             final == [n \in Memory |->
                 IF Removed(reconciled[n], MatchesWith(Session, n, status, selectors))
                 THEN NoWorkset ELSE reconciled[n]]
  <1>1. workset'[Session] = final
    BY DeliveryAssumption DEF ConfigureThread, TypeOK
  <1>2. ASSUME NEW n \in Memory
        PROVE  \/ staged[n] = workset[Session][n]
               \/ effective[n] # None /\ staged[n].state = "pending"
    BY StagedForState
  <1>3. ASSUME NEW n \in Memory, effective[n] # None
        PROVE  final[n] \in {NoWorkset, staged[n]}
    <2> HIDE DEF staged
    <2> QED BY <1>3
  <1>4. NoWorkset.state = "absent"
    BY DEF NoWorkset
  <1>5. ASSUME NEW n \in Memory, effective[n] = None, final[n].state # "absent"
        PROVE  Holds(Session, n)
    <2>1. staged[n] = workset[Session][n]
      BY <1>2, <1>5
    <2>2. final[n] \in {NoWorkset, staged[n]} \/ staged[n].state # "absent"
      <3> HIDE DEF staged
      <3> QED OBVIOUS
    <2> HIDE DEF staged, final
    <2> QED BY <1>4, <1>5, <2>1, <2>2 DEF Holds
  <1> HIDE DEF staged, final
  <1> QED BY <1>1, <1>2, <1>3, <1>4, <1>5, RowsOnlyOwn DEF ConfigureThread
(* A step that writes no receipt and reads no entries.                     *)
LEMMA RowsMoveKeepsW ==
  ASSUME DInv, DInv', WInv, OwnStep, \A n \in Memory : RowStep(Session, n),
         UNCHANGED <<turn, capability, ledger, acknowledged, superseded, told>>,
         building'.entries = building.entries, EntriesAreRead'
  PROVE  WInv'
  <1>1. \A n \in Memory : /\ effective[n] \in Ref /\ newest[n] \in Int
                          /\ Row(n).synced \in Int /\ Row(n).synced <= newest[n]
                          /\ effective[n] # None => effective[n] \in Int /\ effective[n] > None
    BY DeliveryAssumption, RowNumbers, VersionsArePositive DEF DInv, IInv, RowOK, Row
  <1>2. ASSUME NEW n \in Memory, Own(n), NEW d \in ledger, <<n, newest'[n]>> \in d.retractions
        PROVE  newest'[n] = newest[n] /\ effective'[n] = None
    <2>1. newest'[n] \in Ref
      BY <1>2 DEF DInv, LedgerOK, Receipt
    <2>2. newest'[n] <= newest[n]
      BY <1>2, <2>1 DEF WInv, LedgerIsPast
    <2>3. newest'[n] = newest[n] /\ effective'[n] \in {effective[n], None}
      BY <1>1, <1>2, <2>1, <2>2, VersionsArePositive DEF OwnStep, Ref
    <2> QED BY <1>2, <2>3 DEF WInv, WithdrawnIsGone
  <1>3. WithdrawnIsGone'
    BY <1>2 DEF WithdrawnIsGone, Own, SameProject
  <1>4. RetractedIsOld'
    <2> SUFFICES ASSUME NEW n \in Memory, Own(n), workset'[Session][n].state = "retracted",
                        effective'[n] # None
                 PROVE  workset'[Session][n].synced < newest'[n]
      BY DEF RetractedIsOld, Own, SameProject, Row
    <2>1. workset'[Session][n] = workset[Session][n]
      BY DEF OwnStep
    <2>2. CASE newest'[n] = newest[n] /\ effective'[n] = effective[n]
      BY <2>1, <2>2 DEF WInv, RetractedIsOld, Row
    <2>3. CASE newest'[n] > newest[n] /\ effective'[n] = newest'[n]
      <3>1. newest'[n] \in Int
        BY DEF DInv, IInv, TypeOK, Ref, Version, None
      <3> QED BY <1>1, <2>1, <2>3, <3>1 DEF Row
    <2> QED BY <2>2, <2>3 DEF OwnStep
  <1>5. ToldIsOver'
    <2> SUFFICES ASSUME NEW t \in told, Own(t.memory), t.version = newest'[t.memory]
                 PROVE  /\ \A d \in ledger : <<t.memory, t.version>> \in d.memories =>
                               d.turn <= t.turn
                        /\ <<t.memory, t.version>> \in building.entries =>
                               capability <= t.turn
      BY DEF ToldIsOver, Own, SameProject
    <2>1. t.memory \in Memory /\ \E d \in ledger : <<t.memory, t.version>> \in d.retractions
      BY DEF WInv, ToldWasAcknowledged, DInv, LedgerOK
    <2>2. newest'[t.memory] = newest[t.memory]
      BY <1>2, <2>1
    <2> QED BY <2>2 DEF WInv, ToldIsOver
  <1>6. LedgerIsPast'
    <2> SUFFICES ASSUME NEW d \in ledger, NEW n \in Memory, NEW v \in Ref,
                        <<n, v>> \in d.retractions
                 PROVE  v <= newest'[n]
      BY DEF LedgerIsPast, WInv
    <2>1. v <= newest[n]
      BY DEF WInv, LedgerIsPast
    <2>2. v \in Int /\ newest[n] \in Int /\ newest'[n] \in Int
      BY DEF DInv, IInv, TypeOK, Ref, Version, None
    <2>3. newest'[n] >= newest[n]
      BY <2>2 DEF OwnStep
    <2> QED BY <2>1, <2>2, <2>3
  <1>7. ToldWasAcknowledged'
    BY DEF WInv, ToldWasAcknowledged
  <1>8. ToldOrOpen'
    <2> SUFFICES ASSUME NEW n \in Memory, NEW d \in acknowledged,
                        Own(n), workset'[Session][n].state # "absent",
                        workset'[Session][n].synced = newest'[n],
                        <<n, newest'[n]>> \in d.retractions
                 PROVE  \/ \E t \in told : t.memory = n /\ t.version = newest'[n]
                        \/ \E e \in Open : <<n, newest'[n]>> \in e.retractions
      BY DEF ToldOrOpen, Own, SameProject, Holds, Row, Open, Terminal
    <2>1. d \in ledger
      BY DEF DInv, LedgerOK
    <2>2. newest'[n] = newest[n] /\ effective[n] = None
      BY <1>2, <2>1 DEF WInv, WithdrawnIsGone
    <2>3. workset'[Session][n].synced = workset[Session][n].synced
      <3>1. workset'[Session][n].synced # workset[Session][n].synced =>
              workset'[Session][n].synced = None /\ None > workset[Session][n].synced
        BY <2>2, DeliveryAssumption DEF RowStep
      <3> QED BY <3>1, DeliveryAssumption, RowNumbers DEF DInv, IInv, None
    <2>4. Holds(Session, n)
      BY <1>2, <2>1 DEF OwnStep, Holds
    <2> QED BY <2>1, <2>2, <2>3, <2>4 DEF WInv, ToldOrOpen, Row
  <1> QED BY <1>3, <1>4, <1>5, <1>6, <1>7, <1>8 DEF WInv

LEMMA EnvironmentOwn ==
  ASSUME DInv, Environment
  PROVE  OwnStep
  <1>1. IInv /\ TypeOK
    BY DEF DInv, IInv
  <1>2. ASSUME NEW source \in Project, NEW target \in Project, LinkProjects(source, target)
        PROVE  OwnStep
    <2>1. UNCHANGED <<effective, newest, workset>>
      BY <1>2 DEF LinkProjects
    <2> QED BY <2>1, RowsOnlyOwn
  <1> QED BY <1>1, <1>2, ActivateOwn, RetractOwn, RevokeOwn, RecallOwn, RegisterOwn,
             ConfigureOwn DEF Environment

LEMMA BeginContextKeepsW ==
  ASSUME DInv, WInv, NEW mode \in Mode, BeginContext(mode)
  PROVE  WInv'
  <1>1. /\ building'.entries = {}
        /\ UNCHANGED <<worksetVars, ledger, acknowledged, superseded, told>>
    BY DEF BeginContext
  <1>2. turn \in Int /\ turn' \in Int /\ turn <= turn' /\ \A d \in ledger : d.turn \in Int
    BY DeliveryAssumption DEF BeginContext, DInv, LedgerOK, Receipt, Turn, NoTurn
  <1>3. LedgerIsPast'
    BY <1>1, <1>2 DEF LedgerIsPast, WInv, worksetVars, vars
  <1>4. WithdrawnIsGone' /\ RetractedIsOld' /\ ToldWasAcknowledged'
    BY <1>1 DEF WInv, WithdrawnIsGone, RetractedIsOld, ToldWasAcknowledged, Own, SameProject,
                Row, worksetVars, vars
  <1>5. ToldOrOpen'
    BY <1>1 DEF WInv, ToldOrOpen, Own, SameProject, Holds, Row, Open, Terminal,
                worksetVars, vars
  <1>6. ToldIsOver'
    BY <1>1 DEF WInv, ToldIsOver, Own, SameProject, worksetVars, vars
  <1>7. EntriesAreRead'
    BY <1>1 DEF EntriesAreRead
  <1> QED BY <1>3, <1>4, <1>5, <1>6, <1>7 DEF WInv

(* What is read is effective, so that its withdrawal was never told.       *)
LEMMA ReadEntriesKeepsW ==
  ASSUME DInv, WInv, NEW recalled \in SUBSET Memory, ReadEntries(recalled)
  PROVE  WInv'
  <1>1. /\ building'.phase = "read"
        /\ building'.entries \subseteq ContextEntries
        /\ UNCHANGED <<worksetVars, turn, capability, ledger, acknowledged, superseded, told>>
    BY DEF ReadEntries, Selected, DInv, BuildOK, LedgerOK
  <1>2. WithdrawnIsGone' /\ RetractedIsOld' /\ ToldWasAcknowledged' /\ LedgerIsPast'
    BY <1>1 DEF WInv, WithdrawnIsGone, RetractedIsOld, ToldWasAcknowledged, LedgerIsPast,
                Own, SameProject, Row, worksetVars, vars
  <1>3. ToldOrOpen'
    BY <1>1 DEF WInv, ToldOrOpen, Own, SameProject, Holds, Row, Open, Terminal,
                worksetVars, vars
  <1>4. ToldIsOver'
    <2> SUFFICES ASSUME NEW t \in told, Own(t.memory), t.version = newest[t.memory],
                        <<t.memory, t.version>> \in ContextEntries
                 PROVE  FALSE
      BY <1>1 DEF WInv, ToldIsOver, Own, SameProject, worksetVars, vars
    <2>1. t.memory \in Memory
      BY DEF DInv, LedgerOK
    <2>2. t.version = effective[t.memory] /\ effective[t.memory] # None
      BY DEF ContextEntries
    <2>3. PICK d \in ledger : <<t.memory, newest[t.memory]>> \in d.retractions
      BY DEF WInv, ToldWasAcknowledged, DInv, LedgerOK
    <2> QED BY <2>1, <2>2, <2>3 DEF WInv, WithdrawnIsGone
  <1>5. EntriesAreRead'
    BY <1>1 DEF EntriesAreRead
  <1> QED BY <1>2, <1>3, <1>4, <1>5 DEF WInv

(* A build that ends leaves nothing read.                                  *)
LEMMA NothingStagedKeepsW ==
  ASSUME DInv, WInv, building' = Idle,
         UNCHANGED <<worksetVars, turn, capability, ledger, acknowledged, superseded, told>>
  PROVE  WInv'
  <1>1. building'.entries = {}
    BY DEF Idle
  <1>2. WithdrawnIsGone' /\ RetractedIsOld' /\ ToldWasAcknowledged' /\ LedgerIsPast'
    BY DEF WInv, WithdrawnIsGone, RetractedIsOld, ToldWasAcknowledged, LedgerIsPast,
           Own, SameProject, Row, worksetVars, vars
  <1>3. ToldOrOpen'
    BY DEF WInv, ToldOrOpen, Own, SameProject, Holds, Row, Open, Terminal, worksetVars, vars
  <1>4. ToldIsOver' /\ EntriesAreRead'
    BY <1>1 DEF WInv, ToldIsOver, EntriesAreRead, Own, SameProject, worksetVars, vars
  <1> QED BY <1>2, <1>3, <1>4 DEF WInv
(* A notice is only left out if it is known.                               *)
LEMMA NoticedOrKnown ==
  ASSUME NEW mode, NEW m \in Memory, Withdrawn(m)
  PROVE  <<m, Row(m).synced>> \in Notices(mode) \cup AcknowledgedRetractions
  <1>1. <<m, Row(m).synced>> \in {<<n, Row(n).synced>> : n \in {k \in Memory : Withdrawn(k)}}
    OBVIOUS
  <1>2. Notices(mode) \in {{<<n, Row(n).synced>> : n \in {k \in Memory : Withdrawn(k)}} \ known :
                          known \in {{}, AcknowledgedRetractions}}
    BY Zenon DEF Notices
  <1> QED BY <1>1, <1>2

(* A receipt ends open ones, but repeats the withdrawals they carried.     *)
LEMMA StageContextKeepsW ==
  ASSUME DInv, WInv, StageContext
  PROVE  WInv'
  <1>1. CASE Content.memories = {} /\ Content.retractions = {}
    <2>1. building' = Idle /\ UNCHANGED <<worksetVars, turn, capability, ledger,
                                         acknowledged, superseded, told>>
      BY <1>1, Zenon DEF StageContext
    <2> QED BY <2>1, NothingStagedKeepsW
  <1>2. CASE ~(Content.memories = {} /\ Content.retractions = {})
    <2>1. PICK r \in Receipt : r = StagedReceipt
      BY StagedReceiptShape
    <2>2. /\ r.turn = Boundary(building.mode)
          /\ r.memories = building.entries
          /\ r.retractions = Notices(building.mode)
          /\ r \notin acknowledged \cup superseded
      BY <2>1, StagedReceiptShape DEF SameContent, Content, Terminal, DInv, LedgerOK
    <2>3. /\ ledger' = ledger \cup {r}
          /\ superseded' = superseded \cup {d \in Open \ {r} : Ends(r, d)}
          /\ \A t \in told \ told' : <<t.memory, t.version>> \in r.retractions
          /\ told' \subseteq told
          /\ building' = Idle
          /\ UNCHANGED <<worksetVars, turn, capability, acknowledged>>
      BY <1>2, <2>1, <2>2 DEF StageContext, Content
    <2>4. r \in Open'
      BY <2>2, <2>3 DEF Open, Terminal
    <2>5. UNCHANGED <<effective, newest, workset>> /\ building'.entries = {}
      BY <2>3 DEF worksetVars, vars, Idle
    <2>6. ASSUME NEW n \in Memory, NEW v, <<n, v>> \in r.retractions
          PROVE  Withdrawn(n) /\ v = Row(n).synced
      BY <2>2, <2>6 DEF Notices
    <2>7. \A n \in Memory : Row(n).synced \in Int /\ newest[n] \in Int
                            /\ Row(n).synced <= newest[n]
      BY DeliveryAssumption, RowNumbers DEF DInv, IInv, RowOK, Row
    <2>8. WithdrawnIsGone'
      <3> SUFFICES ASSUME NEW n \in Memory, Own(n), <<n, newest[n]>> \in r.retractions
                   PROVE  effective[n] = None
        BY <2>3, <2>5 DEF WInv, WithdrawnIsGone, Own, SameProject
      <3> QED BY <2>6, <2>7 DEF Withdrawn, WInv, RetractedIsOld
    <2>9. RetractedIsOld' /\ ToldWasAcknowledged' /\ EntriesAreRead'
      BY <2>3, <2>5 DEF WInv, RetractedIsOld, ToldWasAcknowledged, EntriesAreRead,
                        Own, SameProject, Row
    <2>10. LedgerIsPast'
      <3>1. r.turn <= turn
        BY <2>2, DeliveryAssumption DEF Boundary, DInv, LedgerOK, Turn, NoTurn
      <3>2. \A n \in Memory, v \in Ref : <<n, v>> \in r.retractions => v <= newest[n]
        BY <2>6, <2>7
      <3> QED BY <2>3, <2>5, <3>1, <3>2 DEF WInv, LedgerIsPast
    <2>11. ToldIsOver'
      <3> SUFFICES ASSUME NEW t \in told, Own(t.memory), t.version = newest[t.memory],
                          <<t.memory, t.version>> \in r.memories
                   PROVE  r.turn <= t.turn
        BY <2>3, <2>5 DEF WInv, ToldIsOver, Own, SameProject
      <3>1. capability <= t.turn
        BY <2>2 DEF WInv, ToldIsOver
      <3>2. t.turn \in Turn
        BY DEF DInv, LedgerOK
      <3> QED BY <2>2, <3>1, <3>2, DeliveryAssumption DEF Boundary, Turn, NoTurn
    <2>12. ToldOrOpen'
      <3> SUFFICES ASSUME NEW n \in Memory, NEW d \in acknowledged,
                          Own(n), Holds(Session, n), Row(n).synced = newest[n],
                          <<n, newest[n]>> \in d.retractions
                   PROVE  \/ \E t \in told' : t.memory = n /\ t.version = newest[n]
                          \/ \E e \in Open' : <<n, newest[n]>> \in e.retractions
        BY <2>3, <2>5 DEF ToldOrOpen, Own, SameProject, Holds, Row
      <3>1. CASE \E t \in told : t.memory = n /\ t.version = newest[n]
        BY <2>3, <2>4, <3>1
      <3>2. ASSUME NEW e \in Open, <<n, newest[n]>> \in e.retractions
            PROVE  \E f \in Open' : <<n, newest[n]>> \in f.retractions
        <4>1. CASE e \in Open'
          BY <3>2, <4>1
        <4>2. CASE e \notin Open'
          <5>1. d \in ledger
            BY DEF DInv, LedgerOK
          <5>2. Withdrawn(n)
            BY <5>1 DEF WInv, WithdrawnIsGone, Withdrawn
          <5>3. <<n, newest[n]>> \notin AcknowledgedRetractions
            BY <3>2 DEF AcknowledgedRetractions
          <5>4. <<n, newest[n]>> \in r.retractions
            <6>1. <<n, Row(n).synced>> \in Notices(building.mode) \cup AcknowledgedRetractions
              BY <5>2, NoticedOrKnown, Zenon
            <6> QED BY <2>2, <5>3, <6>1
          <5> QED BY <2>4, <5>4
        <4> QED BY <4>1, <4>2
      <3> QED BY <3>1, <3>2 DEF WInv, ToldOrOpen
    <2> QED BY <2>8, <2>9, <2>10, <2>11, <2>12 DEF WInv
  <1> QED BY <1>1, <1>2

(* An acknowledgement tells the session what its receipts carried; a use   *)
(* makes that forgotten only for versions that were not the newest.        *)
LEMMA RecordTurnKeepsW ==
  ASSUME DInv, WInv, NEW ids \in SUBSET ledger, RecordTurn(ids)
  PROVE  WInv'
  <1> DEFINE fresh == ids \ acknowledged
  <1>1. /\ acknowledged' = acknowledged \cup ids
        /\ UNCHANGED <<effective, newest, turn, capability, ledger, superseded, building>>
        /\ building.phase = "idle" /\ capability # NoTurn
    BY DEF RecordTurn
  <1>2. \A n \in Memory : /\ workset'[Session][n].state = workset[Session][n].state
                          /\ workset'[Session][n].synced = workset[Session][n].synced
    <2>1. workset' = [workset EXCEPT ![Session] = [m \in Memory |->
              IF Consumes(fresh, m)
              THEN [Row(m) EXCEPT !.consumed = Row(m).synced] ELSE Row(m)]]
      BY DEF RecordTurn
    <2>2. \A n \in Memory : Row(n) \in WorksetRow
      BY DeliveryAssumption, RowNumbers DEF DInv, IInv, Row
    <2> HIDE DEF fresh
    <2> QED BY <2>1, <2>2, DeliveryAssumption DEF Row, DInv, IInv, TypeOK, WorksetRow
  <1>3. told' = {t \in told : \A d \in fresh : d.turn <= t.turn \/ ~Consumes({d}, t.memory)}
                \cup {[memory |-> r[1], version |-> r[2], turn |-> capability] :
                      r \in UNION {d.retractions : d \in fresh}}
    BY DEF RecordTurn
  <1>4. ASSUME NEW d \in fresh, NEW n \in Memory, NEW v \in Ref, <<n, v>> \in d.retractions
        PROVE  [memory |-> n, version |-> v, turn |-> capability] \in told'
    BY <1>3, <1>4
  <1>5. ASSUME NEW t \in told'
        PROVE  \/ t \in told
               \/ /\ t.turn = capability
                  /\ \E d \in fresh : <<t.memory, t.version>> \in d.retractions
    <2>1. SUFFICES ASSUME NEW d \in fresh, NEW r \in d.retractions,
                          t = [memory |-> r[1], version |-> r[2], turn |-> capability]
                   PROVE  t.turn = capability /\ <<t.memory, t.version>> \in d.retractions
      BY <1>3
    <2>2. r \in Memory \X Ref
      BY DEF DInv, LedgerOK, Receipt
    <2> QED BY <2>1, <2>2
  <1>6. WithdrawnIsGone' /\ RetractedIsOld' /\ LedgerIsPast' /\ EntriesAreRead'
    BY <1>1, <1>2 DEF WInv, WithdrawnIsGone, RetractedIsOld, LedgerIsPast, EntriesAreRead,
                      Own, SameProject, Row
  <1>7. ToldWasAcknowledged'
    BY <1>1, <1>5 DEF WInv, ToldWasAcknowledged
  <1>8. ToldIsOver'
    <2> SUFFICES ASSUME NEW t \in told', Own(t.memory), t.version = newest[t.memory]
                 PROVE  \A d \in ledger : <<t.memory, t.version>> \in d.memories =>
                            d.turn <= t.turn
      BY <1>1 DEF WInv, EntriesAreRead, ToldIsOver, Own, SameProject
    <2>1. CASE t \in told
      BY <2>1 DEF WInv, ToldIsOver
    <2>2. CASE t.turn = capability
      BY <1>1, <2>2 DEF WInv, LedgerIsPast, DInv, LedgerOK
    <2> QED BY <1>5, <2>1, <2>2
  <1>9. ToldOrOpen'
    <2> SUFFICES ASSUME NEW n \in Memory, NEW d \in acknowledged \cup ids,
                        Own(n), Holds(Session, n), Row(n).synced = newest[n],
                        <<n, newest[n]>> \in d.retractions
                 PROVE  \/ \E t \in told' : t.memory = n /\ t.version = newest[n]
                        \/ \E e \in Open' : <<n, newest[n]>> \in e.retractions
      BY <1>1, <1>2 DEF ToldOrOpen, Own, SameProject, Holds, Row
    <2>1. newest[n] \in Ref
      BY DEF DInv, IInv, TypeOK
    <2>2. ASSUME NEW e \in fresh, <<n, newest[n]>> \in e.retractions
          PROVE  \E t \in told' : t.memory = n /\ t.version = newest[n]
      BY <1>4, <2>1, <2>2
    <2>3. ASSUME NEW t \in told, t.memory = n, t.version = newest[n]
          PROVE  t \in told'
      <3>1. ASSUME NEW e \in fresh, Consumes({e}, n)
            PROVE  e.turn <= t.turn
        BY <2>3, <3>1 DEF Consumes, WInv, ToldIsOver
      <3> QED BY <1>3, <2>3, <3>1
    <2>4. ASSUME NEW e \in Open, <<n, newest[n]>> \in e.retractions
          PROVE  e \in fresh \/ e \in Open'
      BY <1>1 DEF Open, Terminal
    <2>5. CASE d \in acknowledged
      BY <2>2, <2>3, <2>4, <2>5 DEF WInv, ToldOrOpen
    <2>6. CASE d \in fresh
      BY <2>2, <2>6
    <2> QED BY <2>5, <2>6
  <1> QED BY <1>6, <1>7, <1>8, <1>9 DEF WInv

LEMMA WithdrawalStepKeeps ==
  ASSUME DInv, WInv, [DeliveryNext]_allVars
  PROVE  WInv'
  <1>1. DInv' /\ \A n \in Memory : RowStep(Session, n)
    BY DeliveryStepKeeps, DeliveryStepRows, DeliveryAssumption
  <1>2. CASE Environment
    <2>1. OwnStep
      BY <1>2, EnvironmentOwn
    <2>2. UNCHANGED <<turn, capability, ledger, acknowledged, superseded, told, building>>
      BY <1>2 DEF Environment, deliveryVars
    <2>3. EntriesAreRead'
      BY <2>2 DEF WInv, EntriesAreRead
    <2> QED BY <1>1, <2>1, <2>2, <2>3, RowsMoveKeepsW
  <1>3. CASE SyncContext \/ PostCompact
    <2>1. OwnStep
      BY <1>3, SyncOwn DEF SyncContext, PostCompact, DInv, IInv
    <2>2. /\ UNCHANGED <<turn, capability, ledger, acknowledged, superseded, told>>
          /\ building'.entries = building.entries
          /\ building.phase # "read"
      BY <1>3 DEF SyncContext, PostCompact, deliveryVars, DInv, BuildOK
    <2>3. EntriesAreRead'
      BY <2>2 DEF WInv, EntriesAreRead
    <2> QED BY <1>1, <2>1, <2>2, <2>3, RowsMoveKeepsW
  <1>4. ASSUME NEW mode \in Mode, BeginContext(mode)
        PROVE  WInv'
    BY <1>4, BeginContextKeepsW
  <1>5. ASSUME NEW recalled \in SUBSET Memory, ReadEntries(recalled)
        PROVE  WInv'
    BY <1>5, ReadEntriesKeepsW
  <1>6. CASE StageContext
    BY <1>6, StageContextKeepsW
  <1>7. CASE Crash
    BY <1>7, NothingStagedKeepsW DEF Crash
  <1>8. ASSUME NEW ids \in SUBSET ledger, RecordTurn(ids)
        PROVE  WInv'
    BY <1>8, RecordTurnKeepsW
  <1>9. CASE UNCHANGED allVars
    <2>1. UNCHANGED <<effective, newest, workset, turn, capability, ledger, acknowledged,
                      superseded, told, building>>
      BY <1>9 DEF allVars, deliveryVars, worksetVars, vars
    <2>2. OwnStep
      BY <2>1, RowsOnlyOwn
    <2>3. EntriesAreRead'
      BY <2>1 DEF WInv, EntriesAreRead
    <2> QED BY <1>1, <2>1, <2>2, <2>3, RowsMoveKeepsW
  <1> QED BY <1>2, <1>3, <1>4, <1>5, <1>6, <1>7, <1>8, <1>9 DEF DeliveryNext

LEMMA WithdrawalInitKeeps == DeliveryInit => WInv
  <1> SUFFICES ASSUME DeliveryInit PROVE WInv
    OBVIOUS
  <1>1. WithdrawnIsGone /\ ToldIsOver /\ LedgerIsPast /\ ToldWasAcknowledged /\ ToldOrOpen
    BY DEF DeliveryInit, WithdrawnIsGone, ToldIsOver, LedgerIsPast, ToldWasAcknowledged,
           ToldOrOpen
  <1>2. RetractedIsOld
    BY DEF DeliveryInit, Init, RetractedIsOld
  <1>3. EntriesAreRead
    BY DEF DeliveryInit, Idle, EntriesAreRead
  <1> QED BY <1>1, <1>2, <1>3 DEF WInv

(* A withdrawal in the session's own project is in every context until the *)
(* session has acknowledged it, in every instance: whatever is lost,       *)
(* superseded, repeated or reset in between.                               *)
THEOREM WithdrawalsReachTheSession == DeliverySpec => []WithdrawalsAreDelivered
  <1>1. DeliveryInit => WInv
    BY WithdrawalInitKeeps
  <1>2. DInv /\ WInv /\ [DeliveryNext]_allVars => WInv'
    BY WithdrawalStepKeeps
  <1>3. WInv => WithdrawalsAreDelivered
    <2> SUFFICES ASSUME WInv, NEW m \in Memory,
                        SameProject(Session, m), Withdrawn(m), Row(m).synced = newest[m],
                        <<m, Row(m).synced>> \notin Notices(building.mode)
                 PROVE  \E t \in told : <<t.memory, t.version>> = <<m, Row(m).synced>>
      BY DEF WithdrawalsAreDelivered
    <2>1. <<m, newest[m]>> \in AcknowledgedRetractions
      <3>1. <<m, Row(m).synced>> \in Notices(building.mode) \cup AcknowledgedRetractions
        BY NoticedOrKnown, Zenon
      <3> QED BY <3>1
    <2>2. PICK d \in acknowledged : <<m, newest[m]>> \in d.retractions
      BY <2>1 DEF AcknowledgedRetractions
    <2>3. ~ \E e \in Open : <<m, newest[m]>> \in e.retractions
      BY <2>1 DEF AcknowledgedRetractions
    <2>4. PICK t \in told : t.memory = m /\ t.version = newest[m]
      BY <2>2, <2>3 DEF WInv, ToldOrOpen, Own, Withdrawn
    <2> QED BY <2>4
  <1> QED BY <1>1, <1>2, <1>3, DeliveryInvariance, PTL DEF DeliverySpec
=============================================================================
