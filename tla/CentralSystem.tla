---------------------------- MODULE CentralSystem ----------------------------
(***************************************************************************)
(* The central memory as one system: governance (CentralMemory) decides    *)
(* which version of a memory is effective, distribution (Worksets) carries *)
(* it to the threads.  They share one database, and the service writes     *)
(* both sides of a publication or of an approval in one transaction:       *)
(* activate_candidate and retract_effective are a step of both.            *)
(***************************************************************************)
EXTENDS CentralMemory

CONSTANTS
    Thread, Project, Subject, Selector, Covers, MemoryProject, ThreadProject,
    Shareable

VARIABLES thread, subscription, link, workset, dependency

distribution == <<thread, subscription, link, workset, dependency>>
system       == <<vars, distribution>>

Newest(m) ==
    IF Activated(m) = {} THEN None
    ELSE CHOOSE v \in Activated(m) : \A w \in Activated(m) : w <= v

Distribution == INSTANCE Worksets WITH
    effective <- current,
    newest    <- [m \in Memory |-> Newest(m)]

-----------------------------------------------------------------------------
(* Governance with its effect on the threads.  The source thread is the    *)
(* one the author named when publishing, if any.                           *)

Distribute(m, v) ==
    \E source \in Distribution!Source :
        Distribution!DistributeActivation(m, v, source)

(* Fault: the threads are told of a retraction when they next ask.         *)
WithdrawLater(m) == UNCHANGED distribution

Withdraw(m) == Distribution!DistributeRetraction(m)

SystemPublish(m) ==
    \E v \in Version, in \in PublishInput :
        \/ PublishDirect(m, v, in) /\ Distribute(m, v)
        \/ PublishForReview(m, v, in) /\ UNCHANGED distribution

SystemApprove(m) ==
    \E v \in Version :
        \/ ApproveRetraction(m, v) /\ Withdraw(m)
        \/ ApproveLock(m, v) /\ UNCHANGED distribution
        \/ \E t \in Effective : ApproveCandidate(m, v, t) /\ Distribute(m, v)

SystemRequest(m) ==
    /\ RequestChange(m) \/ DeclineRequest(m)
    /\ UNCHANGED distribution

(* Threads and links, which leave the memories and their versions alone.   *)
ThreadStep ==
    /\ UNCHANGED vars
    /\ \/ \E th \in Thread, status \in Distribution!RegisteredStatus,
             selectors \in SUBSET Selector :
              \/ Distribution!RegisterThread(th, status, selectors)
              \/ \E toggles \in BOOLEAN :
                     Distribution!ConfigureThread(th, status, selectors, toggles)
       \/ \E source, target \in Project :
              \/ Distribution!LinkProjects(source, target)
              \/ Distribution!RevokeProjectLink(source, target)
       \/ \E th \in Thread : Distribution!SyncAtSafeBoundary(th)
       \/ \E th \in Thread, found \in SUBSET Memory :
              Distribution!RecallAndStage(th, found)
       \/ \E th \in Thread, m \in Memory : Distribution!Consume(th, m)
       \/ \E th \in Thread, s \in Subject, m \in Memory :
              Distribution!AddDependency(th, s, m)

SystemInit ==
    /\ Init
    /\ thread = [th \in Thread |-> "absent"]
    /\ subscription = [th \in Thread |-> {}]
    /\ link = {}
    /\ workset = [th \in Thread |-> [m \in Memory |-> Distribution!NoWorkset]]
    /\ dependency =
           [s \in Subject |-> [m \in Memory |-> [v \in Version |-> "absent"]]]

SystemNext ==
    \/ \E m \in Memory : SystemPublish(m) \/ SystemApprove(m) \/ SystemRequest(m)
    \/ ThreadStep

SystemSpec == SystemInit /\ [][SystemNext]_system

-----------------------------------------------------------------------------
(* Governance is the environment Worksets assumes, and everything a        *)
(* service call does to the worksets and dependencies is what Worksets     *)
(* says, so its properties hold of the whole.                              *)
ImplementsDistribution == Distribution!Spec

(* End to end: no thread is given or promised a version that never took    *)
(* effect, nor a major or project-rule version no human approved; what was *)
(* approved or discarded in one table is never contradicted by a row of    *)
(* another.                                                                *)
GivenVersionsWereDecided ==
    \A th \in Thread, m \in Memory :
        LET row == workset[th][m]
        IN  \A v \in {row.synced, row.consumed, row.pending} \ {None} :
                /\ versions[m][v].activated
                /\ versions[m][v].major \/ m \in LevelOne =>
                       \E t \in Effective : <<v, t>> \in Approved(m)
=============================================================================
