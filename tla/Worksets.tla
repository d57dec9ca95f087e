------------------------------ MODULE Worksets ------------------------------
(***************************************************************************)
(* Distribution of effective memory versions to task threads: one workset  *)
(* row per thread and memory says which version the thread was last given  *)
(* (synced), which it said it used (consumed) and which waits for its next *)
(* safe boundary (pending).  Subscriptions, governed project links and     *)
(* recall decide who gets a row; dependencies say which outputs were built *)
(* on which version.                                                       *)
(*                                                                         *)
(* Governance (module CentralMemory) is the environment here: Activate and *)
(* Retract are its two ways to move the effective version of a memory,     *)
(* together with everything they do to the tables of this module.  Every   *)
(* action is one immediate transaction of the service or of the MCP tool   *)
(* that calls it; threads, the reviewer and the hook processes interleave  *)
(* between transactions.                                                   *)
(*                                                                         *)
(* The origin of a row is kept only as far as the code branches on it: the *)
(* schema triggers make origin 'linked_project' hold exactly for rows that *)
(* cross projects, and own tells 'own_thread' and 'manual' from the rest.  *)
(* Relevance only orders presentation and is left out.                     *)
(***************************************************************************)
EXTENDS Integers

CONSTANTS
    Memory,         \* stable memory ids
    Thread,         \* task threads
    Project,        \* projects
    Subject,        \* tasks, artifacts, decisions, outputs that cite memories
    Selector,       \* subscription selectors: project, role, task, ...
    Covers,         \* Covers[s]: the memories selector s matches
    MemoryProject,  \* the project each memory belongs to
    ThreadProject,  \* the project each thread belongs to
    Shareable,      \* memories of level 4, the only ones links may share
    MaxVersion      \* bound: versions of one memory that ever take effect

ASSUME ConstantsAssumption ==
    /\ MaxVersion \in Nat \ {0}
    /\ Covers \in [Selector -> SUBSET Memory]
    /\ MemoryProject \in [Memory -> Project]
    /\ ThreadProject \in [Thread -> Project]
    /\ Shareable \subseteq Memory

None    == 0
Version == 1 .. MaxVersion
Ref     == Version \cup {None}

(* live stands for 'active' and 'idle', dormant for 'completed' and        *)
(* 'archived'; the code tells the members of a pair apart only when it     *)
(* asks whether a configuration changed the status.                        *)
Status           == {"absent", "live", "dormant"}
RegisteredStatus == {"live", "dormant"}

WorksetRow ==
    [state : {"absent", "pending", "current", "retracted"},
     synced : Ref, consumed : Ref, pending : Ref, own : BOOLEAN]

NoWorkset == [state |-> "absent", synced |-> None, consumed |-> None,
              pending |-> None, own |-> FALSE]

DependencyStatus == {"absent", "current", "needs_review", "invalidated"}

VARIABLES
    effective,     \* effective[m]: current_version of the memory row
    newest,        \* newest[m]: the highest version that ever took effect
    thread,        \* thread[th]: registration status
    subscription,  \* subscription[th]: the enabled selectors
    link,          \* active project links <<source, target>>
    workset,       \* workset[th][m]: the workset row
    dependency     \* dependency[s][m][v]: status of s citing version v of m

vars == <<effective, newest, thread, subscription, link, workset, dependency>>

-----------------------------------------------------------------------------
(* Reading the tables.                                                     *)

Live(th)         == thread[th] = "live"
Holds(th, m)     == workset[th][m].state # "absent"
SameProject(th, m) == MemoryProject[m] = ThreadProject[th]

Linked(th, m) ==
    /\ m \in Shareable
    /\ <<MemoryProject[m], ThreadProject[th]>> \in link

(* A row may exist for the thread's own project or over an active link.    *)
InScope(th, m) == SameProject(th, m) \/ Linked(th, m)

(* list_matching_subscriptions, for a thread of the given status that has  *)
(* enabled the given selectors.                                            *)
MatchesWith(th, m, status, selectors) ==
    /\ status = "live"
    /\ SameProject(th, m)
    /\ \E s \in selectors : m \in Covers[s]

Matches(th, m) == MatchesWith(th, m, thread[th], subscription[th])

-----------------------------------------------------------------------------
(* What the statements on a workset row do.                                *)

(* stage_workset: the row waits for v, whatever it said before.            *)
Staged(row, v, own) ==
    [row EXCEPT !.state = "pending", !.pending = v, !.own = @ \/ own]

(* stage_recalled_workset: a row already at the version is not disturbed.  *)
Recalled(row, v) ==
    IF row.synced = v /\ row.state # "retracted"
    THEN [row EXCEPT !.state = "current", !.pending = None]
    ELSE Staged(row, v, FALSE)

Retracted(row) == [row EXCEPT !.state = "retracted", !.pending = None]

(* Fault: a row is brought to whatever version waits on it.                *)
SyncedToPending(th, m) ==
    LET row == workset[th][m]
    IN  IF ~InScope(th, m) \/ effective[m] = None THEN Retracted(row)
        ELSE [row EXCEPT !.state = "current", !.synced = row.pending,
                         !.pending = None]

(* Fault: a version the thread has used is never replaced.                 *)
SyncedUnlessConsumed(th, m) ==
    LET row == workset[th][m]
    IN  IF ~InScope(th, m) \/ effective[m] = None THEN Retracted(row)
        ELSE IF effective[m] # row.pending \/ row.consumed # None THEN row
        ELSE [row EXCEPT !.state = "current", !.synced = row.pending,
                         !.pending = None]

(* sync_workset on a row that is pending.                                  *)
Synced(th, m) ==
    LET row == workset[th][m]
    IN  IF ~InScope(th, m) \/ effective[m] = None THEN Retracted(row)
        ELSE IF effective[m] # row.pending THEN row
        ELSE [row EXCEPT !.state = "current", !.synced = row.pending,
                         !.pending = None]

-----------------------------------------------------------------------------
(* Who is reached by a change.                                             *)

(* stage_matching_worksets: live holders in scope and live subscribers.    *)
HearsOf(th, m) ==
    \/ Live(th) /\ InScope(th, m) /\ Holds(th, m)
    \/ Matches(th, m)

(* Fault: only live threads lose what came over the link.                  *)
LosesIfLive(th, m, source, target) ==
    /\ Live(th)
    /\ Holds(th, m)
    /\ MemoryProject[m] = source
    /\ ThreadProject[th] = target

(* retract_linked_project_worksets: dormant threads are reached as well.   *)
LosesWithLink(th, m, source, target) ==
    /\ Holds(th, m)
    /\ MemoryProject[m] = source
    /\ ThreadProject[th] = target

(* Fault: what cited the retracted version keeps its mark.                 *)
UntouchedByRetraction(m, v) == dependency

(* invalidate_dependencies: what cited the retracted version is invalid.   *)
DependencyAfterRetraction(m, v) ==
    [s \in Subject |-> [n \in Memory |-> [w \in Version |->
        IF n = m /\ w = v /\ dependency[s][n][w] \in {"current", "needs_review"}
        THEN "invalidated" ELSE dependency[s][n][w]]]]

(* invalidate_prior_dependencies: what cited another version needs review. *)
DependencyAfterActivation(m, v) ==
    [s \in Subject |-> [n \in Memory |-> [w \in Version |->
        IF n = m /\ w # v /\ dependency[s][n][w] = "current"
        THEN "needs_review" ELSE dependency[s][n][w]]]]

-----------------------------------------------------------------------------
(* Governance moves an effective version.                                  *)

(* The thread that proposed the version gets it as its own when it is      *)
(* live; a live proposer of another project makes the call throw.          *)
IsSourceThread(src, m) ==
    /\ thread[src] # "absent"
    /\ Live(src) => SameProject(src, m)

DistributeActivation(m, v, source) ==
    /\ \A src \in source : IsSourceThread(src, m)
    /\ workset' = [th \in Thread |-> [workset[th] EXCEPT ![m] =
           IF HearsOf(th, m) \/ (th \in source /\ Live(th))
           THEN Staged(@, v, th \in source) ELSE @]]
    /\ dependency' = DependencyAfterActivation(m, v)
    /\ UNCHANGED <<thread, subscription, link>>

(* activate_candidate, from publish or approve.                            *)
Activate(m, v, source) ==
    /\ v > newest[m]
    /\ effective' = [effective EXCEPT ![m] = v]
    /\ newest' = [newest EXCEPT ![m] = v]
    /\ DistributeActivation(m, v, source)

(* mark_worksets_retracted passes over dormant threads.                    *)
DistributeRetraction(m) ==
    /\ workset' = [th \in Thread |-> [workset[th] EXCEPT ![m] =
           IF Live(th) /\ Holds(th, m) THEN Retracted(@) ELSE @]]
    /\ dependency' = DependencyAfterRetraction(m, effective[m])
    /\ UNCHANGED <<thread, subscription, link>>

(* retract_effective, from approve.                                        *)
Retract(m) ==
    /\ effective[m] # None
    /\ effective' = [effective EXCEPT ![m] = None]
    /\ UNCHANGED newest
    /\ DistributeRetraction(m)

-----------------------------------------------------------------------------
(* Threads, subscriptions and links.                                       *)

(* Fault: a thread that comes back is not given what it missed.            *)
StagedForNewcomers(th, status, selectors) ==
    [m \in Memory |->
        IF /\ effective[m] # None
           /\ thread[th] = "absent"
           /\ MatchesWith(th, m, status, selectors)
        THEN Staged(workset[th][m], effective[m], FALSE) ELSE workset[th][m]]

(* Every effective memory of the project that a selector covers is staged. *)
StagedFor(th, status, selectors) ==
    [m \in Memory |->
        IF effective[m] # None /\ MatchesWith(th, m, status, selectors)
        THEN Staged(workset[th][m], effective[m], FALSE) ELSE workset[th][m]]

(* service.register_thread, on first use and on every later binding.       *)
RegisterThread(th, status, selectors) ==
    LET enabled == subscription[th] \cup selectors
    IN  /\ thread' = [thread EXCEPT ![th] = status]
        /\ subscription' = [subscription EXCEPT ![th] = enabled]
        /\ workset' = [workset EXCEPT ![th] = StagedFor(th, status, enabled)]
        /\ UNCHANGED <<effective, newest, link, dependency>>

(* Fault: what the thread has used is removed with the rest.               *)
RemovedUnlessOwn(row, matches) ==
    row.state # "retracted" /\ ~row.own /\ ~matches

(* A row nothing matches any more is removed unless it was used, is the    *)
(* thread's own or carries a retraction.                                   *)
Removed(row, matches) ==
    row.state # "retracted" /\ ~row.own /\ ~matches /\ row.consumed = None

(* The MCP configuration tool: sets status and selectors, stages what the  *)
(* change made reachable, reconciles retractions, drops unmatched rows.    *)
(* toggles says that the status changed within its pair.                   *)
ConfigureThread(th, status, selectors, toggles) ==
    LET stages == \/ thread[th] # status
                  \/ toggles
                  \/ selectors \ subscription[th] # {}
        staged == IF stages THEN StagedFor(th, status, selectors)
                  ELSE workset[th]
        reconciled == [m \in Memory |->
            IF /\ status = "live"
               /\ effective[m] = None
               /\ staged[m].state # "absent"
            THEN Retracted(staged[m]) ELSE staged[m]]
    IN  /\ thread' = [thread EXCEPT ![th] = status]
        /\ subscription' = [subscription EXCEPT ![th] = selectors]
        /\ workset' = [workset EXCEPT ![th] = [m \in Memory |->
               IF Removed(reconciled[m], MatchesWith(th, m, status, selectors))
               THEN NoWorkset ELSE reconciled[m]]]
        /\ UNCHANGED <<effective, newest, link, dependency>>

(* link_projects, one direction; an active link is returned as it is.      *)
LinkProjects(source, target) ==
    /\ source # target
    /\ link' = link \cup {<<source, target>>}
    /\ UNCHANGED <<effective, newest, thread, subscription, workset, dependency>>

RevokeProjectLink(source, target) ==
    /\ <<source, target>> \in link
    /\ link' = link \ {<<source, target>>}
    /\ workset' = [th \in Thread |-> [m \in Memory |->
           IF LosesWithLink(th, m, source, target)
           THEN Retracted(workset[th][m]) ELSE workset[th][m]]]
    /\ UNCHANGED <<effective, newest, thread, subscription, dependency>>

-----------------------------------------------------------------------------
(* A thread reads, recalls, uses and cites.                                *)

(* sync_at_safe_boundary: all pending rows of the thread, in one go.       *)
SyncAtSafeBoundary(th) ==
    /\ Live(th)
    /\ workset' = [workset EXCEPT ![th] = [m \in Memory |->
           IF workset[th][m].state = "pending" THEN Synced(th, m)
           ELSE workset[th][m]]]
    /\ UNCHANGED <<effective, newest, thread, subscription, link, dependency>>

(* recall_and_stage: which matches rank high enough depends on the query.  *)
RecallAndStage(th, found) ==
    /\ Live(th)
    /\ \A m \in found : effective[m] # None /\ InScope(th, m)
    /\ workset' = [workset EXCEPT ![th] = [m \in Memory |->
           IF m \in found THEN Recalled(workset[th][m], effective[m])
           ELSE workset[th][m]]]
    /\ UNCHANGED <<effective, newest, thread, subscription, link, dependency>>

Consume(th, m) ==
    /\ Live(th)
    /\ InScope(th, m)
    /\ workset[th][m].state \in {"pending", "current"}
    /\ workset[th][m].synced # None
    /\ workset' = [workset EXCEPT ![th][m].consumed = workset[th][m].synced]
    /\ UNCHANGED <<effective, newest, thread, subscription, link, dependency>>

(* The usage tool checks the scope and records the dependency in one       *)
(* transaction; only an effective version may be cited, and only once.     *)
AddDependency(th, s, m) ==
    /\ thread[th] # "absent"
    /\ InScope(th, m)
    /\ ~SameProject(th, m) => Holds(th, m)
    /\ effective[m] # None
    /\ dependency[s][m][effective[m]] = "absent"
    /\ dependency' = [dependency EXCEPT ![s][m][effective[m]] = "current"]
    /\ UNCHANGED <<effective, newest, thread, subscription, link, workset>>

-----------------------------------------------------------------------------
Init ==
    /\ effective = [m \in Memory |-> None]
    /\ newest = [m \in Memory |-> None]
    /\ thread = [th \in Thread |-> "absent"]
    /\ subscription = [th \in Thread |-> {}]
    /\ link = {}
    /\ workset = [th \in Thread |-> [m \in Memory |-> NoWorkset]]
    /\ dependency = [s \in Subject |-> [m \in Memory |-> [v \in Version |-> "absent"]]]

Source == {{}} \cup {{th} : th \in Thread}

Next ==
    \/ \E m \in Memory, v \in Version, source \in Source : Activate(m, v, source)
    \/ \E m \in Memory : Retract(m)
    \/ \E th \in Thread, status \in RegisteredStatus, sel \in SUBSET Selector :
           \/ RegisterThread(th, status, sel)
           \/ \E toggles \in BOOLEAN : ConfigureThread(th, status, sel, toggles)
    \/ \E source, target \in Project :
           LinkProjects(source, target) \/ RevokeProjectLink(source, target)
    \/ \E th \in Thread : SyncAtSafeBoundary(th)
    \/ \E th \in Thread, found \in SUBSET Memory : RecallAndStage(th, found)
    \/ \E th \in Thread, m \in Memory : Consume(th, m)
    \/ \E th \in Thread, s \in Subject, m \in Memory : AddDependency(th, s, m)

Spec == Init /\ [][Next]_vars

(* A live thread reaches a safe boundary again and again: the hook syncs   *)
(* at every prompt and session start.  Nothing else is fair.               *)
Fairness == \A th \in Thread : WF_vars(SyncAtSafeBoundary(th))

FairSpec == Spec /\ Fairness

-----------------------------------------------------------------------------
(* Properties.                                                             *)

TypeOK ==
    /\ effective \in [Memory -> Ref]
    /\ newest \in [Memory -> Ref]
    /\ thread \in [Thread -> Status]
    /\ subscription \in [Thread -> SUBSET Selector]
    /\ link \subseteq Project \X Project
    /\ workset \in [Thread -> [Memory -> WorksetRow]]
    /\ dependency \in [Subject -> [Memory -> [Version -> DependencyStatus]]]

(* Whatever a thread still holds of another project's memory, live or      *)
(* dormant, it holds over a link that is active now; revoking the link     *)
(* leaves nothing but retracted rows, and no later staging, recall or      *)
(* resumption brings one back without a new link.                          *)
RevokedLinksLeaveNothing ==
    \A th \in Thread, m \in Memory :
        Holds(th, m) /\ workset[th][m].state # "retracted" => InScope(th, m)

(* A live thread that subscribes to an effective memory of its project has *)
(* the effective version or is about to get it, through every order of     *)
(* publications, retractions, pauses, resumptions and reconfigurations.    *)
SubscribersKeepUp ==
    \A th \in Thread, m \in Memory :
        Matches(th, m) /\ effective[m] # None =>
            LET row == workset[th][m]
            IN  \/ row.state = "pending" /\ row.pending = effective[m]
                \/ row.state = "current" /\ row.synced = effective[m]

(* An output marked as resting on current memory does: as soon as the      *)
(* version it cites is superseded or retracted, the mark goes with it.     *)
CurrentDependenciesHold ==
    \A s \in Subject, m \in Memory, v \in Version :
        dependency[s][m][v] = "current" => effective[m] = v

(* A thread is only ever given the version that is effective at that       *)
(* moment and in its scope, and never an older one than it had, although   *)
(* the version waiting on a row may have gone stale while the thread was   *)
(* dormant.                                                                *)
OnlyEffectiveVersionsAreGiven ==
    [][\A th \in Thread, m \in Memory :
          LET row == workset[th][m] IN
          /\ workset'[th][m].state # "absent"
          /\ workset'[th][m].synced # row.synced
          => /\ workset'[th][m].synced = effective[m]
             /\ workset'[th][m].synced > row.synced
             /\ InScope(th, m)]_vars

(* Once a thread has used a memory it keeps the row through which it can   *)
(* be told of a replacement or a retraction, whatever is reconfigured.     *)
UsedRowsStay ==
    [][\A th \in Thread, m \in Memory :
          workset[th][m].consumed # None =>
              workset'[th][m].consumed >= workset[th][m].consumed]_vars

(* A retracted row comes back only as a version still to be given: nothing *)
(* declares it current without another safe boundary.                      *)
RetractedRowsAreGivenAgain ==
    [][\A th \in Thread, m \in Memory :
          workset[th][m].state = "retracted" =>
              workset'[th][m].state # "current"]_vars

(* What a thread was given is not forgotten: rows it used stay, and rows   *)
(* that were retracted under it count as current only once given again.    *)
RowsAreRemembered ==
    [][\A th \in Thread, m \in Memory :
          LET row == workset[th][m]
              new == workset'[th][m]
          IN  /\ row.consumed # None => new.consumed >= row.consumed
              /\ row.state = "retracted" => new.state # "current"]_vars

(* Every subscriber is eventually given the effective version, unless it   *)
(* changes again, the thread pauses or it drops the subscription.          *)
SubscribersCatchUp ==
    \A th \in Thread, m \in Memory, v \in Version :
        Matches(th, m) /\ effective[m] = v
        ~> \/ workset[th][m].synced = v
           \/ effective[m] # v
           \/ ~Matches(th, m)
=============================================================================
