------------------------------ MODULE Delivery ------------------------------
(***************************************************************************)
(* The delivery ledger of one Codex task.  A hook or tool call builds a    *)
(* context packet from the worksets of the task (module Worksets), stages  *)
(* an immutable receipt for it in the outbox and writes the packet to      *)
(* stdout; record_turn later acknowledges the receipts the model says it   *)
(* saw, and only that consumes the versions and retractions they carried.  *)
(*                                                                         *)
(* Building is three database steps (synchronize, read the entries, read   *)
(* the notices and stage); governance, links and other tasks interleave    *)
(* between them, and the process may die after any of them or before its   *)
(* output is read.  Codex itself runs the hooks and tool calls of one task *)
(* one after the other, so there is one build at a time and no record_turn *)
(* during it.  A packet is taken to fit its token budget; the text is a    *)
(* function of what it refers to.  Whether the model saw an output is left *)
(* open until the turn is recorded: any receipt staged may be acknowledged *)
(* then, which covers those that were lost with the process.               *)
(***************************************************************************)
EXTENDS Worksets, FiniteSets

CONSTANTS
    Session,     \* the task, as the central thread it is bound to
    MaxTurn,     \* bound: turns of the session
    MaxReceipts  \* bound: receipts ever staged

ASSUME DeliveryAssumption ==
    /\ Session \in Thread
    /\ MaxTurn \in Nat
    /\ MaxReceipts \in Nat

Turn == 1 .. MaxTurn

(* How a context comes to be built.  bind and recall are tool calls made   *)
(* during a turn; they use the event name of the prompt.                   *)
Mode == {"start", "bind", "prompt", "recall"}

EventName(mode) == IF mode = "start" THEN "SessionStart" ELSE "UserPromptSubmit"

(* SessionStart has no turn, so its receipts may be acknowledged in any.   *)
NoTurn == 0

Receipt ==
    [event : {"SessionStart", "UserPromptSubmit"}, turn : Turn \cup {NoTurn},
     memories : SUBSET (Memory \X Version), retractions : SUBSET (Memory \X Ref),
     generation : 0 .. MaxReceipts]

Idle == [phase |-> "idle", mode |-> "start", entries |-> {}]

VARIABLES
    turn,          \* the last turn begun
    capability,    \* the turn whose capability is valid, NoTurn if none is
    ledger,        \* receipts staged, and never removed
    acknowledged,  \* receipts with an acknowledgement event
    superseded,    \* receipts with a supersession event
    building,      \* the build under way
    told           \* history: retractions the session acknowledged, by turn,
                   \* until a reset or a later turn uses the memory again

deliveryVars == <<turn, capability, ledger, acknowledged, superseded, building, told>>
worksetVars  == vars
allVars      == <<worksetVars, deliveryVars>>

-----------------------------------------------------------------------------
(* Reading the ledger.                                                     *)

Row(m)      == workset[Session][m]
Terminal(d) == d \in acknowledged \cup superseded
Open        == {d \in ledger : ~Terminal(d)}

(* Fault: an open receipt does not reopen what it carries.                 *)
AcknowledgedForEver ==
    UNION {d.retractions : d \in acknowledged}

(* central_acknowledged_retractions: an open receipt outranks an           *)
(* acknowledgement of an older one.                                        *)
AcknowledgedRetractions ==
    (UNION {d.retractions : d \in acknowledged}) \ (UNION {d.retractions : d \in Open})

PendingMemories == {r[1] : r \in UNION {d.memories : d \in Open}}

(* thread_context: what the session holds of effective versions in scope.  *)
ContextEntries ==
    {<<m, effective[m]>> : m \in {n \in Memory :
        /\ Live(Session)
        /\ Row(n).state \in {"pending", "current"}
        /\ Row(n).synced # None
        /\ Row(n).synced = effective[n]
        /\ InScope(Session, n)}}

(* select_prompt_entries and include_consumed, by mode.                    *)
Selected(mode, recalled) ==
    {e \in ContextEntries :
        LET unread == Row(e[1]).consumed # e[2]
        IN  CASE mode \in {"start", "bind"} -> TRUE
              [] mode = "prompt" -> unread
              [] mode = "recall" -> \/ e[1] \in recalled \cup PendingMemories
                                    \/ Row(e[1]).state = "pending"
                                    \/ unread}

Withdrawn(m) ==
    Holds(Session, m) /\ (Row(m).state = "retracted" \/ effective[m] = None)

(* A notice names the last version the session was given, None if none.    *)
Notices(mode) ==
    LET known == IF mode \in {"start", "bind"} THEN {} ELSE AcknowledgedRetractions
    IN  {<<m, Row(m).synced>> : m \in {n \in Memory : Withdrawn(n)}} \ known

SameContent(d, e) ==
    /\ d.event = e.event
    /\ d.turn = e.turn
    /\ d.memories = e.memories
    /\ d.retractions = e.retractions

(* Fault: any equivalent receipt is used again.                            *)
ReusesAnyReceipt(d, content) == SameContent(d, content)

(* An equivalent receipt is used again until it is terminal.               *)
Reuses(d, content) == SameContent(d, content) /\ ~Terminal(d)

NextGeneration(content) ==
    LET earlier == {d \in ledger : SameContent(d, content)}
    IN  CHOOSE g \in 0 .. MaxReceipts :
            /\ \A d \in earlier : d.generation < g
            /\ \A h \in 0 .. MaxReceipts :
                   (\A d \in earlier : d.generation < h) => g <= h

DeliveryCovers(current, prior) ==
    /\ prior.memories \subseteq current.memories
    /\ prior.retractions \subseteq current.retractions

(* What a newly staged receipt ends: the open receipts of its own boundary *)
(* and those it repeats in full.                                           *)
Ends(current, prior) ==
    \/ prior.event = current.event /\ prior.turn = current.turn
    \/ DeliveryCovers(current, prior)

-----------------------------------------------------------------------------
(* build_codex_context.                                                    *)

(* A prompt activates its turn, again when the hook is retried; a session  *)
(* start takes the capability away.  bind and recall need it.              *)
BeginContext(mode) ==
    /\ building.phase = "idle"
    /\ \/ /\ mode = "prompt"
          /\ turn' \in {turn, turn + 1} \cap Turn
          /\ capability' = turn'
       \/ /\ mode = "start"
          /\ capability' = NoTurn
          /\ UNCHANGED turn
       \/ /\ mode \in {"bind", "recall"}
          /\ capability # NoTurn
          /\ UNCHANGED <<turn, capability>>
    /\ building' = [phase |-> "begun", mode |-> mode, entries |-> {}]
    /\ UNCHANGED <<worksetVars, ledger, acknowledged, superseded, told>>

SyncContext ==
    /\ building.phase = "begun"
    /\ SyncAtSafeBoundary(Session)
    /\ building' = [building EXCEPT !.phase = "synced"]
    /\ UNCHANGED <<turn, capability, ledger, acknowledged, superseded, told>>

ReadEntries(recalled) ==
    /\ building.phase = "synced"
    /\ building' = [building EXCEPT !.phase = "read",
                        !.entries = Selected(building.mode, recalled)]
    /\ UNCHANGED <<worksetVars, turn, capability, ledger, acknowledged, superseded, told>>

Boundary(mode) == IF mode = "start" THEN NoTurn ELSE capability

(* What the build in hand amounts to: the notices are read last.           *)
Content ==
    [event |-> EventName(building.mode), turn |-> Boundary(building.mode),
     memories |-> building.entries, retractions |-> Notices(building.mode)]

(* The receipt that stands for it, an open equivalent one if there is any. *)
StagedReceipt ==
    LET reusable == {d \in ledger : Reuses(d, Content)}
    IN  IF reusable # {} THEN CHOOSE d \in reusable : TRUE
        ELSE [event |-> Content.event, turn |-> Content.turn,
              memories |-> Content.memories, retractions |-> Content.retractions,
              generation |-> NextGeneration(Content)]

(* An empty packet is not delivered.  A reset tells the model again what   *)
(* it was told before.                                                     *)
StageContext ==
    /\ building.phase = "read"
    /\ building' = Idle
    /\ IF Content.memories = {} /\ Content.retractions = {}
       THEN UNCHANGED <<ledger, superseded, told>>
       ELSE /\ Cardinality(ledger \cup {StagedReceipt}) <= MaxReceipts
            /\ ledger' = ledger \cup {StagedReceipt}
            /\ superseded' = superseded \cup
                   {d \in Open \ {StagedReceipt} : Ends(StagedReceipt, d)}
            /\ told' = IF building.mode \in {"start", "bind"}
                       THEN {t \in told : <<t.memory, t.version>> \notin Content.retractions}
                       ELSE told
    /\ UNCHANGED <<worksetVars, turn, capability, acknowledged>>

(* The process of the hook or tool dies; nothing of the build is kept.     *)
Crash ==
    /\ building.phase # "idle"
    /\ building' = Idle
    /\ UNCHANGED <<worksetVars, turn, capability, ledger, acknowledged, superseded, told>>

(* PostCompact synchronizes and has no way to deliver.                     *)
PostCompact ==
    /\ building.phase = "idle"
    /\ SyncAtSafeBoundary(Session)
    /\ UNCHANGED deliveryVars

-----------------------------------------------------------------------------
(* record_turn.                                                            *)

(* Fault: an acknowledgement consumes whatever the row holds by now.       *)
ConsumesHeld(ids, m) ==
    /\ Row(m).state = "current"
    /\ \E d \in ids : \E r \in d.memories : r[1] = m

(* A reference is consumed if the row still is at its version.             *)
Consumes(ids, m) ==
    /\ Row(m).state = "current"
    /\ \E d \in ids : <<m, Row(m).synced>> \in d.memories

(* The model returns ids it saw; receipts of another turn are refused and  *)
(* an acknowledged one is passed over.                                     *)
RecordTurn(ids) ==
    LET fresh == ids \ acknowledged
    IN  /\ building.phase = "idle"
        /\ capability # NoTurn
        /\ \A d \in ids : d.turn \in {NoTurn, capability}
        /\ Live(Session)
        /\ \A m \in Memory : Consumes(fresh, m) => InScope(Session, m)
        /\ acknowledged' = acknowledged \cup ids
        /\ workset' = [workset EXCEPT ![Session] = [m \in Memory |->
               IF Consumes(fresh, m)
               THEN [Row(m) EXCEPT !.consumed = Row(m).synced] ELSE Row(m)]]
        /\ told' = {t \in told : \A d \in fresh :
                       d.turn <= t.turn \/ ~Consumes({d}, t.memory)}
                   \cup {[memory |-> r[1], version |-> r[2], turn |-> capability] :
                         r \in UNION {d.retractions : d \in fresh}}
        /\ UNCHANGED <<effective, newest, thread, subscription, link, dependency,
                       turn, capability, ledger, superseded, building>>

-----------------------------------------------------------------------------
DeliveryInit ==
    /\ Init
    /\ turn = NoTurn
    /\ capability = NoTurn
    /\ ledger = {}
    /\ acknowledged = {}
    /\ superseded = {}
    /\ building = Idle
    /\ told = {}

(* Governance, links, binding, configuration and recall, as Worksets has   *)
(* them.                                                                   *)
Environment ==
    /\ \/ \E m \in Memory, v \in Version, source \in Source : Activate(m, v, source)
       \/ \E m \in Memory : Retract(m)
       \/ \E source, target \in Project :
              LinkProjects(source, target) \/ RevokeProjectLink(source, target)
       \/ \E found \in SUBSET Memory : RecallAndStage(Session, found)
       \/ \E status \in RegisteredStatus, sel \in SUBSET Selector :
              \/ RegisterThread(Session, status, sel)
              \/ ConfigureThread(Session, status, sel, FALSE)
    /\ UNCHANGED deliveryVars

DeliveryNext ==
    \/ Environment
    \/ \E mode \in Mode : BeginContext(mode)
    \/ SyncContext
    \/ \E recalled \in SUBSET Memory : ReadEntries(recalled)
    \/ StageContext
    \/ Crash
    \/ PostCompact
    \/ \E ids \in SUBSET ledger : RecordTurn(ids)

DeliverySpec == DeliveryInit /\ [][DeliveryNext]_allVars

-----------------------------------------------------------------------------
(* Properties.                                                             *)

DeliveryTypeOK ==
    /\ TypeOK
    /\ turn \in Turn \cup {NoTurn}
    /\ capability \in {NoTurn, turn}
    /\ ledger \subseteq Receipt
    /\ acknowledged \cup superseded \subseteq ledger
    /\ building.mode \in Mode
    /\ building.entries \subseteq Memory \X Version
    /\ told \subseteq [memory : Memory, version : Ref, turn : Turn]

(* What the session is said to have used is a version that a receipt it    *)
(* acknowledged carried: a version synchronized without being shown (after *)
(* a compaction, or by a build that died) never counts as read.            *)
UsedWasAcknowledged ==
    \A m \in Memory :
        Row(m).consumed # None =>
            \E d \in acknowledged : <<m, Row(m).consumed>> \in d.memories

(* "An old acknowledgement cannot stand in for new stdout": what is about  *)
(* to be shown has not been acknowledged yet.                              *)
OutputIsUnacknowledged ==
    building.phase = "read" => StagedReceipt \notin acknowledged

(* A memory of the session's own project that was withdrawn is in every    *)
(* context that is built, until the session has acknowledged that: an      *)
(* acknowledgement from before a reset, or from before the version was     *)
(* used, does not count.  (Only if a newer version came and went between   *)
(* two boundaries may the older one's acknowledgement still stand.)        *)
WithdrawalsAreDelivered ==
    building.phase = "read" =>
        \A m \in Memory :
            /\ SameProject(Session, m)
            /\ Withdrawn(m)
            /\ Row(m).synced = newest[m]
            /\ \A t \in told : <<t.memory, t.version>> # <<m, Row(m).synced>>
            => <<m, Row(m).synced>> \in Notices(building.mode)

(* A prompt does not repeat a retraction the session has acknowledged in   *)
(* two turns and nothing has happened about since.                         *)
PromptsCarryOnlyNews ==
    building.phase = "read" /\ building.mode = "prompt" =>
        \A s, t \in told :
            s.memory = t.memory /\ s.version = t.version /\ s.turn # t.turn =>
                <<t.memory, t.version>> \notin Notices(building.mode)
=============================================================================
