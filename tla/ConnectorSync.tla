---------------------------- MODULE ConnectorSync ----------------------------
(* Synchronization of an external source into the memory graph             *)
(* (core/connectors/connector_ingest.ts, connectors/adapter_connector.ts,  *)
(* connectors/plan_helpers.ts, connectors/docs/docs_mapper.ts) and the     *)
(* import of its plans (create_memory.ts, applyImportPlan).                *)
(*                                                                         *)
(* A document of the source has one text per section and the time of its   *)
(* last edit.  An import makes a root node for the version and a node per  *)
(* section; the identity of a node is made of the document, the section    *)
(* and the text, and the time of the edit is part of the content hash that *)
(* no later version of the node may change.  The cursor that remembers     *)
(* which nodes an import made is a field of the connector object: it is    *)
(* gone with the process, while the graph is loaded from SQLite.           *)
(*                                                                         *)
(* Abstracted: worlds, entities, facts, sketches and the tombstone of a    *)
(* deleted document, a node without content.  The sections make no claims  *)
(* that conflict with other memories.  Dry runs change nothing.            *)
EXTENDS Naturals, FiniteSets

CONSTANTS
    Document,       \* the documents of the source
    Section,        \* the sections of a document
    Text,           \* what a section can say
    Syncer,         \* calls of sync_connector that may run at the same time
    Mode,           \* the modes they are called with
    None,
    PageSize,       \* how many documents the first page of a listing holds
    Retries,        \* retry_failed
    MaxEdit, MaxFault, MaxRestart

ASSUME SyncAssumption ==
    /\ None \notin Document
    /\ Mode \subseteq {"full", "incremental"}
    /\ PageSize \in Nat \ {0}
    /\ {Retries, MaxEdit, MaxFault, MaxRestart} \subseteq Nat

VARIABLES
    source,     \* the documents as the service shows them
    memory,     \* the nodes of the graph in the process
    store,      \* the rows of the nodes in SQLite
    cursor,     \* the cursor the connector keeps for the next sync
    sync,       \* the calls in progress
    older,      \* history: nodes that were there when the cursor was empty
    edits, faults, restarts

vars == <<source, memory, store, cursor, sync, older, edits, faults, restarts>>
counters == <<edits, faults, restarts>>

Nothing == [x \in {} |-> None]

Version == [Section -> Text]

\* The node of a section, and the root node of a version.
SectionNode(d, s, v) == [of |-> d, key |-> s, text |-> v[s]]
Root(d, v)           == [of |-> d, key |-> None, text |-> v]
NodesOf(d, v)        == {Root(d, v)} \cup {SectionNode(d, s, v) : s \in Section}

Node  == [of : Document, key : Section \cup {None}, text : Text \cup Version]
Entry == [text : Version, nodes : SUBSET Node, deleted : BOOLEAN]

\* No entry of a cursor is told from every entry.
ASSUME NoneAssumption == None \notin Entry

Shown(id) == id \in DOMAIN memory /\ memory[id].status = "active"

-----------------------------------------------------------------------------
(* Import of a plan.                                                       *)

\* Fault: a node that exists is written over.
KeepsNothing(plan) == TRUE

\* apply_node_version: a node that exists keeps its hash, edit time included.
KeepsIdentity(plan) ==
    \A id \in plan.nodes \cap DOMAIN memory : memory[id].at = plan.at

\* The nodes of the plan start afresh; the nodes it retires are superseded.
Applied(plan) ==
    [id \in DOMAIN memory \cup plan.nodes |->
        [status |-> IF id \in plan.retired THEN "superseded"
                    ELSE IF id \in plan.nodes THEN "active"
                    ELSE memory[id].status,
         at     |-> IF id \in plan.nodes THEN plan.at ELSE memory[id].at]]

\* node_ids of the result: the nodes that were not in the graph before.
Created(plan) == plan.nodes \ DOMAIN memory

-----------------------------------------------------------------------------
(* A sync.                                                                 *)

Idle == [phase |-> "idle", full |-> FALSE, cursor |-> Nothing,
         left |-> {}, seen |-> {}, item |-> None, attempt |-> 0]

Prior(s, d) == IF d \in DOMAIN sync[s].cursor THEN sync[s].cursor[d] ELSE None

\* add_update_actions and deletion_plan.
Retired(s, d) == IF Prior(s, d) = None THEN {} ELSE Prior(s, d).nodes

UpdatePlan(s, d, doc) ==
    [nodes |-> NodesOf(d, doc.text), at |-> doc.at, retired |-> Retired(s, d)]
DeletionPlan(s, d) ==
    [nodes |-> {}, at |-> 0, retired |-> Retired(s, d)]

Item(d, text, plan, deleted) ==
    [of |-> d, text |-> text, plan |-> plan, deleted |-> deleted]

\* A full sync starts with an empty cursor.
Begin(s, mode) ==
    /\ sync[s].phase = "idle"
    /\ sync' = [sync EXCEPT ![s] =
           [Idle EXCEPT !.phase = "list", !.full = (mode = "full"),
                        !.cursor = IF mode = "full" THEN Nothing ELSE cursor]]
    /\ older' = IF mode = "full" THEN DOMAIN memory ELSE older
    /\ UNCHANGED <<source, memory, store, cursor, counters>>

Present == {d \in Document : source[d].there}

\* listSources asks for one page and drops the token of the next one.
List(s) ==
    /\ sync[s].phase = "list"
    /\ \E page \in SUBSET Present :
           /\ Cardinality(page) = IF Cardinality(Present) < PageSize
                                  THEN Cardinality(Present) ELSE PageSize
           /\ sync' = [sync EXCEPT ![s].phase = "read", ![s].left = page,
                                   ![s].seen = page]
    /\ UNCHANGED <<source, memory, store, cursor, older, counters>>

\* Fault: what was imported once is unchanged.
KnownAtAll(s, d) == Prior(s, d) # None

\* A listed document is fetched; one the cursor knows in this version is
\* unchanged, even if the cursor has it as deleted.
Known(s, d) == Prior(s, d) # None /\ Prior(s, d).text = source[d].text

Read(s, d) ==
    /\ sync[s].phase = "read" /\ d \in sync[s].left /\ source[d].there
    /\ sync' = [sync EXCEPT ![s].left = @ \ {d},
                            ![s].phase = IF Known(s, d) THEN @ ELSE "import",
                            ![s].item =
           IF Known(s, d) THEN None
           ELSE Item(d, source[d].text, UpdatePlan(s, d, source[d]), FALSE)]
    /\ UNCHANGED <<source, memory, store, cursor, older, counters>>

\* The document went away after the listing: the error ends the whole sync.
ReadFails(s, d) ==
    /\ sync[s].phase = "read" /\ d \in sync[s].left /\ ~source[d].there
    /\ sync' = [sync EXCEPT ![s] = Idle]
    /\ UNCHANGED <<source, memory, store, cursor, older, counters>>

\* An incremental sync deletes what its cursor has and the listing has not.
Missing(s) ==
    IF sync[s].full THEN {}
    ELSE {d \in DOMAIN sync[s].cursor \ sync[s].seen : ~sync[s].cursor[d].deleted}

ReadMissing(s, d) ==
    /\ sync[s].phase = "read" /\ sync[s].left = {} /\ d \in Missing(s)
    /\ sync' = [sync EXCEPT
           ![s].phase = "import", ![s].seen = @ \cup {d},
           ![s].item = Item(d, Prior(s, d).text, DeletionPlan(s, d), TRUE)]
    /\ UNCHANGED <<source, memory, store, cursor, older, counters>>

Finish(s) ==
    /\ sync[s].phase = "read" /\ sync[s].left = {} /\ Missing(s) = {}
    /\ sync' = [sync EXCEPT ![s] = Idle]
    /\ UNCHANGED <<source, memory, store, cursor, older, counters>>

\* What the cursor remembers of an item that was imported.
Remembered(item) ==
    [text |-> item.text, nodes |-> Created(item.plan), deleted |-> item.deleted]

\* An import that commits, the cursor saved after it.
Import(s) ==
    LET item == sync[s].item
        next == [d \in DOMAIN sync[s].cursor \cup {item.of} |->
                    IF d = item.of THEN Remembered(item) ELSE sync[s].cursor[d]]
    IN  /\ sync[s].phase = "import"
        /\ KeepsIdentity(item.plan)
        /\ memory' = Applied(item.plan)
        /\ store' = memory'
        /\ cursor' = next
        /\ sync' = [sync EXCEPT ![s].phase = "read", ![s].cursor = next,
                                ![s].item = None, ![s].attempt = 0]
        /\ UNCHANGED <<source, older, counters>>

\* The item is tried again; after the last attempt it is left out.
Retry(s) ==
    sync' = IF sync[s].attempt < Retries
            THEN [sync EXCEPT ![s].attempt = @ + 1]
            ELSE [sync EXCEPT ![s].phase = "read", ![s].item = None,
                              ![s].attempt = 0]

\* The graph refuses a node, everything is restored.
ImportRefused(s) ==
    /\ sync[s].phase = "import"
    /\ ~KeepsIdentity(sync[s].item.plan)
    /\ Retry(s)
    /\ UNCHANGED <<source, memory, store, cursor, older, counters>>

\* Fault: the graph keeps what SQLite refused.
NotRestored(before, plan) == Applied(plan)

\* SQLite fails after the graph was changed: the graph is put back.
Restored(before, plan) == before

ImportFails(s) ==
    /\ sync[s].phase = "import" /\ faults < MaxFault
    /\ KeepsIdentity(sync[s].item.plan)
    /\ memory' = Restored(memory, sync[s].item.plan)
    /\ Retry(s)
    /\ faults' = faults + 1
    /\ UNCHANGED <<source, store, cursor, older, edits, restarts>>

-----------------------------------------------------------------------------
(* The process and the source.                                             *)

\* The graph is loaded from SQLite; the source is linked anew.
Restart ==
    /\ restarts < MaxRestart
    /\ memory' = store /\ older' = DOMAIN store
    /\ cursor' = Nothing
    /\ sync' = [s \in Syncer |-> Idle]
    /\ restarts' = restarts + 1
    /\ UNCHANGED <<source, store, edits, faults>>

Edit(d, text) ==
    /\ edits < MaxEdit /\ text # source[d].text
    /\ source' = [source EXCEPT ![d] = [text |-> text, at |-> edits + 1, there |-> TRUE]]
    /\ edits' = edits + 1
    /\ UNCHANGED <<memory, store, cursor, sync, older, faults, restarts>>

\* Taken away, or put back as it was.
Move(d) ==
    /\ edits < MaxEdit
    /\ source' = [source EXCEPT ![d].there = ~@]
    /\ edits' = edits + 1
    /\ UNCHANGED <<memory, store, cursor, sync, older, faults, restarts>>

-----------------------------------------------------------------------------
SyncInit ==
    /\ source \in [Document -> [text : Version, at : {0}, there : BOOLEAN]]
    /\ memory = Nothing /\ store = Nothing /\ cursor = Nothing
    /\ sync = [s \in Syncer |-> Idle] /\ older = {}
    /\ edits = 0 /\ faults = 0 /\ restarts = 0

Work(s) ==
    \/ List(s) \/ Finish(s) \/ Import(s) \/ ImportRefused(s) \/ ImportFails(s)
    \/ \E d \in Document : Read(s, d) \/ ReadFails(s, d) \/ ReadMissing(s, d)

SyncNext ==
    \/ \E s \in Syncer : Work(s) \/ \E mode \in Mode : Begin(s, mode)
    \/ \E d \in Document : Move(d) \/ \E text \in Version : Edit(d, text)
    \/ Restart

\* A sync goes on once it is called, and it is called again and again.
SyncSpec ==
    /\ SyncInit /\ [][SyncNext]_vars
    /\ \A s \in Syncer : WF_vars(Work(s)) /\ WF_vars(\E mode \in Mode : Begin(s, mode))

-----------------------------------------------------------------------------
(* Properties.                                                             *)

\* connector_ingest.ts:88-104: a document the cursor has is never read again
\* until its checksum changes, so its nodes had better be in the graph: a
\* failed import, a retry or a restart leaves no entry without them.
CursorTellsTheTruth ==
    \A d \in DOMAIN cursor : ~cursor[d].deleted =>
        \A id \in NodesOf(d, cursor[d].text) : Shown(id)

\* plan_helpers.ts:105-109: whatever was imported since the cursor was empty
\* is retired by the next version or the deletion: a node that is shown and
\* that the cursor does not list was there before.
ImportsCanBeRetired ==
    \A id \in DOMAIN memory \ older : Shown(id) =>
        id.of \in DOMAIN cursor /\ id \in cursor[id.of].nodes

\* connector_ingest.ts:67-112: once the source rests, the text of a document is
\* shown in the end, unless one of its nodes was made by another edit, or the
\* cursor has it as a deleted document with this very text.
Blocked(d) ==
    \/ \E id \in NodesOf(d, source[d].text) \cap DOMAIN memory :
           memory[id].at # source[d].at
    \/ d \in DOMAIN cursor /\ cursor[d].deleted /\ cursor[d].text = source[d].text

DocumentsArrive ==
    \A d \in Document :
        <>[](\/ ~source[d].there \/ Blocked(d)
             \/ \A id \in NodesOf(d, source[d].text) : Shown(id))

\* docs/connectors.md:103: an update makes new nodes, so that every edit of a
\* document can be imported.
EditsCanBeImported ==
    \A s \in Syncer : sync[s].item # None => KeepsIdentity(sync[s].item.plan)

=============================================================================
