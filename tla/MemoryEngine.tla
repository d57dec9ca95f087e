----------------------------- MODULE MemoryEngine -----------------------------
(***************************************************************************)
(* Statements in the memory graph: how one takes the place of another.     *)
(* (core/engine/ingest_engine.ts, core/create_memory.ts, core/edges,       *)
(* core/memory/durable_graph.ts, stores/sqlite/sqlite_store.ts)            *)
(*                                                                         *)
(* A statement says a value about a topic.  The engine keeps, outside the  *)
(* graph, the current node of every topic; a statement that conflicts with *)
(* it supersedes or contradicts it.  The engine runs to its end in one     *)
(* turn of the event loop, after the embedding was awaited; what it did to *)
(* the graph is then saved in one transaction.  Maintenance and imports    *)
(* change nodes behind the engine's back: it notices by the revision of    *)
(* the graph and makes its index anew.                                     *)
(*                                                                         *)
(* Abstracted: entities, worlds, grounding, contracts, sketches, the       *)
(* working memory and everything about a node but the first claim, the     *)
(* time of observation and the status.  A topic says whether it is one of  *)
(* preferences: the name of a topic begins with the kind of its claims.    *)
(***************************************************************************)
EXTENDS Naturals, FiniteSets

CONSTANTS
    Topic,        \* topics of claims
    Preference,   \* those of preferences
    Value,        \* what can be said about one
    External,     \* whether statements of external sources are made: a set
    Behavior,     \* conflict_behavior of the events
    Lag,          \* by how much an event may be older than its arrival
    None,
    MaxTime,      \* bound: statements
    MaxFault      \* bound: statements SQLite refuses

ASSUME EngineAssumption ==
    /\ Preference \subseteq Topic
    /\ External \subseteq BOOLEAN
    /\ Behavior \subseteq {"auto", "supersede", "contradict", "none"}
    /\ Lag \subseteq Nat
    /\ {MaxTime, MaxFault} \subseteq Nat

VARIABLES
    memory,   \* the graph in the process: nodes by identity, and edges
    store,    \* the same in SQLite
    claim,    \* current_claim_nodes: the node that speaks for a topic
    stale,    \* the graph has a revision the index was not made for
    now,
    refused   \* history: the statements SQLite refused

vars == <<memory, store, claim, stale, now, refused>>

Status == {"active", "superseded", "contradicted"}

(* The content hash is the identity: two nodes with the same content and   *)
(* time of observation are one.                                            *)
Node(topic, value, at) == [topic |-> topic, value |-> value, at |-> at]
Statement == [topic : Topic, value : Value, at : Nat]

(* No node is told from every node.                                        *)
ASSUME NoneAssumption == None \notin Statement

Graph(nodes, edges) == [nodes |-> nodes, edges |-> edges]
Empty == Graph([n \in {} |-> None], {})

NodesIn(g)   == DOMAIN g.nodes
Shown(g, n)  == n \in NodesIn(g) /\ g.nodes[n] = "active"
ShownIn(g)   == {n \in NodesIn(g) : Shown(g, n)}

Conflict(m, n) == m.topic = n.topic /\ m.value # n.value

-----------------------------------------------------------------------------
(* The index.                                                              *)

(* Fault: the nodes are taken in the order they are listed, not by time.   *)
IndexedAsListed(g) ==
    [topic \in Topic |->
        LET about == {n \in ShownIn(g) : n.topic = topic}
        IN  IF about = {} THEN None
            ELSE CHOOSE n \in about : \A m \in about : n.at <= m.at]

(* rebuild_relationship_indexes: the shown node that was observed last.    *)
Indexed(g) ==
    [topic \in Topic |->
        LET about == {n \in ShownIn(g) : n.topic = topic}
        IN  IF about = {} THEN None
            ELSE CHOOSE n \in about : \A m \in about : m.at <= n.at]

(* ensure_relationship_indexes.                                            *)
Index == IF stale THEN Indexed(memory) ELSE claim

(* register_relationship_node: an older node does not replace a newer one. *)
Registered(index, g, n) ==
    IF /\ Shown(g, n)
       /\ index[n.topic] = None \/ index[n.topic].at <= n.at
    THEN [index EXCEPT ![n.topic] = n]
    ELSE index

-----------------------------------------------------------------------------
(* A statement in the graph.                                               *)

(* relationships_for: the current node of the topic, if it is still shown  *)
(* and says something else.                                                *)
Related(index, n) ==
    LET c == index[n.topic]
    IN  IF c # None /\ Shown(memory, c) /\ Conflict(n, c) THEN {c} ELSE {}

RelationType(n, external, behavior) ==
    IF behavior = "supersede" THEN "supersedes"
    ELSE IF behavior = "contradict" THEN "contradicts"
    ELSE IF n.topic \in Preference \/ external THEN "supersedes"
    ELSE "contradicts"

(* The handlers of supersedes and contradicts: what becomes of both ends.  *)
StatusFrom(type) == IF type = "supersedes" THEN "active" ELSE "contradicted"
StatusTo(type)   == IF type = "supersedes" THEN "superseded" ELSE "contradicted"

Edge(n, c, type) == [from |-> n, to |-> c, type |-> type]

(* What one ingest changes: nodes with their status, and new edges.        *)
Diff(n, external, behavior, related) ==
    LET type == RelationType(n, external, behavior)
    IN  [nodes |-> [x \in {n} \cup related |->
                       IF x \in related THEN StatusTo(type)
                       ELSE IF related = {} THEN "active" ELSE StatusFrom(type)],
         edges |-> {Edge(n, c, type) : c \in related}]

(* Nodes are written over, whether they were there or not; edges are kept. *)
Applied(g, d) ==
    Graph([n \in NodesIn(g) \cup DOMAIN d.nodes |->
              IF n \in DOMAIN d.nodes THEN d.nodes[n] ELSE g.nodes[n]],
          g.edges \cup d.edges)

(* Fault: the process ends between the nodes and the edges.                *)
AppliedWithoutEdges(g, d) == Graph(Applied(g, d).nodes, g.edges)

(* persist_ingest: the changed nodes and the new edges.                    *)
Saved(g, d) == Applied(g, d)

-----------------------------------------------------------------------------
(* The API.                                                                *)

(* ingest_atomic: the change a statement makes.                            *)
Change(n, external, behavior) ==
    Diff(n, external, behavior,
         IF behavior = "none" THEN {} ELSE Related(Index, n))

(* The part of an ingest that happens in the process.                      *)
Commit(n, change) ==
    /\ memory' = Applied(memory, change)
    /\ claim' = Registered(Index, memory', n)
    /\ stale' = FALSE

Arrives(n) ==
    /\ now < MaxTime
    /\ now' = now + 1
    /\ \E lag \in Lag : lag <= now /\ n.at = now + 1 - lag

Ingest(n, external, behavior) ==
    /\ Arrives(n)
    /\ Commit(n, Change(n, external, behavior))
    /\ store' = Saved(store, Change(n, external, behavior))
    /\ UNCHANGED refused

(* SQLite refuses the transaction; the graph keeps what it was told.       *)
IngestUnsaved(n, external, behavior) ==
    /\ Cardinality(refused) < MaxFault
    /\ Arrives(n)
    /\ Commit(n, Change(n, external, behavior))
    /\ refused' = refused \cup {n}
    /\ UNCHANGED store

(* A step of an ingest, an import or a maintenance throws: what it did to  *)
(* the graph is undone, but the graph has a new revision.                  *)
RollBack ==
    /\ stale' = TRUE
    /\ UNCHANGED <<memory, store, claim, now, refused>>

(* applyImportPlan: a statement of a source, and the node of an earlier    *)
(* version it replaces.                                                    *)
Import(n, old) ==
    LET told    == Change(n, TRUE, "auto")
        changed == [x \in DOMAIN told.nodes \cup {old} |->
                       IF x = old THEN "superseded"
                       ELSE IF x = n THEN "active" ELSE told.nodes[x]]
        plan    == Graph(changed, told.edges \cup {Edge(n, old, "supersedes")})
    IN  /\ old # n
        /\ Arrives(n)
        /\ memory' = Applied(memory, plan)
        /\ store' = Saved(store, plan)
        /\ claim' = Registered(Index, Applied(memory, told), n)
        /\ stale' = TRUE
        /\ UNCHANGED refused

(* runDecay and reinforce: new versions of nodes, their status as it is.   *)
Maintain(nodes) ==
    /\ nodes # {}
    /\ store' = Applied(store, Graph([n \in nodes |-> memory.nodes[n]], {}))
    /\ stale' = TRUE
    /\ UNCHANGED <<memory, claim, now, refused>>

(* The graph is loaded from SQLite and the index made for it.              *)
Restart ==
    /\ memory' = store
    /\ claim' = Indexed(store)
    /\ stale' = FALSE
    /\ UNCHANGED <<store, now, refused>>

-----------------------------------------------------------------------------
EngineInit ==
    /\ memory = Empty /\ store = Empty
    /\ claim = Indexed(Empty) /\ stale = FALSE
    /\ now = 0 /\ refused = {}

Statements == {Node(topic, value, at) : topic \in Topic, value \in Value, at \in 1 .. MaxTime}

EngineNext ==
    \/ \E n \in Statements :
           \/ \E external \in External, behavior \in Behavior :
                  Ingest(n, external, behavior) \/ IngestUnsaved(n, external, behavior)
           \/ \E old \in NodesIn(memory) : Import(n, old)
    \/ \E nodes \in SUBSET NodesIn(memory) : Maintain(nodes)
    \/ RollBack
    \/ Restart

EngineSpec == EngineInit /\ [][EngineNext]_vars

-----------------------------------------------------------------------------
(* Properties.                                                             *)

(* docs/ingest.md:80-83, ingest_engine.ts:373-383: of two shown statements *)
(* that conflict the older one was said again before the newer one, which  *)
(* took the place of the repetition, or SQLite refused the newer one or    *)
(* one between them.  Nothing else makes the engine miss the statement     *)
(* that speaks for a topic: no restart, no index made anew, no             *)
(* maintenance, no import and no contradiction in between.                 *)
Between(k, m, n) == k.topic = m.topic /\ m.at < k.at /\ k.at < n.at

OnlyRepetitionsEscape ==
    \A m, n \in ShownIn(memory) :
        Conflict(m, n) /\ m.at < n.at =>
            \/ \E k \in NodesIn(memory) : Between(k, m, n) /\ k.value = m.value
            \/ \E k \in refused : k = n \/ Between(k, m, n)

(* timeline_builder.ts:53-90: what SQLite has as superseded leads, from    *)
(* successor to successor, to a node that is not: no set of superseded     *)
(* nodes is without a successor outside it, unless a statement SQLite      *)
(* refused took their place.                                               *)
Outlived == {n \in NodesIn(store) :
                /\ store.nodes[n] = "superseded"
                /\ \A k \in refused : Conflict(k, n) => k.at < n.at}

SuccessionEnds ==
    \A gone \in SUBSET Outlived :
        gone # {} =>
            \E e \in store.edges :
                /\ e.type = "supersedes"
                /\ e.to \in gone
                /\ e.from \in NodesIn(store) \ gone

(* docs/ingest.md:80: a changed preference supersedes the old one.         *)
ChangedPreferencesAreSuperseded ==
    \A m, n \in ShownIn(memory) : m.topic \in Preference => ~Conflict(m, n)

(* docs/ingest.md:135: an ingest is one transaction: what SQLite refused   *)
(* has no effect, so that a topic once spoken of keeps a shown statement   *)
(* or a contradiction.                                                     *)
NothingIsForgotten ==
    \A n \in NodesIn(store) : \E m \in NodesIn(store) :
        m.topic = n.topic /\ store.nodes[m] # "superseded"

=============================================================================
