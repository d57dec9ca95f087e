------------------------- MODULE ConnectorSync_proofs -------------------------
(***************************************************************************)
(* The synchronization of a source, one call at a time: what the cursor    *)
(* says was imported is in the graph, and what was imported can be retired. *)
(* For any documents, sections and texts, any number of edits, failed      *)
(* imports, retries and restarts.                                          *)
(***************************************************************************)
EXTENDS ConnectorSync, TLAPS

(* One call of sync_connector at a time.                                   *)
Alone == \A s, t \in Syncer : s = t

Cursor == UNION {[S -> Entry] : S \in SUBSET Document}
Plan == [nodes : SUBSET Node, at : Nat, retired : SUBSET Node]
ItemType == [of : Document, text : Version, plan : Plan, deleted : BOOLEAN]
Call == [phase : {"idle", "list", "read", "import"}, full : BOOLEAN, cursor : Cursor,
         left : SUBSET Document, seen : SUBSET Document, item : ItemType \cup {None},
         attempt : Nat]

Types ==
    /\ source \in [Document -> [text : Version, at : Nat, there : BOOLEAN]]
    /\ store = memory /\ DOMAIN memory \subseteq Node
    /\ cursor \in Cursor /\ sync \in [Syncer -> Call] /\ edits \in Nat
    /\ \A d \in Document : source[d].at <= edits
    /\ \A id \in DOMAIN memory : memory[id].at \in Nat /\ memory[id].at <= source[id.of].at

-----------------------------------------------------------------------------
(* What a cursor means for the graph.                                      *)

ActiveIn(mem, id) == id \in DOMAIN mem /\ mem[id].status = "active"
Lists(cur, id) == id.of \in DOMAIN cur /\ id \in cur[id.of].nodes

(* Its nodes are of their document, and there.                             *)
OwnsNodes(cur, mem) ==
    \A d \in DOMAIN cur : \A id \in cur[d].nodes : id.of = d /\ id \in DOMAIN mem

TellsTheTruth(cur, mem) ==
    \A d \in DOMAIN cur : ~cur[d].deleted =>
        \A id \in NodesOf(d, cur[d].text) : ActiveIn(mem, id)

CanRetire(cur, mem, old) ==
    \A id \in DOMAIN mem \ old : ActiveIn(mem, id) => Lists(cur, id)

(* A node of the version the source shows is not made a second time: the    *)
(* cursor knows that version.                                              *)
KnowsVersion(cur, mem, old, src) ==
    \A id \in DOMAIN mem : (id \notin old \/ Lists(cur, id)) /\ mem[id].at = src[id.of].at =>
        id.of \in DOMAIN cur /\ cur[id.of].text = src[id.of].text

CursorOK(cur, mem, old, src) ==
    /\ OwnsNodes(cur, mem) /\ TellsTheTruth(cur, mem)
    /\ CanRetire(cur, mem, old) /\ KnowsVersion(cur, mem, old, src)

(* The item a call is about to import.                                     *)
UpdateOK(item, cur, mem, old, src) ==
    LET d == item.of
    IN  /\ item.plan.nodes = NodesOf(d, item.text)
        /\ item.plan.at <= src[d].at
        /\ item.plan.at = src[d].at => item.text = src[d].text
        /\ \A id \in DOMAIN mem : id.of = d =>
               /\ mem[id].at <= item.plan.at
               /\ id \notin old \/ Lists(cur, id) => mem[id].at # item.plan.at

ItemOK(item, cur, mem, old, src) ==
    /\ item.plan.retired = IF item.of \in DOMAIN cur THEN cur[item.of].nodes ELSE {}
    /\ item.deleted => /\ item.of \in DOMAIN cur /\ item.text = cur[item.of].text
                       /\ item.plan.nodes = {}
    /\ ~item.deleted => UpdateOK(item, cur, mem, old, src)

CallOK(s) ==
    /\ sync[s].phase # "idle" => CursorOK(sync[s].cursor, memory, older, source)
    /\ sync[s].phase = "import" =>
           /\ sync[s].item \in ItemType
           /\ ItemOK(sync[s].item, sync[s].cursor, memory, older, source)

Inv ==
    /\ Types
    /\ CursorOK(cursor, memory, older, source)
    /\ \A s \in Syncer : CallOK(s)
-----------------------------------------------------------------------------
(* Nodes and cursors.                                                      *)

LEMMA NodesOfDocument ==
  ASSUME NEW d \in Document, NEW v \in Version
  PROVE  /\ NodesOf(d, v) \subseteq Node
         /\ \A id \in NodesOf(d, v) : id.of = d
  BY DEF NodesOf, Node, Root, SectionNode, Version

LEMMA EmptyCursor == Nothing \in Cursor /\ DOMAIN Nothing = {}
  <1>1. DOMAIN Nothing = {}
    BY DEF Nothing
  <1>2. Nothing \in [{} -> Entry]
    BY DEF Nothing
  <1> QED BY <1>1, <1>2 DEF Cursor

(* An empty cursor says nothing; whatever is there was there before.       *)
LEMMA NothingIsOK ==
  ASSUME NEW mem, NEW src
  PROVE  CursorOK(Nothing, mem, DOMAIN mem, src)
  BY EmptyCursor DEF CursorOK, OwnsNodes, TellsTheTruth, CanRetire, KnowsVersion, Lists

(* Counting more nodes as old asks less of a cursor.                       *)
LEMMA OlderIsOK ==
  ASSUME NEW cur, NEW mem, NEW old, NEW src, CursorOK(cur, mem, old, src)
  PROVE  CursorOK(cur, mem, DOMAIN mem, src)
  BY DEF CursorOK, CanRetire, KnowsVersion

LEMMA EntriesOfCursor ==
  ASSUME NEW cur \in Cursor, NEW d \in DOMAIN cur
  PROVE  d \in Document /\ cur[d] \in Entry /\ cur[d] # None
  BY NoneAssumption DEF Cursor

LEMMA LongerCursor ==
  ASSUME NEW cur \in Cursor, NEW d \in Document, NEW entry \in Entry,
         NEW next, next = [e \in DOMAIN cur \cup {d} |-> IF e = d THEN entry ELSE cur[e]]
  PROVE  next \in Cursor
  <1>1. DOMAIN cur \cup {d} \in SUBSET Document
    BY EntriesOfCursor
  <1>2. \A e \in DOMAIN cur \cup {d} : (IF e = d THEN entry ELSE cur[e]) \in Entry
    BY EntriesOfCursor
  <1>3. next \in [DOMAIN cur \cup {d} -> Entry]
    BY <1>2
  <1> QED BY <1>1, <1>3 DEF Cursor

LEMMA IdleIsCall == Idle \in Call /\ Idle.phase = "idle"
  BY EmptyCursor DEF Idle, Call
-----------------------------------------------------------------------------
(* One document's entry is replaced by an import.                          *)

(* A new version: what it makes is listed, what the last one made is gone. *)
LEMMA UpdateIsOK ==
  ASSUME NEW cur \in Cursor, NEW mem, NEW old, NEW src, NEW item \in ItemType,
         NEW next, NEW new,
         CursorOK(cur, mem, old, src), ItemOK(item, cur, mem, old, src), ~item.deleted,
         \A id \in item.plan.nodes \cap DOMAIN mem : mem[id].at = item.plan.at,
         DOMAIN next = DOMAIN cur \cup {item.of},
         \A e \in DOMAIN cur : e # item.of => next[e] = cur[e],
         next[item.of].text = item.text,
         next[item.of].nodes = item.plan.nodes \ DOMAIN mem,
         DOMAIN new = DOMAIN mem \cup item.plan.nodes,
         \A id \in DOMAIN new :
            /\ new[id].status = IF id \in item.plan.retired THEN "superseded"
                                ELSE IF id \in item.plan.nodes THEN "active"
                                ELSE mem[id].status
            /\ new[id].at = IF id \in item.plan.nodes THEN item.plan.at ELSE mem[id].at,
         \A id \in DOMAIN mem : mem[id].at \in Nat,
         \A e \in Document : src[e].at \in Nat
  PROVE  CursorOK(next, new, old, src)
  <1> DEFINE d == item.of
  <1>0. d \in Document /\ item.text \in Version /\ item.plan.at \in Nat
    BY DEF ItemType, Plan
  <1>1. /\ item.plan.nodes = NodesOf(d, item.text)
        /\ item.plan.at <= src[d].at
        /\ item.plan.at = src[d].at => item.text = src[d].text
        /\ \A id \in DOMAIN mem : id.of = d =>
               /\ mem[id].at <= item.plan.at
               /\ id \notin old \/ Lists(cur, id) => mem[id].at # item.plan.at
    BY DEF ItemOK, UpdateOK
  <1>2. \A id \in item.plan.nodes : id.of = d
    BY <1>0, <1>1, NodesOfDocument
  <1>3. item.plan.retired = IF d \in DOMAIN cur THEN cur[d].nodes ELSE {}
    BY DEF ItemOK
  <1>4. \A id \in item.plan.retired : id.of = d /\ id \in DOMAIN mem /\ Lists(cur, id)
    BY <1>3 DEF CursorOK, OwnsNodes, Lists
  <1>5. item.plan.retired \cap item.plan.nodes = {}
    BY <1>1, <1>2, <1>4
  <1>6. \A id \in item.plan.nodes \cap DOMAIN mem : id \in old
    BY <1>1, <1>2
  <1>7. \A id \in DOMAIN new : id.of # d =>
            id \in DOMAIN mem /\ new[id].status = mem[id].status /\ new[id].at = mem[id].at
    BY <1>2, <1>4
  <1>8. \A id \in DOMAIN mem : id.of # d => id \in DOMAIN new
    OBVIOUS
  <1> HIDE DEF d
  <1>9. d = item.of
    BY DEF d
  <1>10. OwnsNodes(next, new)
    BY <1>2, <1>9 DEF CursorOK, OwnsNodes
  <1>11. TellsTheTruth(next, new)
    <2> SUFFICES ASSUME NEW e \in DOMAIN next, ~next[e].deleted,
                        NEW id \in NodesOf(e, next[e].text)
                 PROVE  ActiveIn(new, id)
      BY DEF TellsTheTruth
    <2>1. CASE e = d
      BY <2>1, <1>1, <1>5, <1>9 DEF ActiveIn
    <2>2. CASE e # d
      <3>1. e \in DOMAIN cur /\ next[e] = cur[e]
        BY <2>2, <1>9
      <3>2. e \in Document /\ cur[e].text \in Version
        BY <3>1, EntriesOfCursor DEF Entry
      <3>3. id.of = e /\ ActiveIn(mem, id)
        BY <3>1, <3>2, NodesOfDocument DEF CursorOK, TellsTheTruth
      <3> QED BY <3>3, <2>2, <1>7, <1>8 DEF ActiveIn
    <2> QED BY <2>1, <2>2
  <1>12. CanRetire(next, new, old)
    <2> SUFFICES ASSUME NEW id \in DOMAIN new \ old, ActiveIn(new, id)
                 PROVE  Lists(next, id)
      BY DEF CanRetire
    <2>1. CASE id \in item.plan.nodes
      BY <2>1, <1>2, <1>6, <1>9 DEF Lists
    <2>2. CASE id \notin item.plan.nodes
      <3>1. id \in DOMAIN mem /\ id \notin item.plan.retired /\ ActiveIn(mem, id)
        BY <2>2 DEF ActiveIn
      <3>2. Lists(cur, id)
        BY <3>1 DEF CursorOK, CanRetire
      <3>3. id.of # d
        BY <3>1, <3>2, <1>3 DEF Lists
      <3> QED BY <3>2, <3>3, <1>9 DEF Lists
    <2> QED BY <2>1, <2>2
  <1>13. KnowsVersion(next, new, old, src)
    <2> SUFFICES ASSUME NEW id \in DOMAIN new, id \notin old \/ Lists(next, id),
                        new[id].at = src[id.of].at
                 PROVE  id.of \in DOMAIN next /\ next[id.of].text = src[id.of].text
      BY DEF KnowsVersion
    <2>1. CASE id \in item.plan.nodes
      BY <2>1, <1>1, <1>2, <1>9
    <2>2. CASE id \notin item.plan.nodes /\ id.of = d
      <3>1. id \in DOMAIN mem /\ new[id].at = mem[id].at
        BY <2>2
      <3>2. id \notin old
        BY <2>2, <3>1, <1>9 DEF Lists
      <3>3. mem[id].at <= item.plan.at /\ mem[id].at # item.plan.at
        BY <2>2, <3>1, <3>2, <1>1
      <3>4. mem[id].at \in Nat /\ src[d].at \in Nat /\ item.plan.at <= src[d].at
        BY <3>1, <1>0, <1>1
      <3>5. mem[id].at # src[d].at
        BY <3>3, <3>4, <1>0
      <3> QED BY <3>1, <3>5, <2>2
    <2>3. CASE id.of # d
      <3>1. id \in DOMAIN mem /\ mem[id].at = src[id.of].at
        BY <2>3, <1>7
      <3>2. id \notin old \/ Lists(cur, id)
        BY <2>3, <1>9 DEF Lists
      <3>3. id.of \in DOMAIN cur /\ cur[id.of].text = src[id.of].text
        BY <3>1, <3>2 DEF CursorOK, KnowsVersion
      <3> QED BY <3>3, <2>3, <1>9
    <2> QED BY <2>1, <2>2, <2>3
  <1> QED BY <1>10, <1>11, <1>12, <1>13 DEF CursorOK

(* A deletion: what the cursor listed of the document is gone.             *)
LEMMA DeletionIsOK ==
  ASSUME NEW cur \in Cursor, NEW mem, NEW old, NEW src, NEW item \in ItemType,
         NEW next, NEW new,
         CursorOK(cur, mem, old, src), ItemOK(item, cur, mem, old, src), item.deleted,
         DOMAIN next = DOMAIN cur \cup {item.of},
         \A e \in DOMAIN cur : e # item.of => next[e] = cur[e],
         next[item.of].text = item.text, next[item.of].deleted,
         next[item.of].nodes = item.plan.nodes \ DOMAIN mem,
         DOMAIN new = DOMAIN mem \cup item.plan.nodes,
         \A id \in DOMAIN new :
            /\ new[id].status = IF id \in item.plan.retired THEN "superseded"
                                ELSE IF id \in item.plan.nodes THEN "active"
                                ELSE mem[id].status
            /\ new[id].at = IF id \in item.plan.nodes THEN item.plan.at ELSE mem[id].at
  PROVE  CursorOK(next, new, old, src)
  <1> DEFINE d == item.of
  <1>1. /\ d \in DOMAIN cur /\ item.text = cur[d].text /\ item.plan.nodes = {}
        /\ item.plan.retired = cur[d].nodes
    BY DEF ItemOK
  <1>2. \A id \in item.plan.retired : id.of = d /\ Lists(cur, id)
    BY <1>1 DEF CursorOK, OwnsNodes, Lists
  <1>3. DOMAIN new = DOMAIN mem /\ DOMAIN next = DOMAIN cur
    BY <1>1
  <1>4. \A id \in DOMAIN mem : new[id].at = mem[id].at
    BY <1>1
  <1>5. \A id \in DOMAIN mem : id.of # d => new[id].status = mem[id].status
    BY <1>1, <1>2
  <1>6. \A id \in DOMAIN mem : ActiveIn(new, id) => ActiveIn(mem, id) /\ id \notin cur[d].nodes
    BY <1>1 DEF ActiveIn
  <1>7. next[d].nodes = {} /\ next[d].deleted /\ next[d].text = cur[d].text
    BY <1>1
  <1> HIDE DEF d
  <1>8. d = item.of
    BY DEF d
  <1>9. OwnsNodes(next, new)
    BY <1>3, <1>7, <1>8 DEF CursorOK, OwnsNodes
  <1>10. TellsTheTruth(next, new)
    <2> SUFFICES ASSUME NEW e \in DOMAIN next, ~next[e].deleted,
                        NEW id \in NodesOf(e, next[e].text)
                 PROVE  ActiveIn(new, id)
      BY DEF TellsTheTruth
    <2>1. e # d /\ e \in DOMAIN cur /\ next[e] = cur[e]
      BY <1>3, <1>7, <1>8
    <2>2. e \in Document /\ cur[e].text \in Version
      BY <2>1, EntriesOfCursor DEF Entry
    <2>3. id.of = e /\ ActiveIn(mem, id)
      BY <2>1, <2>2, NodesOfDocument DEF CursorOK, TellsTheTruth
    <2> QED BY <2>1, <2>3, <1>3, <1>5 DEF ActiveIn
  <1>11. CanRetire(next, new, old)
    <2> SUFFICES ASSUME NEW id \in DOMAIN new \ old, ActiveIn(new, id)
                 PROVE  Lists(next, id)
      BY DEF CanRetire
    <2>1. Lists(cur, id) /\ id \notin cur[d].nodes
      BY <1>3, <1>6 DEF CursorOK, CanRetire
    <2> QED BY <2>1, <1>3, <1>8 DEF Lists
  <1>12. KnowsVersion(next, new, old, src)
    <2> SUFFICES ASSUME NEW id \in DOMAIN new, id \notin old \/ Lists(next, id),
                        new[id].at = src[id.of].at
                 PROVE  id.of \in DOMAIN next /\ next[id.of].text = src[id.of].text
      BY DEF KnowsVersion
    <2>1. id \in DOMAIN mem /\ mem[id].at = src[id.of].at
      BY <1>3, <1>4
    <2>2. id \notin old \/ Lists(cur, id)
      BY <1>3, <1>7, <1>8 DEF Lists
    <2>3. id.of \in DOMAIN cur /\ cur[id.of].text = src[id.of].text
      BY <2>1, <2>2 DEF CursorOK, KnowsVersion
    <2> QED BY <2>3, <1>3, <1>7, <1>8
  <1> QED BY <1>9, <1>10, <1>11, <1>12 DEF CursorOK

(* The source moves on: no node carries the time of the new version.       *)
LEMMA EditIsOK ==
  ASSUME NEW cur, NEW mem, NEW old, NEW src, NEW new, NEW d \in Document,
         CursorOK(cur, mem, old, src),
         \A id \in DOMAIN mem : id.of = d => mem[id].at # new[d].at,
         \A e \in Document \ {d} : new[e] = src[e],
         DOMAIN mem \subseteq Node
  PROVE  CursorOK(cur, mem, old, new)
  <1>1. KnowsVersion(cur, mem, old, new)
    BY DEF CursorOK, KnowsVersion, Node
  <1> QED BY <1>1 DEF CursorOK

(* Nothing but whether the document is there changes.                      *)
LEMMA MoveIsOK ==
  ASSUME NEW cur, NEW mem, NEW old, NEW src, NEW new,
         \A e \in Document : new[e].at = src[e].at /\ new[e].text = src[e].text,
         DOMAIN mem \subseteq Node
  PROVE  /\ CursorOK(cur, mem, old, src) => CursorOK(cur, mem, old, new)
         /\ \A item \in ItemType :
                ItemOK(item, cur, mem, old, src) => ItemOK(item, cur, mem, old, new)
  <1>1. CursorOK(cur, mem, old, src) => CursorOK(cur, mem, old, new)
    BY DEF CursorOK, KnowsVersion, Node
  <1>2. ASSUME NEW item \in ItemType, ItemOK(item, cur, mem, old, src)
        PROVE  ItemOK(item, cur, mem, old, new)
    <2>1. item.of \in Document
      BY DEF ItemType
    <2> QED BY <1>2, <2>1 DEF ItemOK, UpdateOK
  <1> QED BY <1>1, <1>2
-----------------------------------------------------------------------------
(* The steps.                                                              *)

LEMMA InitInv == SyncInit => Inv
  <1> SUFFICES ASSUME SyncInit PROVE Inv
    OBVIOUS
  <1>1. /\ memory = Nothing /\ store = Nothing /\ cursor = Nothing /\ older = {}
        /\ sync = [s \in Syncer |-> Idle] /\ edits = 0
        /\ source \in [Document -> [text : Version, at : {0}, there : BOOLEAN]]
    BY DEF SyncInit
  <1>2. Types
    BY <1>1, EmptyCursor, IdleIsCall DEF Types
  <1>3. CursorOK(cursor, memory, older, source)
    BY <1>1, NothingIsOK, EmptyCursor
  <1>4. \A s \in Syncer : CallOK(s)
    BY <1>1, IdleIsCall DEF CallOK
  <1> QED BY <1>2, <1>3, <1>4 DEF Inv

(* A step of a call that leaves graph, cursor and source alone.            *)
LEMMA CallStep ==
  ASSUME Inv, NEW s \in Syncer, NEW row \in Call,
         sync' = [sync EXCEPT ![s] = row],
         UNCHANGED <<source, memory, store, cursor, older, edits>>,
         row.phase # "idle" => CursorOK(row.cursor, memory, older, source),
         row.phase = "import" => /\ row.item \in ItemType
                                 /\ ItemOK(row.item, row.cursor, memory, older, source)
  PROVE  Inv'
  <1>1. Types'
    BY DEF Inv, Types
  <1>2. CursorOK(cursor, memory, older, source)'
    BY DEF Inv
  <1>3. ASSUME NEW t \in Syncer PROVE CallOK(t)'
    <2>1. CASE t = s
      <3>1. sync'[t] = row
        BY <2>1 DEF Inv, Types
      <3> QED BY <3>1 DEF CallOK
    <2>2. CASE t # s
      <3>1. sync'[t] = sync[t]
        BY <2>2 DEF Inv, Types
      <3> QED BY <3>1 DEF CallOK, Inv
    <2> QED BY <2>1, <2>2
  <1> QED BY <1>1, <1>2, <1>3 DEF Inv

(* What is known of a call in progress.                                    *)
LEMMA CallFacts ==
  ASSUME Inv, NEW s \in Syncer
  PROVE  /\ sync[s] \in Call
         /\ sync[s].phase # "idle" => CursorOK(sync[s].cursor, memory, older, source)
         /\ sync[s].phase = "import" =>
                /\ sync[s].item \in ItemType
                /\ ItemOK(sync[s].item, sync[s].cursor, memory, older, source)
  BY DEF Inv, Types, CallOK

LEMMA BeginStep ==
  ASSUME Alone, Inv, NEW s \in Syncer, NEW mode \in Mode, Begin(s, mode)
  PROVE  Inv'
  <1> DEFINE row == [Idle EXCEPT !.phase = "list", !.full = (mode = "full"),
                                 !.cursor = IF mode = "full" THEN Nothing ELSE cursor]
  <1>1. /\ sync' = [sync EXCEPT ![s] = row]
        /\ UNCHANGED <<source, memory, store, cursor, edits>>
        /\ older' = IF mode = "full" THEN DOMAIN memory ELSE older
    BY DEF Begin, counters
  <1>2. row \in Call /\ row.phase = "list"
        /\ row.cursor = IF mode = "full" THEN Nothing ELSE cursor
    BY EmptyCursor DEF Idle, Call, Inv, Types
  <1> HIDE DEF row
  <1>3. CursorOK(cursor, memory, older', source)
    BY <1>1, OlderIsOK DEF Inv
  <1>4. CursorOK(row.cursor, memory, older', source)
    BY <1>1, <1>2, <1>3, NothingIsOK
  <1>5. Types'
    BY <1>1, <1>2 DEF Inv, Types
  <1>6. ASSUME NEW t \in Syncer PROVE CallOK(t)'
    <2>1. t = s
      BY DEF Alone
    <2>2. sync'[t] = row
      BY <2>1, <1>1 DEF Inv, Types
    <2> QED BY <2>2, <1>1, <1>2, <1>4 DEF CallOK
  <1> QED BY <1>1, <1>3, <1>5, <1>6 DEF Inv

LEMMA ReadStep ==
  ASSUME Inv, NEW s \in Syncer, NEW d \in Document, Read(s, d)
  PROVE  Inv'
  <1> DEFINE item == Item(d, source[d].text, UpdatePlan(s, d, source[d]), FALSE)
  <1>0. /\ sync[s] \in Call /\ sync[s].phase = "read"
        /\ CursorOK(sync[s].cursor, memory, older, source)
        /\ UNCHANGED <<source, memory, store, cursor, older, edits>>
    BY CallFacts DEF Read, counters
  <1>1. source[d].text \in Version /\ source[d].at \in Nat /\ sync[s].cursor \in Cursor
    BY <1>0 DEF Inv, Types, Call
  <1>2. CASE Known(s, d)
    <2> DEFINE row == [sync[s] EXCEPT !.left = @ \ {d}, !.item = None]
    <2>1. sync' = [sync EXCEPT ![s] = row]
      BY <1>2, <1>0 DEF Read, Call, Inv, Types
    <2>2. row \in Call /\ row.phase = "read" /\ row.cursor = sync[s].cursor
      BY <1>0 DEF Call
    <2> HIDE DEF row
    <2> QED BY <2>1, <2>2, <1>0, CallStep
  <1>3. CASE ~Known(s, d)
    <2> DEFINE row == [sync[s] EXCEPT !.left = @ \ {d}, !.phase = "import", !.item = item]
    <2>1. sync' = [sync EXCEPT ![s] = row]
      BY <1>3, <1>0 DEF Read, Call, Inv, Types
    <2>2. Retired(s, d) = IF d \in DOMAIN sync[s].cursor THEN sync[s].cursor[d].nodes ELSE {}
      BY <1>1, EntriesOfCursor DEF Retired, Prior
    <2>3. Retired(s, d) \subseteq Node
      BY <2>2, <1>1, EntriesOfCursor DEF Entry
    <2>4. /\ item \in ItemType /\ item.of = d /\ item.text = source[d].text /\ ~item.deleted
          /\ item.plan.retired = Retired(s, d) /\ item.plan.at = source[d].at
          /\ item.plan.nodes = NodesOf(d, source[d].text)
      BY <2>3, <1>1, NodesOfDocument DEF Item, UpdatePlan, ItemType, Plan
    <2> HIDE DEF item
    <2>5. row \in Call /\ row.phase = "import" /\ row.cursor = sync[s].cursor /\ row.item = item
      BY <1>0, <2>4 DEF Call
    <2> HIDE DEF row
    <2>6. ~(d \in DOMAIN sync[s].cursor /\ sync[s].cursor[d].text = source[d].text)
      BY <1>1, <1>3, EntriesOfCursor DEF Known, Prior
    <2>7. ASSUME NEW id \in DOMAIN memory, id.of = d
          PROVE  /\ memory[id].at <= source[d].at
                 /\ id \notin older \/ Lists(sync[s].cursor, id) => memory[id].at # source[d].at
      <3>1. memory[id].at <= source[d].at
        BY <2>7 DEF Inv, Types
      <3>2. id \notin older \/ Lists(sync[s].cursor, id) => memory[id].at # source[d].at
        BY <1>0, <2>6, <2>7 DEF CursorOK, KnowsVersion
      <3> QED BY <3>1, <3>2
    <2>8. UpdateOK(item, sync[s].cursor, memory, older, source)
      BY <2>4, <2>7, <1>1 DEF UpdateOK
    <2>9. ItemOK(item, sync[s].cursor, memory, older, source)
      BY <2>2, <2>4, <2>8 DEF ItemOK
    <2> QED BY <2>1, <2>4, <2>5, <2>9, <1>0, CallStep
  <1> QED BY <1>2, <1>3

LEMMA ReadMissingStep ==
  ASSUME Inv, NEW s \in Syncer, NEW d \in Document, ReadMissing(s, d)
  PROVE  Inv'
  <1> DEFINE item == Item(d, Prior(s, d).text, DeletionPlan(s, d), TRUE)
             row  == [sync[s] EXCEPT !.phase = "import", !.seen = @ \cup {d}, !.item = item]
  <1>0. /\ sync[s] \in Call /\ sync[s].phase = "read"
        /\ CursorOK(sync[s].cursor, memory, older, source)
        /\ UNCHANGED <<source, memory, store, cursor, older, edits>>
    BY CallFacts DEF ReadMissing, counters
  <1>1. d \in DOMAIN sync[s].cursor /\ sync[s].cursor \in Cursor
    BY <1>0 DEF ReadMissing, Missing, Call
  <1>2. Prior(s, d) = sync[s].cursor[d] /\ Prior(s, d) # None /\ Prior(s, d) \in Entry
    BY <1>1, EntriesOfCursor DEF Prior
  <1>3. /\ item \in ItemType /\ item.of = d /\ item.text = sync[s].cursor[d].text
        /\ item.deleted /\ item.plan.nodes = {} /\ item.plan.retired = sync[s].cursor[d].nodes
    BY <1>2 DEF Item, DeletionPlan, Retired, ItemType, Plan, Entry
  <1>4. sync' = [sync EXCEPT ![s] = row]
    BY <1>0 DEF ReadMissing, Inv, Types, Call
  <1> HIDE DEF item
  <1>5. row \in Call /\ row.phase = "import" /\ row.cursor = sync[s].cursor /\ row.item = item
    BY <1>0, <1>3 DEF Call
  <1> HIDE DEF row
  <1>6. ItemOK(item, sync[s].cursor, memory, older, source)
    BY <1>1, <1>3 DEF ItemOK
  <1> QED BY <1>0, <1>3, <1>4, <1>5, <1>6, CallStep

(* The steps that only move a call on.                                     *)
LEMMA PassingStep ==
  ASSUME Inv, NEW s \in Syncer,
         List(s) \/ Finish(s) \/ \E d \in Document : ReadFails(s, d)
  PROVE  Inv'
  <1>1. CASE List(s)
    <2>1. PICK page \in SUBSET Present :
            sync' = [sync EXCEPT ![s].phase = "read", ![s].left = page, ![s].seen = page]
      BY <1>1 DEF List
    <2> DEFINE row == [sync[s] EXCEPT !.phase = "read", !.left = page, !.seen = page]
    <2>2. /\ sync[s] \in Call /\ CursorOK(sync[s].cursor, memory, older, source)
          /\ UNCHANGED <<source, memory, store, cursor, older, edits>>
      BY <1>1, CallFacts DEF List, counters
    <2>3. sync' = [sync EXCEPT ![s] = row]
      BY <2>1, <2>2 DEF Inv, Types, Call
    <2>4. row \in Call /\ row.phase = "read" /\ row.cursor = sync[s].cursor
      BY <2>2 DEF Call, Present
    <2> HIDE DEF row
    <2> QED BY <2>2, <2>3, <2>4, CallStep
  <1>2. CASE Finish(s)
    BY <1>2, IdleIsCall, CallStep DEF Finish, counters
  <1>3. CASE \E d \in Document : ReadFails(s, d)
    BY <1>3, IdleIsCall, CallStep DEF ReadFails, counters
  <1> QED BY <1>1, <1>2, <1>3

(* An attempt that changed nothing, and is repeated or given up.           *)
LEMMA RetryStep ==
  ASSUME Inv, SyncAssumption, NEW s \in Syncer, sync[s].phase = "import", Retry(s),
         UNCHANGED <<source, memory, store, cursor, older, edits>>
  PROVE  Inv'
  <1>1. /\ sync[s] \in Call /\ CursorOK(sync[s].cursor, memory, older, source)
        /\ sync[s].item \in ItemType
        /\ ItemOK(sync[s].item, sync[s].cursor, memory, older, source)
    BY CallFacts
  <1>2. CASE sync[s].attempt < Retries
    <2> DEFINE row == [sync[s] EXCEPT !.attempt = @ + 1]
    <2>1. sync' = [sync EXCEPT ![s] = row]
      BY <1>1, <1>2 DEF Retry, Inv, Types, Call
    <2>2. row \in Call /\ row.cursor = sync[s].cursor /\ row.item = sync[s].item
      BY <1>1 DEF Call
    <2> HIDE DEF row
    <2> QED BY <1>1, <2>1, <2>2, CallStep
  <1>3. CASE ~(sync[s].attempt < Retries)
    <2> DEFINE row == [sync[s] EXCEPT !.phase = "read", !.item = None, !.attempt = 0]
    <2>1. sync' = [sync EXCEPT ![s] = row]
      BY <1>1, <1>3 DEF Retry, Inv, Types, Call
    <2>2. row \in Call /\ row.cursor = sync[s].cursor /\ row.phase = "read"
      BY <1>1 DEF Call
    <2> HIDE DEF row
    <2> QED BY <1>1, <2>1, <2>2, CallStep
  <1> QED BY <1>2, <1>3

LEMMA ImportStep ==
  ASSUME Alone, Inv, NEW s \in Syncer, Import(s)
  PROVE  Inv'
  <1> DEFINE item == sync[s].item
             cur  == sync[s].cursor
             next == [d \in DOMAIN cur \cup {item.of} |->
                         IF d = item.of THEN Remembered(item) ELSE cur[d]]
             row  == [sync[s] EXCEPT !.phase = "read", !.cursor = next,
                                     !.item = None, !.attempt = 0]
  <1>1. /\ sync[s] \in Call /\ cur \in Cursor /\ item \in ItemType
        /\ CursorOK(cur, memory, older, source)
        /\ ItemOK(item, cur, memory, older, source)
    BY CallFacts DEF Import, Call
  <1>2. /\ KeepsIdentity(item.plan) /\ memory' = Applied(item.plan) /\ store' = memory'
        /\ cursor' = next /\ UNCHANGED <<source, older, edits>>
    BY DEF Import, counters
  <1>3. sync' = [sync EXCEPT ![s] = row]
    BY <1>1 DEF Import, Inv, Types, Call
  <1>4. Remembered(item) \in Entry
    BY <1>1 DEF Remembered, Created, Entry, ItemType, Plan
  <1>5. next \in Cursor
    <2>1. item.of \in Document
      BY <1>1 DEF ItemType
    <2> HIDE DEF item, cur
    <2>2. next = [e \in DOMAIN cur \cup {item.of} |->
                     IF e = item.of THEN Remembered(item) ELSE cur[e]]
      OBVIOUS
    <2> HIDE DEF next
    <2> QED BY <2>1, <2>2, <1>1, <1>4, LongerCursor
  <1>6. /\ DOMAIN next = DOMAIN cur \cup {item.of}
        /\ \A e \in DOMAIN cur : e # item.of => next[e] = cur[e]
        /\ next[item.of] = Remembered(item)
    OBVIOUS
  <1>7. row \in Call /\ row.phase = "read" /\ row.cursor = next
    <2> HIDE DEF next
    <2> QED BY <1>1, <1>5 DEF Call
  <1> HIDE DEF row, next
  <1>8. /\ next[item.of].text = item.text /\ next[item.of].deleted = item.deleted
        /\ next[item.of].nodes = item.plan.nodes \ DOMAIN memory
    BY <1>6 DEF Remembered, Created
  <1>9. /\ DOMAIN memory' = DOMAIN memory \cup item.plan.nodes
        /\ \A id \in DOMAIN memory' :
             /\ memory'[id].status = IF id \in item.plan.retired THEN "superseded"
                                     ELSE IF id \in item.plan.nodes THEN "active"
                                     ELSE memory[id].status
             /\ memory'[id].at = IF id \in item.plan.nodes THEN item.plan.at
                                 ELSE memory[id].at
    BY <1>2 DEF Applied
  <1>10. /\ \A id \in DOMAIN memory : memory[id].at \in Nat
         /\ \A e \in Document : source[e].at \in Nat
    BY DEF Inv, Types
  <1>11. item.deleted \in BOOLEAN /\ item.of \in Document
         /\ item.plan.nodes \subseteq Node /\ item.plan.at \in Nat
    BY <1>1 DEF ItemType, Plan
  <1>12. \A id \in item.plan.nodes : id.of = item.of /\ item.plan.at <= source[id.of].at
    <2>1. CASE item.deleted
      BY <2>1, <1>1 DEF ItemOK
    <2>2. CASE ~item.deleted
      <3>1. item.plan.nodes = NodesOf(item.of, item.text) /\ item.plan.at <= source[item.of].at
        BY <2>2, <1>1 DEF ItemOK, UpdateOK
      <3>2. item.text \in Version
        BY <1>1 DEF ItemType
      <3> QED BY <3>1, <3>2, <1>11, NodesOfDocument
    <2> QED BY <2>1, <2>2
  <1>13. CursorOK(next, memory', older, source)
    <2> HIDE DEF item, cur
    <2>0. PICK new : new = memory'
      OBVIOUS
    <2>a. /\ DOMAIN new = DOMAIN memory \cup item.plan.nodes
          /\ \A id \in DOMAIN new :
               /\ new[id].status = IF id \in item.plan.retired THEN "superseded"
                                  ELSE IF id \in item.plan.nodes THEN "active"
                                  ELSE memory[id].status
               /\ new[id].at = IF id \in item.plan.nodes THEN item.plan.at
                              ELSE memory[id].at
      BY <2>0, <1>9
    <2>b. next[item.of].text = item.text /\ next[item.of].nodes = item.plan.nodes \ DOMAIN memory
      BY <1>8
    <2>1. CASE item.deleted
      <3>1. next[item.of].deleted
        BY <2>1, <1>8
      <3>2. CursorOK(next, new, older, source)
        <4>1. cur \in Cursor /\ item \in ItemType /\ CursorOK(cur, memory, older, source)
              /\ ItemOK(item, cur, memory, older, source)
          BY <1>1
        <4>2. /\ DOMAIN next = DOMAIN cur \cup {item.of}
              /\ \A e \in DOMAIN cur : e # item.of => next[e] = cur[e]
          BY <1>6
        <4> QED BY <4>1, <4>2, <2>1, <2>a, <2>b, <3>1, DeletionIsOK, ZenonT(30)
      <3> QED BY <3>2, <2>0
    <2>2. CASE ~item.deleted
      <3>1. \A id \in item.plan.nodes \cap DOMAIN memory : memory[id].at = item.plan.at
        BY <1>2 DEF KeepsIdentity
      <3>2. CursorOK(next, new, older, source)
        BY <2>2, <2>a, <2>b, <3>1, <1>1, <1>6, <1>10, UpdateIsOK
      <3> QED BY <3>2, <2>0
    <2> QED BY <2>1, <2>2
  <1>14. \A id \in DOMAIN memory' :
            memory'[id].at \in Nat /\ memory'[id].at <= source[id.of].at
    BY <1>9, <1>11, <1>12 DEF Inv, Types
  <1>15. DOMAIN memory' \subseteq Node
    BY <1>9, <1>11 DEF Inv, Types
  <1>16. sync' \in [Syncer -> Call]
    BY <1>3, <1>7 DEF Inv, Types
  <1>17. Types'
    BY <1>2, <1>5, <1>14, <1>15, <1>16 DEF Inv, Types
  <1>18. ASSUME NEW t \in Syncer PROVE CallOK(t)'
    <2>1. t = s
      BY DEF Alone
    <2>2. sync'[t] = row
      BY <2>1, <1>3 DEF Inv, Types
    <2> QED BY <2>2, <1>2, <1>7, <1>13 DEF CallOK
  <1> QED BY <1>2, <1>13, <1>17, <1>18 DEF Inv

LEMMA RestartStep == ASSUME Inv, Restart PROVE Inv'
  <1>1. /\ memory' = memory /\ store' = memory /\ older' = DOMAIN memory
        /\ cursor' = Nothing /\ sync' = [s \in Syncer |-> Idle]
        /\ UNCHANGED <<source, edits>>
    BY DEF Restart, Inv, Types
  <1>2. Types'
    BY <1>1, EmptyCursor, IdleIsCall DEF Inv, Types
  <1>3. CursorOK(cursor, memory, older, source)'
    BY <1>1, NothingIsOK
  <1>4. \A s \in Syncer : CallOK(s)'
    BY <1>1, IdleIsCall DEF CallOK
  <1> QED BY <1>2, <1>3, <1>4 DEF Inv

LEMMA EditStep ==
  ASSUME Inv, NEW d \in Document, NEW text \in Version, Edit(d, text)
  PROVE  Inv'
  <1>1. /\ source' = [source EXCEPT ![d] = [text |-> text, at |-> edits + 1, there |-> TRUE]]
        /\ edits' = edits + 1
        /\ UNCHANGED <<memory, store, cursor, sync, older>>
    BY DEF Edit
  <1>2. /\ source \in [Document -> [text : Version, at : Nat, there : BOOLEAN]]
        /\ edits \in Nat /\ \A e \in Document : source[e].at <= edits
        /\ DOMAIN memory \subseteq Node
        /\ \A id \in DOMAIN memory : memory[id].at \in Nat /\ memory[id].at <= source[id.of].at
    BY DEF Inv, Types
  <1>3. /\ \A e \in Document \ {d} : source'[e] = source[e]
        /\ source'[d].at = edits + 1
        /\ source' \in [Document -> [text : Version, at : Nat, there : BOOLEAN]]
    BY <1>1, <1>2
  <1>4. \A id \in DOMAIN memory : id.of \in Document
    BY <1>2 DEF Node
  <1>5. \A id \in DOMAIN memory : memory[id].at <= edits
    <2> TAKE id \in DOMAIN memory
    <2>1. id.of \in Document /\ memory[id].at \in Nat /\ memory[id].at <= source[id.of].at
      BY <1>2, <1>4
    <2>2. source[id.of].at \in Nat /\ source[id.of].at <= edits
      BY <2>1, <1>2
    <2> QED BY <2>1, <2>2, <1>2
  <1>6. \A id \in DOMAIN memory : memory[id].at # edits + 1 /\ memory[id].at <= edits + 1
    BY <1>2, <1>5
  <1>7. Types'
    <2>1. \A e \in Document : source'[e].at <= edits'
      BY <1>1, <1>2, <1>3
    <2>2. \A id \in DOMAIN memory : memory[id].at <= source'[id.of].at
      BY <1>2, <1>3, <1>4, <1>6
    <2> QED BY <1>1, <1>2, <1>3, <2>1, <2>2 DEF Inv, Types
  <1>8. ASSUME NEW cur, CursorOK(cur, memory, older, source)
        PROVE  CursorOK(cur, memory, older, source')
    <2>1. PICK new : new = source'
      OBVIOUS
    <2>2. CursorOK(cur, memory, older, new)
      BY <2>1, <1>2, <1>3, <1>6, <1>8, EditIsOK
    <2> QED BY <2>1, <2>2
  <1>9. ASSUME NEW item \in ItemType, NEW cur, ItemOK(item, cur, memory, older, source)
        PROVE  ItemOK(item, cur, memory, older, source')
    <2>1. item.of \in Document /\ item.plan.at \in Nat
      BY DEF ItemType, Plan
    <2>2. CASE item.of # d
      BY <2>1, <2>2, <1>3, <1>9 DEF ItemOK, UpdateOK
    <2>3. CASE item.of = d
      <3>1. ASSUME ~item.deleted PROVE UpdateOK(item, cur, memory, older, source')
        <4>1. UpdateOK(item, cur, memory, older, source)
          BY <3>1, <1>9 DEF ItemOK
        <4>2. item.plan.at <= source[d].at
          BY <4>1, <2>3 DEF UpdateOK
        <4>3. item.plan.at <= edits
          BY <4>2, <2>1, <1>2
        <4>4. item.plan.at <= source'[d].at /\ item.plan.at # source'[d].at
          BY <4>3, <2>1, <1>2, <1>3
        <4> QED BY <4>1, <4>4, <2>3 DEF UpdateOK
      <3> QED BY <3>1, <1>9 DEF ItemOK
    <2> QED BY <2>2, <2>3
  <1>10. ASSUME NEW s \in Syncer PROVE CallOK(s)'
    BY <1>1, <1>8, <1>9, CallFacts DEF CallOK
  <1>11. CursorOK(cursor, memory, older, source)'
    BY <1>1, <1>8 DEF Inv
  <1> QED BY <1>7, <1>10, <1>11 DEF Inv

LEMMA MoveStep ==
  ASSUME Inv, NEW d \in Document, Move(d)
  PROVE  Inv'
  <1>1. /\ source' = [source EXCEPT ![d].there = ~@]
        /\ edits' = edits + 1
        /\ UNCHANGED <<memory, store, cursor, sync, older>>
    BY DEF Move
  <1>2. /\ source' \in [Document -> [text : Version, at : Nat, there : BOOLEAN]]
        /\ \A e \in Document : source'[e].at = source[e].at /\ source'[e].text = source[e].text
    BY <1>1 DEF Inv, Types
  <1>3. DOMAIN memory \subseteq Node /\ \A id \in DOMAIN memory : id.of \in Document
    BY DEF Inv, Types, Node
  <1>4. Types'
    <2>1. \A e \in Document : source'[e].at <= edits'
      BY <1>1, <1>2 DEF Inv, Types
    <2>2. \A id \in DOMAIN memory : memory[id].at <= source'[id.of].at
      BY <1>2, <1>3 DEF Inv, Types
    <2> QED BY <1>1, <1>2, <2>1, <2>2 DEF Inv, Types
  <1>5. ASSUME NEW cur
        PROVE  /\ CursorOK(cur, memory, older, source) => CursorOK(cur, memory, older, source')
               /\ \A item \in ItemType :
                      ItemOK(item, cur, memory, older, source)
                      => ItemOK(item, cur, memory, older, source')
    <2>1. PICK new : new = source'
      OBVIOUS
    <2>2. \A e \in Document : new[e].at = source[e].at /\ new[e].text = source[e].text
      BY <2>1, <1>2
    <2>3. /\ CursorOK(cur, memory, older, source) => CursorOK(cur, memory, older, new)
          /\ \A item \in ItemType : ItemOK(item, cur, memory, older, source)
                                    => ItemOK(item, cur, memory, older, new)
      BY <2>2, <1>3, MoveIsOK
    <2> QED BY <2>1, <2>3
  <1>6. ASSUME NEW s \in Syncer PROVE CallOK(s)'
    BY <1>1, <1>5, CallFacts DEF CallOK
  <1>7. CursorOK(cursor, memory, older, source)'
    BY <1>1, <1>5 DEF Inv
  <1> QED BY <1>4, <1>6, <1>7 DEF Inv

LEMMA SyncStep ==
  ASSUME Alone, Inv, [SyncNext]_vars
  PROVE  Inv'
  <1>1. CASE UNCHANGED vars
    <2>1. Types' /\ CursorOK(cursor, memory, older, source)'
      BY <1>1 DEF vars, Inv, Types
    <2>2. \A s \in Syncer : CallOK(s)'
      BY <1>1 DEF vars, Inv, CallOK
    <2> QED BY <2>1, <2>2 DEF Inv
  <1>2. ASSUME NEW s \in Syncer, ImportRefused(s) \/ ImportFails(s)
        PROVE  Inv'
    <2>1. sync[s].phase = "import" /\ Retry(s)
          /\ UNCHANGED <<source, memory, store, cursor, older, edits>>
      BY <1>2 DEF ImportRefused, ImportFails, Restored, counters
    <2> QED BY <2>1, RetryStep, SyncAssumption
  <1>3. ASSUME NEW s \in Syncer, Work(s) PROVE Inv'
    BY <1>2, <1>3, PassingStep, ImportStep, ReadStep, ReadMissingStep DEF Work
  <1> QED BY <1>1, <1>3, BeginStep, MoveStep, EditStep, RestartStep DEF SyncNext
-----------------------------------------------------------------------------
(* Theorems.                                                               *)

(* As long as calls do not overlap, the invariant is kept.                 *)
THEOREM SyncInvariant == Alone => (SyncSpec => []Inv)
  <1> SUFFICES ASSUME Alone PROVE SyncSpec => []Inv
    OBVIOUS
  <1>1. SyncInit => Inv
    BY InitInv
  <1>2. Inv /\ [SyncNext]_vars => Inv'
    BY SyncStep
  <1> QED BY <1>1, <1>2, PTL DEF SyncSpec

(* connector_ingest.ts:88-104: what the cursor has as imported is shown by *)
(* the graph, whatever failed, was retried or restarted: a document that   *)
(* is passed over because its text is known is really there.               *)
THEOREM CursorIsTrue == Alone => (SyncSpec => []CursorTellsTheTruth)
  <1> SUFFICES ASSUME Alone PROVE SyncSpec => []CursorTellsTheTruth
    OBVIOUS
  <1>1. Inv => CursorTellsTheTruth
    BY DEF Inv, CursorOK, TellsTheTruth, CursorTellsTheTruth, ActiveIn, Shown
  <1>2. SyncSpec => []Inv
    BY SyncInvariant
  <1> QED BY <1>1, <1>2, PTL

(* plan_helpers.ts:105-109: what was imported since the cursor was empty   *)
(* and is still shown is listed by the cursor, so that the next version or *)
(* the deletion of its document retires it.                                *)
THEOREM ImportsAreListed == Alone => (SyncSpec => []ImportsCanBeRetired)
  <1> SUFFICES ASSUME Alone PROVE SyncSpec => []ImportsCanBeRetired
    OBVIOUS
  <1>1. Inv => ImportsCanBeRetired
    BY DEF Inv, CursorOK, CanRetire, ImportsCanBeRetired, ActiveIn, Lists, Shown
  <1>2. SyncSpec => []Inv
    BY SyncInvariant
  <1> QED BY <1>1, <1>2, PTL
===============================================================================
