-------------------------- MODULE MemoryEngine_proofs --------------------------
(***************************************************************************)
(* Statements in the memory graph, as long as they arrive in the order     *)
(* they were observed in and every one is related to what it changes: of   *)
(* two shown statements that conflict a repetition or a refusal of SQLite  *)
(* kept them from meeting, and what was superseded has a successor.  For   *)
(* any topics and values, any number of statements, imports, maintenance   *)
(* runs, refused transactions and restarts.                                *)
(***************************************************************************)
EXTENDS MemoryEngine, WellFoundedInduction, TLAPS

(* Of the nodes of a set one was observed last.                            *)
LEMMA Newest ==
  ASSUME NEW S, NEW b \in Nat, S # {}, \A x \in S : x.at \in Nat /\ x.at <= b
  PROVE  \E x \in S : \A y \in S : y.at <= x.at
  <1> DEFINE T == {b - x.at : x \in S}
             R == OpToRel(<, Nat)
  <1>1. T \subseteq Nat /\ T # {}
    OBVIOUS
  <1>2. IsWellFoundedOn(R, Nat)
    BY NatLessThanWellFounded
  <1>3. \A i, j \in Nat : i < j => <<i, j>> \in R
    BY DEF OpToRel
  <1>4. \E i \in T : \A j \in T : ~ (<<j, i>> \in R)
    <2> HIDE DEF T, R
    <2> QED BY <1>1, <1>2, WFMin
  <1>5. PICK i \in T : \A j \in T : ~ (j < i)
    <2> HIDE DEF T, R
    <2> QED BY <1>1, <1>3, <1>4
  <1>6. PICK x \in S : i = b - x.at
    OBVIOUS
  <1>7. ASSUME NEW y \in S PROVE y.at <= x.at
    <2>1. ~ (b - y.at < b - x.at)
      BY <1>5, <1>6
    <2> QED BY <2>1
  <1> QED BY <1>7

-----------------------------------------------------------------------------
(* Statements arrive as they were observed, and none asks to be left alone. *)
InOrder == Lag \subseteq {0} /\ "none" \notin Behavior

GraphTypes ==
    /\ now \in Nat
    /\ NodesIn(memory) \subseteq Statement /\ refused \subseteq Statement
    /\ \A n \in NodesIn(memory) \cup refused : n.at <= now
    /\ NodesIn(store) \subseteq NodesIn(memory)
    /\ NodesIn(memory) \ NodesIn(store) \subseteq refused
    /\ \A m, n \in NodesIn(memory) : m.at = n.at => m = n

Indexes(index) ==
    /\ index \in [Topic -> Statement \cup {None}]
    /\ \A topic \in Topic : index[topic] # None => index[topic].at <= now

Types == GraphTypes /\ Indexes(claim)

(* Why the newer of two statements did not replace the older one.          *)
Escapes(m, n) ==
    \/ \E k \in NodesIn(memory) : Between(k, m, n) /\ k.value = m.value
    \/ \E k \in refused : k = n \/ Between(k, m, n)

(* The same holds of what SQLite shows: it is the graph of the next start.  *)
Missed ==
    \A m, n \in ShownIn(memory) \cup ShownIn(store) :
        Conflict(m, n) /\ m.at < n.at => Escapes(m, n)

(* SQLite shows what the graph does not only for want of a refused one.     *)
RefusedAfter(n) == \E k \in refused : Conflict(k, n) /\ n.at < k.at
Hidden == \A n \in ShownIn(store) : Shown(memory, n) \/ RefusedAfter(n)

Successor(n) ==
    \E e \in store.edges : /\ e.type = "supersedes" /\ e.to = n
                           /\ e.from \in NodesIn(store) /\ n.at < e.from.at
Replaced(n) ==
    \/ memory.nodes[n] = "superseded"
    \/ n \in NodesIn(store) /\ store.nodes[n] = "superseded"
Succeeded == \A n \in NodesIn(memory) : Replaced(n) => Successor(n) \/ RefusedAfter(n)

(* The node that speaks for a topic was observed after all that are shown;  *)
(* those it conflicts with it could not have met.                           *)
Speaks(index) ==
    \A m \in ShownIn(memory) :
        /\ index[m.topic] \in NodesIn(memory) /\ index[m.topic].topic = m.topic
        /\ m.at <= index[m.topic].at
        /\ Conflict(m, index[m.topic]) => Escapes(m, index[m.topic])

Inv == Types /\ Missed /\ Hidden /\ Succeeded /\ (~stale => Speaks(claim))

-----------------------------------------------------------------------------
(* Operators of the graph.                                                 *)

LEMMA AppliedGraph ==
  ASSUME NEW g, NEW d
  PROVE  /\ NodesIn(Applied(g, d)) = NodesIn(g) \cup DOMAIN d.nodes
         /\ \A x \in DOMAIN d.nodes : Applied(g, d).nodes[x] = d.nodes[x]
         /\ \A x \in NodesIn(g) \ DOMAIN d.nodes : Applied(g, d).nodes[x] = g.nodes[x]
         /\ Applied(g, d).edges = g.edges \cup d.edges
  BY DEF Applied, Graph, NodesIn

LEMMA IndexedIsNewest ==
  ASSUME NEW g, NEW b \in Nat, NodesIn(g) \subseteq Statement, \A n \in NodesIn(g) : n.at <= b
  PROVE  /\ Indexed(g) \in [Topic -> Statement \cup {None}]
         /\ \A m \in ShownIn(g) : /\ Indexed(g)[m.topic] \in ShownIn(g)
                                  /\ Indexed(g)[m.topic].topic = m.topic
                                  /\ m.at <= Indexed(g)[m.topic].at
  <1> DEFINE about(topic) == {n \in ShownIn(g) : n.topic = topic}
             last(topic) == CHOOSE n \in about(topic) : \A m \in about(topic) : m.at <= n.at
  <1>1. ASSUME NEW topic \in Topic, about(topic) # {}
        PROVE  last(topic) \in about(topic) /\ \A m \in about(topic) : m.at <= last(topic).at
    <2>1. \A x \in about(topic) : x.at \in Nat /\ x.at <= b
      BY DEF ShownIn, Statement
    <2>2. \E n \in about(topic) : \A m \in about(topic) : m.at <= n.at
      <3> HIDE DEF about
      <3> QED BY <1>1, <2>1, Newest
    <2> HIDE DEF about
    <2> QED BY <2>2
  <1>2. Indexed(g) = [topic \in Topic |-> IF about(topic) = {} THEN None ELSE last(topic)]
    BY DEF Indexed
  <1>3. \A topic : about(topic) \subseteq ShownIn(g)
    OBVIOUS
  <1>4. \A m \in ShownIn(g) : m.topic \in Topic /\ m \in about(m.topic) /\ about(m.topic) # {}
    BY DEF ShownIn, Statement
  <1>5. \A topic : \A m \in about(topic) : m.topic = topic
    OBVIOUS
  <1>6. ShownIn(g) \subseteq Statement
    BY DEF ShownIn
  <1> HIDE DEF about, last
  <1>7. Indexed(g) \in [Topic -> Statement \cup {None}]
    BY <1>1, <1>2, <1>3, <1>6
  <1> QED BY <1>1, <1>2, <1>3, <1>4, <1>5, <1>7

LEMMA IndexedInTime ==
  ASSUME NEW g, NEW b \in Nat, NodesIn(g) \subseteq Statement, \A n \in NodesIn(g) : n.at <= b
  PROVE  /\ Indexed(g) \in [Topic -> Statement \cup {None}]
         /\ \A topic \in Topic : Indexed(g)[topic] # None => Indexed(g)[topic].at <= b
  <1> DEFINE about(topic) == {n \in ShownIn(g) : n.topic = topic}
  <1> SUFFICES ASSUME NEW topic \in Topic, Indexed(g)[topic] # None
               PROVE  Indexed(g)[topic] \in NodesIn(g)
    BY IndexedIsNewest
  <1>1. about(topic) # {}
    BY DEF Indexed
  <1>2. PICK m \in about(topic) : TRUE
    BY <1>1
  <1>3. m \in ShownIn(g) /\ m.topic = topic
    BY <1>2
  <1>4. Indexed(g)[topic] \in ShownIn(g)
    BY <1>3, IndexedIsNewest
  <1> QED BY <1>4 DEF ShownIn

-----------------------------------------------------------------------------
(* The index.                                                              *)

LEMMA NewestSpeaks ==
  ASSUME Types, Missed
  PROVE  Speaks(Indexed(memory))
  <1>1. \A m \in ShownIn(memory) : /\ Indexed(memory)[m.topic] \in ShownIn(memory)
                                   /\ Indexed(memory)[m.topic].topic = m.topic
                                   /\ m.at <= Indexed(memory)[m.topic].at
    BY IndexedIsNewest DEF Types, GraphTypes
  <1>2. \A m, n \in ShownIn(memory) : m.at <= n.at /\ Conflict(m, n) => Escapes(m, n)
    <2>1. ShownIn(memory) \subseteq NodesIn(memory)
      BY DEF ShownIn
    <2>2. \A m, n \in ShownIn(memory) : m.at <= n.at /\ Conflict(m, n) => m.at < n.at
      BY <2>1 DEF Types, GraphTypes, Conflict, Statement
    <2> QED BY <2>2 DEF Missed
  <1> QED BY <1>1, <1>2 DEF Speaks, ShownIn

LEMMA IndexSpeaks ==
  ASSUME Inv
  PROVE  Speaks(Index) /\ Indexes(Index)
  <1>1. CASE ~stale
    BY <1>1 DEF Inv, Types, Index
  <1>2. CASE stale
    <2>1. Indexes(Indexed(memory))
      BY IndexedInTime DEF Inv, Types, GraphTypes, Indexes
    <2> QED BY <1>2, <2>1, NewestSpeaks DEF Inv, Index
  <1> QED BY <1>1, <1>2

(* Whatever a new statement does not meet has escaped it.                  *)
LEMMA Unmet ==
  ASSUME Inv, NEW n \in Statement, n.at = now + 1,
         NEW m \in ShownIn(memory), Conflict(m, n), m \notin Related(Index, n)
  PROVE  Escapes(m, n)
  <1> DEFINE c == Index[m.topic]
  <1>1. /\ c \in NodesIn(memory) /\ c.topic = m.topic /\ m.at <= c.at
        /\ Conflict(m, c) => Escapes(m, c)
    BY IndexSpeaks DEF Speaks
  <1>2. /\ m \in Statement /\ c \in Statement /\ m \in NodesIn(memory)
        /\ m.at <= now /\ c.at <= now /\ now \in Nat /\ c # None
    BY <1>1, NoneAssumption DEF Inv, Types, GraphTypes, ShownIn
  <1>3. m # c
    BY <1>2 DEF Related, Conflict, ShownIn
  <1>4. m.at < c.at /\ c.at < n.at
    BY <1>1, <1>2, <1>3 DEF Inv, Types, GraphTypes, Statement
  <1>5. CASE m.value = c.value
    BY <1>1, <1>4, <1>5 DEF Escapes, Between
  <1>6. CASE m.value # c.value
    <2>1. Escapes(m, c)
      BY <1>1, <1>6 DEF Conflict
    <2>2. \A k \in Statement : Between(k, m, c) \/ k = c => Between(k, m, n)
      BY <1>1, <1>2, <1>4 DEF Between, Statement
    <2> QED BY <1>2, <2>1, <2>2 DEF Escapes, Inv, Types, GraphTypes
  <1> QED BY <1>5, <1>6

-----------------------------------------------------------------------------
(* A change of the graph that a new statement makes.                       *)

Explained(n, d, met) ==
    /\ DOMAIN d.nodes = {n} \cup met /\ met \subseteq NodesIn(memory)
    /\ d.nodes[n] # "superseded"
    /\ \A x \in met : d.nodes[x] # "active"
    /\ \A x \in met : d.nodes[x] = "superseded" =>
           \E e \in d.edges : e.type = "supersedes" /\ e.to = x /\ e.from = n
    /\ \A m \in ShownIn(memory) \ met : Conflict(m, n) => Escapes(m, n)

Takes(n, d, met) ==
    /\ memory' = Applied(memory, d) /\ now' = now + 1
    /\ \/ store' = Applied(store, d) /\ refused' = refused
       \/ store' = store /\ refused' = refused \cup {n} /\ \A x \in met : Conflict(n, x)

LEMMA EscapesStay ==
  ASSUME NEW m, NEW n, Escapes(m, n), NodesIn(memory) \subseteq NodesIn(memory'),
         refused \subseteq refused'
  PROVE  Escapes(m, n)'
  BY DEF Escapes, Between

LEMMA TakesFacts ==
  ASSUME Inv, NEW n \in Statement, n.at = now + 1, NEW d, NEW met,
         Explained(n, d, met), Takes(n, d, met)
  PROVE  /\ n \notin NodesIn(memory) /\ n \notin met
         /\ NodesIn(memory') = NodesIn(memory) \cup {n}
         /\ ShownIn(memory') \subseteq (ShownIn(memory) \ met) \cup {n}
         /\ NodesIn(store) \subseteq NodesIn(store') /\ refused \subseteq refused'
         /\ NodesIn(store') \subseteq NodesIn(store) \cup {n} \cup met
         /\ ShownIn(store') \subseteq ShownIn(store) \cup {n}
         /\ \A m \in NodesIn(memory) \cup refused : m.at < n.at /\ m.at \in Nat
         /\ n.at \in Nat
  <1>1. \A m \in NodesIn(memory) \cup refused : m.at < n.at /\ m.at \in Nat
    BY DEF Inv, Types, GraphTypes, Statement
  <1>2. n \notin NodesIn(memory) /\ n \notin met /\ n.at \in Nat
    BY <1>1 DEF Explained, Statement
  <1>3. /\ NodesIn(memory') = NodesIn(memory) \cup {n} \cup met
        /\ \A x \in {n} \cup met : memory'.nodes[x] = d.nodes[x]
        /\ \A x \in NodesIn(memory) \ ({n} \cup met) : memory'.nodes[x] = memory.nodes[x]
    BY AppliedGraph DEF Takes, Explained
  <1>4. ShownIn(memory') \subseteq (ShownIn(memory) \ met) \cup {n}
    BY <1>2, <1>3 DEF ShownIn, Shown, Explained
  <1>5. CASE store' = Applied(store, d) /\ refused' = refused
    <2>1. /\ NodesIn(store') = NodesIn(store) \cup {n} \cup met
          /\ \A x \in {n} \cup met : store'.nodes[x] = d.nodes[x]
          /\ \A x \in NodesIn(store) \ ({n} \cup met) : store'.nodes[x] = store.nodes[x]
      BY <1>5, AppliedGraph DEF Explained
    <2>2. ShownIn(store') \subseteq ShownIn(store) \cup {n}
      BY <2>1 DEF ShownIn, Shown, Explained
    <2> QED BY <1>1, <1>2, <1>3, <1>4, <1>5, <2>1, <2>2 DEF Explained
  <1>6. CASE store' = store /\ refused' = refused \cup {n}
    BY <1>1, <1>2, <1>3, <1>4, <1>6 DEF Explained
  <1> QED BY <1>5, <1>6 DEF Takes

LEMMA TakesTypes ==
  ASSUME Inv, NEW n \in Statement, n.at = now + 1, NEW d, NEW met,
         Explained(n, d, met), Takes(n, d, met)
  PROVE  GraphTypes'
  <1> USE DEF Inv, Types, GraphTypes
  <1>1. /\ NodesIn(memory') = NodesIn(memory) \cup {n} /\ now' = now + 1
        /\ \A m \in NodesIn(memory) \cup refused : m.at < n.at /\ m.at \in Nat
        /\ NodesIn(store) \subseteq NodesIn(store') /\ refused \subseteq refused'
        /\ NodesIn(store') \subseteq NodesIn(store) \cup {n} \cup met /\ n \notin NodesIn(memory)
    BY TakesFacts DEF Takes
  <1>2. refused' \subseteq refused \cup {n} /\ met \subseteq NodesIn(memory)
    BY DEF Takes, Explained
  <1>3. n \in NodesIn(store') \/ n \in refused'
    BY AppliedGraph DEF Takes, Explained
  <1>4. \A x, y \in NodesIn(memory') : x.at = y.at => x = y
    BY <1>1
  <1>5. \A x \in NodesIn(memory') \cup refused' : x.at <= now'
    BY <1>1, <1>2
  <1>6. NodesIn(store') \subseteq NodesIn(memory')
    BY <1>1, <1>2
  <1>7. NodesIn(memory') \ NodesIn(store') \subseteq refused'
    BY <1>1, <1>3
  <1> QED BY <1>1, <1>2, <1>4, <1>5, <1>6, <1>7

LEMMA TakesMisses ==
  ASSUME Inv, NEW n \in Statement, n.at = now + 1, NEW d, NEW met,
         Explained(n, d, met), Takes(n, d, met)
  PROVE  Missed' /\ Hidden'
  <1>1. /\ n \notin NodesIn(memory) /\ n \notin met
        /\ NodesIn(memory') = NodesIn(memory) \cup {n}
        /\ ShownIn(memory') \subseteq (ShownIn(memory) \ met) \cup {n}
        /\ NodesIn(store) \subseteq NodesIn(store') /\ refused \subseteq refused'
        /\ ShownIn(store') \subseteq ShownIn(store) \cup {n}
        /\ \A m \in NodesIn(memory) \cup refused : m.at < n.at /\ m.at \in Nat
    BY TakesFacts
  <1>2. \A x, y : Escapes(x, y) => Escapes(x, y)'
    BY <1>1, EscapesStay
  <1>3. \A x : RefusedAfter(x) => RefusedAfter(x)'
    BY <1>1 DEF RefusedAfter
  <1>4. ShownIn(store) \subseteq NodesIn(memory) /\ ShownIn(memory) \subseteq NodesIn(memory)
    BY DEF Inv, Types, GraphTypes, ShownIn
  <1>5. Hidden'
    <2> SUFFICES ASSUME NEW x \in ShownIn(store') PROVE Shown(memory', x) \/ RefusedAfter(x)'
      BY DEF Hidden
    <2>1. CASE store' = Applied(store, d)
      <3>1. /\ \A y \in {n} \cup met : memory'.nodes[y] = d.nodes[y] /\ store'.nodes[y] = d.nodes[y]
            /\ \A y \in NodesIn(memory) \ ({n} \cup met) : memory'.nodes[y] = memory.nodes[y]
            /\ \A y \in NodesIn(store) \ ({n} \cup met) : store'.nodes[y] = store.nodes[y]
        BY <2>1, AppliedGraph DEF Takes, Explained
      <3>2. CASE x \in {n} \cup met
        BY <1>1, <3>1, <3>2 DEF ShownIn, Shown, Explained
      <3>3. CASE x \notin {n} \cup met
        <4>1. x \in ShownIn(store)
          BY <1>1, <3>3
        <4>2. Shown(memory, x) => Shown(memory', x)
          BY <1>1, <1>4, <3>1, <3>3, <4>1 DEF Shown
        <4> QED BY <1>3, <4>1, <4>2 DEF Inv, Hidden
      <3> QED BY <3>2, <3>3
    <2>2. CASE store' = store /\ refused' = refused \cup {n} /\ \A y \in met : Conflict(n, y)
      <3>1. x \in ShownIn(store) /\ x \in NodesIn(memory)
        BY <1>4, <2>2
      <3>2. CASE x \in met
        BY <1>1, <2>2, <3>1, <3>2 DEF RefusedAfter
      <3>3. CASE x \notin met
        <4>1. memory'.nodes[x] = memory.nodes[x]
          BY <1>1, <3>1, <3>3, AppliedGraph DEF Takes, Explained
        <4>2. Shown(memory, x) => Shown(memory', x)
          BY <1>1, <4>1 DEF Shown
        <4> QED BY <1>3, <3>1, <4>2 DEF Inv, Hidden
      <3> QED BY <3>2, <3>3
    <2> QED BY <2>1, <2>2 DEF Takes
  <1>6. Missed'
    <2> SUFFICES ASSUME NEW x \in ShownIn(memory') \cup ShownIn(store'),
                        NEW y \in ShownIn(memory') \cup ShownIn(store'),
                        Conflict(x, y), x.at < y.at
                 PROVE  Escapes(x, y)'
      BY DEF Missed, Conflict
    <2>1. CASE x # n /\ y # n
      BY <1>1, <1>2, <2>1 DEF Inv, Missed
    <2>2. x # n
      <3>1. y = n \/ y \in NodesIn(memory)
        BY <1>1, <1>4
      <3> QED BY <1>1, <3>1 DEF Statement
    <2>3. CASE y = n
      <3>1. CASE x \in ShownIn(memory')
        <4>1. x \in ShownIn(memory) \ met
          BY <1>1, <2>2, <3>1
        <4> QED BY <1>2, <2>3, <4>1 DEF Explained
      <3>2. CASE x \notin ShownIn(memory')
        <4>1. x \in ShownIn(store')
          BY <3>2
        <4>2. RefusedAfter(x)'
          <5>1. ~Shown(memory', x)
            BY <3>2 DEF ShownIn, Shown
          <5> QED BY <1>5, <4>1, <5>1 DEF Hidden
        <4>3. PICK k \in refused' : Conflict(k, x) /\ x.at < k.at
          BY <4>2 DEF RefusedAfter, Conflict
        <4>4. k = n \/ k \in refused
          BY DEF Takes
        <4>5. k = n \/ Between(k, x, n)
          BY <1>1, <4>3, <4>4 DEF Between, Conflict
        <4> QED BY <2>3, <4>5 DEF Escapes, Between
      <3> QED BY <3>1, <3>2
    <2> QED BY <2>1, <2>2, <2>3
  <1> QED BY <1>5, <1>6

LEMMA TakesSucceed ==
  ASSUME Inv, NEW n \in Statement, n.at = now + 1, NEW d, NEW met,
         Explained(n, d, met), Takes(n, d, met)
  PROVE  Succeeded'
  <1> SUFFICES ASSUME NEW x \in NodesIn(memory'), Replaced(x)'
               PROVE  Successor(x)' \/ RefusedAfter(x)'
    BY DEF Succeeded
  <1>1. /\ n \notin NodesIn(memory) /\ n \notin met
        /\ NodesIn(memory') = NodesIn(memory) \cup {n}
        /\ NodesIn(store) \subseteq NodesIn(store') /\ refused \subseteq refused'
        /\ NodesIn(store') \subseteq NodesIn(store) \cup {n} \cup met
        /\ \A m \in NodesIn(memory) \cup refused : m.at < n.at /\ m.at \in Nat
        /\ met \subseteq NodesIn(memory) /\ NodesIn(store) \subseteq NodesIn(memory)
    BY TakesFacts DEF Explained, Inv, Types, GraphTypes
  <1>2. /\ \A y \in {n} \cup met : memory'.nodes[y] = d.nodes[y]
        /\ \A y \in NodesIn(memory) \ ({n} \cup met) : memory'.nodes[y] = memory.nodes[y]
        /\ \A y \in NodesIn(store) \ ({n} \cup met) : store'.nodes[y] = store.nodes[y]
        /\ \/ store' = store
           \/ \A y \in {n} \cup met : store'.nodes[y] = d.nodes[y]
        /\ store.edges \subseteq store'.edges
    BY AppliedGraph DEF Takes, Explained
  <1>3. RefusedAfter(x) => RefusedAfter(x)'
    BY <1>1 DEF RefusedAfter
  <1>4. Successor(x) => Successor(x)'
    BY <1>1, <1>2 DEF Successor
  <1>5. CASE x \in NodesIn(memory) /\ Replaced(x)
    BY <1>3, <1>4, <1>5 DEF Inv, Succeeded
  <1>6. CASE ~(x \in NodesIn(memory) /\ Replaced(x))
    <2>1. x \in {n} \cup met /\ d.nodes[x] = "superseded"
      BY <1>1, <1>2, <1>6 DEF Replaced
    <2>2. x \in met
      BY <2>1 DEF Explained
    <2>3. CASE store' = Applied(store, d)
      <3>1. PICK e \in d.edges : e.type = "supersedes" /\ e.to = x /\ e.from = n
        BY <2>1, <2>2 DEF Explained
      <3>2. e \in store'.edges /\ n \in NodesIn(store')
        BY <2>3, AppliedGraph DEF Explained
      <3> QED BY <1>1, <2>2, <3>1, <3>2 DEF Successor
    <2>4. CASE refused' = refused \cup {n} /\ \A y \in met : Conflict(n, y)
      BY <1>1, <2>2, <2>4 DEF RefusedAfter
    <2> QED BY <2>3, <2>4 DEF Takes
  <1> QED BY <1>5, <1>6

-----------------------------------------------------------------------------
(* The index after a statement.                                            *)

LEMMA RegisteredIndexes ==
  ASSUME NEW index, Indexes(index), NEW n \in Statement, n.at = now + 1, NEW g, now' = now + 1,
         now \in Nat, NEW r, r = Registered(index, g, n)
  PROVE  Indexes(r)'
  <1>1. r = index \/ r = [index EXCEPT ![n.topic] = n]
    BY DEF Registered
  <1>2. r \in [Topic -> Statement \cup {None}]
    BY <1>1 DEF Indexes
  <1>3. \A topic \in Topic : r[topic] # None => r[topic].at <= now + 1
    <2> SUFFICES ASSUME NEW topic \in Topic, r[topic] # None PROVE r[topic].at <= now + 1
      OBVIOUS
    <2>1. r[topic] = n \/ r[topic] = index[topic]
      BY <1>1 DEF Indexes
    <2>2. r[topic] \in Statement /\ (r[topic] = index[topic] => r[topic].at <= now)
      BY <2>1 DEF Indexes
    <2>3. r[topic].at \in Nat
      BY <2>2 DEF Statement
    <2> QED BY <2>1, <2>2, <2>3
  <1> QED BY <1>2, <1>3 DEF Indexes

LEMMA RegisteredSpeaks ==
  ASSUME Inv, NEW n \in Statement, n.at = now + 1, NEW d, NEW met,
         Explained(n, d, met), Takes(n, d, met), NEW r, r = Registered(Index, memory', n)
  PROVE  Speaks(r)'
  <1>1. /\ NodesIn(memory') = NodesIn(memory) \cup {n}
        /\ ShownIn(memory') \subseteq ShownIn(memory) \cup {n}
        /\ \A m \in NodesIn(memory) \cup refused : m.at < n.at /\ m.at \in Nat
        /\ refused \subseteq refused' /\ Missed' /\ n.at \in Nat
    BY TakesFacts, TakesMisses
  <1>2. Indexes(Index) /\ Speaks(Index)
    BY IndexSpeaks
  <1>3. \A x, y : Escapes(x, y) => Escapes(x, y)'
    BY <1>1, EscapesStay
  <1>4. ShownIn(memory) \subseteq NodesIn(memory) /\ ShownIn(memory') \subseteq NodesIn(memory')
        /\ NodesIn(memory) \subseteq Statement
    BY DEF ShownIn, Inv, Types, GraphTypes
  <1>5. CASE Shown(memory', n)
    <2>1. r = [Index EXCEPT ![n.topic] = n]
      <3>1. Index[n.topic] # None => Index[n.topic].at <= n.at
        <4>1. n.topic \in Topic
          BY DEF Statement
        <4>2. Index[n.topic] # None => Index[n.topic] \in Statement /\ Index[n.topic].at <= now
          BY <1>2, <4>1 DEF Indexes
        <4>3. \A x \in Statement : x.at \in Nat
          BY DEF Statement
        <4> QED BY <4>2, <4>3 DEF Inv, Types, GraphTypes
      <3> QED BY <1>5, <3>1 DEF Registered
    <2> SUFFICES ASSUME NEW m \in ShownIn(memory')
                 PROVE  /\ r[m.topic] \in NodesIn(memory') /\ r[m.topic].topic = m.topic
                        /\ m.at <= r[m.topic].at
                        /\ Conflict(m, r[m.topic]) => Escapes(m, r[m.topic])'
      BY DEF Speaks, Conflict
    <2>2. m.topic \in Topic /\ m \in NodesIn(memory')
      BY <1>1, <1>4 DEF Statement
    <2>3. CASE m.topic = n.topic
      <3>1. r[m.topic] = n
        BY <1>2, <2>1, <2>2, <2>3 DEF Indexes
      <3>2. Conflict(m, n) => m.at < n.at
        BY <1>1, <2>2 DEF Conflict
      <3>3. n \in ShownIn(memory')
        BY <1>5 DEF ShownIn, Shown
      <3>4. Conflict(m, n) => Escapes(m, n)'
        BY <1>1, <3>2, <3>3 DEF Missed, Conflict
      <3>5. m.at <= n.at
        BY <1>1, <2>2
      <3> QED BY <1>1, <2>3, <3>1, <3>4, <3>5
    <2>4. CASE m.topic # n.topic
      <3>1. r[m.topic] = Index[m.topic] /\ m \in ShownIn(memory)
        BY <1>1, <1>2, <2>1, <2>2, <2>4 DEF Indexes
      <3> QED BY <1>1, <1>2, <1>3, <3>1 DEF Speaks
    <2> QED BY <2>3, <2>4
  <1>6. CASE ~Shown(memory', n)
    <2>1. r = Index
      BY <1>6 DEF Registered
    <2>2. ShownIn(memory') \subseteq ShownIn(memory)
      BY <1>1, <1>6 DEF ShownIn
    <2> SUFFICES ASSUME NEW m \in ShownIn(memory')
                 PROVE  /\ r[m.topic] \in NodesIn(memory') /\ r[m.topic].topic = m.topic
                        /\ m.at <= r[m.topic].at
                        /\ Conflict(m, r[m.topic]) => Escapes(m, r[m.topic])'
      BY DEF Speaks, Conflict
    <2> QED BY <1>1, <1>2, <1>3, <2>1, <2>2 DEF Speaks
  <1> QED BY <1>5, <1>6

-----------------------------------------------------------------------------
(* The steps.                                                              *)

LEMMA NewStatement ==
  ASSUME InOrder, Types, NEW n \in Statements, Arrives(n)
  PROVE  n \in Statement /\ n.at = now + 1 /\ now' = now + 1 /\ n \notin NodesIn(memory)
  <1>1. n \in Statement
    BY DEF Statements, Node, Statement
  <1>2. n.at = now + 1 /\ now' = now + 1
    BY DEF Arrives, InOrder, Types, GraphTypes
  <1> QED BY <1>1, <1>2 DEF Types, GraphTypes

LEMMA RelatedNodes ==
  ASSUME Inv, NEW n \in Statement
  PROVE  \A c \in Related(Index, n) : c \in ShownIn(memory) /\ Conflict(n, c)
  BY DEF Related, ShownIn, Shown

(* What one ingest changes.                                                *)
LEMMA ChangeExplained ==
  ASSUME InOrder, Inv, NEW n \in Statements, NEW external, NEW behavior, behavior # "none",
         Arrives(n)
  PROVE  Explained(n, Change(n, external, behavior), Related(Index, n))
  <1> DEFINE R == Related(Index, n)
             type == RelationType(n, external, behavior)
             d == Change(n, external, behavior)
  <1>1. n \in Statement /\ n.at = now + 1 /\ n \notin NodesIn(memory)
    BY NewStatement DEF Inv
  <1>2. R \subseteq ShownIn(memory) /\ R \subseteq NodesIn(memory) /\ n \notin R
    BY <1>1, RelatedNodes DEF ShownIn
  <1>3. d = Diff(n, external, behavior, R)
    BY DEF Change
  <1>4. /\ d.nodes = [x \in {n} \cup R |-> IF x \in R THEN StatusTo(type)
                       ELSE IF R = {} THEN "active" ELSE StatusFrom(type)]
        /\ d.edges = {Edge(n, c, type) : c \in R}
    BY <1>3 DEF Diff
  <1>5. /\ DOMAIN d.nodes = {n} \cup R
        /\ \A x \in R : d.nodes[x] = StatusTo(type)
        /\ d.nodes[n] = "active" \/ d.nodes[n] = StatusFrom(type)
    BY <1>2, <1>4
  <1>6. \A x \in R : Edge(n, x, type) \in d.edges
    BY <1>4
  <1>7. \A x : Edge(n, x, type).type = type /\ Edge(n, x, type).to = x /\ Edge(n, x, type).from = n
    BY DEF Edge
  <1>8. /\ StatusTo(type) # "active" /\ StatusFrom(type) # "superseded"
        /\ StatusTo(type) = "superseded" => type = "supersedes"
    BY DEF StatusTo, StatusFrom
  <1>9. \A m \in ShownIn(memory) \ R : Conflict(m, n) => Escapes(m, n)
    BY <1>1, Unmet
  <1> HIDE DEF R, type, d
  <1>10. \A x \in R : d.nodes[x] = "superseded" =>
           \E e \in d.edges : e.type = "supersedes" /\ e.to = x /\ e.from = n
    BY <1>5, <1>6, <1>7, <1>8
  <1> QED BY <1>2, <1>5, <1>8, <1>9, <1>10 DEF Explained, R, d

LEMMA StatementStep ==
  ASSUME Inv, NEW n \in Statement, n.at = now + 1, NEW d, NEW met,
         Explained(n, d, met), Takes(n, d, met), Indexes(claim)',
         ~stale' => claim' = Registered(Index, memory', n)
  PROVE  Inv'
  <1>1. GraphTypes' /\ Missed' /\ Hidden' /\ Succeeded'
    BY TakesTypes, TakesMisses, TakesSucceed
  <1>2. ~stale' => Speaks(claim)'
    <2>1. ASSUME NEW r, r = Registered(Index, memory', n) PROVE Speaks(r)'
      BY <2>1, RegisteredSpeaks
    <2> QED BY <2>1 DEF Speaks
  <1> QED BY <1>1, <1>2 DEF Inv, Types

LEMMA IngestStep ==
  ASSUME InOrder, Inv, NEW n \in Statements, NEW external, NEW behavior \in Behavior,
         Ingest(n, external, behavior) \/ IngestUnsaved(n, external, behavior)
  PROVE  Inv'
  <1> DEFINE d == Change(n, external, behavior)
             met == Related(Index, n)
  <1>1. Arrives(n) /\ Commit(n, d)
    BY DEF Ingest, IngestUnsaved
  <1>2. n \in Statement /\ n.at = now + 1 /\ now' = now + 1 /\ now \in Nat
    BY <1>1, NewStatement DEF Inv, Types, GraphTypes
  <1>3. Explained(n, d, met)
    BY <1>1, ChangeExplained DEF InOrder
  <1>4. \A x \in met : Conflict(n, x)
    BY <1>2, RelatedNodes
  <1>5. Takes(n, d, met)
    BY <1>1, <1>2, <1>4 DEF Takes, Commit, Ingest, IngestUnsaved, Saved
  <1>6. claim' = Registered(Index, memory', n)
    BY <1>1 DEF Commit
  <1>7. Indexes(claim)'
    <2>1. ASSUME NEW r, r = Registered(Index, memory', n) PROVE Indexes(r)'
      BY <1>2, <2>1, IndexSpeaks, RegisteredIndexes
    <2> QED BY <1>6, <2>1 DEF Indexes
  <1> HIDE DEF d, met
  <1> QED BY <1>2, <1>3, <1>5, <1>6, <1>7, StatementStep

(* An import: the node it names is met too.                                *)
LEMMA ImportStep ==
  ASSUME InOrder, Inv, NEW n \in Statements, NEW old \in NodesIn(memory), Import(n, old)
  PROVE  Inv'
  <1> DEFINE told == Change(n, TRUE, "auto")
             R == Related(Index, n)
             changed == [x \in DOMAIN told.nodes \cup {old} |->
                            IF x = old THEN "superseded"
                            ELSE IF x = n THEN "active" ELSE told.nodes[x]]
             edges == told.edges \cup {Edge(n, old, "supersedes")}
             plan == Graph(changed, edges)
             met == R \cup {old}
  <1>1. /\ old # n /\ Arrives(n) /\ memory' = Applied(memory, plan)
        /\ store' = Applied(store, plan) /\ stale' = TRUE /\ refused' = refused
        /\ claim' = Registered(Index, Applied(memory, told), n)
    BY DEF Import, Saved
  <1>2. n \in Statement /\ n.at = now + 1 /\ now' = now + 1 /\ now \in Nat
    BY <1>1, NewStatement DEF Inv, Types, GraphTypes
  <1>3. Explained(n, told, R)
    BY <1>1, ChangeExplained
  <1>4. plan.nodes = changed /\ plan.edges = edges
    BY DEF Graph
  <1>5. /\ DOMAIN changed = {n} \cup met /\ changed[n] = "active" /\ changed[old] = "superseded"
        /\ \A x \in R \ {old, n} : changed[x] = told.nodes[x]
    <2>1. DOMAIN told.nodes = {n} \cup R
      BY <1>3 DEF Explained
    <2> HIDE DEF told, R
    <2> QED BY <1>1, <2>1
  <1>6. Edge(n, old, "supersedes") \in edges /\ told.edges \subseteq edges
    OBVIOUS
  <1>7. LET e == Edge(n, old, "supersedes")
        IN  e.type = "supersedes" /\ e.to = old /\ e.from = n
    BY DEF Edge
  <1>8. n \notin R
    BY <1>1, NewStatement DEF Explained, Inv, Related, Shown
  <1> HIDE DEF told, R, changed, edges, plan
  <1>9. \A x \in met : changed[x] = "superseded" =>
           \E e \in edges : e.type = "supersedes" /\ e.to = x /\ e.from = n
    BY <1>3, <1>5, <1>6, <1>7, <1>8 DEF Explained
  <1>10. Explained(n, plan, met)
    BY <1>3, <1>4, <1>5, <1>8, <1>9 DEF Explained
  <1>11. Takes(n, plan, met)
    BY <1>1, <1>2 DEF Takes
  <1>12. Indexes(claim)'
    <2>1. ASSUME NEW r, r = Registered(Index, Applied(memory, told), n) PROVE Indexes(r)'
      BY <1>2, <2>1, IndexSpeaks, RegisteredIndexes
    <2> QED BY <1>1, <2>1 DEF Indexes
  <1> HIDE DEF met
  <1> QED BY <1>1, <1>2, <1>10, <1>11, <1>12, StatementStep

(* Maintenance writes what the graph has: it can only lead SQLite back.    *)
LEMMA MaintainStep ==
  ASSUME Inv, NEW nodes \in SUBSET NodesIn(memory), Maintain(nodes)
  PROVE  Inv'
  <1> DEFINE d == Graph([n \in nodes |-> memory.nodes[n]], {})
  <1>1. /\ store' = Applied(store, d) /\ stale' = TRUE
        /\ UNCHANGED <<memory, claim, now, refused>>
    BY DEF Maintain
  <1>2. DOMAIN d.nodes = nodes /\ (\A n \in nodes : d.nodes[n] = memory.nodes[n]) /\ d.edges = {}
    BY DEF Graph
  <1> HIDE DEF d
  <1>3. /\ NodesIn(store') = NodesIn(store) \cup nodes
        /\ \A n \in nodes : store'.nodes[n] = memory.nodes[n]
        /\ \A n \in NodesIn(store) \ nodes : store'.nodes[n] = store.nodes[n]
        /\ store'.edges = store.edges
    <2>1. /\ NodesIn(store') = NodesIn(store) \cup DOMAIN d.nodes
          /\ \A x \in DOMAIN d.nodes : store'.nodes[x] = d.nodes[x]
          /\ \A x \in NodesIn(store) \ DOMAIN d.nodes : store'.nodes[x] = store.nodes[x]
          /\ store'.edges = store.edges \cup d.edges
      BY <1>1, AppliedGraph
    <2>2. store'.edges = store.edges
      BY <1>2, <2>1
    <2> QED BY <1>2, <2>1, <2>2
  <1>4. ShownIn(store') \subseteq ShownIn(store) \cup (ShownIn(memory) \cap nodes)
    BY <1>3 DEF ShownIn, Shown
  <1>5. Types'
    BY <1>1, <1>3 DEF Inv, Types, GraphTypes, Indexes
  <1>6. Missed'
    BY <1>1, <1>4 DEF Inv, Missed, Escapes, Between
  <1>7. Hidden'
    BY <1>1, <1>4 DEF Inv, Hidden, RefusedAfter, ShownIn
  <1>8. \A x : Successor(x) => Successor(x)'
    BY <1>3 DEF Successor
  <1>9. \A x : RefusedAfter(x) => RefusedAfter(x)'
    BY <1>1 DEF RefusedAfter
  <1>10. \A x : Replaced(x)' => Replaced(x)
    BY <1>1, <1>3 DEF Replaced
  <1>11. Succeeded'
    BY <1>1, <1>8, <1>9, <1>10 DEF Inv, Succeeded
  <1> QED BY <1>1, <1>5, <1>6, <1>7, <1>11 DEF Inv

(* After a restart the graph is what SQLite had.                           *)
LEMMA RestartStep ==
  ASSUME Inv, Restart
  PROVE  Inv'
  <1>1. memory' = store /\ store' = store /\ claim' = Indexed(store) /\ now' = now /\ refused' = refused
    BY DEF Restart
  <1>2. /\ now \in Nat /\ NodesIn(store) \subseteq Statement /\ \A n \in NodesIn(store) : n.at <= now
        /\ ShownIn(store) \subseteq NodesIn(store)
    BY DEF Inv, Types, GraphTypes, ShownIn
  <1>3. Indexes(claim)'
    BY <1>1, <1>2, IndexedInTime DEF Indexes
  <1>4. GraphTypes'
    BY <1>1 DEF Inv, Types, GraphTypes
  <1>5. \A m, n : Escapes(m, n) => Escapes(m, n)'
    BY <1>1 DEF Inv, Types, GraphTypes, Escapes, Between
  <1>6. Missed'
    BY <1>1, <1>5 DEF Inv, Missed
  <1>7. Hidden'
    BY <1>1 DEF Hidden, ShownIn, Shown
  <1>8. Succeeded'
    <2>1. \A x \in NodesIn(store) : Replaced(x)' => Replaced(x)
      BY <1>1 DEF Replaced
    <2>2. \A x : (Successor(x) \/ RefusedAfter(x)) => (Successor(x) \/ RefusedAfter(x))'
      BY <1>1 DEF Successor, RefusedAfter
    <2> QED BY <1>1, <2>1, <2>2 DEF Inv, Types, GraphTypes, Succeeded
  <1>9. Speaks(claim)'
    <2> SUFFICES ASSUME NEW m \in ShownIn(store), NEW c, c = claim'[m.topic]
                 PROVE  /\ c \in NodesIn(store) /\ c.topic = m.topic /\ m.at <= c.at
                        /\ Conflict(m, c) => Escapes(m, c)'
      BY <1>1 DEF Speaks, Conflict
    <2>1. c \in ShownIn(store) /\ c.topic = m.topic /\ m.at <= c.at
      BY <1>1, <1>2, IndexedIsNewest
    <2>2. Conflict(m, c) => m.at < c.at
      <3>1. m \in NodesIn(memory) /\ c \in NodesIn(memory)
        BY <1>2, <2>1 DEF Inv, Types, GraphTypes
      <3> QED BY <2>1, <3>1 DEF Inv, Types, GraphTypes, Conflict, Statement
    <2>3. Conflict(m, c) => Escapes(m, c)
      BY <2>1, <2>2 DEF Inv, Missed
    <2>4. Conflict(m, c) => Escapes(m, c)'
      BY <1>5, <2>3
    <2> QED BY <1>2, <2>1, <2>4
  <1> QED BY <1>3, <1>4, <1>6, <1>7, <1>8, <1>9 DEF Inv, Types

LEMMA QuietStep ==
  ASSUME Inv, RollBack \/ UNCHANGED vars
  PROVE  Inv'
  BY DEF RollBack, vars, Inv, Types, GraphTypes, Indexes, Missed, Escapes, Hidden, RefusedAfter,
         Succeeded, Replaced, Successor, Speaks, ShownIn, Shown, NodesIn

LEMMA InvStep ==
  ASSUME InOrder
  PROVE  Inv /\ [EngineNext]_vars => Inv'
  BY IngestStep, ImportStep, MaintainStep, RestartStep, QuietStep DEF EngineNext

LEMMA InvInit == EngineInit => Inv
  <1> SUFFICES ASSUME EngineInit PROVE Inv
    OBVIOUS
  <1>1. NodesIn(memory) = {} /\ NodesIn(store) = {} /\ refused = {} /\ now = 0
        /\ claim = Indexed(Empty) /\ NodesIn(Empty) = {}
    BY DEF EngineInit, Empty, Graph, NodesIn
  <1>2. ShownIn(memory) = {} /\ ShownIn(store) = {}
    BY <1>1 DEF ShownIn
  <1>3. Indexes(claim)
    BY <1>1, IndexedInTime DEF Indexes
  <1> QED BY <1>1, <1>2, <1>3 DEF Inv, Types, GraphTypes, Missed, Hidden, Succeeded, Speaks

LEMMA SpecInv ==
  ASSUME InOrder
  PROVE  EngineSpec => []Inv
  <1>1. Inv /\ [EngineNext]_vars => Inv'
    BY InvStep
  <1> QED BY <1>1, InvInit, PTL DEF EngineSpec

-----------------------------------------------------------------------------
\* As long as statements arrive in the order they were observed in and none
\* asks not to be related: of two shown statements that conflict, the older one
\* was said again before the newer one came, or SQLite had refused the newer
\* one or one between them.
THEOREM RepetitionsEscape ==
  ASSUME InOrder
  PROVE  EngineSpec => []OnlyRepetitionsEscape
  <1>1. Inv => OnlyRepetitionsEscape
    BY DEF Inv, Missed, Escapes, OnlyRepetitionsEscape
  <1> QED BY <1>1, SpecInv, PTL

\* Under the same assumption: what SQLite has as superseded leads from successor
\* to successor out of every set of superseded nodes, unless SQLite refused the
\* statement that took the place of one of them.
THEOREM SuccessionsEnd ==
  ASSUME InOrder
  PROVE  EngineSpec => []SuccessionEnds
  <1>1. Inv => SuccessionEnds
    <2> SUFFICES ASSUME Inv, NEW gone \in SUBSET Outlived, gone # {}
                 PROVE  \E e \in store.edges : /\ e.type = "supersedes" /\ e.to \in gone
                                               /\ e.from \in NodesIn(store) \ gone
      BY DEF SuccessionEnds
    <2>1. \A x \in gone : /\ x \in NodesIn(memory) /\ x \in NodesIn(store)
                          /\ store.nodes[x] = "superseded"
                          /\ x.at \in Nat /\ x.at <= now /\ now \in Nat
      BY DEF Outlived, Inv, Types, GraphTypes, Statement
    <2>2. PICK x \in gone : \A y \in gone : y.at <= x.at
      BY <2>1, Newest
    <2>3. ~RefusedAfter(x)
      BY <2>1 DEF RefusedAfter, Outlived, Inv, Types, GraphTypes, Statement
    <2>4. Successor(x)
      BY <2>1, <2>3 DEF Inv, Succeeded, Replaced
    <2>5. PICK e \in store.edges : /\ e.type = "supersedes" /\ e.to = x
                                   /\ e.from \in NodesIn(store) /\ x.at < e.from.at
      BY <2>4 DEF Successor
    <2>6. e.from \notin gone
      BY <2>1, <2>2, <2>5
    <2> QED BY <2>2, <2>5, <2>6
  <1> QED BY <1>1, SpecInv, PTL
=============================================================================
