------------------------- MODULE GraphSearchProofs --------------------------
(***************************************************************************)
(* Proofs about GraphSearch: the answers of the search from both ends, for *)
(* any graph, any request, any limits, and whatever edges are ingested     *)
(* while it runs.                                                          *)
(***************************************************************************)
EXTENDS GraphSearch, FiniteSetTheorems, SequenceTheorems, WellFoundedInduction, TLAPS

-----------------------------------------------------------------------------
(* Distances                                                               *)

(* The nodes one hop from some of the given ones.                          *)
Around(graph, nodes) == {m \in Nodes : \E x \in nodes : Adjacent(graph, x, m)}

(* The balls around n up to radius k, as Within defines them.              *)
Balls(g, graph, n, k) ==
  g = [i \in 0..k |->
         IF i = 0 THEN {n}
         ELSE g[i - 1] \cup {m \in Nodes : \E x \in g[i - 1] : Adjacent(graph, x, m)}]

(* Induction over the numbers in a set.                                    *)
LEMMA SetInduction ==
  ASSUME NEW T, 0 \in T, \A n \in Nat : n \in T => n + 1 \in T
  PROVE  Nat \subseteq T
<1> SUFFICES ASSUME Nat \ T # {} PROVE FALSE
  OBVIOUS
<1>1. IsWellFoundedOn(OpToRel(<, Nat), Nat)
  BY NatLessThanWellFounded
<1>2. PICK x \in Nat \ T : \A y \in Nat \ T : ~(<<y, x>> \in OpToRel(<, Nat))
  BY <1>1, WFMin
<1>3. \A y \in Nat \ T : ~(y < x)
  BY <1>2 DEF OpToRel
<1>4. x # 0 /\ x - 1 \in Nat /\ x - 1 < x /\ (x - 1) + 1 = x
  OBVIOUS
<1>5. QED
  BY <1>3, <1>4

LEMMA BallsExist ==
  ASSUME NEW graph, NEW n
  PROVE  \A k \in Nat : \E g : Balls(g, graph, n, k)
<1> DEFINE T == {k \in Nat : \E g : Balls(g, graph, n, k)}
<1>1. 0 \in T
  <2>1. Balls([i \in 0..0 |-> {n}], graph, n, 0)
    BY DEF Balls
  <2>2. QED
    BY <2>1
<1>2. ASSUME NEW k \in Nat, k \in T
      PROVE  k + 1 \in T
  <2>1. PICK g : Balls(g, graph, n, k)
    BY <1>2
  <2> DEFINE h == [i \in 0..(k + 1) |-> IF i = k + 1 THEN g[k] \cup Around(graph, g[k]) ELSE g[i]]
  <2>2. ASSUME NEW i \in 0..(k + 1)
        PROVE  h[i] = IF i = 0 THEN {n}
                      ELSE h[i - 1] \cup {m \in Nodes : \E x \in h[i - 1] : Adjacent(graph, x, m)}
    <3>1. CASE i = k + 1
      <4>1. i # 0 /\ i - 1 = k /\ k \in 0..(k + 1) /\ k # k + 1
        BY <3>1
      <4>2. h[i] = g[k] \cup Around(graph, g[k]) /\ h[i - 1] = g[k]
        BY <3>1, <4>1
      <4>3. QED
        BY <4>1, <4>2 DEF Around
    <3>2. CASE i # k + 1
      <4>1. i \in 0..k /\ h[i] = g[i] /\ (i # 0 => h[i - 1] = g[i - 1])
        BY <3>2
      <4>2. g[i] = IF i = 0 THEN {n}
                   ELSE g[i - 1] \cup {m \in Nodes : \E x \in g[i - 1] : Adjacent(graph, x, m)}
        BY <2>1, <4>1 DEF Balls
      <4>3. QED
        BY <4>1, <4>2
    <3>3. QED
      BY <3>1, <3>2
  <2>3. Balls(h, graph, n, k + 1)
    BY <2>2 DEF Balls
  <2>4. QED
    BY <2>3
<1>3. QED
  BY <1>1, <1>2, SetInduction

LEMMA BallsSteps ==
  ASSUME NEW graph, NEW n, NEW k \in Nat, NEW g, Balls(g, graph, n, k)
  PROVE  /\ g[0] = {n}
         /\ \A i \in Nat : i + 1 <= k => g[i + 1] = g[i] \cup Around(graph, g[i])
<1>1. ASSUME NEW i \in 0..k
      PROVE  g[i] = IF i = 0 THEN {n}
                    ELSE g[i - 1] \cup {m \in Nodes : \E x \in g[i - 1] : Adjacent(graph, x, m)}
  BY DEF Balls
<1>2. g[0] = {n}
  <2>1. 0 \in 0..k
    OBVIOUS
  <2>2. QED
    BY <1>1, <2>1
<1>3. ASSUME NEW i \in Nat, i + 1 <= k
      PROVE  g[i + 1] = g[i] \cup Around(graph, g[i])
  <2>1. i + 1 \in 0..k /\ i + 1 # 0 /\ (i + 1) - 1 = i
    BY <1>3
  <2>2. g[i + 1] = g[(i + 1) - 1]
                     \cup {m \in Nodes : \E x \in g[(i + 1) - 1] : Adjacent(graph, x, m)}
    BY <1>1, <2>1
  <2>3. QED
    BY <2>1, <2>2 DEF Around
<1>4. QED
  BY <1>2, <1>3

LEMMA BallsAgree ==
  ASSUME NEW graph, NEW n, NEW j \in Nat, NEW k \in Nat, NEW g, NEW h,
         Balls(g, graph, n, j), Balls(h, graph, n, k)
  PROVE  \A i \in Nat : i <= j /\ i <= k => g[i] = h[i]
<1> DEFINE T == {i \in Nat : i <= j /\ i <= k => g[i] = h[i]}
<1>1. /\ g[0] = {n}
      /\ \A i \in Nat : i + 1 <= j => g[i + 1] = g[i] \cup Around(graph, g[i])
  BY BallsSteps
<1>2. /\ h[0] = {n}
      /\ \A i \in Nat : i + 1 <= k => h[i + 1] = h[i] \cup Around(graph, h[i])
  BY BallsSteps
<1>3. 0 \in T
  BY <1>1, <1>2
<1>4. ASSUME NEW i \in Nat, i \in T
      PROVE  i + 1 \in T
  <2> SUFFICES ASSUME i + 1 <= j, i + 1 <= k PROVE g[i + 1] = h[i + 1]
    OBVIOUS
  <2>1. g[i] = h[i]
    BY <1>4
  <2>2. g[i + 1] = g[i] \cup Around(graph, g[i]) /\ h[i + 1] = h[i] \cup Around(graph, h[i])
    BY <1>1, <1>2
  <2>3. QED
    BY <2>1, <2>2
<1>5. QED
  BY <1>3, <1>4, SetInduction

LEMMA WithinIsBall ==
  ASSUME NEW graph, NEW n, NEW k \in Nat
  PROVE  \E g : Balls(g, graph, n, k) /\ Within(graph, n, k) = g[k]
<1> DEFINE b == CHOOSE g : Balls(g, graph, n, k)
<1>1. Within(graph, n, k) = b[k]
  BY DEF Within, Balls
<1>2. Balls(b, graph, n, k)
  BY BallsExist
<1>3. QED
  BY <1>1, <1>2

(* What Within computes, step by step.                                     *)
LEMMA WithinSteps ==
  ASSUME NEW graph, NEW n
  PROVE  /\ Within(graph, n, 0) = {n}
         /\ \A k \in Nat : Within(graph, n, k + 1)
                             = Within(graph, n, k) \cup Around(graph, Within(graph, n, k))
<1>1. Within(graph, n, 0) = {n}
  <2>1. PICK g : Balls(g, graph, n, 0) /\ Within(graph, n, 0) = g[0]
    BY WithinIsBall
  <2>2. g[0] = {n}
    BY <2>1, BallsSteps
  <2>3. QED
    BY <2>1, <2>2
<1>2. ASSUME NEW k \in Nat, NEW m \in Nat, m = k + 1
      PROVE  Within(graph, n, m)
               = Within(graph, n, k) \cup Around(graph, Within(graph, n, k))
  <2>1. PICK g : Balls(g, graph, n, k) /\ Within(graph, n, k) = g[k]
    BY WithinIsBall
  <2>2. PICK h : Balls(h, graph, n, m) /\ Within(graph, n, m) = h[m]
    BY WithinIsBall
  <2>3. /\ h[0] = {n}
        /\ \A i \in Nat : i + 1 <= m => h[i + 1] = h[i] \cup Around(graph, h[i])
    BY <2>2, BallsSteps
  <2>4. \A i \in Nat : i <= k /\ i <= m => g[i] = h[i]
    BY <2>1, <2>2, BallsAgree
  <2>5. h[m] = h[k] \cup Around(graph, h[k]) /\ g[k] = h[k]
    BY <1>2, <2>3, <2>4
  <2>6. QED
    BY <2>1, <2>2, <2>5
<1>3. QED
  BY <1>1, <1>2

LEMMA WithinGrows ==
  ASSUME NEW graph, NEW n, NEW j \in Nat
  PROVE  \A k \in Nat : Within(graph, n, j) \subseteq Within(graph, n, j + k)
<1> DEFINE T == {k \in Nat : Within(graph, n, j) \subseteq Within(graph, n, j + k)}
<1>1. 0 \in T
  OBVIOUS
<1>2. ASSUME NEW k \in Nat, k \in T
      PROVE  k + 1 \in T
  <2>1. j + (k + 1) = (j + k) + 1 /\ j + k \in Nat
    OBVIOUS
  <2>2. QED
    BY <1>2, <2>1, WithinSteps
<1>3. QED
  BY <1>1, <1>2, SetInduction

LEMMA WithinNodes ==
  ASSUME NEW graph, NEW n \in Nodes
  PROVE  \A k \in Nat : Within(graph, n, k) \subseteq Nodes
<1> DEFINE T == {k \in Nat : Within(graph, n, k) \subseteq Nodes}
<1>1. 0 \in T
  BY WithinSteps
<1>2. ASSUME NEW k \in Nat, k \in T
      PROVE  k + 1 \in T
  <2>1. Within(graph, n, k + 1)
          = Within(graph, n, k) \cup Around(graph, Within(graph, n, k))
    BY WithinSteps
  <2>2. QED
    BY <1>2, <2>1 DEF Around
<1>3. QED
  BY <1>1, <1>2, SetInduction

(* On the way from a to b there is a node for every way to split the hops. *)
LEMMA MeetingPoint ==
  ASSUME NEW graph, NEW a, NEW b, a \in Nodes, b \in Nodes
  PROVE  \A j \in Nat : \A i \in Nat :
           b \in Within(graph, a, i + j) =>
             Within(graph, a, i) \cap Within(graph, b, j) # {}
<1> DEFINE T == {j \in Nat : \A i \in Nat :
                   b \in Within(graph, a, i + j) =>
                     Within(graph, a, i) \cap Within(graph, b, j) # {}}
<1>1. 0 \in T
  BY WithinSteps
<1>2. ASSUME NEW j \in Nat, j \in T
      PROVE  j + 1 \in T
  <2> SUFFICES ASSUME NEW i \in Nat, b \in Within(graph, a, i + (j + 1))
               PROVE  Within(graph, a, i) \cap Within(graph, b, j + 1) # {}
    OBVIOUS
  <2>1. i + (j + 1) = (i + 1) + j /\ i + 1 \in Nat
    OBVIOUS
  <2>2. PICK x : x \in Within(graph, a, i + 1) /\ x \in Within(graph, b, j)
    BY <1>2, <2>1
  <2>3. /\ Within(graph, a, i + 1)
             = Within(graph, a, i) \cup Around(graph, Within(graph, a, i))
        /\ Within(graph, b, j + 1)
             = Within(graph, b, j) \cup Around(graph, Within(graph, b, j))
    BY WithinSteps
  <2>4. CASE x \in Within(graph, a, i)
    BY <2>2, <2>3, <2>4
  <2>5. CASE x \in Around(graph, Within(graph, a, i))
    <3>1. PICK y \in Within(graph, a, i) : Adjacent(graph, y, x)
      BY <2>5 DEF Around
    <3>2. y \in Nodes
      BY WithinNodes
    <3>3. y \in Around(graph, Within(graph, b, j))
      BY <2>2, <3>1, <3>2 DEF Around, Adjacent
    <3>4. QED
      BY <2>3, <3>1, <3>3
  <2>6. QED
    BY <2>2, <2>3, <2>4, <2>5
<1>3. QED
  BY <1>1, <1>2, SetInduction

-----------------------------------------------------------------------------
(* The inductive invariant                                                 *)

TypeInvariant ==
  /\ edges \in SUBSET EdgePool /\ start \subseteq edges
  /\ ask \in Nodes \X Nodes
  /\ parent \in [Sides -> [Nodes -> Nodes \cup {Root, Unseen}]]
  /\ frontier \in [Sides -> SUBSET Nodes]
  /\ depth \in [Sides -> Nat]
  /\ depth["F"] + depth["B"] <= MaxHops
  /\ examined \in Nat
  /\ next \in Sides
  /\ meeting \in Nodes \cup {Unseen}
  /\ at \in {"searching", "forward", "backward", "done"}
  /\ path \in Seq(Nodes)

EndsSeen == \A s \in Sides : End(s) \in Seen(s) /\ frontier[s] \subseteq Seen(s)

(* As long as the edge budget has not cut off a level, a side has          *)
(* discovered what is within its depth, and every neighbour of what it has *)
(* left behind its frontier, of the graph that the search began with.      *)
Complete(s) ==
  /\ \A n \in Seen(s) \ frontier[s] : Around(start, {n}) \subseteq Seen(s)
  /\ Within(start, End(s), depth[s]) \subseteq Seen(s)

LevelsComplete == examined < MaxEdges => \A s \in Sides : Complete(s)

(* The two trees meet exactly when a meeting node is known; whatever level *)
(* comes last, also one that is cut off, no connection was shorter than    *)
(* the levels expanded so far.                                             *)
MeetingKnown ==
  IF meeting = Unseen THEN Seen("F") \cap Seen("B") = {}
                      ELSE meeting \in Seen("F") \cap Seen("B")

NoneShorter ==
  \A hops \in Nat : hops < depth["F"] + depth["B"] => ask[2] \notin Within(start, ask[1], hops)

LoopIsOver ==
  at # "searching" => ~MaySearch /\ (path = << >> => meeting = Unseen)

SearchInv ==
  TypeInvariant /\ EndsSeen /\ LevelsComplete /\ MeetingKnown /\ NoneShorter /\ LoopIsOver

(* Parents lead back to the end a side began at, over edges that exist and *)
(* in no more hops than the side has expanded levels: a level l[n] for     *)
(* each node n tells how many.                                             *)
Tree(s, l) ==
  \A n \in Seen(s) :
    /\ l[n] <= depth[s]
    /\ parent[s][n] = Root => n = End(s)
    /\ parent[s][n] # Root =>
         /\ parent[s][n] \in Seen(s)
         /\ Adjacent(edges, parent[s][n], n)
         /\ l[parent[s][n]] < l[n]

Joined(p) == \A i \in 1..(Len(p) - 1) : Adjacent(edges, p[i], p[i + 1])

Walked(f, b) ==
  /\ at # "searching" /\ path # << >> => Joined(path)
  /\ at = "forward" =>
       /\ path # << >>
       /\ path[1] \in Seen("F") /\ path[Len(path)] = meeting
       /\ Len(path) - 1 + f[path[1]] <= depth["F"]
  /\ at \in {"backward", "done"} /\ path # << >> => path[1] = ask[1]
  /\ at = "backward" =>
       /\ path # << >>
       /\ path[Len(path)] \in Seen("B")
       /\ Len(path) - 1 + b[path[Len(path)]] <= depth["F"] + depth["B"]
  /\ at = "done" /\ path # << >> =>
       path[Len(path)] = ask[2] /\ Len(path) - 1 <= depth["F"] + depth["B"]

PathInv ==
  \E f, b \in [Nodes -> Nat] : Tree("F", f) /\ Tree("B", b) /\ Walked(f, b)

-----------------------------------------------------------------------------
(* One level                                                               *)

(* A row of the query joins its anchor in the frontier with its neighbor.  *)
LEMMA RowEnds ==
  ASSUME TypeInvariant, NEW nodes \in SUBSET Nodes, NEW e \in Touching(nodes)
  PROVE  /\ e \in edges /\ Anchor(e, nodes) \in nodes /\ Neighbor(e, nodes) \in Nodes
         /\ Adjacent(edges, Anchor(e, nodes), Neighbor(e, nodes))
<1>1. e \in edges /\ e \in Nodes \X Nodes /\ (e[1] \in nodes \/ e[2] \in nodes)
  BY GraphAssumption DEF TypeInvariant, Touching
<1>2. e = <<e[1], e[2]>> /\ e[1] \in Nodes /\ e[2] \in Nodes
  BY <1>1
<1>3. QED
  BY <1>1, <1>2 DEF Anchor, Neighbor, Adjacent

(* All the rows together lead to every neighbour of the frontier.          *)
LEMMA RowsReachAll ==
  ASSUME TypeInvariant, NEW nodes \in SUBSET Nodes
  PROVE  Around(start, nodes)
           \subseteq nodes \cup {Neighbor(e, nodes) : e \in Touching(nodes)}
<1> SUFFICES ASSUME NEW m \in Nodes, NEW x \in nodes, Adjacent(start, x, m), m \notin nodes
             PROVE  \E e \in Touching(nodes) : m = Neighbor(e, nodes)
  BY DEF Around
<1>1. CASE <<x, m>> \in start
  <2>1. <<x, m>> \in Touching(nodes)
    BY <1>1 DEF TypeInvariant, Touching
  <2>2. Neighbor(<<x, m>>, nodes) = m
    BY DEF Neighbor, Anchor
  <2>3. QED
    BY <2>1, <2>2
<1>2. CASE <<m, x>> \in start
  <2>1. <<m, x>> \in Touching(nodes)
    BY <1>2 DEF TypeInvariant, Touching
  <2>2. Neighbor(<<m, x>>, nodes) = m
    BY DEF Neighbor, Anchor
  <2>3. QED
    BY <2>1, <2>2
<1>3. QED
  BY <1>1, <1>2 DEF Adjacent

(* What expanding a level does.                                            *)
Expanded(s, new, from) ==
  /\ new \in SUBSET Nodes /\ new \cap Seen(s) = {}
  /\ from \in [new -> Nodes]
  /\ \A n \in new : from[n] \in frontier[s] /\ Adjacent(edges, from[n], n)
  /\ parent' = [parent EXCEPT ![s] = [n \in Nodes |-> IF n \in new THEN from[n] ELSE parent[s][n]]]
  /\ Seen(s)' = Seen(s) \cup new
  /\ Seen(Other(s))' = Seen(Other(s))
  /\ frontier' = [frontier EXCEPT ![s] = new]
  /\ examined' \in Nat /\ examined <= examined'
  /\ examined' < MaxEdges => Around(start, frontier[s]) \subseteq Seen(s) \cup new
  /\ meeting' \in IF new \cap Seen(Other(s)) = {} THEN {Unseen} ELSE new \cap Seen(Other(s))
  /\ depth' = [depth EXCEPT ![s] = @ + 1]

LEMMA LevelExpanded ==
  ASSUME TypeInvariant, EndsSeen, NEW s \in Sides, ExpandLevel(s)
  PROVE  \E new, from : Expanded(s, new, from)
<1>1. PICK rows \in RowsOfQuery(frontier[s], MaxEdges - examined) :
        \E from \in [Discovered(s, rows) -> Nodes] :
          /\ \A n \in Discovered(s, rows) : from[n] \in Anchors(s, rows, n)
          /\ parent' = [parent EXCEPT ![s] =
               [n \in Nodes |-> IF n \in Discovered(s, rows) THEN from[n] ELSE @[n]]]
          /\ frontier' = [frontier EXCEPT ![s] = Discovered(s, rows)]
          /\ examined' = examined + Cardinality(rows)
          /\ meeting' \in IF Discovered(s, rows) \cap Seen(Other(s)) = {} THEN {Unseen}
                          ELSE Discovered(s, rows) \cap Seen(Other(s))
  BY DEF ExpandLevel
<1> DEFINE new == Discovered(s, rows)
<1>2. PICK from \in [new -> Nodes] :
          /\ \A n \in new : from[n] \in Anchors(s, rows, n)
          /\ parent' = [parent EXCEPT ![s] =
               [n \in Nodes |-> IF n \in new THEN from[n] ELSE parent[s][n]]]
          /\ frontier' = [frontier EXCEPT ![s] = new]
          /\ examined' = examined + Cardinality(rows)
          /\ meeting' \in IF new \cap Seen(Other(s)) = {} THEN {Unseen}
                          ELSE new \cap Seen(Other(s))
  BY <1>1
<1>3. /\ frontier[s] \in SUBSET Nodes /\ examined \in Nat
      /\ parent \in [Sides -> [Nodes -> Nodes \cup {Root, Unseen}]]
      /\ rows \subseteq Touching(frontier[s])
  BY DEF TypeInvariant, RowsOfQuery
<1>4. new \in SUBSET Nodes /\ new \cap Seen(s) = {}
  BY <1>3, RowEnds DEF Discovered
<1>5. \A n \in new : from[n] \in frontier[s] /\ Adjacent(edges, from[n], n)
  BY <1>2, <1>3, RowEnds DEF Anchors
<1>6. Cardinality(rows) \in Nat /\ (rows # Touching(frontier[s]) => ~(examined' < MaxEdges))
  <2>1. IsFiniteSet(rows)
    BY <1>3, GraphAssumption, FS_Subset DEF TypeInvariant, Touching
  <2>2. Cardinality(rows) \in Nat
    BY <2>1, FS_CardinalityType
  <2>3. rows # Touching(frontier[s]) => Cardinality(rows) = MaxEdges - examined
    BY DEF RowsOfQuery
  <2>4. QED
    BY <1>2, <1>3, <2>2, <2>3, GraphAssumption
<1>7. examined' < MaxEdges => Around(start, frontier[s]) \subseteq Seen(s) \cup new
  <2> SUFFICES ASSUME examined' < MaxEdges
               PROVE  Around(start, frontier[s]) \subseteq Seen(s) \cup new
    OBVIOUS
  <2>1. rows = Touching(frontier[s])
    BY <1>6
  <2>2. Around(start, frontier[s])
          \subseteq frontier[s] \cup {Neighbor(e, frontier[s]) : e \in rows}
    BY <1>3, <2>1, RowsReachAll
  <2>3. frontier[s] \subseteq Seen(s)
    BY DEF EndsSeen
  <2>4. QED
    BY <2>2, <2>3 DEF Discovered
<1>8. Seen(s)' = Seen(s) \cup new /\ Seen(Other(s))' = Seen(Other(s))
  <2>1. \A n \in new : from[n] # Unseen
    BY <1>2, GraphAssumption
  <2>2. /\ \A n \in Nodes : parent'[s][n] = IF n \in new THEN from[n] ELSE parent[s][n]
        /\ parent'[Other(s)] = parent[Other(s)]
    BY <1>2, <1>3 DEF Sides, Other
  <2>3. QED
    BY <1>4, <2>1, <2>2 DEF Seen
<1>9. depth' = [depth EXCEPT ![s] = @ + 1]
  BY DEF ExpandLevel
<1>10. examined' \in Nat /\ examined <= examined'
  BY <1>2, <1>3, <1>6
<1>11. Expanded(s, new, from)
  BY <1>2, <1>4, <1>5, <1>7, <1>8, <1>9, <1>10 DEF Expanded
<1>12. QED
  BY <1>11

LEMMA ExpandTyped ==
  ASSUME TypeInvariant, EndsSeen, NEW s \in Sides, ExpandLevel(s)
  PROVE  TypeInvariant' /\ EndsSeen'
<1>1. PICK new, from : Expanded(s, new, from)
  BY LevelExpanded
<1>2. UNCHANGED <<edges, start, ask, at, path>> /\ next' = Other(s) /\ MaySearch
  BY DEF ExpandLevel
<1>3. TypeInvariant'
  <2>1. parent' \in [Sides -> [Nodes -> Nodes \cup {Root, Unseen}]]
    BY <1>1 DEF Expanded, TypeInvariant
  <2>2. depth' \in [Sides -> Nat] /\ depth'["F"] + depth'["B"] <= MaxHops
    BY <1>1, <1>2, GraphAssumption DEF Expanded, TypeInvariant, MaySearch, Sides
  <2>3. /\ frontier' \in [Sides -> SUBSET Nodes] /\ examined' \in Nat
        /\ meeting' \in Nodes \cup {Unseen}
    BY <1>1 DEF Expanded, TypeInvariant
  <2>4. next' \in Sides
    BY <1>2 DEF Sides, Other
  <2>5. QED
    BY <1>2, <2>1, <2>2, <2>3, <2>4 DEF TypeInvariant
<1>4. ASSUME NEW r \in Sides
      PROVE  End(r)' \in Seen(r)' /\ frontier'[r] \subseteq Seen(r)'
  <2>1. End(r)' = End(r)
    BY <1>2 DEF End
  <2>2. End(r) \in Seen(r) /\ frontier[r] \subseteq Seen(r)
    BY DEF EndsSeen
  <2>3. CASE r = s
    BY <1>1, <2>1, <2>2, <2>3 DEF Expanded, TypeInvariant
  <2>4. CASE r # s
    <3>1. r = Other(s)
      BY <2>4 DEF Sides, Other
    <3>2. frontier'[r] = frontier[r]
      BY <1>1, <2>4 DEF Expanded, TypeInvariant
    <3>3. QED
      BY <1>1, <2>1, <2>2, <3>1, <3>2 DEF Expanded
  <2>5. QED
    BY <2>3, <2>4
<1>5. QED
  BY <1>3, <1>4 DEF EndsSeen

(* A level that the budget does not cut off is complete.                   *)
LEMMA ExpandComplete ==
  ASSUME SearchInv, NEW s \in Sides, ExpandLevel(s)
  PROVE  LevelsComplete'
<1>1. TypeInvariant /\ EndsSeen /\ LevelsComplete
  BY DEF SearchInv
<1>2. PICK new, from : Expanded(s, new, from)
  BY <1>1, LevelExpanded
<1>3. UNCHANGED <<start, ask>> /\ examined < MaxEdges
  BY DEF ExpandLevel, MaySearch
<1> SUFFICES ASSUME examined' < MaxEdges, NEW r \in Sides PROVE Complete(r)'
  BY DEF LevelsComplete
<1>4. Complete(r)
  BY <1>1, <1>3 DEF LevelsComplete
<1>5. End(r)' = End(r) /\ start' = start
  BY <1>3 DEF End
<1>6. CASE r # s
  <2>1. r = Other(s)
    BY <1>6 DEF Sides, Other
  <2>2. frontier'[r] = frontier[r] /\ depth'[r] = depth[r]
    BY <1>1, <1>2, <1>6 DEF Expanded, TypeInvariant
  <2>3. Seen(r)' = Seen(r)
    BY <1>2, <2>1 DEF Expanded
  <2>4. QED
    BY <1>4, <1>5, <2>2, <2>3 DEF Complete
<1>7. CASE r = s
  <2>1. /\ frontier'[s] = new /\ depth'[s] = depth[s] + 1
        /\ Seen(s)' = Seen(s) \cup new /\ new \cap Seen(s) = {}
        /\ Around(start, frontier[s]) \subseteq Seen(s) \cup new
    BY <1>1, <1>2 DEF Expanded, TypeInvariant
  <2>2. \A n \in Seen(s) : Around(start, {n}) \subseteq Seen(s) \cup new
    <3> SUFFICES ASSUME NEW n \in Seen(s) PROVE Around(start, {n}) \subseteq Seen(s) \cup new
      OBVIOUS
    <3>1. CASE n \in frontier[s]
      <4>1. Around(start, {n}) \subseteq Around(start, frontier[s])
        BY <3>1 DEF Around
      <4>2. QED
        BY <2>1, <4>1
    <3>2. CASE n \notin frontier[s]
      BY <1>4, <1>7, <3>2 DEF Complete
    <3>3. QED
      BY <3>1, <3>2
  <2>3. Within(start, End(s), depth[s] + 1) \subseteq Seen(s) \cup new
    <3>1. Within(start, End(s), depth[s]) \subseteq Seen(s)
      BY <1>4, <1>7 DEF Complete
    <3>2. Around(start, Within(start, End(s), depth[s])) \subseteq Seen(s) \cup new
      BY <2>2, <3>1 DEF Around
    <3>3. depth[s] \in Nat
      BY <1>1 DEF TypeInvariant
    <3>4. Within(start, End(s), depth[s] + 1)
            = Within(start, End(s), depth[s]) \cup Around(start, Within(start, End(s), depth[s]))
      BY <3>3, WithinSteps
    <3>5. QED
      BY <3>1, <3>2, <3>4
  <2>4. QED
    BY <1>5, <1>7, <2>1, <2>2, <2>3 DEF Complete
<1>8. QED
  BY <1>6, <1>7

LEMMA ExpandMeeting ==
  ASSUME SearchInv, NEW s \in Sides, ExpandLevel(s)
  PROVE  MeetingKnown'
<1>1. TypeInvariant /\ EndsSeen /\ MeetingKnown /\ meeting = Unseen
  BY DEF SearchInv, ExpandLevel, MaySearch
<1>2. PICK new, from : Expanded(s, new, from)
  BY <1>1, LevelExpanded
<1>3. /\ Seen(s) \cap Seen(Other(s)) = {}
      /\ MeetingKnown' <=> IF meeting' = Unseen THEN Seen(s)' \cap Seen(Other(s))' = {}
                           ELSE meeting' \in Seen(s)' \cap Seen(Other(s))'
  BY <1>1 DEF MeetingKnown, Sides, Other
<1>4. Unseen \notin new
  BY <1>2, GraphAssumption DEF Expanded
<1>5. QED
  BY <1>2, <1>3, <1>4 DEF Expanded

(* Before a level is expanded the two balls are apart, so that no          *)
(* connection has as many hops as there were levels.                       *)
LEMMA ExpandNoneShorter ==
  ASSUME SearchInv, NEW s \in Sides, ExpandLevel(s)
  PROVE  NoneShorter'
<1>1. /\ TypeInvariant /\ EndsSeen /\ LevelsComplete /\ MeetingKnown /\ NoneShorter
      /\ meeting = Unseen /\ examined < MaxEdges /\ UNCHANGED <<start, ask>>
      /\ depth \in [Sides -> Nat]
  BY DEF SearchInv, ExpandLevel, MaySearch, TypeInvariant
<1>2. PICK new, from : Expanded(s, new, from)
  BY <1>1, LevelExpanded
<1>3. "F" \in Sides /\ "B" \in Sides /\ End("F") = ask[1] /\ End("B") = ask[2]
  BY DEF Sides, End
<1>4. Within(start, ask[1], depth["F"]) \cap Within(start, ask[2], depth["B"]) = {}
  BY <1>1, <1>3 DEF LevelsComplete, Complete, MeetingKnown
<1>5. depth["F"] \in Nat /\ depth["B"] \in Nat /\ ask[1] \in Nodes /\ ask[2] \in Nodes
  BY <1>1, <1>3 DEF TypeInvariant
<1>6. ask[2] \notin Within(start, ask[1], depth["F"] + depth["B"])
  BY <1>4, <1>5, MeetingPoint
<1>7. depth'["F"] + depth'["B"] = depth["F"] + depth["B"] + 1
  BY <1>1, <1>2, <1>3, <1>5 DEF Expanded, Sides
<1> SUFFICES ASSUME NEW hops \in Nat, hops < depth'["F"] + depth'["B"]
             PROVE  ask[2] \notin Within(start, ask[1], hops)
  BY <1>1 DEF NoneShorter
<1>8. hops < depth["F"] + depth["B"] \/ hops = depth["F"] + depth["B"]
  BY <1>5, <1>7
<1>9. QED
  BY <1>1, <1>6, <1>8 DEF NoneShorter

LEMMA SearchInvInit == Init => SearchInv
<1> SUFFICES ASSUME Init PROVE SearchInv
  OBVIOUS
<1>1. ask \in Nodes \X Nodes /\ ask[1] \in Nodes /\ ask[2] \in Nodes
  BY GraphAssumption DEF Init
<1>2. \A s \in Sides : End(s) \in Nodes
  BY <1>1 DEF Sides, End
<1>3. \A s \in Sides : Seen(s) = {End(s)} /\ frontier[s] = {End(s)} /\ depth[s] = 0
  BY <1>2, GraphAssumption DEF Init, Seen
<1>4. "F" \in Sides /\ "B" \in Sides /\ End("F") = ask[1] /\ End("B") = ask[2]
  BY DEF Sides, End
<1>5. TypeInvariant
  <2>1. parent \in [Sides -> [Nodes -> Nodes \cup {Root, Unseen}]]
    BY DEF Init
  <2>2. frontier \in [Sides -> SUBSET Nodes] /\ depth \in [Sides -> Nat]
    BY <1>2 DEF Init
  <2>3. depth["F"] + depth["B"] <= MaxHops
    BY <1>3, <1>4, GraphAssumption
  <2>4. path \in Seq(Nodes)
    BY DEF Init
  <2>5. QED
    BY <1>1, <1>4, <2>1, <2>2, <2>3, <2>4 DEF Init, TypeInvariant
<1>6. EndsSeen
  BY <1>3 DEF EndsSeen
<1>7. LevelsComplete
  BY <1>3, WithinSteps DEF LevelsComplete, Complete
<1>8. MeetingKnown
  BY <1>1, <1>3, <1>4, GraphAssumption DEF Init, MeetingKnown
<1>9. NoneShorter
  BY <1>3, <1>4 DEF NoneShorter
<1>10. LoopIsOver
  BY DEF Init, LoopIsOver
<1>11. QED
  BY <1>5, <1>6, <1>7, <1>8, <1>9, <1>10 DEF SearchInv

(* The steps that leave the two trees alone.                               *)
LEMMA TreesRest ==
  ASSUME SearchInv, UNCHANGED <<start, ask, searchVars>>
  PROVE  EndsSeen' /\ LevelsComplete' /\ MeetingKnown' /\ NoneShorter' /\ MaySearch' = MaySearch
BY DEF SearchInv, EndsSeen, LevelsComplete, Complete, MeetingKnown, NoneShorter, MaySearch,
       Seen, End, searchVars

-----------------------------------------------------------------------------
(* The path                                                                *)

LEMMA Prepend ==
  ASSUME NEW p \in Seq(Nodes), p # << >>, NEW n \in Nodes
  PROVE  /\ <<n>> \o p \in Seq(Nodes) /\ <<n>> \o p # << >>
         /\ Len(<<n>> \o p) = Len(p) + 1
         /\ (<<n>> \o p)[1] = n
         /\ (<<n>> \o p)[Len(p) + 1] = p[Len(p)]
         /\ Joined(p) /\ Adjacent(edges, n, p[1]) => Joined(<<n>> \o p)
<1>1. <<n>> \in Seq(Nodes) /\ Len(<<n>>) = 1 /\ <<n>>[1] = n
  OBVIOUS
<1>2. Len(p) \in Nat /\ Len(p) # 0
  BY EmptySeq
<1>3. /\ <<n>> \o p \in Seq(Nodes)
      /\ Len(<<n>> \o p) = 1 + Len(p)
      /\ \A i \in 1..(1 + Len(p)) : (<<n>> \o p)[i] = IF i <= 1 THEN <<n>>[i] ELSE p[i - 1]
  BY <1>1, ConcatProperties
<1>4. (<<n>> \o p)[1] = n /\ (<<n>> \o p)[Len(p) + 1] = p[Len(p)]
  BY <1>1, <1>2, <1>3
<1>5. <<n>> \o p # << >>
  BY <1>2, <1>3, EmptySeq
<1>6. ASSUME Joined(p), Adjacent(edges, n, p[1]), NEW i \in 1..(Len(p) + 1 - 1)
      PROVE  Adjacent(edges, (<<n>> \o p)[i], (<<n>> \o p)[i + 1])
  <2>1. CASE i = 1
    BY <1>2, <1>3, <1>4, <1>6, <2>1
  <2>2. CASE i # 1
    <3>1. i - 1 \in 1..(Len(p) - 1) /\ (i - 1) + 1 = i /\ (i + 1) - 1 = i
      BY <1>2, <2>2
    <3>2. (<<n>> \o p)[i] = p[i - 1] /\ (<<n>> \o p)[i + 1] = p[i]
      BY <1>2, <1>3, <2>2, <3>1
    <3>3. Adjacent(edges, p[i - 1], p[(i - 1) + 1])
      BY <1>6, <3>1 DEF Joined
    <3>4. QED
      BY <3>1, <3>2, <3>3
  <2>3. QED
    BY <2>1, <2>2
<1>7. Joined(p) /\ Adjacent(edges, n, p[1]) => Joined(<<n>> \o p)
  BY <1>2, <1>3, <1>6 DEF Joined
<1>8. QED
  BY <1>2, <1>3, <1>4, <1>5, <1>7

LEMMA Extend ==
  ASSUME NEW p \in Seq(Nodes), p # << >>, NEW n \in Nodes
  PROVE  /\ Append(p, n) \in Seq(Nodes) /\ Append(p, n) # << >>
         /\ Len(Append(p, n)) = Len(p) + 1
         /\ Append(p, n)[1] = p[1]
         /\ Append(p, n)[Len(p) + 1] = n
         /\ Joined(p) /\ Adjacent(edges, p[Len(p)], n) => Joined(Append(p, n))
<1>1. Len(p) \in Nat /\ Len(p) # 0
  BY EmptySeq
<1>2. /\ Append(p, n) \in Seq(Nodes)
      /\ Len(Append(p, n)) = Len(p) + 1
      /\ \A i \in 1..Len(p) : Append(p, n)[i] = p[i]
      /\ Append(p, n)[Len(p) + 1] = n
      /\ Append(p, n) # << >>
  BY AppendProperties
<1>3. Append(p, n)[1] = p[1]
  BY <1>1, <1>2
<1>4. ASSUME Joined(p), Adjacent(edges, p[Len(p)], n), NEW i \in 1..(Len(p) + 1 - 1)
      PROVE  Adjacent(edges, Append(p, n)[i], Append(p, n)[i + 1])
  <2>1. CASE i = Len(p)
    BY <1>1, <1>2, <1>4, <2>1
  <2>2. CASE i # Len(p)
    BY <1>1, <1>2, <1>4, <2>2 DEF Joined
  <2>3. QED
    BY <2>1, <2>2
<1>5. Joined(p) /\ Adjacent(edges, p[Len(p)], n) => Joined(Append(p, n))
  BY <1>1, <1>2, <1>4 DEF Joined
<1>6. QED
  BY <1>2, <1>3, <1>5

(* The tree of a side that expands a level: what it discovers is one level *)
(* further out than the frontier.                                          *)
LEMMA ExpandTree ==
  ASSUME SearchInv, NEW s \in Sides, ExpandLevel(s),
         NEW l \in [Nodes -> Nat], Tree(s, l)
  PROVE  \E m \in [Nodes -> Nat] : Tree(s, m)'
<1>1. TypeInvariant /\ EndsSeen /\ depth[s] \in Nat /\ UNCHANGED <<edges, ask>>
  BY DEF SearchInv, TypeInvariant, ExpandLevel
<1>2. PICK new, from : Expanded(s, new, from)
  BY <1>1, LevelExpanded
<1>3. PICK m \in [Nodes -> Nat] :
        \A n \in Nodes : m[n] = IF n \in new THEN depth[s] + 1 ELSE l[n]
  <2>1. [n \in Nodes |-> IF n \in new THEN depth[s] + 1 ELSE l[n]] \in [Nodes -> Nat]
    BY <1>1
  <2>2. QED
    BY <2>1
<1>4. /\ \A n \in Nodes : parent'[s][n] = IF n \in new THEN from[n] ELSE parent[s][n]
      /\ depth'[s] = depth[s] + 1
      /\ frontier[s] \subseteq Seen(s) /\ Seen(s) \subseteq Nodes
      /\ Seen(s)' = Seen(s) \cup new /\ new \cap Seen(s) = {} /\ new \subseteq Nodes
      /\ End(s)' = End(s)
  BY <1>1, <1>2 DEF Expanded, TypeInvariant, EndsSeen, Seen, End
<1>5. ASSUME NEW n \in Seen(s)'
      PROVE  /\ m[n] <= depth'[s]
             /\ parent'[s][n] = Root => n = End(s)'
             /\ parent'[s][n] # Root =>
                  /\ parent'[s][n] \in Seen(s)'
                  /\ Adjacent(edges', parent'[s][n], n)
                  /\ m[parent'[s][n]] < m[n]
  <2>1. CASE n \in new
    <3>1. /\ parent'[s][n] = from[n] /\ from[n] \in frontier[s]
          /\ Adjacent(edges, from[n], n) /\ from[n] \in Nodes
      BY <1>2, <1>4, <2>1 DEF Expanded
    <3>2. from[n] \in Seen(s) /\ from[n] \notin new /\ from[n] # Root
      BY <1>4, <3>1, GraphAssumption
    <3>3. m[from[n]] = l[from[n]] /\ m[n] = depth[s] + 1 /\ l[from[n]] <= depth[s]
          /\ l[from[n]] \in Nat
      BY <1>3, <1>4, <2>1, <3>2 DEF Tree
    <3>4. QED
      BY <1>1, <1>4, <3>1, <3>2, <3>3
  <2>2. CASE n \notin new
    <3>1. n \in Seen(s) /\ parent'[s][n] = parent[s][n] /\ m[n] = l[n] /\ l[n] \in Nat
      BY <1>3, <1>4, <2>2
    <3>2. /\ l[n] <= depth[s]
          /\ parent[s][n] = Root => n = End(s)
          /\ parent[s][n] # Root =>
               /\ parent[s][n] \in Seen(s)
               /\ Adjacent(edges, parent[s][n], n)
               /\ l[parent[s][n]] < l[n]
      BY <3>1 DEF Tree
    <3>3. parent[s][n] # Root => m[parent[s][n]] = l[parent[s][n]]
      BY <1>3, <1>4, <3>2
    <3>4. QED
      BY <1>1, <1>4, <3>1, <3>2, <3>3
  <2>3. QED
    BY <2>1, <2>2
<1>6. Tree(s, m)'
  BY <1>5 DEF Tree
<1>7. QED
  BY <1>6

(* Trees stay trees while edges are only added.                            *)
LEMMA TreeRests ==
  ASSUME NEW s, NEW l, Tree(s, l), edges \subseteq edges',
         Seen(s)' = Seen(s), parent'[s] = parent[s], depth'[s] = depth[s], UNCHANGED ask
  PROVE  Tree(s, l)'
BY DEF Tree, Adjacent, End

LEMMA ExpandPath ==
  ASSUME SearchInv, PathInv, NEW s \in Sides, ExpandLevel(s)
  PROVE  PathInv'
<1>1. PICK f \in [Nodes -> Nat], b \in [Nodes -> Nat] :
        Tree("F", f) /\ Tree("B", b) /\ Walked(f, b)
  BY DEF PathInv
<1>2. TypeInvariant /\ EndsSeen /\ at' = "searching" /\ UNCHANGED <<edges, ask>>
  BY DEF SearchInv, ExpandLevel
<1>3. PICK new, from : Expanded(s, new, from)
  BY <1>2, LevelExpanded
<1>4. \A g, h : Walked(g, h)'
  BY <1>2 DEF Walked
<1>5. /\ Seen(Other(s))' = Seen(Other(s))
      /\ parent'[Other(s)] = parent[Other(s)] /\ depth'[Other(s)] = depth[Other(s)]
  BY <1>2, <1>3 DEF Expanded, TypeInvariant, Sides, Other
<1>6. CASE s = "F"
  <2>1. \E m \in [Nodes -> Nat] : Tree("F", m)'
    BY <1>1, <1>6, ExpandTree
  <2>2. Tree("B", b)'
    BY <1>1, <1>2, <1>5, <1>6, TreeRests DEF Other
  <2>3. QED
    BY <1>1, <1>4, <2>1, <2>2 DEF PathInv
<1>7. CASE s = "B"
  <2>1. \E m \in [Nodes -> Nat] : Tree("B", m)'
    BY <1>1, <1>7, ExpandTree
  <2>2. Tree("F", f)'
    BY <1>1, <1>2, <1>5, <1>7, TreeRests DEF Other
  <2>3. QED
    BY <1>1, <1>4, <2>1, <2>2 DEF PathInv
<1>8. QED
  BY <1>6, <1>7 DEF Sides

LEMMA LoopEndsInv ==
  ASSUME SearchInv, PathInv, LoopEnds
  PROVE  SearchInv' /\ PathInv'
<1>1. /\ TypeInvariant /\ MeetingKnown /\ UNCHANGED <<edges, start, ask, searchVars>>
      /\ ~MaySearch
      /\ meeting = Unseen => at' = "done" /\ path' = << >>
      /\ meeting # Unseen => at' = "forward" /\ path' = <<meeting>>
  BY DEF SearchInv, LoopEnds
<1>2. path' \in Seq(Nodes) /\ at' \in {"forward", "done"}
  <2>1. CASE meeting = Unseen
    BY <1>1, <2>1
  <2>2. CASE meeting # Unseen
    <3>1. <<meeting>> \in Seq(Nodes)
      BY <2>2 DEF SearchInv, TypeInvariant
    <3>2. QED
      BY <1>1, <2>2, <3>1
  <2>3. QED
    BY <2>1, <2>2
<1>3. SearchInv'
  <2>1. TypeInvariant'
    BY <1>1, <1>2 DEF TypeInvariant, searchVars
  <2>2. LoopIsOver'
    BY <1>1, TreesRest DEF LoopIsOver, searchVars
  <2>3. QED
    BY <1>1, <2>1, <2>2, TreesRest DEF SearchInv
<1>4. PICK f \in [Nodes -> Nat], b \in [Nodes -> Nat] :
        Tree("F", f) /\ Tree("B", b) /\ Walked(f, b)
  BY DEF PathInv
<1>5. Tree("F", f)' /\ Tree("B", b)'
  BY <1>1, <1>4, TreeRests DEF searchVars, Seen
<1>6. Walked(f, b)'
  <2>1. CASE meeting = Unseen
    BY <1>1, <2>1 DEF Walked
  <2>2. CASE meeting # Unseen
    <3>1. meeting \in Seen("F") /\ meeting \in Nodes /\ f[meeting] \in Nat /\ f[meeting] <= depth["F"]
      BY <1>1, <1>4, <2>2 DEF MeetingKnown, Tree, TypeInvariant
    <3>2. <<meeting>> # << >> /\ Len(<<meeting>>) = 1 /\ <<meeting>>[1] = meeting
      OBVIOUS
    <3>3. /\ path' # << >> /\ Len(path') = 1 /\ path'[1] = meeting /\ at' = "forward"
      BY <1>1, <2>2, <3>2
    <3>4. UNCHANGED <<depth, meeting>> /\ Seen("F")' = Seen("F")
      BY <1>1 DEF searchVars, Seen
    <3>5. QED
      BY <3>1, <3>3, <3>4 DEF Walked, Joined
  <2>3. QED
    BY <2>1, <2>2
<1>7. QED
  BY <1>3, <1>4, <1>5, <1>6 DEF PathInv

(* The two walks.                                                          *)
LEMMA WalkForwardInv ==
  ASSUME SearchInv, PathInv, WalkForward
  PROVE  SearchInv' /\ PathInv'
<1>1. /\ TypeInvariant /\ LoopIsOver /\ MeetingKnown /\ path \in Seq(Nodes)
      /\ UNCHANGED <<edges, start, ask, searchVars>> /\ at = "forward"
  BY DEF SearchInv, WalkForward, TypeInvariant
<1>2. PICK f \in [Nodes -> Nat], b \in [Nodes -> Nat] :
        Tree("F", f) /\ Tree("B", b) /\ Walked(f, b)
  BY DEF PathInv
<1>3. /\ path # << >> /\ path[1] \in Seen("F") /\ path[Len(path)] = meeting /\ Joined(path)
      /\ Len(path) - 1 + f[path[1]] <= depth["F"]
  BY <1>1, <1>2 DEF Walked
<1> DEFINE p == parent["F"][path[1]]
<1>4. Head(path) = path[1]
  BY <1>1, <1>3
<1>5. /\ p = Root => at' = "backward" /\ path' = path
      /\ p # Root => at' = "forward" /\ path' = <<p>> \o path
  BY <1>1, <1>4 DEF WalkForward
<1>6. /\ path[1] \in Nodes /\ f[path[1]] \in Nat /\ Len(path) \in Nat /\ Len(path) # 0
      /\ "F" \in Sides /\ "B" \in Sides /\ depth["F"] \in Nat /\ depth["B"] \in Nat
  BY <1>1, <1>3, EmptySeq DEF Seen, Sides, TypeInvariant
<1>7. /\ p = Root => path[1] = ask[1]
      /\ p # Root => p \in Seen("F") /\ p \in Nodes /\ Adjacent(edges, p, path[1])
                     /\ f[p] \in Nat /\ f[p] < f[path[1]]
  BY <1>2, <1>3 DEF Tree, End, Seen
<1>8. ASSUME p # Root
      PROVE  /\ <<p>> \o path \in Seq(Nodes) /\ <<p>> \o path # << >>
             /\ Len(<<p>> \o path) = Len(path) + 1 /\ (<<p>> \o path)[1] = p
             /\ (<<p>> \o path)[Len(path) + 1] = meeting
             /\ Joined(<<p>> \o path)
  <2>1. p \in Nodes /\ Adjacent(edges, p, path[1])
    BY <1>7, <1>8
  <2> HIDE DEF p
  <2>2. QED
    BY <1>1, <1>3, <2>1, Prepend
<1>9. path' \in Seq(Nodes) /\ path' # << >> /\ at' \in {"forward", "backward"}
  <2> HIDE DEF p
  <2>1. QED
    BY <1>1, <1>3, <1>5, <1>8
<1>10. SearchInv'
  <2>1. TypeInvariant'
    BY <1>1, <1>9 DEF TypeInvariant, searchVars
  <2>2. LoopIsOver'
    BY <1>1, <1>9, TreesRest DEF LoopIsOver, searchVars
  <2>3. QED
    BY <1>1, <2>1, <2>2, TreesRest DEF SearchInv
<1>11. Tree("F", f)' /\ Tree("B", b)'
  BY <1>1, <1>2, TreeRests DEF searchVars, Seen
<1>12. UNCHANGED <<edges, ask, depth, meeting>> /\ Seen("F")' = Seen("F") /\ Seen("B")' = Seen("B")
  BY <1>1 DEF searchVars, Seen
<1>13. Walked(f, b)'
  <2>1. CASE p = Root
    <3>1. meeting \in Seen("B") /\ meeting \in Nodes /\ b[meeting] \in Nat /\ b[meeting] <= depth["B"]
      <4>1. meeting \in Nodes /\ meeting # Unseen
        BY <1>1, <1>3, <1>6, GraphAssumption
      <4>2. QED
        BY <1>1, <1>2, <4>1 DEF MeetingKnown, Tree
    <3>2. path' = path /\ at' = "backward" /\ path[1] = ask[1]
      BY <1>5, <1>7, <2>1
    <3>3. Joined(path)'
      BY <1>3, <1>12, <3>2 DEF Joined
    <3>4. Len(path) - 1 + b[path[Len(path)]] <= depth["F"] + depth["B"]
      BY <1>3, <1>6, <3>1
    <3>5. QED
      BY <1>3, <1>12, <3>1, <3>2, <3>3, <3>4 DEF Walked
  <2>2. CASE p # Root
    <3>1. /\ at' = "forward" /\ path' # << >> /\ path'[1] = p
          /\ Len(path') = Len(path) + 1 /\ path'[Len(path')] = meeting
      <4> HIDE DEF p
      <4>1. QED
        BY <1>5, <1>8, <2>2
    <3>2. Joined(path')
      <4> HIDE DEF p
      <4>1. QED
        BY <1>5, <1>8, <2>2
    <3>3. Joined(path)'
      BY <1>12, <3>2 DEF Joined
    <3>4. Len(path') - 1 + f[path'[1]] <= depth["F"]
      BY <1>3, <1>6, <1>7, <2>2, <3>1
    <3>5. QED
      BY <1>7, <1>12, <2>2, <3>1, <3>3, <3>4 DEF Walked
  <2>3. QED
    BY <2>1, <2>2
<1>14. QED
  BY <1>10, <1>11, <1>13 DEF PathInv

LEMMA WalkBackwardInv ==
  ASSUME SearchInv, PathInv, WalkBackward
  PROVE  SearchInv' /\ PathInv'
<1>1. /\ TypeInvariant /\ LoopIsOver /\ MeetingKnown /\ path \in Seq(Nodes)
      /\ UNCHANGED <<edges, start, ask, searchVars>> /\ at = "backward"
  BY DEF SearchInv, WalkBackward, TypeInvariant
<1>2. PICK f \in [Nodes -> Nat], b \in [Nodes -> Nat] :
        Tree("F", f) /\ Tree("B", b) /\ Walked(f, b)
  BY DEF PathInv
<1> DEFINE last == path[Len(path)]
           p == parent["B"][last]
<1>3. /\ path # << >> /\ last \in Seen("B") /\ path[1] = ask[1] /\ Joined(path)
      /\ Len(path) - 1 + b[last] <= depth["F"] + depth["B"]
  BY <1>1, <1>2 DEF Walked
<1>4. /\ p = Root => at' = "done" /\ path' = path
      /\ p # Root => at' = "backward" /\ path' = Append(path, p)
  BY <1>1 DEF WalkBackward
<1>5. /\ last \in Nodes /\ b[last] \in Nat /\ Len(path) \in Nat /\ Len(path) # 0
      /\ depth["F"] \in Nat /\ depth["B"] \in Nat
  BY <1>1, <1>3, EmptySeq DEF Seen, Sides, TypeInvariant
<1>6. /\ p = Root => last = ask[2]
      /\ p # Root => p \in Seen("B") /\ p \in Nodes /\ Adjacent(edges, p, last)
                     /\ b[p] \in Nat /\ b[p] < b[last]
  BY <1>2, <1>3 DEF Tree, End, Seen
<1>7. ASSUME p # Root
      PROVE  /\ Append(path, p) \in Seq(Nodes) /\ Append(path, p) # << >>
             /\ Len(Append(path, p)) = Len(path) + 1 /\ Append(path, p)[1] = ask[1]
             /\ Append(path, p)[Len(path) + 1] = p
             /\ Joined(Append(path, p))
  <2>1. p \in Nodes /\ Adjacent(edges, path[Len(path)], p)
    BY <1>6, <1>7 DEF Adjacent
  <2> HIDE DEF p
  <2>2. QED
    BY <1>1, <1>3, <2>1, Extend
<1>8. path' \in Seq(Nodes) /\ path' # << >> /\ at' \in {"backward", "done"}
  <2> HIDE DEF p
  <2>1. QED
    BY <1>1, <1>3, <1>4, <1>7
<1>9. SearchInv'
  <2>1. TypeInvariant'
    BY <1>1, <1>8 DEF TypeInvariant, searchVars
  <2>2. LoopIsOver'
    BY <1>1, <1>8, TreesRest DEF LoopIsOver, searchVars
  <2>3. QED
    BY <1>1, <2>1, <2>2, TreesRest DEF SearchInv
<1>10. Tree("F", f)' /\ Tree("B", b)'
  BY <1>1, <1>2, TreeRests DEF searchVars, Seen
<1>11. UNCHANGED <<edges, ask, depth>> /\ Seen("B")' = Seen("B")
  BY <1>1 DEF searchVars, Seen
<1>12. Walked(f, b)'
  <2>1. CASE p = Root
    <3>1. path' = path /\ at' = "done" /\ last = ask[2]
      BY <1>4, <1>6, <2>1
    <3>2. Joined(path)'
      BY <1>3, <1>11, <3>1 DEF Joined
    <3>3. Len(path) - 1 <= depth["F"] + depth["B"]
      BY <1>3, <1>5
    <3>4. QED
      BY <1>3, <1>11, <3>1, <3>2, <3>3 DEF Walked
  <2>2. CASE p # Root
    <3>1. /\ at' = "backward" /\ path' # << >> /\ path'[1] = ask[1]
          /\ Len(path') = Len(path) + 1 /\ path'[Len(path')] = p
      <4> HIDE DEF p
      <4>1. QED
        BY <1>4, <1>7, <2>2
    <3>2. Joined(path')
      <4> HIDE DEF p
      <4>1. QED
        BY <1>4, <1>7, <2>2
    <3>3. Joined(path)'
      BY <1>11, <3>2 DEF Joined
    <3>4. Len(path') - 1 + b[path'[Len(path')]] <= depth["F"] + depth["B"]
      BY <1>3, <1>5, <1>6, <2>2, <3>1
    <3>5. QED
      BY <1>6, <1>11, <2>2, <3>1, <3>3, <3>4 DEF Walked
  <2>3. QED
    BY <2>1, <2>2
<1>13. QED
  BY <1>9, <1>10, <1>12 DEF PathInv

LEMMA EdgeIngestedInv ==
  ASSUME SearchInv, PathInv, EdgeIngested
  PROVE  SearchInv' /\ PathInv'
<1>1. /\ TypeInvariant /\ LoopIsOver /\ UNCHANGED <<start, ask, searchVars, at, path>>
      /\ edges \subseteq edges' /\ edges' \in SUBSET EdgePool
  BY DEF SearchInv, EdgeIngested, TypeInvariant
<1>2. SearchInv'
  <2>1. TypeInvariant'
    BY <1>1 DEF TypeInvariant, searchVars
  <2>2. LoopIsOver'
    BY <1>1, TreesRest DEF LoopIsOver, searchVars
  <2>3. QED
    BY <1>1, <2>1, <2>2, TreesRest DEF SearchInv
<1>3. PICK f \in [Nodes -> Nat], b \in [Nodes -> Nat] :
        Tree("F", f) /\ Tree("B", b) /\ Walked(f, b)
  BY DEF PathInv
<1>4. Tree("F", f)' /\ Tree("B", b)'
  BY <1>1, <1>3, TreeRests DEF searchVars, Seen
<1>5. Walked(f, b)'
  <2>1. Joined(path) => Joined(path)'
    BY <1>1 DEF Joined, Adjacent
  <2>2. UNCHANGED <<depth, meeting>> /\ Seen("F")' = Seen("F") /\ Seen("B")' = Seen("B")
    BY <1>1 DEF searchVars, Seen
  <2>3. QED
    BY <1>1, <1>3, <2>1, <2>2 DEF Walked
<1>6. QED
  BY <1>2, <1>3, <1>4, <1>5 DEF PathInv

-----------------------------------------------------------------------------
(* Theorems                                                                *)

LEMMA PathInvInit == Init => PathInv
<1> SUFFICES ASSUME Init PROVE PathInv
  OBVIOUS
<1>1. ASSUME NEW s \in Sides
      PROVE  Tree(s, [n \in Nodes |-> 0])
  <2>1. \A n \in Seen(s) : n \in Nodes /\ n = End(s) /\ parent[s][n] = Root /\ depth[s] = 0
    BY GraphAssumption DEF Init, Seen
  <2>2. QED
    BY <2>1 DEF Tree
<1>2. Walked([n \in Nodes |-> 0], [n \in Nodes |-> 0])
  BY DEF Init, Walked
<1>3. [n \in Nodes |-> 0] \in [Nodes -> Nat] /\ "F" \in Sides /\ "B" \in Sides
  BY DEF Sides
<1>4. QED
  BY <1>1, <1>2, <1>3 DEF PathInv

LEMMA SearchNext == SearchInv /\ PathInv /\ [Next]_vars => SearchInv' /\ PathInv'
<1> SUFFICES ASSUME SearchInv, PathInv, [Next]_vars PROVE SearchInv' /\ PathInv'
  OBVIOUS
<1>1. ASSUME NEW s \in Sides, ExpandLevel(s)
      PROVE  SearchInv' /\ PathInv'
  <2>1. TypeInvariant' /\ EndsSeen'
    BY <1>1, ExpandTyped DEF SearchInv
  <2>2. LoopIsOver'
    BY <1>1 DEF ExpandLevel, LoopIsOver
  <2>3. LevelsComplete' /\ MeetingKnown' /\ NoneShorter' /\ PathInv'
    BY <1>1, ExpandComplete, ExpandMeeting, ExpandNoneShorter, ExpandPath
  <2>4. QED
    BY <2>1, <2>2, <2>3 DEF SearchInv
<1>2. CASE UNCHANGED vars
  <2>1. UNCHANGED <<edges, start, ask, searchVars, at, path>>
    BY <1>2 DEF vars, searchVars
  <2>2. SearchInv'
    BY <2>1, TreesRest DEF SearchInv, TypeInvariant, LoopIsOver, searchVars
  <2>3. PathInv'
    BY <2>1 DEF PathInv, Tree, Walked, Joined, Seen, End, searchVars
  <2>4. QED
    BY <2>2, <2>3
<1>3. QED
  BY <1>1, <1>2, LoopEndsInv, WalkForwardInv, WalkBackwardInv, EdgeIngestedInv DEF Next

LEMMA SearchAlways == Spec => [](SearchInv /\ PathInv)
BY SearchInvInit, PathInvInit, SearchNext, PTL DEF Spec

(* "provably a shortest path, not just *a* path": the answer is a path     *)
(* along edges that exist, within MAX_PATH_HOPS, and no path that existed  *)
(* when the search began was shorter (routes/graph.ts).                    *)
THEOREM ShortestPath == Spec => []PathIsShortest
<1>1. SearchInv /\ PathInv => PathIsShortest
  <2> SUFFICES ASSUME SearchInv, PathInv, at = "done", path # << >>
               PROVE  /\ path[1] = ask[1] /\ path[Len(path)] = ask[2]
                      /\ \A i \in 1..(Len(path) - 1) : Adjacent(edges, path[i], path[i + 1])
                      /\ Len(path) - 1 <= MaxHops
                      /\ Len(path) >= 2 => ask[2] \notin Within(start, ask[1], Len(path) - 2)
    BY DEF PathIsShortest, Found
  <2>1. /\ path[1] = ask[1] /\ path[Len(path)] = ask[2] /\ Joined(path)
        /\ Len(path) - 1 <= depth["F"] + depth["B"]
    BY DEF PathInv, Walked
  <2>2. /\ depth["F"] \in Nat /\ depth["B"] \in Nat /\ depth["F"] + depth["B"] <= MaxHops
        /\ Len(path) \in Nat
    BY LenProperties DEF SearchInv, TypeInvariant, Sides
  <2>3. Len(path) - 1 <= MaxHops
    BY <2>1, <2>2, GraphAssumption
  <2>4. ASSUME Len(path) >= 2
        PROVE  ask[2] \notin Within(start, ask[1], Len(path) - 2)
    <3>1. Len(path) - 2 \in Nat /\ Len(path) - 2 < depth["F"] + depth["B"]
      BY <2>1, <2>2, <2>4
    <3>2. QED
      BY <3>1 DEF SearchInv, NoneShorter
  <2>5. QED
    BY <2>1, <2>3, <2>4 DEF Joined
<1>2. QED
  BY <1>1, SearchAlways, PTL

(* "Not found" without budgetExceeded means that the two objects were not  *)
(* connected when the search began: what the side that has run out of      *)
(* frontier has discovered is closed (routes/graph.ts).                    *)
THEOREM DefinitelyNotFound == Spec => []NotFoundIsDefinite
<1>1. SearchInv => NotFoundIsDefinite
  <2> SUFFICES ASSUME SearchInv, at = "done", path = << >>, ~BudgetExceeded
               PROVE  Apart(start)
    BY DEF NotFoundIsDefinite, Found
  <2>1. meeting = Unseen /\ ~MaySearch
    BY DEF SearchInv, LoopIsOver
  <2>2. /\ examined \in Nat /\ depth["F"] \in Nat /\ depth["B"] \in Nat
        /\ "F" \in Sides /\ "B" \in Sides
    BY DEF SearchInv, TypeInvariant, Sides
  <2>3. examined < MaxEdges /\ depth["F"] + depth["B"] < MaxHops
    BY <2>1, <2>2, GraphAssumption DEF BudgetExceeded
  <2>4. PICK s \in Sides : frontier[s] = {}
    BY <2>1, <2>3 DEF MaySearch
  <2>5. \A n \in Seen(s) : Around(start, {n}) \subseteq Seen(s)
    BY <2>3, <2>4 DEF SearchInv, LevelsComplete, Complete
  <2>6. \A e \in start : e[1] \in Seen(s) <=> e[2] \in Seen(s)
    <3> SUFFICES ASSUME NEW e \in start PROVE e[1] \in Seen(s) <=> e[2] \in Seen(s)
      OBVIOUS
    <3>1. e \in Nodes \X Nodes
      BY GraphAssumption DEF SearchInv, TypeInvariant
    <3>2. e = <<e[1], e[2]>> /\ e[1] \in Nodes /\ e[2] \in Nodes
      BY <3>1
    <3>3. Adjacent(start, e[1], e[2]) /\ Adjacent(start, e[2], e[1])
      BY <3>2 DEF Adjacent
    <3>4. e[2] \in Around(start, {e[1]}) /\ e[1] \in Around(start, {e[2]})
      BY <3>2, <3>3 DEF Around
    <3>5. QED
      BY <2>5, <3>4
  <2>7. /\ End("F") = ask[1] /\ End("B") = ask[2]
        /\ ask[1] \in Seen("F") /\ ask[2] \in Seen("B") /\ Seen("F") \cap Seen("B") = {}
    BY <2>1, <2>2 DEF SearchInv, EndsSeen, MeetingKnown, End
  <2>8. Seen("F") \in SUBSET Nodes /\ Seen("B") \in SUBSET Nodes
    BY DEF Seen
  <2>9. CASE s = "F"
    BY <2>6, <2>7, <2>8, <2>9 DEF Apart
  <2>10. CASE s = "B"
    <3>1. \A e \in start : e[1] \in Nodes /\ e[2] \in Nodes
      BY GraphAssumption DEF SearchInv, TypeInvariant
    <3>2. \A e \in start : e[1] \in Nodes \ Seen("B") <=> e[2] \in Nodes \ Seen("B")
      BY <2>6, <2>10, <3>1
    <3>3. ask[1] \in Nodes \ Seen("B") /\ ask[2] \notin Nodes \ Seen("B")
      BY <2>7, <2>8
    <3>4. QED
      BY <3>2, <3>3 DEF Apart
  <2>11. QED
    BY <2>9, <2>10 DEF Sides
<1>2. QED
  BY <1>1, SearchAlways, PTL
=============================================================================
