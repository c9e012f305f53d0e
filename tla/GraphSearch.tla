---------------------------- MODULE GraphSearch ----------------------------
(***************************************************************************)
(* GET /graph/path (api/src/routes/graph.ts): the shortest connection      *)
(* between two objects, by a breadth-first search from both ends that      *)
(* expands one whole level at a time, the two sides taking turns.          *)
(*                                                                         *)
(* A level is one query, and every query of the READ COMMITTED transaction *)
(* sees what has been committed by then: ingestion inserts edges while the *)
(* search runs.  Edges are never deleted.  `edges` is what the session may *)
(* read; an edge is followed in both directions.                           *)
(***************************************************************************)
EXTENDS Integers, FiniteSets, Sequences

CONSTANTS Nodes,      \* objects
          EdgePool,   \* <<source, target>>: edges that exist or may be ingested
          Requests,   \* <<from, to>> a user may ask for
          MaxHops,    \* MAX_PATH_HOPS
          MaxEdges,   \* MAX_PATH_EDGES_EXAMINED
          Root,       \* the parent of an end of the path
          Unseen      \* the parent of a node that a side has not discovered

ASSUME GraphAssumption ==
  /\ EdgePool \subseteq Nodes \X Nodes /\ IsFiniteSet(EdgePool)
  /\ Requests \subseteq Nodes \X Nodes
  /\ MaxHops \in Nat /\ MaxEdges \in Nat
  /\ Root # Unseen /\ {Root, Unseen} \cap Nodes = {}

VARIABLES
  edges,      \* the committed edges
  start,      \* those committed when the search began
  ask,        \* the request
  parent,     \* parentF and parentB
  frontier,   \* frontierF and frontierB
  depth,      \* depthF and depthB
  examined,   \* edgesExamined
  next,       \* the side whose turn it is (expandForwardNext)
  meeting,    \* meetingNode, or Unseen
  at,         \* where the request is
  path        \* the path so far, or the answer's path

vars == <<edges, start, ask, parent, frontier, depth, examined, next, meeting, at, path>>
searchVars == <<parent, frontier, depth, examined, next, meeting>>

Sides == {"F", "B"}
Other(s) == IF s = "F" THEN "B" ELSE "F"
End(s) == IF s = "F" THEN ask[1] ELSE ask[2]

Seen(s) == {n \in Nodes : parent[s][n] # Unseen}

Init ==
  /\ edges \in SUBSET EdgePool
  /\ start = edges
  /\ ask \in Requests
  /\ parent = [s \in Sides |-> [n \in Nodes |-> IF n = End(s) THEN Root ELSE Unseen]]
  /\ frontier = [s \in Sides |-> {End(s)}]
  /\ depth = [s \in Sides |-> 0]
  /\ examined = 0
  /\ next = "F"
  /\ meeting = IF ask[1] = ask[2] THEN ask[1] ELSE Unseen
  /\ at = "searching"
  /\ path = << >>

(* The loop's condition.                                                   *)
MaySearch ==
  /\ meeting = Unseen
  /\ \A s \in Sides : frontier[s] # {}
  /\ depth["F"] + depth["B"] < MaxHops
  /\ examined < MaxEdges

(* The rows of one level's query: every edge that touches the frontier, or *)
(* any selection of as many as the LIMIT admits.                           *)
Touching(nodes) == {e \in edges : e[1] \in nodes \/ e[2] \in nodes}

RowsOfQuery(nodes, limit) ==
  {rows \in SUBSET Touching(nodes) :
     /\ Cardinality(rows) <= limit
     /\ rows # Touching(nodes) => Cardinality(rows) = limit}

(* anchor and neighbor of a row.                                           *)
Anchor(e, nodes) == IF e[1] \in nodes THEN e[1] ELSE e[2]
Neighbor(e, nodes) == IF Anchor(e, nodes) = e[1] THEN e[2] ELSE e[1]

(* The nodes a side discovers from the rows, and the anchors each of them  *)
(* may get for its parent: that of its first row, in any order.            *)
Discovered(s, rows) ==
  {Neighbor(e, frontier[s]) : e \in rows} \ Seen(s)

Anchors(s, rows, n) ==
  {Anchor(e, frontier[s]) : e \in {x \in rows : Neighbor(x, frontier[s]) = n}}

-----------------------------------------------------------------------------
(* Deviations.  Each operator here is a mistake that could have been made  *)
(* in the definition it names; none of them is part of the specification.  *)

(* ExpandLevel that charges the nodes it discovers, not the rows it reads, *)
(* to the budget.                                                          *)
ExpandLevelChargingNodes(s) ==
  /\ at = "searching" /\ MaySearch /\ next = s
  /\ \E rows \in RowsOfQuery(frontier[s], MaxEdges - examined) :
       LET new == Discovered(s, rows) IN
       /\ \E from \in [new -> Nodes] :
            /\ \A n \in new : from[n] \in Anchors(s, rows, n)
            /\ parent' = [parent EXCEPT ![s] =
                            [n \in Nodes |-> IF n \in new THEN from[n] ELSE @[n]]]
       /\ frontier' = [frontier EXCEPT ![s] = new]
       /\ examined' = examined + Cardinality(new)
       /\ meeting' \in IF new \cap Seen(Other(s)) = {} THEN {Unseen} ELSE new \cap Seen(Other(s))
  /\ depth' = [depth EXCEPT ![s] = @ + 1]
  /\ next' = Other(s)
  /\ UNCHANGED <<edges, start, ask, at, path>>

(* ExpandLevel that looks for a meeting point only once both sides have    *)
(* moved ("checked immediately after each single-level expansion, never    *)
(* deferred").                                                             *)
ExpandLevelDeferringCheck(s) ==
  /\ at = "searching" /\ MaySearch /\ next = s
  /\ \E rows \in RowsOfQuery(frontier[s], MaxEdges - examined) :
       LET new == Discovered(s, rows)
           met == IF s = "B" THEN new \cap Seen(Other(s)) ELSE {}
       IN
       /\ \E from \in [new -> Nodes] :
            /\ \A n \in new : from[n] \in Anchors(s, rows, n)
            /\ parent' = [parent EXCEPT ![s] =
                            [n \in Nodes |-> IF n \in new THEN from[n] ELSE @[n]]]
       /\ frontier' = [frontier EXCEPT ![s] = new]
       /\ examined' = examined + Cardinality(rows)
       /\ meeting' \in IF met = {} THEN {Unseen} ELSE met
  /\ depth' = [depth EXCEPT ![s] = @ + 1]
  /\ next' = Other(s)
  /\ UNCHANGED <<edges, start, ask, at, path>>

-----------------------------------------------------------------------------
(* Steps                                                                   *)

(* One iteration of the loop: expandFrontier for the side whose turn it    *)
(* is, then the check whether one of the nodes discovered is known to the  *)
(* other side.                                                             *)
ExpandLevel(s) ==
  /\ at = "searching" /\ MaySearch /\ next = s
  /\ \E rows \in RowsOfQuery(frontier[s], MaxEdges - examined) :
       LET new == Discovered(s, rows) IN
       /\ \E from \in [new -> Nodes] :
            /\ \A n \in new : from[n] \in Anchors(s, rows, n)
            /\ parent' = [parent EXCEPT ![s] =
                            [n \in Nodes |-> IF n \in new THEN from[n] ELSE @[n]]]
       /\ frontier' = [frontier EXCEPT ![s] = new]
       /\ examined' = examined + Cardinality(rows)
       /\ meeting' \in IF new \cap Seen(Other(s)) = {} THEN {Unseen} ELSE new \cap Seen(Other(s))
  /\ depth' = [depth EXCEPT ![s] = @ + 1]
  /\ next' = Other(s)
  /\ UNCHANGED <<edges, start, ask, at, path>>

(* After the loop: nothing found, or the two trees met.                    *)
LoopEnds ==
  /\ at = "searching" /\ ~MaySearch
  /\ IF meeting = Unseen
       THEN at' = "done" /\ path' = << >>
       ELSE at' = "forward" /\ path' = <<meeting>>
  /\ UNCHANGED <<edges, start, ask, searchVars>>

(* The forward half, walked back from the meeting node to `from` ...       *)
WalkForward ==
  /\ at = "forward"
  /\ LET p == parent["F"][Head(path)] IN
       IF p = Root THEN at' = "backward" /\ path' = path
                   ELSE at' = at /\ path' = <<p>> \o path
  /\ UNCHANGED <<edges, start, ask, searchVars>>

(* ... and the backward half, on to `to`.                                  *)
WalkBackward ==
  /\ at = "backward"
  /\ LET p == parent["B"][path[Len(path)]] IN
       IF p = Root THEN at' = "done" /\ path' = path
                   ELSE at' = at /\ path' = Append(path, p)
  /\ UNCHANGED <<edges, start, ask, searchVars>>

(* A chunk of edge rows commits meanwhile.                                 *)
EdgeIngested ==
  /\ at # "done"
  /\ \E e \in EdgePool \ edges : edges' = edges \cup {e}
  /\ UNCHANGED <<start, ask, searchVars, at, path>>

Next ==
  \/ \E s \in Sides : ExpandLevel(s)
  \/ LoopEnds \/ WalkForward \/ WalkBackward \/ EdgeIngested

Spec == Init /\ [][Next]_vars

(* found and budgetExceeded of the answer.                                 *)
Found == path # << >>

BudgetExceeded ==
  meeting = Unseen /\ (examined >= MaxEdges \/ depth["F"] + depth["B"] >= MaxHops)

-----------------------------------------------------------------------------
(* Properties                                                              *)

Adjacent(graph, m, n) == <<m, n>> \in graph \/ <<n, m>> \in graph

(* The nodes within k hops of n: the reference definition of distance.     *)
Within(graph, n, k) ==
  LET ball[i \in 0..k] ==
        IF i = 0 THEN {n}
        ELSE ball[i - 1] \cup {m \in Nodes : \E x \in ball[i - 1] : Adjacent(graph, x, m)}
  IN  ball[k]

(* No path joins the two objects: some set of nodes holds one of them, not *)
(* the other, and no edge leaves it.                                       *)
Apart(graph) ==
  \E near \in SUBSET Nodes :
    /\ ask[1] \in near /\ ask[2] \notin near
    /\ \A e \in graph : e[1] \in near <=> e[2] \in near

(* "provably a shortest path, not just *a* path": the answer is a path     *)
(* between the two objects along edges that exist, and none that existed   *)
(* when the search began was shorter, also when the edge budget cut off    *)
(* the last level or edges were ingested between two levels.               *)
PathIsShortest ==
  at = "done" /\ Found =>
    /\ path[1] = ask[1] /\ path[Len(path)] = ask[2]
    /\ \A i \in 1..(Len(path) - 1) : Adjacent(edges, path[i], path[i + 1])
    /\ Len(path) - 1 <= MaxHops
    /\ Len(path) >= 2 => ask[2] \notin Within(start, ask[1], Len(path) - 2)

(* "Not found" without budgetExceeded is definite: the two objects were    *)
(* not connected when the search began.                                    *)
NotFoundIsDefinite ==
  at = "done" /\ ~Found /\ ~BudgetExceeded => Apart(start)
=============================================================================
