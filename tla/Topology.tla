------------------------------ MODULE Topology ------------------------------
(***************************************************************************)
(* topology.cpp: the graphs along which data is reduced and broadcast.     *)
(* Vertices are ranks 0..n-1.  A graph is its set of vertices with a self  *)
(* loop and its set of edges: nexts(i) and prevs(i) of the code are the    *)
(* ordered lists of the successors and predecessors of i.                  *)
(***************************************************************************)
EXTENDS Integers, Sequences, FiniteSets

Vertex(n) == 0 .. n - 1

Nexts(g, i) == {e[2] : e \in {d \in g.edges : d[1] = i}}

Prevs(g, i) == {e[1] : e \in {d \in g.edges : d[2] = i}}

SelfLoop(g, i) == i \in g.self_loop

(* graph_builder after add_edge(e[1], e[2]) for every e in E: an edge to    *)
(* itself marks a self loop, and an edge added twice counts once.           *)
GraphBuilder(n, E) ==
    [size      |-> n,
     self_loop |-> {e[1] : e \in {d \in E : d[1] = d[2]}},
     edges     |-> {e \in E : e[1] # e[2]}]

(* graph_builder::build(reverse, add_self_loops) *)
Build(b, reverse, addSelfLoops) ==
    [self_loop |-> IF addSelfLoops THEN Vertex(b.size) ELSE b.self_loop,
     edges     |-> IF reverse THEN {<<e[2], e[1]>> : e \in b.edges} ELSE b.edges]

(* start_broadcast_graph_builder: the root points at everyone else. *)
StarBuilder(n, root) ==
    GraphBuilder(n, {<<root, i>> : i \in Vertex(n) \ {root}})

StarPair(n, root) ==
    LET b == StarBuilder(n, root)
    IN  [reduce_graph    |-> Build(b, TRUE, TRUE),
         broadcast_graph |-> Build(b, FALSE, FALSE)]

(* Mutant of CircularPair: the loop starts at 0 and closes the reduce ring. *)
CircularPairClosed(n, r) ==
    LET rg == GraphBuilder(n, {<<(r + i) % n, (r + i + 1) % n>> : i \in 0 .. n - 1})
        bg == GraphBuilder(n, {<<(r + i - 1) % n, (r + i) % n>> : i \in 1 .. n - 1})
    IN  [reduce_graph    |-> Build(rg, FALSE, TRUE),
         broadcast_graph |-> Build(bg, FALSE, FALSE)]

(* make_circular_graph_pair: reduce along r+1, r+2, ..., r and broadcast    *)
(* along r, r+1, ..., r-1.                                                  *)
CircularPair(n, r) ==
    LET rg == GraphBuilder(n, {<<(r + i) % n, (r + i + 1) % n>> : i \in 1 .. n - 1})
        bg == GraphBuilder(n, {<<(r + i - 1) % n, (r + i) % n>> : i \in 1 .. n - 1})
    IN  [reduce_graph    |-> Build(rg, FALSE, TRUE),
         broadcast_graph |-> Build(bg, FALSE, FALSE)]

GraphPairListStar(n) == <<StarPair(n, 0)>>

(* Mutant of GraphPairListRing: the roots are numbered from 1. *)
GraphPairListShifted(n) == [k \in 1 .. n |-> CircularPair(n, k % n)]

GraphPairListRing(n) == [k \in 1 .. n |-> CircularPair(n, k - 1)]

(* make_graph_pair_list: every strategy but "ring" means the star. *)
GraphPairList(strategy, n) ==
    IF strategy = "ring" THEN GraphPairListRing(n) ELSE GraphPairListStar(n)

(* graph_pair_list::choose *)
Choose(pairs, i) == pairs[(i % Len(pairs)) + 1]

----------------------------------------------------------------------------

(* A graph on the ranks in which r is the only vertex without a successor,  *)
(* all others have exactly one, and every vertex has a path to r.           *)
IsInTree(n, g, r) ==
    /\ g.edges \subseteq Vertex(n) \X Vertex(n)
    /\ Nexts(g, r) = {}
    /\ \A i \in Vertex(n) \ {r} : Cardinality(Nexts(g, i)) = 1
    /\ \A S \in SUBSET Vertex(n) :
          r \in S /\ (\A j \in S : Prevs(g, j) \subseteq S) => S = Vertex(n)

Reversed(g) ==
    [self_loop |-> g.self_loop, edges |-> {<<e[2], e[1]>> : e \in g.edges}]

IsOutTree(n, g, r) == IsInTree(n, Reversed(g), r)

(* A tree into r that adds up at every vertex, and one out of r that adds   *)
(* up nowhere.                                                              *)
IsTreePair(n, pair, r) ==
    /\ IsInTree(n, pair.reduce_graph, r)
    /\ IsOutTree(n, pair.broadcast_graph, r)
    /\ \A i \in Vertex(n) : /\ SelfLoop(pair.reduce_graph, i)
                            /\ ~SelfLoop(pair.broadcast_graph, i)

============================================================================
