--------------------------- MODULE TopologyProofs ---------------------------
(***************************************************************************)
(* The graphs of both strategies are trees, for every number of peers.      *)
(* A tree is shown by a parent for every vertex but the root and a depth    *)
(* that falls along the way to the root; induction on the depth is an       *)
(* argument about the least counterexample (LeastNat).                      *)
(***************************************************************************)
EXTENDS Topology, FiniteSetTheorems, WellFoundedInduction, TLAPS

(* Every set of natural numbers that is not empty has a least element. *)
LEMMA LeastNat ==
    ASSUME NEW T, T \subseteq Nat, T # {}
    PROVE  \E x \in T : \A y \in T : x <= y
<1> DEFINE R == OpToRel(<, Nat)
<1>1. \E x \in T : \A y \in T : ~(<<y, x>> \in R)
    <2>1. IsWellFoundedOn(R, Nat)
        BY NatLessThanWellFounded
    <2> HIDE DEF R
    <2> QED BY <2>1, WFMin
<1>2. PICK x \in T : \A y \in T : ~(<<y, x>> \in R)
    BY <1>1
<1>3. ASSUME NEW y \in T, y < x PROVE FALSE
    <2>1. <<y, x>> \in Nat \X Nat
        OBVIOUS
    <2>2. <<y, x>>[1] = y /\ <<y, x>>[2] = x
        OBVIOUS
    <2>3. <<y, x>> \in {ss \in Nat \X Nat : ss[1] < ss[2]}
        BY <1>3, <2>1, <2>2
    <2> QED BY <2>3, <1>2 DEF OpToRel
<1> QED BY <1>3

(* Induction on natural numbers, with a set for the induction hypothesis. *)
LEMMA SetInduction ==
    ASSUME NEW T, 0 \in T, \A k \in Nat : k \in T => k + 1 \in T
    PROVE  \A k \in Nat : k \in T
<1> SUFFICES ASSUME Nat \ T # {} PROVE FALSE
    OBVIOUS
<1>1. PICK x \in Nat \ T : \A y \in Nat \ T : x <= y
    BY LeastNat
<1>2. x # 0 /\ x - 1 \in Nat /\ x - 1 \notin Nat \ T
    BY <1>1
<1> QED BY <1>1, <1>2

(* The three cases of a remainder that the ring's indices need. *)
LEMMA ModSmall ==
    ASSUME NEW n \in Nat, n > 0, NEW x \in Int
    PROVE  /\ 0 <= x /\ x < n => x % n = x
           /\ n <= x /\ x < 2 * n => x % n = x - n
           /\ -n <= x /\ x < 0 => x % n = x + n
    OBVIOUS

----------------------------------------------------------------------------

(* A graph in which every vertex but r has one successor, its parent, that  *)
(* is less deep, is a tree into r.                                          *)
LEMMA ParentTree ==
    ASSUME NEW n \in Nat, NEW r \in Vertex(n), NEW g,
           NEW parent, \A v \in Vertex(n) \ {r} : parent[v] \in Vertex(n),
           NEW depth \in [Vertex(n) -> Nat],
           \A v \in Vertex(n) \ {r} : depth[parent[v]] < depth[v],
           g.edges = {<<v, parent[v]>> : v \in Vertex(n) \ {r}}
    PROVE  IsInTree(n, g, r)
<1> DEFINE V == Vertex(n)
<1>0. g.edges \subseteq V \X V
    OBVIOUS
<1>1. Nexts(g, r) = {}
    <2>1. \A d \in g.edges : d[1] # r
        OBVIOUS
    <2> QED BY <2>1 DEF Nexts
<1>2. ASSUME NEW i \in V \ {r} PROVE Nexts(g, i) = {parent[i]}
    <2>1. {x \in g.edges : x[1] = i} = {<<i, parent[i]>>}
        BY <1>2
    <2>2. {e[2] : e \in {<<i, parent[i]>>}} = {parent[i]}
        OBVIOUS
    <2> QED BY <2>1, <2>2 DEF Nexts
<1>3. ASSUME NEW i \in V \ {r} PROVE Cardinality(Nexts(g, i)) = 1
    BY <1>2, <1>3, FS_Singleton
<1>4. ASSUME NEW v \in V \ {r} PROVE v \in Prevs(g, parent[v])
    <2>1. <<v, parent[v]>> \in {d \in g.edges : d[2] = parent[v]}
        BY <1>4
    <2> QED BY <2>1 DEF Prevs
<1>5. ASSUME NEW S \in SUBSET V, r \in S, \A j \in S : Prevs(g, j) \subseteq S
      PROVE  S = V
    <2> SUFFICES ASSUME V \ S # {} PROVE FALSE
        BY <1>5
    <2> DEFINE T == {depth[v] : v \in V \ S}
    <2>1. PICK x \in T : \A y \in T : x <= y
        <3>1. T \subseteq Nat /\ T # {}
            OBVIOUS
        <3> QED BY <3>1, LeastNat
    <2>2. PICK v \in V \ S : x = depth[v]
        BY <2>1
    <2>3. v \in V \ {r} /\ parent[v] \in V /\ depth[parent[v]] < depth[v]
        BY <1>5, <2>2
    <2>4. parent[v] \in S
        <3> SUFFICES ASSUME parent[v] \in V \ S PROVE FALSE
            BY <2>3
        <3>1. depth[parent[v]] \in T
            OBVIOUS
        <3>2. depth[parent[v]] \in Nat /\ depth[v] \in Nat
            BY <2>3
        <3>3. depth[v] <= depth[parent[v]]
            BY <2>1, <2>2, <3>1
        <3> QED BY <2>3, <3>2, <3>3
    <2> QED BY <1>4, <1>5, <2>2, <2>3, <2>4
<1> QED BY <1>0, <1>1, <1>3, <1>5 DEF IsInTree

(* A tree's edges are between vertices, and none is a loop: the vertices    *)
(* that a loop cuts off would not reach the root.                           *)
LEMMA InTreeEdges ==
    ASSUME NEW n \in Nat, NEW r \in Vertex(n), NEW g, IsInTree(n, g, r), NEW e \in g.edges
    PROVE  e[1] \in Vertex(n) /\ e[2] \in Vertex(n) /\ e[1] # e[2]
<1>1. g.edges \subseteq Vertex(n) \X Vertex(n)
    BY DEF IsInTree
<1>2. e[1] \in Vertex(n) /\ e[2] \in Vertex(n)
    BY <1>1
<1>3. ASSUME e[1] = e[2] PROVE FALSE
    <2> DEFINE q == e[1]
               S == Vertex(n) \ {q}
    <2>1. q \in Nexts(g, q)
        BY <1>3 DEF Nexts
    <2>2. q # r /\ Cardinality(Nexts(g, q)) = 1
        BY <1>2, <2>1 DEF IsInTree
    <2>3. Nexts(g, q) \subseteq Vertex(n)
        BY <1>1 DEF Nexts
    <2>4. PICK x : Nexts(g, q) = {x}
        <3>1. IsFiniteSet(Vertex(n))
            <4>1. 0 \in Int /\ n - 1 \in Int
                OBVIOUS
            <4> QED BY <4>1, FS_Interval DEF Vertex
        <3>2. IsFiniteSet(Nexts(g, q))
            BY <2>3, <3>1, FS_Subset
        <3> QED BY <2>2, <3>2, FS_Singleton
    <2>5. Nexts(g, q) = {q}
        BY <2>1, <2>4
    <2>6. ASSUME NEW j \in S, NEW i \in Prevs(g, j) PROVE i \in S
        <3>1. PICK d \in g.edges : d[2] = j /\ d[1] = i
            BY <2>6 DEF Prevs
        <3>2. i \in Vertex(n) /\ j \in Nexts(g, i)
            BY <1>1, <3>1 DEF Nexts
        <3> QED BY <2>5, <3>2
    <2>7. S \in SUBSET Vertex(n) /\ r \in S /\ q \notin S
        BY <2>2
    <2> HIDE DEF S
    <2>8. S = Vertex(n)
        BY <2>6, <2>7 DEF IsInTree
    <2> QED BY <1>2, <2>7, <2>8
<1> QED BY <1>2, <1>3

(* The edges of an out-tree join two different vertices. *)
LEMMA OutTreeEdges ==
    ASSUME NEW n \in Nat, NEW r \in Vertex(n), NEW g, IsOutTree(n, g, r), NEW e \in g.edges
    PROVE  e[1] \in Vertex(n) /\ e[2] \in Vertex(n) /\ e[1] # e[2]
<1> DEFINE d == <<e[2], e[1]>>
<1>1. d \in Reversed(g).edges
    BY DEF Reversed
<1>2. d[1] \in Vertex(n) /\ d[2] \in Vertex(n) /\ d[1] # d[2]
    BY <1>1, InTreeEdges DEF IsOutTree
<1> QED BY <1>2

(* The star's root is everyone's parent. *)
LEMMA StarPairTree ==
    ASSUME NEW n \in Nat, NEW r \in Vertex(n)
    PROVE  IsTreePair(n, StarPair(n, r), r)
<1> DEFINE V  == Vertex(n)
           E  == {<<r, i>> : i \in V \ {r}}
           b  == StarBuilder(n, r)
           rg == Build(b, TRUE, TRUE)
           bg == Build(b, FALSE, FALSE)
           parent == [v \in V |-> r]
           depth  == [v \in V |-> IF v = r THEN 0 ELSE 1]
           up == {<<v, parent[v]>> : v \in V \ {r}}
<1>1. b.edges = E /\ b.self_loop = {} /\ b.size = n
    BY DEF StarBuilder, GraphBuilder
<1>2. rg.edges = up /\ Reversed(bg).edges = up
    <2>1. {<<e[2], e[1]>> : e \in E} = up
        <3>1. ASSUME NEW e \in E PROVE <<e[2], e[1]>> \in up
            <4>1. PICK i \in V \ {r} : e = <<r, i>>
                OBVIOUS
            <4> QED BY <4>1
        <3>2. ASSUME NEW i \in V \ {r} PROVE \E e \in E : <<e[2], e[1]>> = <<i, parent[i]>>
            <4>1. <<r, i>> \in E
                OBVIOUS
            <4> QED BY <4>1
        <3> QED BY <3>1, <3>2
    <2>2. rg.edges = {<<e[2], e[1]>> : e \in b.edges} /\ bg.edges = b.edges
        BY DEF Build
    <2>3. Reversed(bg).edges = {<<e[2], e[1]>> : e \in bg.edges}
        BY DEF Reversed, Build
    <2> QED BY <1>1, <2>1, <2>2, <2>3
<1>3. rg.self_loop = V /\ bg.self_loop = {}
    BY <1>1 DEF Build
<1>4. /\ \A v \in V \ {r} : parent[v] \in V /\ depth[parent[v]] < depth[v]
      /\ depth \in [V -> Nat]
    OBVIOUS
<1>5. IsInTree(n, rg, r) /\ IsInTree(n, Reversed(bg), r)
    <2> HIDE DEF parent, depth, rg, bg
    <2> QED BY <1>2, <1>4, ParentTree
<1>6. StarPair(n, r).reduce_graph = rg /\ StarPair(n, r).broadcast_graph = bg
    BY DEF StarPair
<1> HIDE DEF rg, bg
<1> QED BY <1>3, <1>5, <1>6 DEF IsTreePair, IsOutTree, SelfLoop

(* The vertices of a ring. *)
Succ(n, v) == IF v = n - 1 THEN 0 ELSE v + 1
Pred(n, v) == IF v = 0 THEN n - 1 ELSE v - 1

(* Reducing goes from everyone but the root to the next vertex ... *)
LEMMA RingReduceEdges ==
    ASSUME NEW n \in Nat, NEW r \in Vertex(n)
    PROVE  {<<(r + i) % n, (r + i + 1) % n>> : i \in 1 .. n - 1}
               = {<<v, Succ(n, v)>> : v \in Vertex(n) \ {r}}
<1> DEFINE A == {<<(r + i) % n, (r + i + 1) % n>> : i \in 1 .. n - 1}
           B == {<<v, Succ(n, v)>> : v \in Vertex(n) \ {r}}
<1>0. n > 0 /\ r \in Nat /\ r < n
    BY DEF Vertex
<1>1. ASSUME NEW i \in 1 .. n - 1
      PROVE  /\ (r + i) % n \in Vertex(n) \ {r}
             /\ (r + i + 1) % n = Succ(n, (r + i) % n)
    <2>1. (r + i) % n = IF r + i < n THEN r + i ELSE r + i - n
        BY <1>0, ModSmall
    <2>2. (r + i + 1) % n = IF r + i + 1 < n THEN r + i + 1 ELSE r + i + 1 - n
        BY <1>0, ModSmall
    <2> QED BY <1>0, <2>1, <2>2 DEF Vertex, Succ
<1>2. A \subseteq B
    BY <1>1
<1>3. ASSUME NEW v \in Vertex(n) \ {r}
      PROVE  \E i \in 1 .. n - 1 : (r + i) % n = v
    <2> DEFINE i == IF v > r THEN v - r ELSE v - r + n
    <2>1. i \in 1 .. n - 1 /\ (r + i = v \/ r + i = v + n)
        BY <1>0 DEF Vertex
    <2>2. (r + i) % n = v
        BY <1>0, <2>1, ModSmall DEF Vertex
    <2> QED BY <2>1, <2>2
<1>4. B \subseteq A
    <2> SUFFICES ASSUME NEW v \in Vertex(n) \ {r} PROVE <<v, Succ(n, v)>> \in A
        OBVIOUS
    <2>1. PICK i \in 1 .. n - 1 : (r + i) % n = v
        BY <1>3
    <2> QED BY <1>1, <2>1
<1> QED BY <1>2, <1>4

(* ... and broadcasting to everyone but the root from the one before it. *)
LEMMA RingBroadcastEdges ==
    ASSUME NEW n \in Nat, NEW r \in Vertex(n)
    PROVE  {<<(r + i - 1) % n, (r + i) % n>> : i \in 1 .. n - 1}
               = {<<Pred(n, v), v>> : v \in Vertex(n) \ {r}}
<1> DEFINE A == {<<(r + i - 1) % n, (r + i) % n>> : i \in 1 .. n - 1}
           B == {<<Pred(n, v), v>> : v \in Vertex(n) \ {r}}
<1>0. n > 0 /\ r \in Nat /\ r < n
    BY DEF Vertex
<1>1. ASSUME NEW i \in 1 .. n - 1
      PROVE  /\ (r + i) % n \in Vertex(n) \ {r}
             /\ (r + i - 1) % n = Pred(n, (r + i) % n)
    <2>1. (r + i) % n = IF r + i < n THEN r + i ELSE r + i - n
        BY <1>0, ModSmall
    <2>2. (r + i - 1) % n = IF r + i - 1 < n THEN r + i - 1 ELSE r + i - 1 - n
        BY <1>0, ModSmall
    <2> QED BY <1>0, <2>1, <2>2 DEF Vertex, Pred
<1>2. A \subseteq B
    BY <1>1
<1>3. ASSUME NEW v \in Vertex(n) \ {r}
      PROVE  \E i \in 1 .. n - 1 : (r + i) % n = v
    <2> DEFINE i == IF v > r THEN v - r ELSE v - r + n
    <2>1. i \in 1 .. n - 1 /\ (r + i = v \/ r + i = v + n)
        BY <1>0 DEF Vertex
    <2>2. (r + i) % n = v
        BY <1>0, <2>1, ModSmall DEF Vertex
    <2> QED BY <2>1, <2>2
<1>4. B \subseteq A
    <2> SUFFICES ASSUME NEW v \in Vertex(n) \ {r} PROVE <<Pred(n, v), v>> \in A
        OBVIOUS
    <2>1. PICK i \in 1 .. n - 1 : (r + i) % n = v
        BY <1>3
    <2> QED BY <1>1, <2>1
<1> QED BY <1>2, <1>4

(* The rings: everyone's parent is the next vertex or the one before, and   *)
(* the way round to the root gets shorter.                                  *)
LEMMA CircularPairTree ==
    ASSUME NEW n \in Nat, NEW r \in Vertex(n)
    PROVE  IsTreePair(n, CircularPair(n, r), r)
<1> DEFINE V  == Vertex(n)
           RE == {<<(r + i) % n, (r + i + 1) % n>> : i \in 1 .. n - 1}
           BE == {<<(r + i - 1) % n, (r + i) % n>> : i \in 1 .. n - 1}
           rg == Build(GraphBuilder(n, RE), FALSE, TRUE)
           bg == Build(GraphBuilder(n, BE), FALSE, FALSE)
           next  == [v \in V |-> Succ(n, v)]
           prior == [v \in V |-> Pred(n, v)]
           ahead == [v \in V |-> IF v <= r THEN r - v ELSE r - v + n]
           since == [v \in V |-> IF v >= r THEN v - r ELSE v - r + n]
<1>0. n > 0 /\ r \in Nat /\ r < n /\ \A v \in V : v \in Nat /\ v < n
    BY DEF Vertex
<1>1. RE = {<<v, next[v]>> : v \in V \ {r}} /\ BE = {<<prior[v], v>> : v \in V \ {r}}
    BY RingReduceEdges, RingBroadcastEdges
<1>2. \A v \in V \ {r} : next[v] # v /\ prior[v] # v
    BY <1>0 DEF Succ, Pred, Vertex
<1>3. (\A e \in RE : e[1] # e[2]) /\ (\A e \in BE : e[1] # e[2])
    BY <1>1, <1>2
<1>4. rg.edges = RE /\ bg.edges = BE /\ rg.self_loop = V /\ bg.self_loop = {}
    <2> HIDE DEF RE, BE
    <2> QED BY <1>3 DEF Build, GraphBuilder
<1>5. Reversed(bg).edges = {<<v, prior[v]>> : v \in V \ {r}}
    <2>1. Reversed(bg).edges = {<<e[2], e[1]>> : e \in bg.edges}
        BY DEF Reversed, Build
    <2>2. ASSUME NEW e \in BE PROVE <<e[2], e[1]>> \in {<<v, prior[v]>> : v \in V \ {r}}
        <3>1. PICK v \in V \ {r} : e = <<prior[v], v>>
            BY <1>1
        <3> QED BY <3>1
    <2>3. ASSUME NEW v \in V \ {r} PROVE \E e \in BE : <<e[2], e[1]>> = <<v, prior[v]>>
        <3>1. <<prior[v], v>> \in BE
            BY <1>1
        <3> QED BY <3>1
    <2> HIDE DEF BE, bg, prior
    <2> QED BY <1>4, <2>1, <2>2, <2>3
<1>6. /\ ahead \in [V -> Nat] /\ since \in [V -> Nat]
      /\ \A v \in V \ {r} : /\ next[v] \in V /\ prior[v] \in V
                            /\ ahead[next[v]] < ahead[v] /\ since[prior[v]] < since[v]
    BY <1>0 DEF Succ, Pred, Vertex
<1>7. IsInTree(n, rg, r)
    <2> HIDE DEF RE, rg, next, ahead
    <2> QED BY <1>1, <1>4, <1>6, ParentTree
<1>8. IsInTree(n, Reversed(bg), r)
    <2> HIDE DEF bg, prior, since
    <2> QED BY <1>5, <1>6, ParentTree
<1>9. CircularPair(n, r).reduce_graph = rg /\ CircularPair(n, r).broadcast_graph = bg
    BY DEF CircularPair
<1> HIDE DEF rg, bg
<1> QED BY <1>4, <1>7, <1>8, <1>9 DEF IsTreePair, IsOutTree, SelfLoop

(* Whatever the strategy, the number of peers and the hash, choose() gives  *)
(* a pair of trees with a common root: the first pair's is rank 0, and the  *)
(* ring has a pair for every root.                                          *)
THEOREM ChosenPairIsTreePair ==
    ASSUME NEW n \in Nat, n > 0, NEW strategy, NEW hash \in Nat
    PROVE  /\ \E r \in Vertex(n) : IsTreePair(n, Choose(GraphPairList(strategy, n), hash), r)
           /\ IsTreePair(n, GraphPairList(strategy, n)[1], 0)
           /\ strategy = "ring" =>
                 \A r \in Vertex(n) : IsTreePair(n, Choose(GraphPairList(strategy, n), r), r)
<1>1. 0 \in Vertex(n)
    BY DEF Vertex
<1>2. CASE strategy = "ring"
    <2> DEFINE pairs == [k \in 1 .. n |-> CircularPair(n, k - 1)]
    <2>1. GraphPairList(strategy, n) = pairs /\ Len(pairs) = n
        BY <1>2 DEF GraphPairList, GraphPairListRing
    <2>2. ASSUME NEW k \in 1 .. n PROVE k - 1 \in Vertex(n) /\ IsTreePair(n, pairs[k], k - 1)
        <3>1. k - 1 \in Vertex(n)
            BY DEF Vertex
        <3> QED BY <3>1, CircularPairTree
    <2>3. hash % n \in 0 .. n - 1
        OBVIOUS
    <2>4. ASSUME NEW r \in Vertex(n) PROVE r % n = r /\ r + 1 \in 1 .. n /\ (r + 1) - 1 = r
        BY ModSmall DEF Vertex
    <2> HIDE DEF pairs
    <2>5. \E r \in Vertex(n) : IsTreePair(n, Choose(pairs, hash), r)
        <3>1. (hash % n) + 1 \in 1 .. n
            BY <2>3
        <3> QED BY <2>1, <2>2, <3>1 DEF Choose
    <2>6. IsTreePair(n, pairs[1], 0)
        <3>1. 1 \in 1 .. n /\ 1 - 1 = 0
            OBVIOUS
        <3> QED BY <2>2, <3>1
    <2>7. \A r \in Vertex(n) : IsTreePair(n, Choose(pairs, r), r)
        BY <2>1, <2>2, <2>4 DEF Choose
    <2> QED BY <2>1, <2>5, <2>6, <2>7
<1>3. CASE strategy # "ring"
    <2>1. GraphPairList(strategy, n) = <<StarPair(n, 0)>>
        BY <1>3 DEF GraphPairList, GraphPairListStar
    <2>2. hash % 1 = 0
        OBVIOUS
    <2>3. Choose(<<StarPair(n, 0)>>, hash) = StarPair(n, 0) /\ <<StarPair(n, 0)>>[1] = StarPair(n, 0)
        BY <2>2 DEF Choose
    <2> QED BY <1>1, <1>3, <2>1, <2>3, StarPairTree
<1> QED BY <1>2, <1>3

============================================================================
