------------------------ MODULE PooledRuntimeProofs ------------------------
(***************************************************************************)
(* ResultAfterContributions on both runtimes, for every session, strategy,  *)
(* size of the pools and list of operations.                                *)
(***************************************************************************)
EXTENDS PooledRuntime, TopologyProofs

Message  == Peer \X Peer \X Chunk \X {"reduce", "broadcast"}
Task     == [kind : {"recv", "send"}, chunk : Chunk, graph : {"reduce", "broadcast"}, peer : Peer]
PoolTask == Task \cup {ChunkTask(p, k) : p \in Peer, k \in Chunk}

(* What task t of peer p is for has happened when `ms' were sent. *)
Done(ms, p, t) ==
    IF t.kind = "recv" THEN Awaited(p, t) \in ms
                       ELSE <<p, t.peer, t.chunk, t.graph>> \in ms

(* A task of a step that its chunk has reached when the steps are `st'. *)
Reached(st, p, t) ==
    \E s \in 1 .. 4 : s <= st[p][t.chunk] /\ t \in Tasks(p, t.chunk, s)

TypeOK ==
    /\ rt \in {"async", "multi_thread"}
    /\ calls \in [Peer -> Seq(Chunk)]
    /\ active \in [Peer -> SUBSET Chunk]
    /\ queue \in [Peer -> Seq(PoolTask)]
    /\ running \in [Peer -> SUBSET PoolTask]
    /\ step \in [Peer -> [Chunk -> 1 .. 5]]
    /\ toAdd \in [Peer -> [Chunk -> SUBSET Task]]
    /\ left \in [Peer -> [Chunk -> SUBSET Task]]
    /\ sent \in SUBSET Message

(* The steps before the current one are over. *)
PastInv ==
    \A p \in Peer, k \in Chunk : \A s \in 1 .. 4 :
        s < step[p][k] => \A t \in Tasks(p, k, s) : Done(sent, p, t)

(* While a wait group is waited for, its tasks that have ended are done. *)
LeftInv ==
    \A p \in Peer, k \in Chunk : left[p][k] # {} =>
        /\ step[p][k] <= 4
        /\ left[p][k] \subseteq Tasks(p, k, step[p][k])
        /\ \A t \in Tasks(p, k, step[p][k]) \ left[p][k] : Done(sent, p, t)

(* Nothing is in a pool before its chunk has reached its step. *)
PoolInv ==
    \A p \in Peer :
        /\ \A t \in running[p] : t.kind # "chunk" => Reached(step, p, t)
        /\ \A i \in 1 .. Len(queue[p]) : queue[p][i].kind # "chunk" => Reached(step, p, queue[p][i])
        /\ \A k \in Chunk : \A t \in toAdd[p][k] : Reached(step, p, t)

(* A message shows how far its sender is. *)
SentInv ==
    \A m \in sent : step[m[1]][m[3]] >= IF m[4] = "reduce" THEN 2 ELSE 4

(* The inductive invariant. *)
RuntimeInv == TypeOK /\ PastInv /\ LeftInv /\ PoolInv /\ SentInv

----------------------------------------------------------------------------

(* Peers are the vertices of the graphs, chunks are numbered. *)
LEMMA Constants ==
    /\ N \in Nat /\ N > 0
    /\ Chunk \subseteq Nat
    /\ Peer = Vertex(N)
    BY SizesAssumption, ChunkAssumption DEF Peer, Vertex

(* The four steps of a chunk: receives and sends of the reduce graph, then *)
(* of the broadcast graph.                                                 *)
LEMMA StepsAre ==
    /\ Len(Steps) = 4
    /\ Steps[1].kind = "recv" /\ Steps[1].graph = "reduce"
    /\ Steps[2].kind = "send" /\ Steps[2].graph = "reduce"
    /\ Steps[3].kind = "recv" /\ Steps[3].graph = "broadcast"
    /\ Steps[4].kind = "send" /\ Steps[4].graph = "broadcast"
    /\ ~Steps[3].par
    /\ Steps[1].par /\ Steps[2].par /\ Steps[4].par
    BY DEF Steps

(* The graphs of a chunk are trees with a common root. *)
LEMMA ChunkTrees ==
    ASSUME NEW k \in Chunk
    PROVE  \E r \in Peer : /\ IsInTree(N, GraphOf(k, "reduce"), r)
                           /\ IsOutTree(N, GraphOf(k, "broadcast"), r)
<1>1. k \in Nat /\ N \in Nat /\ N > 0
    BY Constants
<1>2. PICK r \in Vertex(N) : IsTreePair(N, Choose(Pairs, k), r)
    BY <1>1, ChosenPairIsTreePair DEF Pairs
<1>3. /\ GraphOf(k, "reduce") = Choose(Pairs, k).reduce_graph
      /\ GraphOf(k, "broadcast") = Choose(Pairs, k).broadcast_graph
    BY DEF GraphOf
<1> QED BY <1>2, <1>3, Constants DEF IsTreePair

(* Their edges join peers. *)
LEMMA Neighbours ==
    ASSUME NEW k \in Chunk, NEW p, NEW graph \in {"reduce", "broadcast"}
    PROVE  /\ Nexts(GraphOf(k, graph), p) \subseteq Peer
           /\ Prevs(GraphOf(k, graph), p) \subseteq Peer
<1> DEFINE g == GraphOf(k, graph)
<1>1. PICK r \in Peer : /\ IsInTree(N, GraphOf(k, "reduce"), r)
                        /\ IsOutTree(N, GraphOf(k, "broadcast"), r)
    BY ChunkTrees
<1>2. ASSUME NEW e \in g.edges PROVE e[1] \in Peer /\ e[2] \in Peer
    <2>1. CASE graph = "reduce"
        <3>1. g.edges \subseteq Vertex(N) \X Vertex(N)
            BY <1>1, <2>1 DEF IsInTree
        <3> QED BY <1>2, <3>1, Constants
    <2>2. CASE graph = "broadcast"
        <3>1. Reversed(g).edges \subseteq Vertex(N) \X Vertex(N)
            BY <1>1, <2>2 DEF IsOutTree, IsInTree
        <3>2. Reversed(g).edges = {<<d[2], d[1]>> : d \in g.edges}
            BY DEF Reversed
        <3> HIDE DEF g
        <3>3. <<e[2], e[1]>> \in Vertex(N) \X Vertex(N)
            BY <1>2, <3>1, <3>2
        <3> QED BY <3>3, Constants
    <2> QED BY <2>1, <2>2
<1> HIDE DEF g
<1> QED BY <1>2 DEF g, Nexts, Prevs

(* A task of a step carries the step's chunk, kind and graph. *)
LEMMA TaskFacts ==
    ASSUME NEW p \in Peer, NEW k \in Chunk, NEW s \in 1 .. 4, NEW t \in Tasks(p, k, s)
    PROVE  t \in Task /\ t.chunk = k /\ t.kind = Steps[s].kind /\ t.graph = Steps[s].graph
<1> DEFINE g == GraphOf(k, Steps[s].graph)
           P == IF Steps[s].kind = "recv" THEN Prevs(g, p) ELSE Nexts(g, p)
<1>1. Steps[s].kind \in {"recv", "send"} /\ Steps[s].graph \in {"reduce", "broadcast"}
    <2>1. s = 1 \/ s = 2 \/ s = 3 \/ s = 4
        OBVIOUS
    <2> QED BY <2>1, StepsAre
<1>2. P \subseteq Peer
    BY <1>1, Neighbours
<1>3. PICK q \in P : t = [kind |-> Steps[s].kind, chunk |-> k, graph |-> Steps[s].graph, peer |-> q]
    BY DEF Tasks
<1> HIDE DEF P
<1> QED BY <1>1, <1>2, <1>3 DEF Task

(* The step of a task shows in its kind and graph. *)
LEMMA TaskStep ==
    ASSUME NEW p \in Peer, NEW k \in Chunk, NEW s \in 1 .. 4, NEW t \in Tasks(p, k, s)
    PROVE  /\ t.kind = "send" /\ t.graph = "reduce" => s = 2
           /\ t.kind = "send" /\ t.graph = "broadcast" => s = 4
<1>1. s = 1 \/ s = 2 \/ s = 3 \/ s = 4
    OBVIOUS
<1>2. t.kind = Steps[s].kind /\ t.graph = Steps[s].graph
    BY TaskFacts
<1> QED BY <1>1, <1>2, StepsAre

(* What holds of every predecessor when a receiving step is over. *)
LEMMA ReceivedFrom ==
    ASSUME NEW p \in Peer, NEW k \in Chunk, NEW s \in {1, 3}, NEW ms,
           \A t \in Tasks(p, k, s) : Done(ms, p, t),
           NEW q \in Prevs(GraphOf(k, Steps[s].graph), p)
    PROVE  <<q, p, k, Steps[s].graph>> \in ms
<1> DEFINE t == [kind |-> Steps[s].kind, chunk |-> k, graph |-> Steps[s].graph, peer |-> q]
<1>1. Steps[s].kind = "recv"
    BY StepsAre
<1>2. t \in Tasks(p, k, s)
    BY <1>1 DEF Tasks
<1>3. Done(ms, p, t)
    BY <1>2
<1> QED BY <1>1, <1>3 DEF Done, Awaited

(* A task whose message has been sent stays done. *)
LEMMA DoneMonotone ==
    ASSUME NEW ms, NEW ms2, ms \subseteq ms2, NEW p, NEW t, Done(ms, p, t)
    PROVE  Done(ms2, p, t)
    BY DEF Done

(* A task that a chunk has reached stays reached. *)
LEMMA ReachedMonotone ==
    ASSUME NEW st \in [Peer -> [Chunk -> 1 .. 5]], NEW st2 \in [Peer -> [Chunk -> 1 .. 5]],
           \A p \in Peer, k \in Chunk : st[p][k] <= st2[p][k],
           NEW p \in Peer, NEW t, t.chunk \in Chunk, Reached(st, p, t)
    PROVE  Reached(st2, p, t)
<1>1. PICK s \in 1 .. 4 : s <= st[p][t.chunk] /\ t \in Tasks(p, t.chunk, s)
    BY DEF Reached
<1>2. s <= st2[p][t.chunk]
    <2>1. st[p][t.chunk] \in 1 .. 5 /\ st2[p][t.chunk] \in 1 .. 5
        OBVIOUS
    <2> QED BY <1>1, <2>1
<1> QED BY <1>1, <1>2 DEF Reached

(* First(T) is part of T. *)
LEMMA FirstIn == \A T : First(T) \subseteq T
    BY DEF First

(* A task that a thread runs is a task of a step that was reached. *)
LEMMA CurrentReached ==
    ASSUME RuntimeInv, NEW p \in Peer, NEW t \in Current(p), t.kind # "chunk"
    PROVE  t \in Task /\ Reached(step, p, t)
<1>1. CASE t \in running[p]
    <2>1. t \in PoolTask
        BY <1>1 DEF RuntimeInv, TypeOK
    <2>2. t \in Task
        BY <2>1 DEF PoolTask, ChunkTask
    <2> QED BY <1>1, <2>2 DEF RuntimeInv, PoolInv
<1>2. CASE t \notin running[p]
    <2>1. PICK k \in active[p] : t \in left[p][k] /\ left[p][k] # {}
        BY <1>2 DEF Current
    <2>2. k \in Chunk
        BY <2>1 DEF RuntimeInv, TypeOK
    <2>3. step[p][k] <= 4 /\ t \in Tasks(p, k, step[p][k])
        BY <2>1, <2>2 DEF RuntimeInv, LeftInv
    <2>4. step[p][k] \in 1 .. 5 /\ step[p][k] <= step[p][k] /\ step[p][k] \in 1 .. 4
        <3>1. step[p][k] \in 1 .. 5
            BY <2>2 DEF RuntimeInv, TypeOK
        <3> QED BY <2>3, <3>1
    <2>5. t \in Task /\ t.chunk = k
        BY <2>2, <2>3, <2>4, TaskFacts
    <2> QED BY <2>3, <2>4, <2>5 DEF Reached
<1> QED BY <1>1, <1>2

----------------------------------------------------------------------------

(* The invariant holds before the first call. *)
LEMMA RuntimeInvInit == Init => RuntimeInv
<1> SUFFICES ASSUME Init PROVE RuntimeInv
    OBVIOUS
<1>1. TypeOK
    <2>1. PICK c \in Sessions : rt = c.rt /\ calls = c.calls
        BY DEF Init
    <2>2. rt \in {"async", "multi_thread"} /\ calls \in [Peer -> Seq(Chunk)]
        BY <2>1, SessionsAssumption
    <2>3. active \in [Peer -> SUBSET Chunk] /\ running \in [Peer -> SUBSET PoolTask]
        BY DEF Init
    <2>4. queue \in [Peer -> Seq(PoolTask)]
        BY DEF Init
    <2>5. step \in [Peer -> [Chunk -> 1 .. 5]]
        BY DEF Init
    <2>6. toAdd \in [Peer -> [Chunk -> SUBSET Task]] /\ left \in [Peer -> [Chunk -> SUBSET Task]]
        BY DEF Init
    <2>7. sent \in SUBSET Message
        BY DEF Init
    <2> QED BY <2>2, <2>3, <2>4, <2>5, <2>6, <2>7 DEF TypeOK
<1>2. PastInv
    BY DEF Init, PastInv
<1>3. LeftInv
    BY DEF Init, LeftInv
<1>4. PoolInv
    BY DEF Init, PoolInv
<1>5. SentInv
    BY DEF Init, SentInv
<1> QED BY <1>1, <1>2, <1>3, <1>4, <1>5 DEF RuntimeInv

(* Taking the next future of the list keeps the invariant. *)
LEMMA AllReduceStep ==
    ASSUME RuntimeInv, NEW p \in Peer, AllReduce(p)
    PROVE  RuntimeInv'
<1> DEFINE k == Head(calls[p])
<1>1. k \in Chunk /\ Tail(calls[p]) \in Seq(Chunk)
    BY DEF RuntimeInv, TypeOK, AllReduce
<1>2. ChunkTask(p, k) \in PoolTask /\ ChunkTask(p, k).kind = "chunk"
    BY <1>1 DEF PoolTask, ChunkTask
<1> HIDE DEF k
<1>3. TypeOK'
    <2>1. calls' \in [Peer -> Seq(Chunk)]
        BY <1>1 DEF RuntimeInv, TypeOK, AllReduce, k
    <2>2. active' \in [Peer -> SUBSET Chunk]
        BY <1>1 DEF RuntimeInv, TypeOK, AllReduce, k
    <2>3. queue' \in [Peer -> Seq(PoolTask)]
        <3>1. queue \in [Peer -> Seq(PoolTask)] /\ Append(queue[p], ChunkTask(p, k)) \in Seq(PoolTask)
            BY <1>2 DEF RuntimeInv, TypeOK
        <3> QED BY <3>1 DEF AllReduce, k
    <2> QED BY <2>1, <2>2, <2>3 DEF RuntimeInv, TypeOK, AllReduce
<1>4. PastInv' /\ LeftInv' /\ SentInv'
    BY DEF RuntimeInv, PastInv, LeftInv, SentInv, AllReduce
<1>5. ASSUME NEW q \in Peer, NEW i \in 1 .. Len(queue'[q]), queue'[q][i].kind # "chunk"
      PROVE  Reached(step, q, queue'[q][i])
    <2>1. queue \in [Peer -> Seq(PoolTask)]
        BY DEF RuntimeInv, TypeOK
    <2>2. queue'[q] = queue[q] \/ queue'[q] = Append(queue[q], ChunkTask(p, k))
        BY <2>1 DEF AllReduce, k
    <2>3. i \in 1 .. Len(queue[q]) /\ queue'[q][i] = queue[q][i]
        BY <1>2, <1>5, <2>1, <2>2
    <2> QED BY <1>5, <2>3 DEF RuntimeInv, PoolInv
<1>6. PoolInv'
    BY <1>5 DEF RuntimeInv, PoolInv, AllReduce
<1> QED BY <1>3, <1>4, <1>6 DEF RuntimeInv

(* A worker that takes the first task of the queue keeps the invariant. *)
LEMMA TakeStep ==
    ASSUME RuntimeInv, NEW p \in Peer, Take(p)
    PROVE  RuntimeInv'
<1>1. queue \in [Peer -> Seq(PoolTask)] /\ running \in [Peer -> SUBSET PoolTask]
    BY DEF RuntimeInv, TypeOK
<1>2. /\ queue[p] \in Seq(PoolTask) /\ queue[p] # <<>>
      /\ queue' = [queue EXCEPT ![p] = Tail(queue[p])]
      /\ running' = [running EXCEPT ![p] = running[p] \cup {Head(queue[p])}]
    BY <1>1 DEF Take
<1>3. /\ Head(queue[p]) = queue[p][1] /\ Head(queue[p]) \in PoolTask
      /\ Tail(queue[p]) \in Seq(PoolTask)
      /\ 1 \in 1 .. Len(queue[p])
      /\ \A i \in 1 .. Len(Tail(queue[p])) :
            i + 1 \in 1 .. Len(queue[p]) /\ Tail(queue[p])[i] = queue[p][i + 1]
    BY <1>2
<1>4. TypeOK'
    <2>1. queue' \in [Peer -> Seq(PoolTask)] 
        BY <1>1, <1>2, <1>3
    <2>2. running' \in [Peer -> SUBSET PoolTask]
        BY <1>1, <1>2, <1>3
    <2> QED BY <2>1, <2>2 DEF RuntimeInv, TypeOK, Take
<1>5. PastInv' /\ LeftInv' /\ SentInv'
    BY DEF RuntimeInv, PastInv, LeftInv, SentInv, Take
<1>6. ASSUME NEW q \in Peer, NEW t \in running'[q], t.kind # "chunk"
      PROVE  Reached(step, q, t)
    <2>1. t \in running[q] \/ (q = p /\ t = queue[p][1])
        BY <1>1, <1>2, <1>3
    <2> QED BY <1>3, <1>6, <2>1 DEF RuntimeInv, PoolInv
<1>7. ASSUME NEW q \in Peer, NEW i \in 1 .. Len(queue'[q]), queue'[q][i].kind # "chunk"
      PROVE  Reached(step, q, queue'[q][i])
    <2>1. CASE q = p
        <3>1. queue'[q] = Tail(queue[p])
            BY <1>1, <1>2, <2>1
        <3> QED BY <1>3, <1>7, <2>1, <3>1 DEF RuntimeInv, PoolInv
    <2>2. CASE q # p
        <3>1. queue'[q] = queue[q]
            BY <1>1, <1>2, <2>2
        <3> QED BY <1>7, <3>1 DEF RuntimeInv, PoolInv
    <2> QED BY <2>1, <2>2
<1>8. PoolInv'
    BY <1>6, <1>7 DEF RuntimeInv, PoolInv, Take
<1> QED BY <1>4, <1>5, <1>8 DEF RuntimeInv

(* Starting a parallel step keeps the invariant. *)
LEMMA ForkStepStep ==
    ASSUME RuntimeInv, NEW p \in Peer, NEW k \in Chunk, ForkStep(p, k)
    PROVE  RuntimeInv'
<1> DEFINE s == step[p][k]
           T == Tasks(p, k, s)
<1>1. s \in 1 .. 4
    <2>1. s \in 1 .. 5
        BY DEF RuntimeInv, TypeOK
    <2> QED BY <2>1, StepsAre DEF ForkStep, RunsStep
<1>2. T \subseteq Task
    BY <1>1, TaskFacts
<1>3. /\ left' = [left EXCEPT ![p] = [left[p] EXCEPT ![k] = T]]
      /\ \E A \in SUBSET T : toAdd' = [toAdd EXCEPT ![p] = [toAdd[p] EXCEPT ![k] = A]]
    <2>1. T \ First(T) \subseteq T
        OBVIOUS
    <2> HIDE DEF T
    <2> QED BY <2>1 DEF ForkStep, T
<1>4. PICK A \in SUBSET T : toAdd' = [toAdd EXCEPT ![p] = [toAdd[p] EXCEPT ![k] = A]]
    BY <1>3
<1>5. \A t \in T : Reached(step, p, t)
    <2> SUFFICES ASSUME NEW t \in T PROVE Reached(step, p, t)
        OBVIOUS
    <2>1. t.chunk = k /\ s <= s
        BY <1>1, TaskFacts
    <2> QED BY <1>1, <2>1 DEF Reached
<1> HIDE DEF T
<1>6. TypeOK'
    <2>1. left' \in [Peer -> [Chunk -> SUBSET Task]]
        BY <1>2, <1>3 DEF RuntimeInv, TypeOK
    <2>2. toAdd' \in [Peer -> [Chunk -> SUBSET Task]]
        BY <1>2, <1>4 DEF RuntimeInv, TypeOK
    <2> QED BY <2>1, <2>2 DEF RuntimeInv, TypeOK, ForkStep
<1>7. PastInv' /\ SentInv'
    BY DEF RuntimeInv, PastInv, SentInv, ForkStep
<1>8. LeftInv'
    <2>1. left \in [Peer -> [Chunk -> SUBSET Task]]
        BY DEF RuntimeInv, TypeOK
    <2> SUFFICES ASSUME NEW q \in Peer, NEW l \in Chunk, left'[q][l] # {}
                 PROVE  /\ step[q][l] <= 4
                        /\ left'[q][l] \subseteq Tasks(q, l, step[q][l])
                        /\ \A t \in Tasks(q, l, step[q][l]) \ left'[q][l] : Done(sent, q, t)
        BY DEF LeftInv, ForkStep
    <2>2. CASE q = p /\ l = k
        <3>1. left'[q][l] = T
            BY <1>3, <2>1, <2>2
        <3> QED BY <1>1, <2>2, <3>1 DEF T
    <2>3. CASE ~(q = p /\ l = k)
        <3>1. left'[q][l] = left[q][l]
            BY <1>3, <2>1, <2>3
        <3> QED BY <3>1 DEF RuntimeInv, LeftInv
    <2> QED BY <2>2, <2>3
<1>9. ASSUME NEW q \in Peer, NEW l \in Chunk, NEW t \in toAdd'[q][l]
      PROVE  Reached(step, q, t)
    <2>1. toAdd \in [Peer -> [Chunk -> SUBSET Task]]
        BY DEF RuntimeInv, TypeOK
    <2>2. t \in toAdd[q][l] \/ (q = p /\ t \in T)
        BY <1>4, <2>1
    <2> QED BY <1>5, <2>2 DEF RuntimeInv, PoolInv
<1>10. PoolInv'
    BY <1>9 DEF RuntimeInv, PoolInv, ForkStep
<1> QED BY <1>6, <1>7, <1>8, <1>10 DEF RuntimeInv

(* Adding one task of a step to the pool keeps the invariant. *)
LEMMA AddTaskStep ==
    ASSUME RuntimeInv, NEW p \in Peer, NEW k \in Chunk, AddTask(p, k)
    PROVE  RuntimeInv'
<1>1. PICK t \in First(toAdd[p][k]) :
          /\ toAdd' = [toAdd EXCEPT ![p][k] = @ \ {t}]
          /\ queue' = [queue EXCEPT ![p] = Append(@, t)]
          /\ UNCHANGED <<rt, calls, active, running, step, left, sent>>
    BY DEF AddTask
<1>2. /\ queue \in [Peer -> Seq(PoolTask)]
      /\ toAdd \in [Peer -> [Chunk -> SUBSET Task]]
    BY DEF RuntimeInv, TypeOK
<1>3. t \in toAdd[p][k]
    BY FirstIn
<1>4. t \in Task /\ t \in PoolTask /\ Reached(step, p, t)
    BY <1>2, <1>3 DEF RuntimeInv, PoolInv, PoolTask
<1>5. TypeOK'
    <2>1. queue' \in [Peer -> Seq(PoolTask)]
        BY <1>1, <1>2, <1>4
    <2>2. toAdd' \in [Peer -> [Chunk -> SUBSET Task]]
        BY <1>1, <1>2
    <2> QED BY <1>1, <2>1, <2>2 DEF RuntimeInv, TypeOK
<1>6. PastInv' /\ LeftInv' /\ SentInv'
    BY <1>1 DEF RuntimeInv, PastInv, LeftInv, SentInv
<1>7. ASSUME NEW q \in Peer, NEW i \in 1 .. Len(queue'[q]), queue'[q][i].kind # "chunk"
      PROVE  Reached(step, q, queue'[q][i])
    <2>1. CASE q = p
        <3>1. queue'[q] = Append(queue[p], t) /\ queue[p] \in Seq(PoolTask)
            BY <1>1, <1>2, <2>1
        <3>2. \/ i \in 1 .. Len(queue[p]) /\ queue'[q][i] = queue[p][i]
              \/ queue'[q][i] = t
            BY <3>1
        <3> QED BY <1>4, <1>7, <2>1, <3>2 DEF RuntimeInv, PoolInv
    <2>2. CASE q # p
        <3>1. queue'[q] = queue[q]
            BY <1>1, <1>2, <2>2
        <3> QED BY <1>7, <3>1 DEF RuntimeInv, PoolInv
    <2> QED BY <2>1, <2>2
<1>8. ASSUME NEW q \in Peer, NEW l \in Chunk, NEW u \in toAdd'[q][l]
      PROVE  Reached(step, q, u)
    <2>1. u \in toAdd[q][l]
        BY <1>1, <1>2
    <2> QED BY <2>1 DEF RuntimeInv, PoolInv
<1>9. PoolInv'
    BY <1>1, <1>7, <1>8 DEF RuntimeInv, PoolInv
<1> QED BY <1>5, <1>6, <1>9 DEF RuntimeInv

(* A chunk goes on to its next step, or stays; messages are only added:     *)
(* what was reached stays reached, and senders do not fall back.            *)
LEMMA Progress ==
    ASSUME RuntimeInv,
           step' \in [Peer -> [Chunk -> 1 .. 5]],
           \A p \in Peer, k \in Chunk : step[p][k] <= step'[p][k],
           toAdd' = toAdd, queue' = queue,
           \A p \in Peer : running'[p] \subseteq running[p]
    PROVE  /\ PoolInv'
           /\ \A m \in sent : step'[m[1]][m[3]] >= IF m[4] = "reduce" THEN 2 ELSE 4
<1>1. step \in [Peer -> [Chunk -> 1 .. 5]]
    BY DEF RuntimeInv, TypeOK
<1>2. ASSUME NEW q \in Peer, NEW t \in PoolTask, t.kind # "chunk", Reached(step, q, t)
      PROVE  Reached(step', q, t)
    <2>1. t.chunk \in Chunk
        BY <1>2 DEF PoolTask, Task, ChunkTask
    <2> QED BY <1>1, <1>2, <2>1, ReachedMonotone
<1>3. /\ running \in [Peer -> SUBSET PoolTask]
      /\ queue \in [Peer -> Seq(PoolTask)]
      /\ toAdd \in [Peer -> [Chunk -> SUBSET Task]]
    BY DEF RuntimeInv, TypeOK
<1>4. PoolInv'
    <2>1. ASSUME NEW q \in Peer, NEW t \in running'[q], t.kind # "chunk"
          PROVE  Reached(step', q, t)
        <3>1. t \in running[q] /\ t \in PoolTask
            BY <1>3
        <3> QED BY <1>2, <2>1, <3>1 DEF RuntimeInv, PoolInv
    <2>2. ASSUME NEW q \in Peer, NEW i \in 1 .. Len(queue[q]), queue[q][i].kind # "chunk"
          PROVE  Reached(step', q, queue[q][i])
        <3>1. queue[q][i] \in PoolTask
            BY <1>3
        <3> QED BY <1>2, <2>2, <3>1 DEF RuntimeInv, PoolInv
    <2>3. ASSUME NEW q \in Peer, NEW k \in Chunk, NEW t \in toAdd[q][k]
          PROVE  Reached(step', q, t)
        <3>1. t \in PoolTask /\ t.kind # "chunk"
            BY <1>3 DEF PoolTask, Task
        <3> QED BY <1>2, <3>1 DEF RuntimeInv, PoolInv
    <2> QED BY <2>1, <2>2, <2>3 DEF PoolInv
<1>5. ASSUME NEW m \in sent
      PROVE  step'[m[1]][m[3]] >= IF m[4] = "reduce" THEN 2 ELSE 4
    <2>1. m[1] \in Peer /\ m[3] \in Chunk
        BY DEF RuntimeInv, TypeOK, Message
    <2>2. step[m[1]][m[3]] \in 1 .. 5 /\ step'[m[1]][m[3]] \in 1 .. 5
        BY <1>1, <2>1
    <2>3. step[m[1]][m[3]] >= IF m[4] = "reduce" THEN 2 ELSE 4
        BY DEF RuntimeInv, SentInv
    <2> QED BY <2>1, <2>2, <2>3
<1> QED BY <1>4, <1>5

(* A step that the chunk's thread runs by itself keeps the invariant. *)
LEMMA InlineStepStep ==
    ASSUME RuntimeInv, NEW p \in Peer, NEW k \in Chunk, InlineStep(p, k)
    PROVE  RuntimeInv'
<1> DEFINE s == step[p][k]
           T == Tasks(p, k, s)
<1>1. step \in [Peer -> [Chunk -> 1 .. 5]]
    BY DEF RuntimeInv, TypeOK
<1>2. s \in 1 .. 4 /\ left[p][k] = {}
    <2>1. s \in 1 .. 5
        BY <1>1
    <2> QED BY <2>1, StepsAre DEF InlineStep, RunsStep
<1>3. step' = [step EXCEPT ![p] = [step[p] EXCEPT ![k] = s + 1]]
    BY DEF InlineStep
<1>4. \A t \in T : Done(sent, p, t)
    <2> SUFFICES ASSUME NEW t \in T PROVE Done(sent, p, t)
        OBVIOUS
    <2>1. ~Steps[s].par /\ Awaited(p, t) \in sent
        BY DEF InlineStep
    <2>2. s = 3
        <3>1. s = 1 \/ s = 2 \/ s = 3 \/ s = 4
            BY <1>2
        <3> QED BY <2>1, <3>1, StepsAre
    <2>3. t.kind = "recv"
        BY <1>2, <2>2, TaskFacts, StepsAre
    <2> QED BY <2>1, <2>3 DEF Done
<1> HIDE DEF T
<1>5. step' \in [Peer -> [Chunk -> 1 .. 5]]
    <2>1. s + 1 \in 1 .. 5
        BY <1>2
    <2> QED BY <1>1, <1>3, <2>1
<1>6. /\ step'[p][k] = s + 1
      /\ \A q \in Peer, l \in Chunk : ~(q = p /\ l = k) => step'[q][l] = step[q][l]
    BY <1>1, <1>3
<1>7. \A q \in Peer, l \in Chunk : step[q][l] <= step'[q][l]
    <2>1. \A q \in Peer, l \in Chunk : step[q][l] \in Nat
        BY <1>1
    <2> QED BY <1>2, <1>6, <2>1
<1>8. TypeOK'
    BY <1>5 DEF RuntimeInv, TypeOK, InlineStep
<1>9. PoolInv' /\ SentInv'
    <2>1. toAdd' = toAdd /\ queue' = queue /\ running' = running /\ sent' = sent
        BY DEF InlineStep
    <2>2. \A q \in Peer : running'[q] \subseteq running[q]
        BY <2>1
    <2> QED BY <1>5, <1>7, <2>1, <2>2, Progress DEF SentInv
<1>10. PastInv'
    <2> SUFFICES ASSUME NEW q \in Peer, NEW l \in Chunk, NEW z \in 1 .. 4,
                        z < step'[q][l], NEW t \in Tasks(q, l, z)
                 PROVE  Done(sent, q, t)
        BY DEF PastInv, InlineStep
    <2>1. CASE q = p /\ l = k /\ z = s
        BY <1>4, <2>1 DEF T
    <2>2. CASE ~(q = p /\ l = k /\ z = s)
        <3>1. z < step[q][l]
            <4>1. CASE q = p /\ l = k
                BY <1>2, <1>6, <2>2, <4>1
            <4>2. CASE ~(q = p /\ l = k)
                BY <1>6, <4>2
            <4> QED BY <4>1, <4>2
        <3> QED BY <3>1 DEF RuntimeInv, PastInv
    <2> QED BY <2>1, <2>2
<1>11. LeftInv'
    <2> SUFFICES ASSUME NEW q \in Peer, NEW l \in Chunk, left[q][l] # {}
                 PROVE  /\ step'[q][l] <= 4
                        /\ left[q][l] \subseteq Tasks(q, l, step'[q][l])
                        /\ \A t \in Tasks(q, l, step'[q][l]) \ left[q][l] : Done(sent, q, t)
        BY DEF LeftInv, InlineStep
    <2>1. step'[q][l] = step[q][l]
        BY <1>2, <1>6
    <2> QED BY <2>1 DEF RuntimeInv, LeftInv
<1> QED BY <1>8, <1>9, <1>10, <1>11 DEF RuntimeInv

(* A task that a thread of p runs ends: what it is for has happened, and    *)
(* the messages are those of before and perhaps its own.                    *)
LEMMA TaskDoneStep ==
    ASSUME RuntimeInv, NEW p \in Peer, NEW t \in Task, Reached(step, p, t),
           TaskDone(p, t), Done(sent', p, t), sent \subseteq sent',
           sent' \subseteq sent \cup
               (IF t.kind = "send" THEN {<<p, t.peer, t.chunk, t.graph>>} ELSE {})
    PROVE  RuntimeInv'
<1> DEFINE k == t.chunk
           s == step[p][k]
           L == left[p][k]
           ends == L = {t}
<1>1. k \in Chunk /\ t.peer \in Peer /\ t.graph \in {"reduce", "broadcast"}
    BY DEF Task
<1>2. /\ step \in [Peer -> [Chunk -> 1 .. 5]]
      /\ left \in [Peer -> [Chunk -> SUBSET Task]]
      /\ running \in [Peer -> SUBSET PoolTask]
      /\ sent \in SUBSET Message
    BY DEF RuntimeInv, TypeOK
<1>3. /\ running' = [running EXCEPT ![p] = running[p] \ {t}]
      /\ left' = [left EXCEPT ![p] = [left[p] EXCEPT ![k] = L \ {t}]]
      /\ ends => step' = [step EXCEPT ![p] = [step[p] EXCEPT ![k] = s + 1]]
      /\ ~ends => step' = step
      /\ UNCHANGED <<rt, calls, active, queue, toAdd>>
    BY DEF TaskDone
<1>4. s \in 1 .. 5
    BY <1>1, <1>2
<1>5. L # {} => /\ s <= 4
                /\ L \subseteq Tasks(p, k, s)
                /\ \A u \in Tasks(p, k, s) \ L : Done(sent, p, u)
    BY <1>1 DEF RuntimeInv, LeftInv
<1>6. \A u \in Tasks(p, k, s) \ (L \ {t}) : L # {} => Done(sent', p, u)
    BY <1>5, DoneMonotone
<1> HIDE DEF k, ends
<1>7. step' \in [Peer -> [Chunk -> 1 .. 5]]
    <2>1. CASE ends
        <3>1. s + 1 \in 1 .. 5
            BY <1>4, <1>5, <2>1 DEF ends
        <3>2. step' = [step EXCEPT ![p] = [step[p] EXCEPT ![k] = s + 1]]
            BY <1>3, <2>1
        <3>3. [step[p] EXCEPT ![k] = s + 1] \in [Chunk -> 1 .. 5]
            <4> HIDE DEF s
            <4> QED BY <1>2, <3>1
        <3> QED BY <1>2, <3>2, <3>3
    <2>2. CASE ~ends
        BY <1>2, <1>3, <2>2
    <2> QED BY <2>1, <2>2
<1>8. /\ ends => step'[p][k] = s + 1
      /\ \A q \in Peer, l \in Chunk : ~(q = p /\ l = k /\ ends) => step'[q][l] = step[q][l]
    BY <1>1, <1>2, <1>3
<1>9. \A q \in Peer, l \in Chunk : step[q][l] <= step'[q][l]
    <2>1. \A q \in Peer, l \in Chunk : step[q][l] \in Nat
        BY <1>2
    <2> QED BY <1>4, <1>8, <2>1
<1>10. /\ left'[p][k] = L \ {t}
       /\ \A q \in Peer, l \in Chunk : ~(q = p /\ l = k) => left'[q][l] = left[q][l]
    BY <1>1, <1>2, <1>3
<1>11. TypeOK'
    <2>1. running' \in [Peer -> SUBSET PoolTask]
        BY <1>2, <1>3
    <2>2. left' \in [Peer -> [Chunk -> SUBSET Task]]
        BY <1>1, <1>2, <1>3
    <2>3. sent' \in SUBSET Message
        <3>1. <<p, t.peer, t.chunk, t.graph>> \in Message
            BY <1>1 DEF Message, k
        <3> QED BY <1>2, <3>1
    <2> QED BY <1>3, <1>7, <2>1, <2>2, <2>3 DEF RuntimeInv, TypeOK
<1>12. /\ PoolInv'
       /\ \A m \in sent : step'[m[1]][m[3]] >= IF m[4] = "reduce" THEN 2 ELSE 4
    <2>1. toAdd' = toAdd /\ queue' = queue /\ \A q \in Peer : running'[q] \subseteq running[q]
        BY <1>2, <1>3
    <2> QED BY <1>7, <1>9, <2>1, Progress
<1>13. SentInv'
    <2>1. ASSUME t.kind = "send"
          PROVE  step'[p][k] >= IF t.graph = "reduce" THEN 2 ELSE 4
        <3>1. PICK z \in 1 .. 4 : z <= s /\ t \in Tasks(p, k, z)
            BY DEF Reached, k
        <3>2. z = IF t.graph = "reduce" THEN 2 ELSE 4
            BY <1>1, <2>1, <3>1, TaskStep
        <3>3. step'[p][k] \in 1 .. 5 /\ s <= step'[p][k]
            BY <1>1, <1>7, <1>9
        <3> QED BY <1>4, <3>1, <3>2, <3>3
    <2>2. ASSUME NEW m \in sent', m \notin sent
          PROVE  step'[m[1]][m[3]] >= IF m[4] = "reduce" THEN 2 ELSE 4
        <3>1. t.kind = "send" /\ m = <<p, t.peer, k, t.graph>>
            BY <2>2 DEF k
        <3>2. m[1] = p /\ m[3] = k /\ m[4] = t.graph
            BY <3>1
        <3> QED BY <2>1, <3>1, <3>2
    <2> QED BY <1>12, <2>2 DEF SentInv
<1>14. PastInv'
    <2> SUFFICES ASSUME NEW q \in Peer, NEW l \in Chunk, NEW z \in 1 .. 4,
                        z < step'[q][l], NEW u \in Tasks(q, l, z)
                 PROVE  Done(sent', q, u)
        BY DEF PastInv
    <2>1. CASE q = p /\ l = k /\ ends /\ z = s
        <3>1. L # {} /\ L \ {t} = {}
            BY <2>1 DEF ends
        <3> QED BY <1>6, <2>1, <3>1
    <2>2. CASE ~(q = p /\ l = k /\ ends /\ z = s)
        <3>1. z < step[q][l]
            <4>1. CASE q = p /\ l = k /\ ends
                BY <1>4, <1>8, <2>2, <4>1
            <4>2. CASE ~(q = p /\ l = k /\ ends)
                BY <1>8, <4>2
            <4> QED BY <4>1, <4>2
        <3>2. Done(sent, q, u)
            BY <3>1 DEF RuntimeInv, PastInv
        <3> QED BY <3>2, DoneMonotone
    <2> QED BY <2>1, <2>2
<1>15. LeftInv'
    <2> SUFFICES ASSUME NEW q \in Peer, NEW l \in Chunk, left'[q][l] # {}
                 PROVE  /\ step'[q][l] <= 4
                        /\ left'[q][l] \subseteq Tasks(q, l, step'[q][l])
                        /\ \A u \in Tasks(q, l, step'[q][l]) \ left'[q][l] : Done(sent', q, u)
        BY DEF LeftInv
    <2>1. CASE q = p /\ l = k
        <3>1. L \ {t} # {} /\ L # {} /\ ~ends
            BY <1>10, <2>1 DEF ends
        <3>2. step'[q][l] = s /\ left'[q][l] = L \ {t}
            BY <1>8, <1>10, <2>1, <3>1
        <3> QED BY <1>5, <1>6, <2>1, <3>1, <3>2
    <2>2. CASE ~(q = p /\ l = k)
        <3>1. step'[q][l] = step[q][l] /\ left'[q][l] = left[q][l]
            BY <1>8, <1>10, <2>2
        <3>2. /\ step[q][l] <= 4
              /\ left[q][l] \subseteq Tasks(q, l, step[q][l])
              /\ \A u \in Tasks(q, l, step[q][l]) \ left[q][l] : Done(sent, q, u)
            BY <3>1 DEF RuntimeInv, LeftInv
        <3> QED BY <3>1, <3>2, DoneMonotone
    <2> QED BY <2>1, <2>2
<1> QED BY <1>11, <1>12, <1>13, <1>14, <1>15 DEF RuntimeInv

(* A receive keeps the invariant: it ends when its message has been sent. *)
LEMMA RecvTaskStep ==
    ASSUME RuntimeInv, NEW p \in Peer, NEW t \in Current(p), RecvTask(p, t)
    PROVE  RuntimeInv'
<1>1. t.kind = "recv" /\ Awaited(p, t) \in sent /\ TaskDone(p, t) /\ sent' = sent
    BY DEF RecvTask
<1>2. t \in Task /\ Reached(step, p, t)
    BY <1>1, CurrentReached
<1>3. Done(sent', p, t)
    BY <1>1 DEF Done
<1> QED BY <1>1, <1>2, <1>3, TaskDoneStep

(* A send keeps the invariant: the sender has done all the receives of its *)
(* earlier steps.                                                          *)
LEMMA SendTaskStep ==
    ASSUME RuntimeInv, NEW p \in Peer, NEW t \in Current(p), SendTask(p, t)
    PROVE  RuntimeInv'
<1>1. /\ t.kind = "send" /\ TaskDone(p, t)
      /\ sent' = sent \cup {<<p, t.peer, t.chunk, t.graph>>}
    BY DEF SendTask
<1>2. t \in Task /\ Reached(step, p, t)
    BY <1>1, CurrentReached
<1>3. Done(sent', p, t)
    BY <1>1 DEF Done
<1> QED BY <1>1, <1>2, <1>3, TaskDoneStep

(* The return of a call keeps the invariant. *)
LEMMA ChunkDoneStep ==
    ASSUME RuntimeInv, NEW p \in Peer, NEW k \in Chunk, ChunkDone(p, k)
    PROVE  RuntimeInv'
<1>1. TypeOK'
    <2>1. running' \in [Peer -> SUBSET PoolTask]
        BY DEF RuntimeInv, TypeOK, ChunkDone
    <2>2. active' \in [Peer -> SUBSET Chunk]
        BY DEF RuntimeInv, TypeOK, ChunkDone
    <2> QED BY <2>1, <2>2 DEF RuntimeInv, TypeOK, ChunkDone
<1>2. PastInv' /\ LeftInv' /\ SentInv'
    BY DEF RuntimeInv, PastInv, LeftInv, SentInv, ChunkDone
<1>3. \A q \in Peer : running'[q] \subseteq running[q]
    BY DEF RuntimeInv, TypeOK, ChunkDone
<1>4. PoolInv'
    BY <1>3 DEF RuntimeInv, PoolInv, ChunkDone
<1> QED BY <1>1, <1>2, <1>4 DEF RuntimeInv

(* The invariant holds on both runtimes, whatever the session. *)
THEOREM RuntimeInvariant == Spec => []RuntimeInv
<1>1. RuntimeInv /\ [Next]_vars => RuntimeInv'
    <2> SUFFICES ASSUME RuntimeInv, [Next]_vars PROVE RuntimeInv'
        OBVIOUS
    <2>1. ASSUME NEW p \in Peer, PeerStep(p) PROVE RuntimeInv'
        BY <2>1, AllReduceStep, TakeStep, ForkStepStep, AddTaskStep, InlineStepStep,
           ChunkDoneStep, RecvTaskStep, SendTaskStep DEF PeerStep
    <2>2. CASE UNCHANGED vars
        BY <2>2 DEF vars, RuntimeInv, TypeOK, PastInv, LeftInv, PoolInv, SentInv
    <2> QED BY <2>1, <2>2 DEF Next, Terminated
<1> QED BY <1>1, RuntimeInvInit, PTL DEF Spec

(* No peer is sent the result of a chunk before every contribution to it    *)
(* has been sent.  Whoever has the result has it from a peer that had it,   *)
(* so the root had it; whoever has sent its contribution has received those *)
(* of its predecessors, and at the root that is everyone's.                 *)
THEOREM ContributionsFirst == Spec => []ResultAfterContributions
<1>1. ASSUME RuntimeInv, NEW m \in sent, m[4] = "broadcast", NEW p \in Peer,
             NEW q \in Nexts(GraphOf(m[3], "reduce"), p)
      PROVE  <<p, q, m[3], "reduce">> \in sent
    <2> DEFINE k  == m[3]
               rg == GraphOf(k, "reduce")
               bg == GraphOf(k, "broadcast")
    <2>1. k \in Chunk /\ m[1] \in Peer /\ step[m[1]][k] >= 4
        BY <1>1 DEF RuntimeInv, TypeOK, SentInv, Message
    <2> HIDE DEF k
    <2>2. PICK r \in Peer : IsInTree(N, rg, r) /\ IsOutTree(N, bg, r)
        BY <2>1, ChunkTrees
    <2>3. \A i \in Peer : step[i][k] \in 1 .. 5
        BY <1>1, <2>1 DEF RuntimeInv, TypeOK
    <2>4. \A a, b \in Peer : /\ <<a, b, k, "reduce">> \in sent => step[a][k] >= 2
                             /\ <<a, b, k, "broadcast">> \in sent => step[a][k] >= 4
        BY <1>1 DEF RuntimeInv, SentInv
    <2>5. ASSUME NEW i \in Peer, step[i][k] >= 4, NEW j \in Prevs(bg, i)
          PROVE  step[j][k] >= 4
        <3>1. 3 < step[i][k] /\ 3 \in 1 .. 4
            BY <2>3, <2>5
        <3>2. \A t \in Tasks(i, k, 3) : Done(sent, i, t)
            BY <1>1, <2>1, <3>1 DEF RuntimeInv, PastInv
        <3>3. <<j, i, k, "broadcast">> \in sent
            BY <2>1, <2>5, <3>2, ReceivedFrom, StepsAre
        <3> QED BY <2>1, <2>4, <2>5, <3>3, Neighbours
    <2>6. ASSUME NEW i \in Peer, step[i][k] >= 2, NEW j \in Prevs(rg, i)
          PROVE  <<j, i, k, "reduce">> \in sent /\ step[j][k] >= 2
        <3>1. 1 < step[i][k] /\ 1 \in 1 .. 4
            BY <2>3, <2>6
        <3>2. \A t \in Tasks(i, k, 1) : Done(sent, i, t)
            BY <1>1, <2>1, <3>1 DEF RuntimeInv, PastInv
        <3>3. <<j, i, k, "reduce">> \in sent
            BY <2>1, <2>6, <3>2, ReceivedFrom, StepsAre
        <3> QED BY <2>1, <2>4, <2>6, <3>3, Neighbours
    <2>7. step[r][k] >= 4
        <3> DEFINE S == {i \in Peer : ~(step[i][k] >= 4)}
        <3> SUFFICES ASSUME r \in S PROVE FALSE
            OBVIOUS
        <3>1. ASSUME NEW j \in S, NEW i \in Prevs(Reversed(bg), j) PROVE i \in S
            <4>1. PICK e \in Reversed(bg).edges : e[2] = j /\ e[1] = i
                BY <3>1 DEF Prevs
            <4>2. PICK d \in bg.edges : e = <<d[2], d[1]>>
                BY <4>1 DEF Reversed
            <4>3. d[1] = j /\ d[2] = i
                BY <4>1, <4>2
            <4>4. j \in Prevs(bg, i) /\ i \in Nexts(bg, j)
                BY <4>3 DEF Prevs, Nexts
            <4>5. i \in Peer
                BY <2>1, <4>4, Neighbours
            <4> QED BY <2>5, <4>4, <4>5
        <3>2. S \in SUBSET Vertex(N) /\ m[1] \in Vertex(N) /\ m[1] \notin S
            BY <2>1, Constants
        <3> HIDE DEF S
        <3>3. S = Vertex(N)
            BY <2>2, <3>1, <3>2 DEF IsOutTree, IsInTree
        <3> QED BY <3>2, <3>3
    <2>8. \A i \in Peer : step[i][k] >= 2
        <3> DEFINE S == {i \in Peer : step[i][k] >= 2}
        <3>1. r \in S
            BY <2>3, <2>7
        <3>2. ASSUME NEW j \in S PROVE Prevs(rg, j) \subseteq S
            BY <2>1, <2>6, Neighbours
        <3>3. S \in SUBSET Vertex(N)
            BY Constants
        <3> HIDE DEF S
        <3>4. S = Vertex(N)
            BY <2>2, <3>1, <3>2, <3>3 DEF IsInTree
        <3> QED BY <3>4, Constants DEF S
    <2>9. q \in Peer /\ p \in Prevs(rg, q)
        <3>1. q \in Nexts(rg, p)
            BY DEF k
        <3> HIDE DEF rg
        <3>2. p \in Prevs(rg, q)
            BY <3>1 DEF Nexts, Prevs
        <3> QED BY <2>1, <3>1, <3>2, Neighbours DEF rg
    <2> QED BY <2>6, <2>8, <2>9 DEF k
<1>2. RuntimeInv => ResultAfterContributions
    BY <1>1 DEF ResultAfterContributions
<1> QED BY <1>2, RuntimeInvariant, PTL

============================================================================
