---------------------------- MODULE PooledRuntime ----------------------------
(***************************************************************************)
(* group_all_reduce on the two runtimes that share a pool of fixed size     *)
(* among the operations in flight on a peer:                                *)
(*  - "async" (STDML_COLLECTIVE_USE_ASYNC): the chunk of every all_reduce,   *)
(*    and the sends and receives it fans out, are tasks of ONE pool; a step *)
(*    that is parallel_tasks::poll keeps the worker of its chunk waiting;    *)
(*  - "multi_thread" with STDML_COLLECTIVE_USE_THREAD_POOL: a chunk runs on  *)
(*    the thread that called all_reduce, which takes the first neighbour of  *)
(*    each step itself and leaves the others to the session's pool.         *)
(* The calls come from the threads of group_all_reduce, in the order in      *)
(* which each peer lists its futures; peers need not list them alike.       *)
(*                                                                         *)
(* A pool is a FIFO of tasks and the set of those that workers run          *)
(* (ThreadPool has its inside).  A message is in `sent' once its send task  *)
(* has run: each chunk has a name of its own and is reduced once, so a      *)
(* mailbox always has room; the receive buffer of a chunk's result is       *)
(* posted before the result can exist (async: by the constructor of          *)
(* recv_into; multi_thread: as soon as the peer's own contribution is sent), *)
(* so no handler thread is held up (Collective has both).                   *)
(***************************************************************************)
EXTENDS Integers, Sequences, FiniteSets, Topology

CONSTANTS
    N,          \* number of peers
    Workers,    \* workers of each asynchronous pool (8 in session's constructor)
    PoolSize,   \* workers of each session's pool (hardware_concurrency)
    Slots,      \* threads of group_all_reduce (76)
    Sessions,   \* [rt, calls]: a runtime, and the list of futures of each peer
    Strategy    \* "star" or "ring"

ASSUME SizesAssumption == {N, Workers, PoolSize, Slots} \subseteq Nat \ {0}

Peer  == 0 .. N - 1
Pairs == GraphPairList(Strategy, N)
Chunk == UNION {{c.calls[p][i] : i \in DOMAIN c.calls[p]} : c \in Sessions, p \in Peer}

(* All peers use one runtime and reduce the same chunks, each of them once. *)
(* A chunk is a number: the hash of its name, which chooses its graphs.     *)
ASSUME ChunkAssumption == Chunk \subseteq Nat
ASSUME SessionsAssumption ==
    \A c \in Sessions :
        /\ c.rt \in {"async", "multi_thread"}
        /\ c.calls \in [Peer -> Seq(Chunk)]
        /\ \A p, q \in Peer :
            /\ Len(c.calls[p]) = Len(c.calls[q])
            /\ \A i, j \in DOMAIN c.calls[p] : c.calls[p][i] = c.calls[p][j] => i = j
            /\ \A i \in DOMAIN c.calls[p] : \E j \in DOMAIN c.calls[q] :
                    c.calls[p][i] = c.calls[q][j]

(* The steps of a chunk on a peer (run_graphs_async and, in the same order,  *)
(* run_graphs_multi_thread): what is done, in which graph, and whether it   *)
(* is done in parallel.  The steps that only copy or free local data are    *)
(* left out.                                                                *)
Steps == <<[kind |-> "recv", graph |-> "reduce", par |-> TRUE],
           [kind |-> "send", graph |-> "reduce", par |-> TRUE],
           [kind |-> "recv", graph |-> "broadcast", par |-> FALSE],
           [kind |-> "send", graph |-> "broadcast", par |-> TRUE]>>

GraphOf(k, graph) ==
    IF graph = "reduce" THEN Choose(Pairs, k).reduce_graph
                        ELSE Choose(Pairs, k).broadcast_graph

(* The tasks of step s of chunk k on peer p: one for each neighbour. *)
Tasks(p, k, s) ==
    LET g     == GraphOf(k, Steps[s].graph)
        peers == IF Steps[s].kind = "recv" THEN Prevs(g, p) ELSE Nexts(g, p)
    IN  {[kind |-> Steps[s].kind, chunk |-> k, graph |-> Steps[s].graph, peer |-> q]
            : q \in peers}

ChunkTask(p, k) == [kind |-> "chunk", chunk |-> k, graph |-> "both", peer |-> p]

VARIABLES
    rt,         \* the runtime of this session (config_.rt, on all peers)
    calls,      \* calls[p]: futures whose task no thread of the group has taken
    active,     \* active[p]: chunks whose all_reduce is in progress on p
    queue,      \* queue[p]: tasks waiting in p's pool
    running,    \* running[p]: tasks that a worker of p runs or waits in
    step,       \* step[p][k]: current step of chunk k
    toAdd,      \* toAdd[p][k]: tasks of the current step not yet in the pool
    left,       \* left[p][k]: tasks of the current step not yet finished
    sent        \* messages sent so far: <<from, to, chunk, graph>>

vars == <<rt, calls, active, queue, running, step, toAdd, left, sent>>

(* The message that a receive task of peer p waits for. *)
Awaited(p, t) == <<t.peer, p, t.chunk, t.graph>>

----------------------------------------------------------------------------

(* A thread of group_all_reduce takes the next future and calls             *)
(* all_reduce: run_graph_pair_list_async adds the chunk to the pool (rt->par) *)
(* and waits, run_graph_pair_list_multi_thread runs it in this thread.      *)
AllReduce(p) ==
    LET k == Head(calls[p])
    IN  /\ calls[p] # <<>>
        /\ Cardinality(active[p]) < Slots
        /\ calls' = [calls EXCEPT ![p] = Tail(@)]
        /\ active' = [active EXCEPT ![p] = @ \cup {k}]
        /\ queue' = IF rt = "async"
                    THEN [queue EXCEPT ![p] = Append(@, ChunkTask(p, k))]
                    ELSE queue
        /\ UNCHANGED <<rt, running, step, toAdd, left, sent>>

(* Mutant of Take: the constructor of the pool starts one worker less. *)
TakeOneLess(p) ==
    /\ Cardinality(running[p]) + 1 < (IF rt = "async" THEN Workers ELSE PoolSize)
    /\ queue[p] # <<>>
    /\ running' = [running EXCEPT ![p] = @ \cup {Head(queue[p])}]
    /\ queue' = [queue EXCEPT ![p] = Tail(@)]
    /\ UNCHANGED <<rt, calls, active, step, toAdd, left, sent>>

(* thread_pool_impl::worker: an idle worker takes the next task. *)
Take(p) ==
    /\ Cardinality(running[p]) < (IF rt = "async" THEN Workers ELSE PoolSize)
    /\ queue[p] # <<>>
    /\ running' = [running EXCEPT ![p] = @ \cup {Head(queue[p])}]
    /\ queue' = [queue EXCEPT ![p] = Tail(@)]
    /\ UNCHANGED <<rt, calls, active, step, toAdd, left, sent>>

(* A thread runs chunk k: a worker of the pool, or the caller itself. *)
ChunkRuns(p, k) ==
    IF rt = "async" THEN ChunkTask(p, k) \in running[p] ELSE k \in active[p]

RunsStep(p, k) ==
    /\ ChunkRuns(p, k)
    /\ step[p][k] <= Len(Steps)
    /\ left[p][k] = {}

(* The task of a set that belongs to the first neighbour: xs[0]. *)
First(T) == {t \in T : \A u \in T : t.peer <= u.peer}

(* parallel_tasks::poll with a runtime (multi_thread_runtime::par) or       *)
(* fmap(pool, ..): a wait group is made for the tasks of the step ...        *)
ForkStep(p, k) ==
    LET T == Tasks(p, k, step[p][k])
    IN  /\ RunsStep(p, k)
        /\ Steps[step[p][k]].par /\ T # {}
        /\ toAdd' = [toAdd EXCEPT ![p][k] =
                        IF rt = "async" THEN T ELSE T \ First(T)]
        /\ left' = [left EXCEPT ![p][k] = T]
        /\ UNCHANGED <<rt, calls, active, queue, running, step, sent>>

(* ... which go to the pool one by one, in the order of the peers; this     *)
(* thread then waits for them (async), or runs xs[0] and waits (par1).      *)
AddTask(p, k) ==
    \E t \in First(toAdd[p][k]) :
        /\ toAdd' = [toAdd EXCEPT ![p][k] = @ \ {t}]
        /\ queue' = [queue EXCEPT ![p] = Append(@, t)]
        /\ UNCHANGED <<rt, calls, active, running, step, left, sent>>

(* A step that needs no thread but this one: a parallel step without tasks, *)
(* recv_into polled until it has finished (sequence_tasks::poll), or         *)
(* fmap(seq, recv_task) on the slots of the predecessors.                   *)
InlineStep(p, k) ==
    LET T == Tasks(p, k, step[p][k])
    IN  /\ RunsStep(p, k)
        /\ Steps[step[p][k]].par => T = {}
        /\ \A t \in T : Awaited(p, t) \in sent
        /\ step' = [step EXCEPT ![p][k] = @ + 1]
        /\ UNCHANGED <<rt, calls, active, queue, running, toAdd, left, sent>>

(* The tasks that threads run on p: those of the workers, and in par1 the   *)
(* first one of each step, which its caller runs when it has added the rest. *)
Current(p) ==
    running[p] \cup
        (IF rt = "async" THEN {}
         ELSE UNION {First(Tasks(p, k, step[p][k])) \cap left[p][k]
                        : k \in {k \in active[p] : left[p][k] # {} /\ toAdd[p][k] = {}}})

(* A task ends: wg.done(); the last one ends the step.  *)
TaskDone(p, t) ==
    /\ running' = [running EXCEPT ![p] = @ \ {t}]
    /\ left' = [left EXCEPT ![p][t.chunk] = @ \ {t}]
    /\ step' = IF left[p][t.chunk] = {t} THEN [step EXCEPT ![p][t.chunk] = @ + 1]
                                         ELSE step
    /\ UNCHANGED <<rt, calls, active, queue, toAdd>>

(* Mutant of RecvTask: recv_onto finishes although try_get returned nothing. *)
RecvTaskUnchecked(p, t) ==
    /\ t.kind = "recv"
    /\ TaskDone(p, t)
    /\ UNCHANGED sent

(* recv_onto::poll, repeated by task::finish until the message is there:    *)
(* the worker is busy until then.                                           *)
RecvTask(p, t) ==
    /\ t.kind = "recv"
    /\ Awaited(p, t) \in sent
    /\ TaskDone(p, t)
    /\ UNCHANGED sent

(* send_task::poll *)
SendTask(p, t) ==
    /\ t.kind = "send"
    /\ sent' = sent \cup {<<p, t.peer, t.chunk, t.graph>>}
    /\ TaskDone(p, t)

(* The chunk's last step is over: all_reduce returns and its threads are    *)
(* free.                                                                    *)
ChunkDone(p, k) ==
    /\ ChunkRuns(p, k)
    /\ step[p][k] > Len(Steps)
    /\ running' = [running EXCEPT ![p] = @ \ {ChunkTask(p, k)}]
    /\ active' = [active EXCEPT ![p] = @ \ {k}]
    /\ UNCHANGED <<rt, calls, queue, step, toAdd, left, sent>>

Init ==
    /\ \E c \in Sessions : rt = c.rt /\ calls = c.calls
    /\ active = [p \in Peer |-> {}]
    /\ queue = [p \in Peer |-> <<>>]
    /\ running = active
    /\ step = [p \in Peer |-> [k \in Chunk |-> 1]]
    /\ toAdd = [p \in Peer |-> [k \in Chunk |-> {}]]
    /\ left = toAdd
    /\ sent = {}

PeerStep(p) ==
    \/ AllReduce(p)
    \/ Take(p)
    \/ \E k \in Chunk : \/ ForkStep(p, k)
                        \/ AddTask(p, k)
                        \/ InlineStep(p, k)
                        \/ ChunkDone(p, k)
    \/ \E t \in Current(p) : RecvTask(p, t) \/ SendTask(p, t)

(* p->wait() returns in every group_all_reduce. *)
AllDone == \A p \in Peer : calls[p] = <<>> /\ active[p] = {}

Terminated == AllDone /\ UNCHANGED vars

Next == (\E p \in Peer : PeerStep(p)) \/ Terminated

(* Threads are scheduled: the system does not stop while one can go on.     *)
(* Every step lowers the work left, so this is as good as fairness for each. *)
Fairness == WF_vars(Next)

Spec == Init /\ [][Next]_vars

FairSpec == Spec /\ Fairness

----------------------------------------------------------------------------

(* No peer is sent the result of a chunk before every contribution to it    *)
(* has been sent up the reduce graph: what run_graphs_async's order of      *)
(* steps is for, on every peer together.                                    *)
ResultAfterContributions ==
    \A m \in sent : m[4] = "broadcast" =>
        \A p \in Peer : \A q \in Nexts(GraphOf(m[3], "reduce"), p) :
            <<p, q, m[3], "reduce">> \in sent

(* Every group_all_reduce returns: neither the workers that wait inside     *)
(* parallel_tasks, nor the receives that hold the workers of a session's    *)
(* pool, nor the operations that hold the threads of the group in an order   *)
(* of their own, ever keep out what they wait for.                          *)
AllReducesReturn == <>AllDone

============================================================================
