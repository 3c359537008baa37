# stdml-collective: TLA+ specifications and proofs

stdml-collective gives the processes of a distributed training job (the *peers*)
collective operations: `all_reduce`, `broadcast`, `barrier`, `all_gather`,
`send`/`recv`, on a static or an elastic cluster.  This directory models the
protocol and the concurrency of the C++ library: the blocking queues, the boxes in
which handler threads and callers meet, the graphs data travels along, the
connections down to their bytes, the thread pools, the runtimes on them, the life of
a peer, and elastic training, in which the cluster changes while it runs.

Paths below are relative to `src/src/stdml/collective/` (`.cpp`) and
`src/include/stdml/bits/collective/` (`.hpp`).  There are two network libraries:
`net/old`, which the default build uses, and `net/c++20`; the modules in which they differ
(`Lifecycle`, `Stream`) have both.

## Inventory

| Component | State it keeps | Operations | Talks to |
|---|---|---|---|
| channel (`channel.hpp`) | a queue of capacity 1, one mutex, one condition variable | `get`, `try_get`, `put` | boxes |
| mailbox, slotbox (`mailbox.hpp`) | a box per (peer, name): a channel of messages, or a pair of channels of receive buffers | `require`, `queue_pair::get/put` | callers on one side, handler threads on the other |
| topology (`topology.cpp`) | none: graphs are computed once per session | star and ring pair lists, `choose` | session |
| session (`session.cpp`, `buffer.hpp`, `run_graph_pair_list_multi_thread.cpp`) | rank, peers, graphs, pools; per call a workspace (two buffers) and `recv_count_` | `all_reduce`, `group_all_reduce`, `broadcast`, `barrier`, `consistent` | boxes, client, pools |
| message handler (`collective_handler.cpp`, `rchan.hpp`) | one thread per accepted connection | read header, read body, deliver | connection, boxes |
| client and connections (`client.cpp`, `net/old/rchan.cpp`, `net/c++20/rchan.cpp`, `ioutil.hpp`) | a connection per target, a mutex per client and per connection | `require` (dials), `send`, `reset_peers` | sockets |
| server (`net/*/rchan.cpp`, `tcp_server.cpp`, `tcp_socket.cpp`) | listening socket, accept thread, handler threads, `stopped_` | `start`, accept loop, handshake, `stop` | handler |
| thread pool, wait group (`thread_pool.cpp`, `waitgroup.cpp`) | queue, counters, semaphore, two condition variables | `add`, `wait`, `par1`, destructor | session |
| asynchronous runtime (`task.cpp`, `run_graph_pair_list_async.cpp`) | a tree of tasks per call, one pool of 8 workers per session | `poll`, `finish`, `par` | boxes, client |
| all_gather, send, recv (`all_gather.cpp`, `send_recv.cpp`) | none | fan-out to all peers | slotbox, client |
| peer (`peer.cpp`) | server, client pool, boxes | `start`, `join`, `stop`, `resize` | all of the above |
| elastic training (`elastic*.cpp`, `elastic_state.cpp`) | progress, synced, detached | `sync`, `++`, `check_resize`, commit to the runners | peer, configuration server |
| cluster configuration (`address.cpp`) | lists of runners and workers | `from_env`, `resize`, `bytes`, `from`, `json` | elastic training |
| HTTP client (`http.cpp`, `net/c++20/rchan.cpp`) | none | get, put | elastic training |

A collective call on one peer is a walk over one or two graphs.  In the *reduce*
graph a peer waits for a message of each predecessor in its mailbox, adds it to its
buffer and then sends the sum to its successors; in the *broadcast* graph it posts
its receive buffer in the slotbox, waits until a handler thread has filled it and
sends it on.  Messages of all operations between two peers share one connection,
one mutex at the sender and one handler thread at the receiver, and nothing but
the messages themselves synchronises the peers.

What is hard here: handler threads that block on a box hold up everything behind
them on the connection; boxes are reused by every operation of the same name, so a
message must never be left behind or taken a round too early; raw pointers to the
caller's buffers are handed to other threads; notifications go to one waiter of a
shared condition variable, or are sent after the unlock; pools of fixed size run
tasks that wait for each other; dialling retries for ever with a lock held; a stop
flag is raised under handlers that are reading; frames of several senders share a
stream that moves some bytes at a time and may end anywhere; workers leave a session
and enter the next one at different times, over the same boxes.  `PROJECT.json` lists these
hazards with their lines and the properties that cover them.

What makes each component correct:

- channel: never over capacity, no lost wakeup, every call returns when its partner comes;
- boxes and handler: a buffer is lent only while its owner waits for it, a mailbox
  always has room, nothing is left over between operations;
- topology: each pair is a tree into and a tree out of the same root;
- session: an operation returns the right data on every peer, not before the peers
  it depends on have called it, and always returns;
- thread pool: a worker that goes to the queue finds a task, `wait`/`par1` return
  only when the work is done, and do return; so does the destructor;
- splitting of work: the chunks tile the data, fit, and have names of their own;
- runtimes on pools: the result follows all contributions; calls return;
- streams: what the handler is given is what was sent, whole and in order, and nothing
  sent before a close is lost;
- life cycle: whatever the order of starts and stops no thread dies of an
  exception, nobody dials a peer that is gone, everyone stops;
- elastic training: one configuration per version, messages never cross sessions, nobody
  sends to a worker that has left, the members of a session train the same step,
  survivors keep their ranks, and training ends.

## Modules

| Module | Models | Used by |
|---|---|---|
| `Channel`, `ChannelProofs`, `MCChannel` | `channel.hpp` with its mutex, condition variable and spurious wakeups | justifies the atomic queues of `Collective` |
| `Topology`, `TopologyProofs` | graphs as operators | `SplitWork`, `Collective`, `Lifecycle`, `PooledRuntime` and their proofs |
| `Partition` | `even_partition`, `workspace::split` and `slice`, element sizes | `SplitWork` |
| `SplitWork`, `SplitWorkProofs` | `split_work`: chunks and the graph pair of each | |
| `Collective`, `CollectiveProofs`, `MCCollective` | callers, connections, handler threads, boxes of all peers | |
| `CollectiveAbs` | the promise of the operations | refined by `Collective`, assumed by `Elastic` |
| `ThreadPool`, `ThreadPoolProofs`, `MCThreadPool` | semaphore, workers, adders, destructor, wait group | justifies the pools of `PooledRuntime` |
| `PooledRuntime`, `PooledRuntimeProofs`, `MCPooledRuntime` | `group_all_reduce` on the two runtimes that share a pool | |
| `Stream`, `StreamProofs`, `MCStream` | one connection, byte by byte | justifies the messages of `Collective` and `Lifecycle` |
| `Lifecycle`, `LifecycleProofs` | start, dial, accept, handshake, handlers, stop | |
| `ClusterConfig` | addresses and cluster configurations as operators | `Elastic` |
| `Elastic`, `MCElastic` | training loops, `peer::resize`, runners, configuration server | |

### Channel

`buffer` is the queue; each thread has a control state and is ready, waiting on the
condition variable or woken.  One action is one critical section: a call that finds
its predicate false joins the waiters, a woken thread tests it again.  `get` ends
with `notify_one` (any one waiter, nondeterministically), `put` with `notify_all`,
`try_get` notifies nobody when it finds nothing.

### Topology, Partition and SplitWork

`GraphBuilder` and `Build` are `graph_builder::add_edge/build` on sets of edges;
`StarPair`, `CircularPair`, `GraphPairList` and `Choose` the functions of
`topology.cpp`.  The order in `nexts` and `prevs` is left out where the code runs the
neighbours in parallel.  `Partition` has the arithmetic of `even_partition` and of
`workspace::slice`, in elements and bytes.  `SplitWork` runs `split_work`: it cuts a
workspace (`SplitStep`, which traps on a division by zero when there are no elements) and
picks a pair of graphs for each chunk with an arbitrary hash (`ChooseStep`).

### Collective and CollectiveAbs

Every peer runs the same `Program` on each of its threads; a call is
`run_graphs_multi_thread` on the graphs of a broadcast or of one chunk of an
`all_reduce`, an `all_gather`, or a `send` on one peer and the `recv` on another.  `Call`
enters it (the last two without graphs: `CallFlat`, `GatherOwn`); `RecvOnto` is a receive in the reduce graph
(taking the message and `add_to` are one action, as `add_to` holds the workspace's
lock); `PostRecv` and `RecvInto` are the two halves of `queue_pair::get`;
`SendBegin` takes the connection's mutex and `SendEnd` releases it when the message
fits into the socket (with `SockCap = 0` only when the handler reads it);
`RecvDone` and `SendDone` go on to the next phase, graph or return.  The handler of
each connection reads a header (`Header`), then either reads the body and puts it
into the mailbox (`ReadMail`, `PutMail`) or takes a posted buffer, reads into it
and gives it back (`TakeBuf`, `ReadBody`, `PutRecvd`).

A payload is the bag of contributions (peer, thread, round) summed up in it, so a
lost, doubled, foreign or old contribution is visible whatever the element type and
operator.  The hash of a chunk's name is a constant function.  Connections exist
from the start (Lifecycle has the dialling), and channels are atomic bounded queues
(Channel has their inside).  The caller's contract is an assumption: a name is used
by one thread at a time, and all peers call the same operations in the same order per name.

`CollectiveAbs` says what an operation promises: who must have called it before it may
return where, and the data it returns.

### ThreadPool

Every critical section, semaphore operation and notification is an action of its
own, so all orders of `add`, `get_one`, the test of the stop flag, the pop, the run,
`wg.done()` and the notifications after the unlock are explored.  Clients run `par1`
concurrently; the owner may `add` and `wait` and destroys the pool.

### Lifecycle

The thread that owns a peer starts the server, runs `Rounds` operations (the first is
the barrier in the session's constructor), closes its connections, raises `stopped_`
and joins the server's threads.  Operations are reduced to their message pattern.
`Dial` holds the client's mutex until `Dialled`; `Connect` is `wait_connect`, retried
until the target listens; `Accept` and `Upgrade` are the accept loop and the handshake;
`NextMessage`, `ReadNameLen` and `ReadMessage` split the reading of a message at the
places where `recv_all` looks at the flag.

In `net/old`, `start()` binds and the threads poll a stop flag; in `net/c++20` the server's
own thread binds (`Bind`), after `start()` has returned, and handlers end only with their
connections.  `build` chooses one for all peers.

### PooledRuntime

A thread of `group_all_reduce` takes the next future of its peer's list (`AllReduce`; at
most `Slots` at a time) and calls `all_reduce`.  On the asynchronous runtime the chunk is
a task of the pool, and so are the sends and receives of each of its steps, for which its
worker waits.  On the multi-threaded runtime with a session pool the calling thread runs the
chunk and, as in `par1`, the first item of each step (`Current`); the others go to the
pool.  A pool is a FIFO and the set of tasks in workers; tasks are added one by one
(`ForkStep`, `AddTask`).  `RecvTask` holds its worker until the message is there.  Each call has
a name of its own and one chunk.

### Stream

The client dials and shakes hands; `Sender` threads then write frames under the
connection's mutex, a header (`SendBegin`) and the data (`SendBody`), while the server's
thread reads a name length, the rest of the header and the body.  Every call moves its
bytes in parts of any size (`WriteSome`, `ReadSome`).  Integers are little-endian numbers of
`Width` bytes below `Base`, and a length is cut to its width as `static_cast<uint32_t>` cuts it.  A write
to an end that is gone fails, and in `net/old` so does one that the system cuts short
(`WriteFails`); a read that meets the end fails except where the code asks for an error code
(`NoMessage`); either process may be killed at any time (`Crash`).

`build` is `net/c++20`, `net/old` on Linux or `net/old` on macOS ("bsd"), which the repository
builds for as well.  They differ in `recv_all`'s test of `errno == 35`.  On macOS 35 is
`EAGAIN`, and an accepted socket is non-blocking because the listening one is (`TcpServer::start`): a read that
finds nothing leaves `errno` at 35 (`WouldBlock`, `again`), a later read of 0 bytes does not change it, and
the thread calls `recv` over and over at the end of the stream (`Spinning`), unless the end comes as an
error (`Reset`).  On Linux 35 is `EDEADLK`, which `recv` never returns.  The stop flag, which ends the
spinning when the server is stopped, is in `Lifecycle`.

### ClusterConfig and Elastic

`ClusterConfig` translates `address.cpp` with numbers in place of text: `Pack`, `Unpack`,
`ParsePeerId`, `Bytes`, `From`, `Json` are conversions with their widths, `Resize` is
`cluster_config::resize` with its choice of the least loaded host and the next unused port.  On
a host without workers `next_unused` reads through a null pointer; `NextUnused` and `Resize` then have no
result (the empty set), and the process dies.  `Json` is what a worker writes, with addresses as
signed numbers, and `GoReadConfigServer` the reader of `elastic/elastic.go`, which refuses negative ones.
A process finds its stage in the environment of the runner or of mpirun, or is on its own
(`FromEnv`); a variable of mpirun that is missing or empty leaves it on its own, too.

In `Elastic` a worker runs the loop of `example-elastic.cpp` or one over `elastic_state`
(`app`).  Its collectives are `CollectiveAbs`' promise in two steps: `Enter` sends to all
members, after connecting where it is not yet connected, and `Leave` takes one message from each.  Boxes
know the sender, the receiver and a name; operation and version are history for the
properties.  `GetConfig` to `NewSession` are `peer::resize` with `session::consistent` spelled out
as its four all_reduces.

The configuration server (a register of JSON, which an operator may change) and the runners (which start the
workers of a new stage) are external.  `http_put` writes its request and returns: the PUT joins the bag
`puts`, and `TakePut` applies it at any later time, in any order, or never.  Without a URL (`url`) nothing is
proposed and the old configuration is read.  A read may be answered with an error, which the code
replaces by the old configuration, and either request may fail to connect, which throws out of the training loop
of that worker only (`Refused`).  This is the HTTP client of `net/c++20`; `net/old` has no `http_put`, and
its `http_get` always throws.  Two assumptions are the environment's:

- `ScheduleAssumption`: the example's schedule does not resize at the last step.  If it grew
  the cluster there, the old workers would leave the loop, and the new ones wait in their first
  sync for ever.
- `PromptExit`: a process that has been detached is gone by the time its address belongs to a
  new worker and is dialled.  Nothing in the handshake tells the two apart.

## Runs

| Run | Configuration | Shows |
|---|---|---|
| `channel` | 2 getters, 1 poller, 3 putters, capacity 1 | capacity, no lost wakeup, all calls return |
| `split_work` | up to 5 peers, both strategies, up to 9 elements of 1 to 8 bytes, chunks of 16 bytes, hashes 0 to 5 | tree pairs and their roots; chunks tile the data, are not empty and fit |
| `star_rounds` | 3 peers, 1 thread, 2 broadcasts and a send/recv of one name, 2 all_reduces of another, rendezvous sockets | `BuffersLent`, `MailboxHasRoom`, `NoResidue`, refinement of `CollectiveAbs`, termination |
| `group` | 2 peers, a thread with an all_reduce and a broadcast, a thread with two all_gathers, sockets that hold one message | the same properties with shared connections |
| `ring_inplace` | 3 peers, 2 threads, rings with different roots, in place | the sums are right and the rings do not block each other |
| `ring_all_reduce` | 3 peers, ring, out of place | **violated**: see Findings |
| `pools` | 2 workers; 2 clients in `par1`, or an owner with more tasks than workers; destructor | `PopFindsTask`, `ReturnedMeansRun`, `PoolDestroyed` |
| `lifecycle` | 3 peers, both strategies, both network libraries, 2 operations | `NoHandlerThrows`, `NoDialToStopped`, `EveryoneStops` |
| `spare_worker` | 3 peers, star; async: 2 calls, 3 workers, two orders; session pool: 3 calls on 2 threads, 2 workers, two orders | `ResultAfterContributions`, `AllReducesReturn` |
| `async_pool_exhausted` | 2 peers, star, 2 calls, 2 workers | **violated**: see Findings |
| `elastic` | 3 hosts, up to 2 workers each, 3 steps; on schedule shrink to 2 and grow to 3, or two changes by an operator; late and lost PUTs, 1 failed request; ten ways to start | `OneClusterPerVersion`, `SameOperation`, `NoSendToDeparted`, `CrashTakesAll`, `SameStep`, `SurvivorsKeepRank`, `TrainingEnds` |
| `stream` | 3 senders, lengths modulo 4, one of them too long for its field, sockets that hold 3 bytes, both libraries, the old one on Linux and macOS | `FramesIntact`, `NothingLost`, `ConnectionEnds` (on macOS: ends or spins) |

`tlc -config X.cfg M` in this directory repeats a run; `PROJECT.json` gives module and
configuration of each.

Bounds.  Three peers are the smallest session in which a star's root has two
neighbours to confuse and a ring has a peer that neither starts nor ends it; two threads
the smallest number that shares a connection; two operations in a row under one name,
of one kind and of two, let a peer be one ahead of another, and no peer can be two ahead
of all.  `all_gather` is checked with two peers, as three make too many states; its items are
pairwise between peers.
Rendezvous sockets are the worst case for blocking, as a larger buffer only enables more
sends; run `group` has sockets that hold a message, with which a sender runs ahead.  Two
workers and two clients are the least with which every pair of critical sections of the
pool interleaves.  In `split_work` the chunk size is a multiple of every element size, as
2^20 is, and counts go past the first and second boundary of each type.  In `stream` the
messages are shorter than, as long as and longer than what a socket holds, and one of them wraps
its length field.  In `elastic` a cluster of three shrinks to two and grows to three, so that an
address goes and comes back on a host that still has a worker; a cluster of two on two hosts grows; one with both
workers on one of two hosts crashes when it grows; one at an address of the upper half proposes what nobody can read;
two proposals of the operator have the same size, so that only their bytes tell them apart; and mpirun
or nobody starts clusters without runners.  In `spare_worker` the sizes are the least that
work: with one worker less in either pool TLC finds a deadlock.  The windows of futures of
all peers must have an operation in common (`WindowsMeet`), which the comment in
`group_all_reduce` (`session.cpp:85`) asks for.

Fairness.  `Channel`, `ThreadPool`, `Lifecycle`, `Stream` and `Elastic` assume weak fairness of
each thread (in `Elastic` also of the runners, in `Stream` also that bytes under way arrive; nothing
has to fail): a thread that can run is scheduled by the operating system, and the loops of
`wait_connect` and `wait_accept` poll.  Mutexes are assumed not to starve a thread
for ever.  `Collective` and `PooledRuntime` assume only that the system does not stop
while some step is possible; every step uses up a finite amount of work there, so
that suffices.  `resize()` loops until all workers read the same configuration; it ends
because the operator and the PUTs change it, and requests fail, finitely often (`Proposals`, `MaxFailures`).
Nothing makes the configuration server handle a PUT: `TakePut` has no fairness.

Each property has a mutant, defined just before the definition it replaces, that changes
the model the way a plausible mistake in that code would; TLC finds the property
violated with it.

### Findings

- `ring_all_reduce`: `workspace_state::effective_data` (`buffer.hpp:162`) decides by
  `recv_count_`, which only reductions raise.  Over the ring, the peer after the root has
  reduced nothing; it receives the result and forwards its own input to the next peer,
  whose `all_reduce` returns the wrong value.  In place the two buffers are the same
  and the error does not show (`ring_inplace` passes).  A broadcast over the ring goes
  wrong at the same line.
- `async_pool_exhausted`: `parallel_tasks::poll` (`task.cpp:118`, `FIXME: yield`) waits inside the
  pool for tasks it queues there.  With as many calls in flight as workers all of
  them wait.  Over the ring one spare worker is not enough either (set `Strategy = "ring"` in
  `MCAsyncStar.cfg`): receive tasks hold the spare workers of all peers in a circle.

Behaviour that the models have and that no document or test speaks about:
a resize that would put a worker on a runner's host without workers kills the process
(`address.cpp:121`).  All members propose the same, so none is left waiting for one that died (`CrashTakesAll`).
A worker that cannot connect to the configuration server throws, and those it leaves behind wait for it or
throw in turn (`Unreachable`, `net/c++20/rchan.cpp:428`).  On macOS a handler thread of `net/old` may spin
from the end of its connection to the stop of its server (`tcp_socket.cpp:47`).  A detached
`elastic_state` worker calls `all_reduce` on the session the others have left
(`elastic_state.cpp:39`; `Abandoned` in `Elastic`) and does not end by itself.  In a session of one
peer and `net/c++20` nothing makes the owner wait for the server's thread: `stop()` may run
(`net/c++20/rchan.cpp:356`) before that thread has opened the acceptor (line 307).  With more peers the
first barrier excludes this, which is why `StopIsClean` below assumes `N > 1`.

## Proofs

Eight modules hold proofs, one per component.  A run checks each of the properties on a small
instance; the theorem has it for every value of the constants.  The inductive invariants were
themselves checked with TLC, on the configurations of the runs, before they were proved.

| Module | Theorem | States | For every |
|---|---|---|---|
| `ChannelProofs` | `TypeCorrect`, `WakeupsNotLost` | `TypeOK`, `NoLostWakeup` | set of threads, capacity |
| `ThreadPoolProofs` | `PoolInvariant`, `PoolTypeCorrect`, `PopAlwaysFindsTask`, `ReturnsAfterRun` | `PoolInv`, `TypeOK`, `PopFindsTask`, `ReturnedMeansRun` | number of workers, clients and tasks |
| `TopologyProofs` | `ChosenPairIsTreePair` | every pair that `choose` returns is a tree into and a tree out of one root | session, strategy and hash |
| `SplitWorkProofs` | `SplitInvariant`, `ChosenPairs`, `RootsCorrect`, `ChunksAlwaysTile`, `ChunksAlwaysFit` | `SplitInv`, `PairIsTreePair`, `RootsAsExpected`, `ChunksTile`, `ChunksFit` | count, type, chunk size, session |
| `CollectiveProofs` | `CollInvariant`, `CollTypeCorrect`, `BuffersAlwaysLent`, `ResultsStay` | `CollInv`, `TypeOK`, `BuffersLent`, and the action property `ResultStays` | session, strategy, program, socket size |
| | `FlowInvariant`, `MailboxAlwaysHasRoom`, `NothingLeftBehind` | `FlowInv`, `MailboxHasRoom`, `NoResidue` | the same |
| | `DataInvariant`, `CollectiveImplements`, `AllReduceSums` | `DataInv`, `Refines` (the refinement of `CollectiveAbs`), `AllReduceReturnsSum` | the same, as long as `ForwardsReceived` (see Assumptions) |
| `PooledRuntimeProofs` | `RuntimeInvariant`, `ContributionsFirst` | `RuntimeInv`, `ResultAfterContributions` | session, strategy, pool size, list of operations, both runtimes |
| `LifecycleProofs` | `LifeInvariant`, `LifeTypeCorrect`, `DialsEndBeforeStop`, `StopIsClean` | `LifeInv`, `TypeOK`, `NoDialToStopped`, `NoHandlerThrows` | number of peers and rounds, strategy, network library |
| `StreamProofs` | `StreamInvariant`, `FramesAlwaysIntact`, `NothingIsLost` | `StreamInv`, `FramesIntact`, `NothingLost` | number of senders, messages, size of sockets, width of integers |

`tlapm M.tla` in this directory repeats the proofs of module M.

### Arguments

*Channel.*  `NoLostWakeup` is not inductive: were a poller among the waiters, the one notification
of a `get` could go to it while a putter sleeps on.  `WakeupInv` adds that a thread in `try_get`
never waits (`PollersAwake`).  A `get` that finds a value then knows that no getter sleeps and no
poller does, so whoever it wakes is a putter; a `put` wakes everyone.

*ThreadPool.*  `PopFindsTask` and `ReturnedMeansRun` say nothing about how units and tasks
come about.  `PoolInv` accounts for all of them: while the pool is not stopped, the semaphore's value,
the workers that have taken a unit and not yet popped and the adders that have pushed and not yet put
add up to the queue's length (`UnitsInv`); every task added is queued, being run or has run
(`TasksInv`); the wait group counts those that have not run and those whose worker is about to
call `done()` (`WaitGroupInv`).  A worker that pops is one of the counted, so the queue is not empty.

*Topology.*  A graph is shown to be a tree by a parent for every vertex but the root and a depth
that falls on the way to it (`ParentTree`).  The star's depths are 0 and 1; those of a ring are
distances modulo N.  Inductions on numbers are arguments about a least counterexample
(`LeastNat`, `SetInduction`), because the library's induction theorems take an operator.

*SplitWork.*  Every chunk is one of those `split` cuts (`SplitInv`); the rest is arithmetic about
`even_partition`: the parts differ by at most one, are not empty because there are no more parts than elements,
begin where the one before ends, and a part of the least number of parts that suffice is no larger than the chunk size (`ChunksOf` and its lemmas).

*Collective.*  `BuffersLent` says that a posted buffer is in one place.  For a step to keep it, it
must be known who waits for a box: `LentInv` says that a box has either no waiting thread and no
buffer anywhere, or one waiting thread and its own buffer in one of the three places
(posted, with the handler, given back); `CallInv` ties the state of a call to the program, and the
program's assumption (a name is used by one thread) makes the waiting thread unique.  `ResultsStay`
follows: the only steps that write to a caller's memory are its own and those of a handler that holds
its buffer, and its owner is then still in the call.

`MailboxHasRoom` and `NoResidue` are about messages, which `CollInv` does not count.  An *item* is what
one peer sends another in one stage of one call of a thread: stage 0 is the reduce graph, stage 1 the broadcast
graph or an operation without graphs.  Each caller has a clock (`At`, two ticks per call), and its clock and
the state of its sends and receives determine which items it has sent and which it has used (`Sent`, `Used`).
`FlowInv` says that the items sent and not used are exactly those on the wire, with a handler, in the mailbox or in
a posted buffer, each in one place, and that those of a thread are in the order of its program on every
connection.  How far one peer can be ahead of another comes from the trees: a peer is past its part of a reduce
only when those below it are, the root is the last in the reduce and the first in the broadcast
(`DoneBefore`, `RootLast`, `RootFirst`, `NobodyBehind`).  So a second item of one name cannot have been sent to
a mailbox that still has the first, and when all have returned from a call nothing is under way.

`DataInv` says what the items and buffers hold.  The contributors to an item of the reduce graph
are the peers from which its sender can be reached (`Below`); the sets of two peers that feed the same one are
disjoint, as a tree has no second way (`BelowApart`, `NoCycle`), so adding up bags counts everyone once
(`SumOfSums`), and at the root it is everyone (`BelowRoot`).  A caller's buffer holds its own contribution and
those of the feeds it has received (`Got`), and later the item of the broadcast.  The invariant breaks at one
place, the peer that receives the result over a ring and passes on its send buffer: hence the hypothesis
`ForwardsReceived`, and `AllReduceSums` is the converse of the finding `ring_all_reduce`.  The refinement follows step by
step (`StepMaps`): `Call` is a call of `CollectiveAbs` (`CallMaps`); a `SendDone` that returns is its return,
because all whose data it returns have entered the call (`SourcesEntered`) and the buffer holds what is promised
(`ReturnedData`); all other steps leave its variables alone (`InnerStep`).

*PooledRuntime.*  `RuntimeInv` says that all the tasks of the steps before the current one have had
their effect (`PastInv`, and `LeftInv` for the current one), that nothing is in a pool before its step
(`PoolInv`) and that a message tells how far its sender is (`SentInv`).  Along a tree,
by induction on the depth, a result then implies the contribution of every peer.

*Lifecycle.*  `LifeInv` counts messages: for every pair of peers what has been sent is on the wire, in
the box or used (`FlowInv`).  Both counts are determined by the rounds of the two peers, so when one of them
has ended, all that will ever be sent to it has been sent and used: its connections are open, its wires empty
and its handlers idle.  `StopIsClean` assumes `N > 1` (see Findings).

*Stream.*  There is one stream of bytes: the dialler's header, and a frame for each message in the
order in which the mutex was taken.  `StreamInv` says that what the server has read, what is under way
and what the holder of the mutex has still to write lie side by side in it (`Slice`), and where the
server is in it; the handshake's acknowledgement is counted in `AckInv`, and rules out that the server throws
while a client that has it is up.  That a frame taken apart gives back the message (`ParseNameLen`,
`ParseRest`, `ParseBody`) follows from the positions alone.  At the end of a closed connection the server
has read the whole stream; a position inside a message is before that end (`AtEnd`).

### Assumptions

The constants' assumptions, which TLC evaluates in every run of the modules:

- `Channel`: roles are disjoint, the capacity is positive.  `ThreadPool`: finitely many workers (at
  least one) and clients.
- `SplitWork`: a chunk holds a whole number of elements (`ChunkAssumption`; 2^20 bytes and
  elements of 1, 2, 4 or 8).  Without it a chunk could exceed its size by a part of an element.
- `Collective`: the caller's contract (`ProgramAssumption`: a name is used by one thread, and a program is
  finite; all peers run the same one).  The theorems about data have one hypothesis more, `ForwardsReceived`: over the
  ring, `all_reduce` and `broadcast` are in place, and a `recv` names a peer of the session.  The programs of
  `star_rounds`, `group` and `ring_inplace` satisfy it, and that of `ring_all_reduce`, where the theorem's conclusion is
  false, does not.  `PooledRuntime`: the peers of a session reduce the same chunks, each
  once, and a chunk is a number, the hash of its name.
- `Stream`: a name is shorter than its length field can count, flags and the dialler's numbers fit theirs
  (`MessagesAssumption`), and an integer is what its bytes decode to (`CodecAssumption`).  The latter
  is true of `Encode` and `Decode` for every width, by an induction over data that is out of the prover's reach;
  TLC evaluates it for the run's width.  Data may be longer than its field counts.

### Only model-checked

- Liveness (`AllCallsReturn`, `PoolDestroyed`, `EveryoneStops`, `AllReducesReturn`, `ConnectionEnds`,
  `TrainingEnds`): it needs fairness and `ENABLED`, which the prover does not handle.
- All of `Elastic` (`OneClusterPerVersion`, `SameOperation`, `NoSendToDeparted`, `CrashTakesAll`, `SameStep`,
  `SurvivorsKeepRank`).  `OneClusterPerVersion` and `SurvivorsKeepRank` depend on what `cluster_config::resize` computes, worker
  after worker (`grown` in `Resize`), and on two peers reading the same bytes back; both need an induction over data.
  The others rest on them, and need an invariant that counts messages across sessions, as `FlowInv` does within one.
- The programs that `ForwardsReceived` leaves out and that are nevertheless right, such as an out-of-place
  `all_reduce` over a ring of two.

## Not modelled

- The arithmetic of reductions per element type, formatting, logging, tracing, affinity,
  MPI and Go shims: no protocol state.
- The text of HTTP requests and responses: `Elastic` has their outcomes.
- Socket options, and errors of system calls other than short or failed reads and writes.
- The non-blocking variant of `ioutil.hpp` (`base_ioutil<true>`, `io_exact_task`), which only tests
  use.
- `all_gather` on a session's thread pool, and `parallel_tasks` without a runtime.
- Uses of an object after its life (`waitgroup.cpp:24`): there is no outcome to model.

## Plan

The components, their refinement and their safety invariants are done as listed above.  Left are

1. `SameOperation`, `NoSendToDeparted` and `SameStep` of `Elastic`, for every cluster: the argument of `FlowInv` with a session's
   version in the place of the call, from the assumption that a version has one cluster.
2. The operations listed under Not modelled that have protocol state: `all_gather` on a session's pool and the
   non-blocking reads and writes of `ioutil.hpp`.
