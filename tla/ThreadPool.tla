----------------------------- MODULE ThreadPool -----------------------------
(***************************************************************************)
(* stdml::sync::thread_pool with its semaphore and wait_group.  A pool is   *)
(* used in two ways: clients (application threads) run par1 on the pool of  *)
(* the session, concurrently, each blocking on a wait_group of its own; and *)
(* the owner of a pool (group_all_reduce) adds tasks, calls wait() and       *)
(* destroys it.  Here the owner does both: it adds its own tasks, waits, and *)
(* destroys the pool once no client uses it any more.                       *)
(*                                                                         *)
(* Every step is one critical section, or one notification outside of it.   *)
(***************************************************************************)
EXTENDS Integers, Sequences, FiniteSets

CONSTANTS
    Worker,     \* the threads of the pool
    Client,     \* threads that call par1
    Owner,      \* the thread that created the pool
    Uses        \* the ways to use a pool: tasks that each client and the owner add

Adder == Client \cup {Owner}

ASSUME WorkerAssumption == IsFiniteSet(Worker) /\ Worker # {}
ASSUME AdderAssumption  == IsFiniteSet(Client) /\ Owner \notin Client
ASSUME UsesAssumption   == Uses \subseteq [Adder -> Nat]

VARIABLES
    items,      \* items[a]: tasks that client or owner a adds to the pool
    q,          \* queue of tasks; a task is named by who added it
    waiting,    \* state::waiting
    running,    \* state::running
    stopped,    \* state::stopped
    value,      \* semaphore::value
    wpc,        \* control state of each worker
    task,       \* task[w]: the task worker w runs
    apc,        \* control state of each adder
    added,      \* added[a]: tasks a has added so far
    tokens,     \* put_one() calls the destructor still has to make
    n,          \* n[a]: wait_group::n_ of client a
    ran         \* ran[a]: tasks of a whose f() has returned (history)

poolVars == <<items, q, waiting, running, stopped>>
vars == <<poolVars, value, wpc, task, apc, added, tokens, n, ran>>

(* Where a thread asleep on a condition variable goes on when it wakes up:  *)
(* back to the predicate of its wait.                                       *)
Awake == [wg_sleep |-> "wg_wait", wait_sleep |-> "wait", end_sleep |-> "end_wait"]

WakeUp(a, sleeps) ==
    IF apc[a] \in sleeps THEN [apc EXCEPT ![a] = Awake[@]] ELSE apc

----------------------------------------------------------------------------
(* semaphore *)

(* put(1): the value under the lock; notify_one() follows outside of it. *)
SemaPut == value' = value + 1

(* cv.notify_one() of the semaphore: wake one of the sleeping workers. *)
SemaNotify ==
    LET asleep == {w \in Worker : wpc[w] = "sleep"}
    IN  IF asleep = {}
        THEN UNCHANGED wpc
        ELSE \E w \in asleep : wpc' = [wpc EXCEPT ![w] = "woken"]

(* get(1): take a unit, or sleep until notified. *)
SemaGet(w) ==
    /\ wpc[w] \in {"get", "woken"}
    /\ IF value >= 1
       THEN /\ value' = value - 1
            /\ wpc' = [wpc EXCEPT ![w] = "check"]
       ELSE /\ wpc' = [wpc EXCEPT ![w] = "sleep"]
            /\ UNCHANGED value
    /\ UNCHANGED <<poolVars, task, apc, added, tokens, n, ran>>

----------------------------------------------------------------------------
(* thread_pool_impl::worker *)

(* Mutant of CheckStopped: the stop flag is not looked at. *)
CheckNothing(w) ==
    /\ wpc[w] = "check"
    /\ wpc' = [wpc EXCEPT ![w] = "pop"]
    /\ UNCHANGED <<poolVars, value, task, apc, added, tokens, n, ran>>

(* First critical section: leave the loop when the pool is stopped. *)
CheckStopped(w) ==
    /\ wpc[w] = "check"
    /\ wpc' = [wpc EXCEPT ![w] = IF stopped THEN "exit" ELSE "pop"]
    /\ UNCHANGED <<poolVars, value, task, apc, added, tokens, n, ran>>

(* Second critical section: take the first task. *)
Pop(w) ==
    /\ wpc[w] = "pop"
    /\ q # <<>>
    /\ task' = [task EXCEPT ![w] = Head(q)]
    /\ q' = Tail(q)
    /\ waiting' = waiting - 1
    /\ running' = running + 1
    /\ wpc' = [wpc EXCEPT ![w] = "run"]
    /\ UNCHANGED <<items, stopped, value, apc, added, tokens, n, ran>>

(* Mutant of Run: wg.done() is called before f(x). *)
RunAfterDone(w) ==
    LET a == task[w]
    IN  /\ wpc[w] = "run"
        /\ IF a = Owner
           THEN ran' = [ran EXCEPT ![a] = @ + 1] /\ UNCHANGED n
           ELSE n' = [n EXCEPT ![a] = @ - 1] /\ UNCHANGED ran
        /\ wpc' = [wpc EXCEPT ![w] = IF a = Owner THEN "finish" ELSE "wg_notify"]
        /\ UNCHANGED <<poolVars, value, task, apc, added, tokens>>

(* f() of a task added by par1: f(x), then wg.done(), whose decrement and   *)
(* notification are two steps.  A task of the owner has no wait_group.      *)
Run(w) ==
    LET a == task[w]
    IN  /\ wpc[w] = "run"
        /\ ran' = [ran EXCEPT ![a] = @ + 1]
        /\ wpc' = [wpc EXCEPT ![w] = IF a = Owner THEN "finish" ELSE "done"]
        /\ UNCHANGED <<poolVars, value, task, apc, added, tokens, n>>

(* Mutant of Done: wg.done() is called twice for one item. *)
DoneTwice(w) ==
    /\ wpc[w] = "done"
    /\ n' = [n EXCEPT ![task[w]] = @ - 2]
    /\ wpc' = [wpc EXCEPT ![w] = "wg_notify"]
    /\ UNCHANGED <<poolVars, value, task, apc, added, tokens, ran>>

(* Mutant of Done: nobody is notified. *)
DoneSilently(w) ==
    /\ wpc[w] = "done"
    /\ n' = [n EXCEPT ![task[w]] = @ - 1]
    /\ wpc' = [wpc EXCEPT ![w] = "finish"]
    /\ UNCHANGED <<poolVars, value, task, apc, added, tokens, ran>>

(* wait_group::done(), under the lock *)
Done(w) ==
    /\ wpc[w] = "done"
    /\ n' = [n EXCEPT ![task[w]] = @ - 1]
    /\ wpc' = [wpc EXCEPT ![w] = "wg_notify"]
    /\ UNCHANGED <<poolVars, value, task, apc, added, tokens, ran>>

(* wait_group's cv_.notify_one(): only the client that owns it waits there. *)
WgNotify(w) ==
    LET a == task[w]
    IN  /\ wpc[w] = "wg_notify"
        /\ apc' = WakeUp(a, {"wg_sleep"})
        /\ wpc' = [wpc EXCEPT ![w] = "finish"]
        /\ UNCHANGED <<poolVars, value, task, added, tokens, n, ran>>

(* Third critical section: the task is over. *)
Finish(w) ==
    /\ wpc[w] = "finish"
    /\ running' = running - 1
    /\ wpc' = [wpc EXCEPT ![w] = "notify"]
    /\ UNCHANGED <<items, q, waiting, stopped, value, task, apc, added, tokens, n, ran>>

(* cv.notify_one() of the pool: only the owner waits there. *)
Notify(w) ==
    /\ wpc[w] = "notify"
    /\ apc' = WakeUp(Owner, {"wait_sleep", "end_sleep"})
    /\ wpc' = [wpc EXCEPT ![w] = "get"]
    /\ UNCHANGED <<poolVars, value, task, added, tokens, n, ran>>

----------------------------------------------------------------------------
(* thread_pool_impl::add, par1, wait *)

(* add(), under the lock: push the task and count it. *)
Add(a) ==
    /\ apc[a] = "add"
    /\ added[a] < items[a]
    /\ q' = Append(q, a)
    /\ waiting' = waiting + 1
    /\ added' = [added EXCEPT ![a] = @ + 1]
    /\ apc' = [apc EXCEPT ![a] = "put"]
    /\ UNCHANGED <<items, running, stopped, value, wpc, task, tokens, n, ran>>

(* add(), outside of the lock: sema.put_one(). *)
AddPut(a) ==
    /\ apc[a] = "put"
    /\ SemaPut
    /\ apc' = [apc EXCEPT ![a] = "sema_notify"]
    /\ UNCHANGED <<poolVars, wpc, task, added, tokens, n, ran>>

AddNotify(a) ==
    /\ apc[a] = "sema_notify"
    /\ SemaNotify
    /\ apc' = [apc EXCEPT ![a] = "add"]
    /\ UNCHANGED <<poolVars, value, task, added, tokens, n, ran>>

(* par1 has added all items but the first, which the client runs itself;    *)
(* the owner goes on to wait().                                             *)
AddedAll(a) ==
    /\ apc[a] = "add"
    /\ added[a] = items[a]
    /\ apc' = [apc EXCEPT ![a] = IF a = Owner THEN "wait" ELSE "wg_wait"]
    /\ UNCHANGED <<poolVars, value, wpc, task, added, tokens, n, ran>>

(* wait_group::wait: return from par1 when n_ is 0, else sleep. *)
WgWait(a) ==
    /\ apc[a] = "wg_wait"
    /\ apc' = [apc EXCEPT ![a] = IF n[a] = 0 THEN "returned" ELSE "wg_sleep"]
    /\ UNCHANGED <<poolVars, value, wpc, task, added, tokens, n, ran>>

IsZero == waiting = 0 /\ running = 0

(* thread_pool_impl::wait *)
Wait ==
    /\ apc[Owner] = "wait"
    /\ apc' = [apc EXCEPT ![Owner] = IF IsZero THEN "waited" ELSE "wait_sleep"]
    /\ UNCHANGED <<poolVars, value, wpc, task, added, tokens, n, ran>>

----------------------------------------------------------------------------
(* ~thread_pool_impl, when no client is in a call any more *)

Stop ==
    /\ apc[Owner] = "waited"
    /\ \A a \in Client : apc[a] = "returned"
    /\ stopped' = TRUE
    /\ tokens' = Cardinality(Worker)
    /\ apc' = [apc EXCEPT ![Owner] = "end_put"]
    /\ UNCHANGED <<items, q, waiting, running, value, wpc, task, added, n, ran>>

StopPut ==
    /\ apc[Owner] = "end_put"
    /\ tokens > 0
    /\ SemaPut
    /\ tokens' = tokens - 1
    /\ apc' = [apc EXCEPT ![Owner] = "end_notify"]
    /\ UNCHANGED <<poolVars, wpc, task, added, n, ran>>

StopNotify ==
    /\ apc[Owner] = "end_notify"
    /\ SemaNotify
    /\ apc' = [apc EXCEPT ![Owner] = IF tokens > 0 THEN "end_put" ELSE "end_wait"]
    /\ UNCHANGED <<poolVars, value, task, added, tokens, n, ran>>

(* wait() once more ... *)
StopWait ==
    /\ apc[Owner] = "end_wait"
    /\ apc' = [apc EXCEPT ![Owner] = IF IsZero THEN "join" ELSE "end_sleep"]
    /\ UNCHANGED <<poolVars, value, wpc, task, added, tokens, n, ran>>

(* ... and join every worker. *)
Join ==
    /\ apc[Owner] = "join"
    /\ \A w \in Worker : wpc[w] = "exit"
    /\ apc' = [apc EXCEPT ![Owner] = "returned"]
    /\ UNCHANGED <<poolVars, value, wpc, task, added, tokens, n, ran>>

----------------------------------------------------------------------------
(* A condition variable may wake a waiter that nobody notified. *)
SpuriousWakeup ==
    \/ \E w \in Worker :
          /\ wpc[w] = "sleep"
          /\ wpc' = [wpc EXCEPT ![w] = "woken"]
          /\ UNCHANGED <<poolVars, value, task, apc, added, tokens, n, ran>>
    \/ \E a \in Adder :
          /\ apc[a] \in DOMAIN Awake
          /\ apc' = [apc EXCEPT ![a] = Awake[@]]
          /\ UNCHANGED <<poolVars, value, wpc, task, added, tokens, n, ran>>

Init ==
    /\ items \in Uses
    /\ q = <<>>
    /\ waiting = 0
    /\ running = 0
    /\ stopped = FALSE
    /\ value = 0
    /\ wpc = [w \in Worker |-> "get"]
    /\ task = [w \in Worker |-> Owner]
    /\ apc = [a \in Adder |-> "add"]
    /\ added = [a \in Adder |-> 0]
    /\ tokens = 0
    /\ n = [a \in Adder |-> items[a]]
    /\ ran = [a \in Adder |-> 0]

WorkerStep(w) ==
    \/ SemaGet(w)
    \/ CheckStopped(w)
    \/ Pop(w)
    \/ Run(w)
    \/ Done(w)
    \/ WgNotify(w)
    \/ Finish(w)
    \/ Notify(w)

AdderStep(a) ==
    \/ Add(a)
    \/ AddPut(a)
    \/ AddNotify(a)
    \/ AddedAll(a)
    \/ WgWait(a)

OwnerStep ==
    \/ Wait
    \/ Stop
    \/ StopPut
    \/ StopNotify
    \/ StopWait
    \/ Join

(* The pool is destroyed. *)
Terminated == apc[Owner] = "returned" /\ UNCHANGED vars

Next ==
    \/ \E w \in Worker : WorkerStep(w)
    \/ \E a \in Adder : AdderStep(a)
    \/ OwnerStep
    \/ SpuriousWakeup
    \/ Terminated

(* Every thread that can run is scheduled; spurious wakeups are not relied on. *)
Fairness ==
    /\ \A w \in Worker : WF_vars(WorkerStep(w))
    /\ \A a \in Adder : WF_vars(AdderStep(a))
    /\ WF_vars(OwnerStep)

Spec == Init /\ [][Next]_vars

FairSpec == Spec /\ Fairness

----------------------------------------------------------------------------

Workers(S) == {w \in Worker : wpc[w] \in S}

WorkerState == {"get", "sleep", "woken", "check", "pop", "run", "done",
                "wg_notify", "finish", "notify", "exit"}

AdderState == {"add", "put", "sema_notify", "wg_wait", "wg_sleep", "wait",
               "wait_sleep", "waited", "end_put", "end_notify", "end_wait",
               "end_sleep", "join", "returned"}

(* Types: the semaphore, the counters of waiting and running tasks and the  *)
(* wait groups, whose n_ is unsigned, never go below zero.                  *)
TypeOK ==
    /\ items \in Uses
    /\ q \in Seq(Adder)
    /\ waiting \in Nat /\ running \in Nat /\ value \in Nat /\ tokens \in Nat
    /\ stopped \in BOOLEAN
    /\ wpc \in [Worker -> WorkerState]
    /\ task \in [Worker -> Adder]
    /\ apc \in [Adder -> AdderState]
    /\ added \in [Adder -> Nat]
    /\ n \in [Adder -> Nat]
    /\ ran \in [Adder -> Nat]

(* A worker that got a unit of the semaphore and saw the pool not stopped   *)
(* finds a task in the queue, although others add, pop and stop between its *)
(* three separate critical sections: q.front() is never called on an empty  *)
(* queue and the assertions of state::start and state::finish hold.         *)
PopFindsTask ==
    /\ Len(q) >= Cardinality(Workers({"pop"}))
    /\ waiting = Len(q)
    /\ running = Cardinality(Workers({"run", "done", "wg_notify", "finish"}))

(* par1 returns only when all its items have run, each once; so does wait() *)
(* for the tasks its caller added.                                          *)
ReturnedMeansRun ==
    /\ \A a \in Client : apc[a] = "returned" => ran[a] = items[a]
    /\ apc[Owner] = "waited" => ran[Owner] = items[Owner]

(* Every par1 returns and the destructor joins every worker. *)
PoolDestroyed == <>(\A a \in Adder : apc[a] = "returned")

============================================================================
