-------------------------- MODULE ThreadPoolProofs --------------------------
(***************************************************************************)
(* The thread pool's safety properties for any number of workers, clients   *)
(* and tasks.  None of them is inductive: all three follow from PoolInv,    *)
(* which accounts for every unit of the semaphore and for every task.       *)
(***************************************************************************)
EXTENDS ThreadPool, FiniteSetTheorems, TLAPS

(* How many workers are in one of the states S; how many are in state st    *)
(* with a task of a; how many adders have pushed a task and not yet put its *)
(* unit; how often a occurs in a queue.                                     *)
Count(pc, S)            == Cardinality({w \in Worker : pc[w] \in S})
CountOf(pc, tk, st, a)  == Cardinality({w \in Worker : pc[w] = st /\ tk[w] = a})
Putting(pc)             == Cardinality({a \in Adder : pc[a] = "put"})
Occurs(s, a)            == Cardinality({i \in 1 .. Len(s) : s[i] = a})

(* The states in which a worker has a task that it has not finished, and    *)
(* those in which it has a unit of the semaphore and no task yet.           *)
Busy    == {"run", "done", "wg_notify", "finish"}
HasUnit == {"check", "pop"}

Adding == {"add", "put", "sema_notify"}
Ending == {"end_put", "end_notify", "end_wait", "end_sleep", "join", "returned"}

(* Which thread can be in which state: only clients have a wait group, and  *)
(* the pool is stopped while its owner is in the destructor.                *)
ControlInv ==
    /\ \A a \in Client : apc[a] \in Adding \cup {"wg_wait", "wg_sleep", "returned"}
    /\ apc[Owner] \notin {"wg_wait", "wg_sleep"}
    /\ stopped <=> apc[Owner] \in Ending
    /\ stopped => \A a \in Client : apc[a] = "returned"
    /\ \A w \in Worker : wpc[w] \in {"done", "wg_notify"} => task[w] \in Client

(* state::waiting and state::running count what they are meant to count. *)
CountersInv ==
    /\ waiting = Len(q)
    /\ running = Count(wpc, Busy)

(* Every task in the queue has its unit: in the semaphore, with a worker    *)
(* that has taken it and not yet popped, or with an adder about to put it.  *)
(* A stopped pool has no tasks, and its units only end the workers.         *)
UnitsInv ==
    /\ ~stopped => value + Count(wpc, HasUnit) + Putting(apc) = Len(q)
    /\ stopped => q = <<>> /\ \A w \in Worker : wpc[w] \notin {"pop", "run"}

(* Every task that a has added is in the queue, being run, or has run ...   *)
TasksInv ==
    \A a \in Adder :
        /\ Occurs(q, a) + CountOf(wpc, task, "run", a) + ran[a] = added[a]
        /\ added[a] <= items[a]
        /\ apc[a] \notin Adding => added[a] = items[a]

(* ... and the wait group counts those that have not, and those that have   *)
(* run and whose worker is about to call done().                            *)
WaitGroupInv ==
    \A a \in Client : n[a] + ran[a] = items[a] + CountOf(wpc, task, "done", a)

PoolInv ==
    /\ TypeOK
    /\ ControlInv
    /\ CountersInv
    /\ UnitsInv
    /\ TasksInv
    /\ WaitGroupInv
    /\ ReturnedMeansRun

(* The pool has finitely many workers and adders; a task count is a number. *)
LEMMA Constants ==
    /\ IsFiniteSet(Worker) /\ IsFiniteSet(Adder)
    /\ Owner \in Adder /\ Owner \notin Client /\ Client \subseteq Adder
    /\ \A a \in Adder : a \in Client \/ a = Owner
    /\ \A u \in Uses : u \in [Adder -> Nat]
    BY WorkerAssumption, AdderAssumption, UsesAssumption, FS_AddElement DEF Adder

USE Constants

----------------------------------------------------------------------------
(* Counting *)

(* Two sets that agree on all elements but x. *)
LEMMA CountStep ==
    ASSUME NEW A, NEW B, NEW x, IsFiniteSet(A),
           \A z : z # x => (z \in A <=> z \in B)
    PROVE  /\ IsFiniteSet(B)
           /\ Cardinality(A) \in Nat /\ Cardinality(B) \in Nat
           /\ Cardinality(B) = Cardinality(A) + (IF x \in B THEN 1 ELSE 0)
                                              - (IF x \in A THEN 1 ELSE 0)
           /\ x \in A => Cardinality(A) > 0
<1>0. Cardinality(A) \in Nat
    BY FS_CardinalityType
<1>1. CASE x \in A /\ x \in B
    <2>1. A = B
        BY <1>1
    <2>2. Cardinality(A) # 0
        BY <1>1, FS_EmptySet
    <2> QED BY <1>0, <1>1, <2>1, <2>2
<1>2. CASE x \in A /\ x \notin B
    <2>1. B = A \ {x}
        BY <1>2
    <2>2. IsFiniteSet(B) /\ Cardinality(B) = Cardinality(A) - 1
        BY <2>1, <1>2, FS_RemoveElement
    <2>3. Cardinality(B) \in Nat
        BY <2>2, FS_CardinalityType
    <2> QED BY <1>0, <1>2, <2>2, <2>3
<1>3. CASE x \notin A /\ x \in B
    <2>1. B = A \cup {x}
        BY <1>3
    <2>2. IsFiniteSet(B) /\ Cardinality(B) = Cardinality(A) + 1
        BY <2>1, <1>3, FS_AddElement
    <2> QED BY <1>0, <1>3, <2>2
<1>4. CASE x \notin A /\ x \notin B
    <2>1. A = B
        BY <1>4
    <2> QED BY <1>0, <1>4, <2>1
<1> QED BY <1>1, <1>2, <1>3, <1>4

(* The number of workers in some states is a natural number, which is zero  *)
(* when there are none and grows with the set of states.                    *)
LEMMA CountFacts ==
    ASSUME NEW f, NEW S
    PROVE  /\ Count(f, S) \in Nat
           /\ Count(f, S) = 0 <=> \A w \in Worker : f[w] \notin S
           /\ \A T : T \subseteq S => Count(f, T) <= Count(f, S)
<1> DEFINE A(T) == {w \in Worker : f[w] \in T}
<1>1. \A T : IsFiniteSet(A(T)) /\ Cardinality(A(T)) \in Nat
    BY FS_Subset, FS_CardinalityType
<1>2. Cardinality(A(S)) = 0 <=> A(S) = {}
    BY <1>1, FS_EmptySet
<1>3. ASSUME NEW T, T \subseteq S PROVE Cardinality(A(T)) <= Cardinality(A(S))
    <2>1. A(T) \in SUBSET A(S)
        BY <1>3
    <2> HIDE DEF A
    <2> QED BY <2>1, <1>1, FS_Subset
<1> QED BY <1>1, <1>2, <1>3 DEF Count

(* What a step that moves worker w, and no other, does to both. *)
LEMMA WorkerMoves ==
    ASSUME NEW w \in Worker,
           \A v \in Worker : v # w => wpc'[v] = wpc[v] /\ task'[v] = task[v]
    PROVE  /\ \A S : /\ Count(wpc, S) \in Nat /\ Count(wpc', S) \in Nat
                     /\ Count(wpc', S) = Count(wpc, S) + (IF wpc'[w] \in S THEN 1 ELSE 0)
                                                      - (IF wpc[w] \in S THEN 1 ELSE 0)
           /\ \A st, a : /\ CountOf(wpc, task, st, a) \in Nat /\ CountOf(wpc', task', st, a) \in Nat
                         /\ CountOf(wpc', task', st, a) = CountOf(wpc, task, st, a)
                                + (IF wpc'[w] = st /\ task'[w] = a THEN 1 ELSE 0)
                                - (IF wpc[w] = st /\ task[w] = a THEN 1 ELSE 0)
<1>1. ASSUME NEW S
      PROVE  /\ Count(wpc, S) \in Nat /\ Count(wpc', S) \in Nat
             /\ Count(wpc', S) = Count(wpc, S) + (IF wpc'[w] \in S THEN 1 ELSE 0)
                                              - (IF wpc[w] \in S THEN 1 ELSE 0)
    <2> DEFINE A == {v \in Worker : wpc[v] \in S}
               B == {v \in Worker : wpc'[v] \in S}
    <2>1. IsFiniteSet(A)
        BY FS_Subset
    <2>2. \A z : z # w => (z \in A <=> z \in B)
        OBVIOUS
    <2>3. (w \in A <=> wpc[w] \in S) /\ (w \in B <=> wpc'[w] \in S)
        OBVIOUS
    <2>4. Cardinality(A) = Count(wpc, S) /\ Cardinality(B) = Count(wpc', S)
        BY DEF Count
    <2> HIDE DEF A, B
    <2> QED BY <2>1, <2>2, <2>3, <2>4, CountStep
<1>2. ASSUME NEW st, NEW a
      PROVE  /\ CountOf(wpc, task, st, a) \in Nat /\ CountOf(wpc', task', st, a) \in Nat
             /\ CountOf(wpc', task', st, a) = CountOf(wpc, task, st, a)
                    + (IF wpc'[w] = st /\ task'[w] = a THEN 1 ELSE 0)
                    - (IF wpc[w] = st /\ task[w] = a THEN 1 ELSE 0)
    <2> DEFINE A == {v \in Worker : wpc[v] = st /\ task[v] = a}
               B == {v \in Worker : wpc'[v] = st /\ task'[v] = a}
    <2>1. IsFiniteSet(A)
        BY FS_Subset
    <2>2. \A z : z # w => (z \in A <=> z \in B)
        OBVIOUS
    <2>3. (w \in A <=> wpc[w] = st /\ task[w] = a) /\ (w \in B <=> wpc'[w] = st /\ task'[w] = a)
        OBVIOUS
    <2>4. Cardinality(A) = CountOf(wpc, task, st, a) /\ Cardinality(B) = CountOf(wpc', task', st, a)
        BY DEF CountOf
    <2> HIDE DEF A, B
    <2> QED BY <2>1, <2>2, <2>3, <2>4, CountStep
<1> QED BY <1>1, <1>2

(* The number of workers in a state with a task of one adder: when it is 0 *)
(* there is none.                                                          *)
LEMMA CountOfFacts ==
    ASSUME NEW f, NEW tk, NEW st, NEW a
    PROVE  /\ CountOf(f, tk, st, a) \in Nat
           /\ CountOf(f, tk, st, a) = 0 <=> \A w \in Worker : ~(f[w] = st /\ tk[w] = a)
<1> DEFINE A == {v \in Worker : f[v] = st /\ tk[v] = a}
<1>1. IsFiniteSet(A)
    BY FS_Subset
<1>2. Cardinality(A) \in Nat /\ (Cardinality(A) = 0 <=> A = {})
    BY <1>1, FS_CardinalityType, FS_EmptySet
<1> QED BY <1>2 DEF CountOf

(* An adder goes from one state to another. *)
LEMMA PuttingMove ==
    ASSUME NEW f, NEW g, NEW b \in Adder,
           \A v \in Adder : v # b => g[v] = f[v]
    PROVE  /\ Putting(f) \in Nat /\ Putting(g) \in Nat
           /\ Putting(g) = Putting(f) + (IF g[b] = "put" THEN 1 ELSE 0)
                                      - (IF f[b] = "put" THEN 1 ELSE 0)
<1> DEFINE A == {v \in Adder : f[v] = "put"}
           B == {v \in Adder : g[v] = "put"}
<1>1. IsFiniteSet(A)
    BY FS_Subset
<1>2. \A z : z # b => (z \in A <=> z \in B)
    OBVIOUS
<1>3. (b \in A <=> f[b] = "put") /\ (b \in B <=> g[b] = "put")
    OBVIOUS
<1>4. Cardinality(A) = Putting(f) /\ Cardinality(B) = Putting(g)
    BY DEF Putting
<1> HIDE DEF A, B
<1> QED BY <1>1, <1>2, <1>3, <1>4, CountStep

(* The number of adders between push and sem.put(): when it is 0 there is *)
(* none.                                                                  *)
LEMMA PuttingFacts ==
    ASSUME NEW f
    PROVE  /\ Putting(f) \in Nat
           /\ Putting(f) = 0 <=> \A v \in Adder : f[v] # "put"
<1> DEFINE A == {v \in Adder : f[v] = "put"}
<1>1. IsFiniteSet(A)
    BY FS_Subset
<1>2. Cardinality(A) \in Nat /\ (Cardinality(A) = 0 <=> A = {})
    BY <1>1, FS_CardinalityType, FS_EmptySet
<1> QED BY <1>2 DEF Putting

(* Occurrences in a queue: none in an empty one, some of the first element  *)
(* in any other ...                                                         *)
LEMMA OccursFacts ==
    ASSUME NEW s \in Seq(Adder), NEW a
    PROVE  /\ Occurs(s, a) \in Nat
           /\ s = <<>> => Occurs(s, a) = 0
           /\ s # <<>> /\ s[1] = a => Occurs(s, a) > 0
<1> DEFINE A == {i \in 1 .. Len(s) : s[i] = a}
<1>1. IsFiniteSet(A)
    BY FS_Interval, FS_Subset
<1>2. Cardinality(A) \in Nat /\ (Cardinality(A) = 0 <=> A = {})
    BY <1>1, FS_CardinalityType, FS_EmptySet
<1>3. s = <<>> => A = {}
    OBVIOUS
<1>4. s # <<>> /\ s[1] = a => 1 \in A
    OBVIOUS
<1>5. Occurs(s, a) = Cardinality(A)
    BY DEF Occurs
<1> HIDE DEF A
<1> QED BY <1>2, <1>3, <1>4, <1>5

(* ... one more after push ... *)
LEMMA OccursAppend ==
    ASSUME NEW s \in Seq(Adder), NEW b \in Adder, NEW a
    PROVE  Occurs(Append(s, b), a) = Occurs(s, a) + (IF b = a THEN 1 ELSE 0)
<1> DEFINE A == {i \in 1 .. Len(s) : s[i] = a}
           B == {i \in 1 .. Len(Append(s, b)) : Append(s, b)[i] = a}
           x == Len(s) + 1
<1>1. IsFiniteSet(A)
    BY FS_Interval, FS_Subset
<1>2. \A z : z # x => (z \in A <=> z \in B)
    OBVIOUS
<1>3. x \notin A /\ (x \in B <=> b = a)
    OBVIOUS
<1>4. Cardinality(A) = Occurs(s, a) /\ Cardinality(B) = Occurs(Append(s, b), a)
    BY DEF Occurs
<1> HIDE DEF A, B, x
<1> QED BY <1>1, <1>2, <1>3, <1>4, CountStep

(* ... and one less after pop: the places of the tail are those of the      *)
(* sequence but the first, moved by one.                                    *)
LEMMA OccursTail ==
    ASSUME NEW s \in Seq(Adder), s # <<>>, NEW a
    PROVE  Occurs(Tail(s), a) = Occurs(s, a) - (IF Head(s) = a THEN 1 ELSE 0)
<1> DEFINE A == {i \in 1 .. Len(s) : s[i] = a}
           C == {i \in 2 .. Len(s) : s[i] = a}
           B == {i \in 1 .. Len(Tail(s)) : Tail(s)[i] = a}
           f == [i \in C |-> i - 1]
<1>1. IsFiniteSet(A)
    BY FS_Interval, FS_Subset
<1>2. \A z : z # 1 => (z \in A <=> z \in C)
    OBVIOUS
<1>3. 1 \notin C /\ (1 \in A <=> Head(s) = a)
    OBVIOUS
<1>4. Len(Tail(s)) = Len(s) - 1 /\ \A i \in 1 .. Len(s) - 1 : Tail(s)[i] = s[i + 1]
    OBVIOUS
<1>5. f \in Bijection(C, B)
    <2>1. f \in [C -> B]
        BY <1>4
    <2>2. \A x, y \in C : f[x] = f[y] => x = y
        OBVIOUS
    <2>3. \A i \in B : \E x \in C : f[x] = i
        <3> TAKE i \in B
        <3>1. i + 1 \in C /\ f[i + 1] = i
            BY <1>4
        <3> QED BY <3>1
    <2> QED BY <2>1, <2>2, <2>3 DEF Bijection, Injection, Surjection, IsInjective
<1>6. ExistsBijection(C, B)
    BY <1>5 DEF ExistsBijection
<1>7. Cardinality(A) = Occurs(s, a) /\ Cardinality(B) = Occurs(Tail(s), a)
    BY DEF Occurs
<1> HIDE DEF A, B, C, f
<1>8. IsFiniteSet(C) /\ Cardinality(C) = Cardinality(A) - (IF 1 \in A THEN 1 ELSE 0)
    BY <1>1, <1>2, <1>3, CountStep
<1>9. Cardinality(B) = Cardinality(C)
    BY <1>6, <1>8, FS_Bijection
<1> QED BY <1>3, <1>7, <1>8, <1>9

----------------------------------------------------------------------------
(* Every step preserves PoolInv *)

(* Where a thread goes on when it is woken from each of its waits. *)
LEMMA AwakeValues ==
    /\ DOMAIN Awake = {"wg_sleep", "wait_sleep", "end_sleep"}
    /\ Awake["wg_sleep"] = "wg_wait"
    /\ Awake["wait_sleep"] = "wait"
    /\ Awake["end_sleep"] = "end_wait"
    BY DEF Awake

(* The invariant holds in a pool without tasks. *)
LEMMA PoolInvInit == Init => PoolInv
<1> SUFFICES ASSUME Init PROVE PoolInv
    OBVIOUS
<1>1. TypeOK
    <2>1. items \in Uses /\ stopped \in BOOLEAN
        BY DEF Init
    <2>2. q \in Seq(Adder)
        BY DEF Init
    <2>3. waiting \in Nat /\ running \in Nat /\ value \in Nat /\ tokens \in Nat
        BY DEF Init
    <2>4. wpc \in [Worker -> WorkerState]
        BY DEF Init, WorkerState
    <2>5. apc \in [Adder -> AdderState]
        BY DEF Init, AdderState
    <2>6. task \in [Worker -> Adder]
        BY DEF Init
    <2>7. added \in [Adder -> Nat] /\ ran \in [Adder -> Nat]
        BY DEF Init
    <2>8. n \in [Adder -> Nat]
        BY DEF Init
    <2> QED BY <2>1, <2>2, <2>3, <2>4, <2>5, <2>6, <2>7, <2>8 DEF TypeOK
<1>2. Count(wpc, Busy) = 0 /\ Count(wpc, HasUnit) = 0
    <2>1. \A w \in Worker : wpc[w] \notin Busy /\ wpc[w] \notin HasUnit
        BY DEF Init, Busy, HasUnit
    <2> QED BY <2>1, CountFacts
<1>3. Putting(apc) = 0
    BY PuttingFacts DEF Init
<1>4. \A a \in Adder : /\ Occurs(q, a) = 0
                       /\ CountOf(wpc, task, "run", a) = 0
                       /\ CountOf(wpc, task, "done", a) = 0
    <2>1. q \in Seq(Adder) /\ q = <<>>
        BY DEF Init
    <2>2. \A w \in Worker : wpc[w] # "run" /\ wpc[w] # "done"
        BY DEF Init
    <2> QED BY <2>1, <2>2, OccursFacts, CountOfFacts
<1>5. ControlInv
    BY DEF Init, ControlInv, Adding, Ending
<1>6. CountersInv /\ UnitsInv
    BY <1>2, <1>3 DEF Init, CountersInv, UnitsInv
<1>7. TasksInv /\ WaitGroupInv
    BY <1>4 DEF Init, TasksInv, WaitGroupInv, Adding
<1>8. ReturnedMeansRun
    BY DEF Init, ReturnedMeansRun
<1> QED BY <1>1, <1>5, <1>6, <1>7, <1>8 DEF PoolInv

(* A worker moves between two states that are counted alike and nothing     *)
(* else changes, except that the pool's units may move with it.             *)
LEMMA SemaGetStep ==
    ASSUME PoolInv, NEW w \in Worker, SemaGet(w)
    PROVE  PoolInv'
<1> USE DEF PoolInv
<1>0. UNCHANGED <<items, q, waiting, running, stopped, task, apc, added, tokens, n, ran>>
    BY DEF SemaGet, poolVars
<1>1. wpc' \in [Worker -> WorkerState] /\ value' \in Nat /\ value \in Nat
    <2>1. wpc' \in [Worker -> WorkerState]
        BY DEF SemaGet, TypeOK, WorkerState
    <2>2. value' \in Nat /\ value \in Nat
        BY DEF SemaGet, TypeOK
    <2> QED BY <2>1, <2>2
<1>2. \A v \in Worker : v # w => wpc'[v] = wpc[v] /\ task'[v] = task[v]
    BY DEF SemaGet, TypeOK
<1>3. /\ wpc[w] \in {"get", "woken"} /\ wpc'[w] \in {"check", "sleep"}
      /\ wpc'[w] = "check" <=> value' = value - 1
      /\ wpc'[w] # "check" => value' = value
    BY DEF SemaGet, TypeOK
<1>4. Count(wpc', Busy) = Count(wpc, Busy)
    BY <1>2, <1>3, WorkerMoves DEF Busy
<1>5. value' + Count(wpc', HasUnit) = value + Count(wpc, HasUnit)
    BY <1>1, <1>2, <1>3, WorkerMoves DEF HasUnit
<1>6. \A a : /\ CountOf(wpc', task', "run", a) = CountOf(wpc, task, "run", a)
             /\ CountOf(wpc', task', "done", a) = CountOf(wpc, task, "done", a)
    BY <1>2, <1>3, WorkerMoves
<1>7. TypeOK'
    BY <1>0, <1>1 DEF TypeOK
<1>8. ControlInv'
    BY <1>0, <1>2, <1>3 DEF ControlInv
<1>9. CountersInv'
    BY <1>0, <1>4 DEF CountersInv
<1>10. UnitsInv'
    BY <1>0, <1>1, <1>2, <1>3, <1>5, CountFacts, PuttingFacts DEF UnitsInv
<1>11. TasksInv' /\ WaitGroupInv' /\ ReturnedMeansRun'
    BY <1>0, <1>6 DEF TasksInv, WaitGroupInv, ReturnedMeansRun
<1> QED BY <1>7, <1>8, <1>9, <1>10, <1>11

(* A worker that tests the stop flag keeps the invariant. *)
LEMMA CheckStoppedStep ==
    ASSUME PoolInv, NEW w \in Worker, CheckStopped(w)
    PROVE  PoolInv'
<1> USE DEF PoolInv
<1>0. UNCHANGED <<items, q, waiting, running, stopped, value, task, apc, added, tokens, n, ran>>
    BY DEF CheckStopped, poolVars
<1>1. wpc' \in [Worker -> WorkerState]
    BY DEF CheckStopped, TypeOK, WorkerState
<1>2. \A v \in Worker : v # w => wpc'[v] = wpc[v] /\ task'[v] = task[v]
    BY DEF CheckStopped, TypeOK
<1>3. wpc[w] = "check" /\ wpc'[w] = IF stopped THEN "exit" ELSE "pop"
    BY DEF CheckStopped, TypeOK
<1>4. Count(wpc', Busy) = Count(wpc, Busy)
    BY <1>2, <1>3, WorkerMoves DEF Busy
<1>5. ~stopped => Count(wpc', HasUnit) = Count(wpc, HasUnit)
    BY <1>2, <1>3, WorkerMoves DEF HasUnit
<1>6. \A a : /\ CountOf(wpc', task', "run", a) = CountOf(wpc, task, "run", a)
             /\ CountOf(wpc', task', "done", a) = CountOf(wpc, task, "done", a)
    BY <1>2, <1>3, WorkerMoves
<1>7. TypeOK'
    BY <1>0, <1>1 DEF TypeOK
<1>8. ControlInv'
    BY <1>0, <1>2, <1>3 DEF ControlInv
<1>9. CountersInv' /\ UnitsInv'
    BY <1>0, <1>2, <1>3, <1>4, <1>5 DEF CountersInv, UnitsInv
<1>10. TasksInv' /\ WaitGroupInv' /\ ReturnedMeansRun'
    BY <1>0, <1>6 DEF TasksInv, WaitGroupInv, ReturnedMeansRun
<1> QED BY <1>7, <1>8, <1>9, <1>10

(* The task that a worker pops leaves the queue and is run: nothing is lost *)
(* and the worker's unit is used up.                                        *)
LEMMA PopStep ==
    ASSUME PoolInv, NEW w \in Worker, Pop(w)
    PROVE  PoolInv'
<1> USE DEF PoolInv
<1>0. /\ UNCHANGED <<items, stopped, value, apc, added, tokens, n, ran>>
      /\ q' = Tail(q) /\ waiting' = waiting - 1 /\ running' = running + 1
    BY DEF Pop
<1>1. /\ q \in Seq(Adder) /\ q # <<>> /\ Head(q) \in Adder /\ Tail(q) \in Seq(Adder)
      /\ Len(Tail(q)) = Len(q) - 1 /\ Len(q) - 1 \in Nat
      /\ waiting \in Nat /\ running \in Nat /\ value \in Nat
    <2>1. q \in Seq(Adder) /\ q # <<>>
        BY DEF Pop, TypeOK
    <2>2. Head(q) \in Adder /\ Tail(q) \in Seq(Adder)
        BY <2>1
    <2>3. Len(Tail(q)) = Len(q) - 1 /\ Len(q) - 1 \in Nat
        BY <2>1
    <2> QED BY <2>1, <2>2, <2>3 DEF TypeOK
<1>2. \A v \in Worker : v # w => wpc'[v] = wpc[v] /\ task'[v] = task[v]
    BY DEF Pop, TypeOK
<1>3. wpc[w] = "pop" /\ wpc'[w] = "run" /\ task'[w] = Head(q)
    BY DEF Pop, TypeOK
<1>4. wpc' \in [Worker -> WorkerState] /\ task' \in [Worker -> Adder]
    BY <1>1 DEF Pop, TypeOK, WorkerState
<1>5. Count(wpc, Busy) \in Nat /\ Count(wpc', Busy) = Count(wpc, Busy) + 1
    BY <1>2, <1>3, WorkerMoves DEF Busy
<1>6. Count(wpc, HasUnit) \in Nat /\ Count(wpc', HasUnit) = Count(wpc, HasUnit) - 1
    BY <1>2, <1>3, WorkerMoves DEF HasUnit
<1>7. \A a : /\ CountOf(wpc', task', "run", a) =
                    CountOf(wpc, task, "run", a) + (IF Head(q) = a THEN 1 ELSE 0)
             /\ CountOf(wpc', task', "done", a) = CountOf(wpc, task, "done", a)
    BY <1>2, <1>3, WorkerMoves
<1>8. TypeOK'
    <2>1. waiting' \in Nat /\ running' \in Nat
        BY <1>0, <1>1 DEF CountersInv
    <2> QED BY <1>0, <1>1, <1>4, <2>1 DEF TypeOK
<1>9. ControlInv'
    BY <1>0, <1>2, <1>3 DEF ControlInv
<1>10. CountersInv'
    BY <1>0, <1>1, <1>5 DEF CountersInv
<1>11. UnitsInv'
    BY <1>0, <1>1, <1>6, PuttingFacts DEF UnitsInv
<1>12. TasksInv'
    <2> SUFFICES ASSUME NEW a \in Adder
                 PROVE  Occurs(q', a) + CountOf(wpc', task', "run", a) + ran[a] = added[a]
        BY <1>0 DEF TasksInv
    <2>1. Occurs(q', a) = Occurs(q, a) - (IF Head(q) = a THEN 1 ELSE 0)
        BY <1>0, <1>1, OccursTail
    <2>2. Occurs(q, a) \in Nat /\ CountOf(wpc, task, "run", a) \in Nat
        BY <1>1, OccursFacts, CountOfFacts
    <2>3. ran[a] \in Nat
        BY DEF TypeOK
    <2> QED BY <1>7, <2>1, <2>2, <2>3 DEF TasksInv
<1>13. WaitGroupInv' /\ ReturnedMeansRun'
    BY <1>0, <1>7 DEF WaitGroupInv, ReturnedMeansRun
<1> QED BY <1>8, <1>9, <1>10, <1>11, <1>12, <1>13

(* f() returns: the task counts as run, and no longer as being run. *)
LEMMA RunStep ==
    ASSUME PoolInv, NEW w \in Worker, Run(w)
    PROVE  PoolInv'
<1> USE DEF PoolInv
<1>0. UNCHANGED <<items, q, waiting, running, stopped, value, task, apc, added, tokens, n>>
    BY DEF Run, poolVars
<1>1. PICK b \in Adder : b = task[w]
    BY DEF TypeOK
<1>2. \A v \in Worker : v # w => wpc'[v] = wpc[v] /\ task'[v] = task[v]
    BY DEF Run, TypeOK
<1>3. wpc[w] = "run" /\ wpc'[w] = (IF b = Owner THEN "finish" ELSE "done") /\ task'[w] = b
    BY <1>0, <1>1 DEF Run, TypeOK
<1>4. wpc' \in [Worker -> WorkerState] /\ ran' \in [Adder -> Nat]
    BY <1>1 DEF Run, TypeOK, WorkerState
<1>5. \A a \in Adder : ran[a] \in Nat /\ ran'[a] = ran[a] + (IF b = a THEN 1 ELSE 0)
    BY <1>1 DEF Run, TypeOK
<1>6. Count(wpc', Busy) = Count(wpc, Busy) /\ Count(wpc', HasUnit) = Count(wpc, HasUnit)
    BY <1>2, <1>3, WorkerMoves DEF Busy, HasUnit
<1>7. \A a : /\ CountOf(wpc, task, "run", a) \in Nat /\ CountOf(wpc, task, "done", a) \in Nat
             /\ CountOf(wpc', task', "run", a) \in Nat
             /\ CountOf(wpc', task', "run", a) =
                    CountOf(wpc, task, "run", a) - (IF b = a THEN 1 ELSE 0)
             /\ CountOf(wpc', task', "done", a) =
                    CountOf(wpc, task, "done", a) + (IF b = a /\ b # Owner THEN 1 ELSE 0)
    BY <1>1, <1>2, <1>3, WorkerMoves
<1>8. \A a \in Adder : Occurs(q, a) \in Nat /\ added[a] \in Nat /\ items[a] \in Nat /\ n[a] \in Nat
    BY OccursFacts DEF TypeOK
<1>9. TypeOK'
    BY <1>0, <1>4 DEF TypeOK
<1>10. ControlInv'
    BY <1>0, <1>1, <1>2, <1>3 DEF ControlInv
<1>11. CountersInv' /\ UnitsInv'
    BY <1>0, <1>2, <1>3, <1>6 DEF CountersInv, UnitsInv
<1>12. TasksInv'
    <2> SUFFICES ASSUME NEW a \in Adder
                 PROVE  Occurs(q, a) + CountOf(wpc', task', "run", a) + ran'[a] = added[a]
        BY <1>0 DEF TasksInv
    <2> QED BY <1>5, <1>7, <1>8 DEF TasksInv
<1>13. WaitGroupInv'
    <2> SUFFICES ASSUME NEW a \in Client
                 PROVE  n[a] + ran'[a] = items[a] + CountOf(wpc', task', "done", a)
        BY <1>0 DEF WaitGroupInv
    <2> QED BY <1>5, <1>7, <1>8 DEF WaitGroupInv
<1>14. ReturnedMeansRun'
    <2>1. ASSUME NEW a \in Adder, apc[a] \notin Adding, ran[a] = items[a] PROVE ran'[a] = items[a]
        BY <2>1, <1>5, <1>7, <1>8 DEF TasksInv
    <2> QED BY <2>1, <1>0 DEF ReturnedMeansRun, Adding
<1> QED BY <1>9, <1>10, <1>11, <1>12, <1>13, <1>14

(* wg.done(): the wait group no longer counts the task. *)
LEMMA DoneStep ==
    ASSUME PoolInv, NEW w \in Worker, Done(w)
    PROVE  PoolInv'
<1> USE DEF PoolInv
<1>0. UNCHANGED <<items, q, waiting, running, stopped, value, task, apc, added, tokens, ran>>
    BY DEF Done, poolVars
<1>1. PICK b \in Client : b = task[w]
    BY DEF Done, ControlInv
<1>2. \A v \in Worker : v # w => wpc'[v] = wpc[v] /\ task'[v] = task[v]
    BY DEF Done, TypeOK
<1>3. wpc[w] = "done" /\ wpc'[w] = "wg_notify" /\ task'[w] = b
    BY <1>0, <1>1 DEF Done, TypeOK
<1>4. Count(wpc', Busy) = Count(wpc, Busy) /\ Count(wpc', HasUnit) = Count(wpc, HasUnit)
    BY <1>2, <1>3, WorkerMoves DEF Busy, HasUnit
<1>5. \A a : /\ CountOf(wpc', task', "done", a) \in Nat /\ CountOf(wpc, task, "done", a) \in Nat
             /\ CountOf(wpc', task', "run", a) = CountOf(wpc, task, "run", a)
             /\ CountOf(wpc', task', "done", a) =
                    CountOf(wpc, task, "done", a) - (IF b = a THEN 1 ELSE 0)
    BY <1>1, <1>2, <1>3, WorkerMoves
<1>6. \A a \in Adder : n[a] \in Nat /\ n'[a] = n[a] - (IF b = a THEN 1 ELSE 0)
    BY <1>1 DEF Done, TypeOK
<1>7. ran[b] \in Nat /\ items[b] \in Nat /\ ran[b] <= items[b]
    <2>1. Occurs(q, b) \in Nat /\ added[b] \in Nat /\ items[b] \in Nat /\ ran[b] \in Nat
        BY OccursFacts DEF TypeOK
    <2>2. CountOf(wpc, task, "run", b) \in Nat
        BY CountOfFacts
    <2> QED BY <2>1, <2>2 DEF TasksInv
<1>8. n[b] > 0
    BY <1>1, <1>5, <1>6, <1>7 DEF WaitGroupInv
<1>9. wpc' \in [Worker -> WorkerState] /\ n' \in [Adder -> Nat]
    <2>1. n' = [n EXCEPT ![b] = @ - 1]
        BY <1>1 DEF Done
    <2>2. n' \in [Adder -> Nat]
        BY <2>1, <1>1, <1>6, <1>8 DEF TypeOK
    <2>3. wpc' \in [Worker -> WorkerState]
        BY DEF Done, TypeOK, WorkerState
    <2> QED BY <2>2, <2>3
<1>10. TypeOK'
    BY <1>0, <1>9 DEF TypeOK
<1>11. ControlInv'
    BY <1>0, <1>1, <1>2, <1>3 DEF ControlInv
<1>12. CountersInv' /\ UnitsInv'
    BY <1>0, <1>2, <1>3, <1>4 DEF CountersInv, UnitsInv
<1>13. TasksInv' /\ ReturnedMeansRun'
    BY <1>0, <1>5 DEF TasksInv, ReturnedMeansRun
<1>14. WaitGroupInv'
    <2> SUFFICES ASSUME NEW a \in Client
                 PROVE  n'[a] + ran[a] = items[a] + CountOf(wpc', task', "done", a)
        BY <1>0 DEF WaitGroupInv
    <2>1. ran[a] \in Nat /\ items[a] \in Nat
        BY DEF TypeOK
    <2> QED BY <1>5, <1>6, <2>1 DEF WaitGroupInv
<1> QED BY <1>10, <1>11, <1>12, <1>13, <1>14

(* state::finish *)
LEMMA FinishStep ==
    ASSUME PoolInv, NEW w \in Worker, Finish(w)
    PROVE  PoolInv'
<1> USE DEF PoolInv
<1>0. /\ UNCHANGED <<items, q, waiting, stopped, value, task, apc, added, tokens, n, ran>>
      /\ running' = running - 1
    BY DEF Finish
<1>1. wpc' \in [Worker -> WorkerState] /\ running \in Nat
    BY DEF Finish, TypeOK, WorkerState
<1>2. \A v \in Worker : v # w => wpc'[v] = wpc[v] /\ task'[v] = task[v]
    BY DEF Finish, TypeOK
<1>3. wpc[w] = "finish" /\ wpc'[w] = "notify"
    BY DEF Finish, TypeOK
<1>4. /\ Count(wpc', Busy) \in Nat /\ Count(wpc', Busy) = Count(wpc, Busy) - 1
      /\ Count(wpc', HasUnit) = Count(wpc, HasUnit)
    BY <1>2, <1>3, WorkerMoves DEF Busy, HasUnit
<1>5. \A a : /\ CountOf(wpc', task', "run", a) = CountOf(wpc, task, "run", a)
             /\ CountOf(wpc', task', "done", a) = CountOf(wpc, task, "done", a)
    BY <1>2, <1>3, WorkerMoves
<1>6. CountersInv' /\ UnitsInv'
    BY <1>0, <1>1, <1>2, <1>3, <1>4 DEF CountersInv, UnitsInv
<1>7. running' \in Nat
    BY <1>4, <1>6 DEF CountersInv
<1>8. TypeOK'
    BY <1>0, <1>1, <1>7 DEF TypeOK
<1>9. ControlInv'
    BY <1>0, <1>2, <1>3 DEF ControlInv
<1>10. TasksInv' /\ WaitGroupInv' /\ ReturnedMeansRun'
    BY <1>0, <1>5 DEF TasksInv, WaitGroupInv, ReturnedMeansRun
<1> QED BY <1>6, <1>8, <1>9, <1>10

(* A step that changes neither tasks nor counters, and at most one worker   *)
(* and one adder, both between states in which they count for the same.     *)
Quiet ==
    /\ UNCHANGED <<items, q, waiting, running, stopped, value, task, added, n, ran>>
    /\ \/ wpc' = wpc
       \/ \E w \in Worker :
             /\ \A v \in Worker : v # w => wpc'[v] = wpc[v]
             /\ \/ wpc[w] = "wg_notify" /\ wpc'[w] = "finish"
                \/ {wpc[w], wpc'[w]} \subseteq {"get", "sleep", "woken", "notify"}
    /\ \/ apc' = apc
       \/ \E b \in Adder :
             /\ \A c \in Adder : c # b => apc'[c] = apc[c]
             /\ apc[b] # "put" /\ apc'[b] # "put"
             /\ apc'[b] \notin Adding => added[b] = items[b]
             /\ apc'[b] \in {"returned", "waited"} /\ ~stopped => ran[b] = items[b]

(* A step that is quiet keeps the invariant. *)
LEMMA QuietStep ==
    ASSUME PoolInv, TypeOK', ControlInv', Quiet
    PROVE  PoolInv'
<1> USE DEF PoolInv
<1>0. UNCHANGED <<items, q, waiting, running, stopped, value, task, added, n, ran>>
    BY DEF Quiet
<1>1. /\ Count(wpc', Busy) = Count(wpc, Busy) /\ Count(wpc', HasUnit) = Count(wpc, HasUnit)
      /\ \A a : /\ CountOf(wpc', task', "run", a) = CountOf(wpc, task, "run", a)
                /\ CountOf(wpc', task', "done", a) = CountOf(wpc, task, "done", a)
      /\ \A v \in Worker : wpc'[v] \in {"pop", "run"} => wpc[v] \in {"pop", "run"}
    <2>1. CASE wpc' = wpc
        BY <1>0, <2>1
    <2>2. CASE wpc' # wpc
        <3>1. PICK w \in Worker :
                 /\ \A v \in Worker : v # w => wpc'[v] = wpc[v]
                 /\ \/ wpc[w] = "wg_notify" /\ wpc'[w] = "finish"
                    \/ {wpc[w], wpc'[w]} \subseteq {"get", "sleep", "woken", "notify"}
            BY <2>2 DEF Quiet
        <3>2. \A v \in Worker : v # w => wpc'[v] = wpc[v] /\ task'[v] = task[v]
            BY <1>0, <3>1
        <3>3. Count(wpc', Busy) = Count(wpc, Busy)
            BY <3>1, <3>2, WorkerMoves DEF Busy
        <3>4. Count(wpc', HasUnit) = Count(wpc, HasUnit)
            BY <3>1, <3>2, WorkerMoves DEF HasUnit
        <3>5. \A a : /\ CountOf(wpc', task', "run", a) = CountOf(wpc, task, "run", a)
                     /\ CountOf(wpc', task', "done", a) = CountOf(wpc, task, "done", a)
            BY <3>1, <3>2, WorkerMoves
        <3> QED BY <3>1, <3>3, <3>4, <3>5
    <2> QED BY <2>1, <2>2
<1>2. Putting(apc') = Putting(apc)
    <2>1. CASE apc' = apc
        BY <2>1
    <2>2. CASE apc' # apc
        <3>1. PICK b \in Adder : /\ \A c \in Adder : c # b => apc'[c] = apc[c]
                                 /\ apc[b] # "put" /\ apc'[b] # "put"
            BY <2>2 DEF Quiet
        <3> QED BY <3>1, PuttingMove
    <2> QED BY <2>1, <2>2
<1>3. CountersInv' /\ UnitsInv'
    BY <1>0, <1>1, <1>2 DEF CountersInv, UnitsInv
<1>4. TasksInv'
    <2>1. \A a \in Adder : apc'[a] \notin Adding => added[a] = items[a]
        BY DEF Quiet, TasksInv
    <2> QED BY <1>0, <1>1, <2>1 DEF TasksInv
<1>5. WaitGroupInv'
    BY <1>0, <1>1 DEF WaitGroupInv
<1>6. ReturnedMeansRun'
    <2>1. \A a \in Client : apc'[a] = "returned" => ran[a] = items[a]
        BY DEF Quiet, ReturnedMeansRun, ControlInv
    <2>2. apc'[Owner] = "waited" => ran[Owner] = items[Owner]
        <3>1. apc'[Owner] = "waited" => ~stopped
            BY <1>0 DEF ControlInv, Ending
        <3> QED BY <3>1 DEF Quiet, ReturnedMeansRun
    <2> QED BY <1>0, <2>1, <2>2 DEF ReturnedMeansRun
<1> QED BY <1>3, <1>4, <1>5, <1>6

(* add() under the lock: one more task in the queue, its unit still to come. *)
LEMMA AddStep ==
    ASSUME PoolInv, NEW b \in Adder, Add(b)
    PROVE  PoolInv'
<1> USE DEF PoolInv
<1>0. /\ UNCHANGED <<items, running, stopped, value, wpc, task, tokens, n, ran>>
      /\ q' = Append(q, b) /\ waiting' = waiting + 1
      /\ apc[b] = "add" /\ added[b] < items[b]
    BY DEF Add
<1>1. /\ q \in Seq(Adder) /\ q' \in Seq(Adder) /\ Len(q') = Len(q) + 1 /\ Len(q) \in Nat
      /\ waiting \in Nat /\ value \in Nat
    <2>1. q \in Seq(Adder) /\ waiting \in Nat /\ value \in Nat
        BY DEF TypeOK
    <2> QED BY <1>0, <2>1
<1>2. apc' \in [Adder -> AdderState] /\ apc'[b] = "put"
    BY DEF Add, TypeOK, AdderState
<1>3. \A a \in Adder : a # b => apc'[a] = apc[a]
    BY DEF Add, TypeOK
<1>4. added' \in [Adder -> Nat]
    BY DEF Add, TypeOK
<1>5. \A a \in Adder : added[a] \in Nat /\ added'[a] = added[a] + (IF b = a THEN 1 ELSE 0)
    BY DEF Add, TypeOK
<1>6. Putting(apc) \in Nat /\ Putting(apc') = Putting(apc) + 1
    <2>1. apc[b] # "put" /\ apc'[b] = "put"
        BY <1>0, <1>2
    <2> QED BY <2>1, <1>3, PuttingMove
<1>7. ~stopped
    BY <1>0 DEF ControlInv, Ending
<1>8. TypeOK'
    BY <1>0, <1>1, <1>2, <1>4 DEF TypeOK
<1>9. ControlInv'
    BY <1>0, <1>2, <1>3 DEF ControlInv, Adding, Ending
<1>10. CountersInv' /\ UnitsInv'
    <2>1. Count(wpc, HasUnit) \in Nat
        BY CountFacts
    <2> QED BY <1>0, <1>1, <1>6, <1>7, <2>1 DEF CountersInv, UnitsInv
<1>11. TasksInv'
    <2> SUFFICES ASSUME NEW a \in Adder
                 PROVE  /\ Occurs(q', a) + CountOf(wpc, task, "run", a) + ran[a] = added'[a]
                        /\ added'[a] <= items[a]
                        /\ apc'[a] \notin Adding => added'[a] = items[a]
        BY <1>0 DEF TasksInv
    <2>1. Occurs(q, a) \in Nat /\ Occurs(q', a) = Occurs(q, a) + (IF b = a THEN 1 ELSE 0)
        BY <1>0, <1>1, OccursAppend, OccursFacts
    <2>2. CountOf(wpc, task, "run", a) \in Nat
        BY CountOfFacts
    <2>3. ran[a] \in Nat /\ items[a] \in Nat
        BY DEF TypeOK
    <2>4. apc'[a] \notin Adding => a # b /\ apc'[a] = apc[a]
        BY <1>2, <1>3 DEF Adding
    <2> QED BY <1>0, <1>5, <2>1, <2>2, <2>3, <2>4 DEF TasksInv
<1>12. WaitGroupInv'
    BY <1>0 DEF WaitGroupInv
<1>13. ReturnedMeansRun'
    BY <1>0, <1>2, <1>3 DEF ReturnedMeansRun
<1> QED BY <1>8, <1>9, <1>10, <1>11, <1>12, <1>13

(* The unit of a task goes to the semaphore. *)
LEMMA AddPutStep ==
    ASSUME PoolInv, NEW b \in Adder, AddPut(b)
    PROVE  PoolInv'
<1> USE DEF PoolInv
<1>0. /\ UNCHANGED <<items, q, waiting, running, stopped, wpc, task, added, tokens, n, ran>>
      /\ value' = value + 1 /\ apc[b] = "put"
    BY DEF AddPut, SemaPut, poolVars
<1>1. value \in Nat
    BY DEF TypeOK
<1>2. apc' \in [Adder -> AdderState] /\ apc'[b] = "sema_notify"
    BY DEF AddPut, TypeOK, AdderState
<1>3. \A a \in Adder : a # b => apc'[a] = apc[a]
    BY DEF AddPut, TypeOK
<1>4. Putting(apc) \in Nat /\ Putting(apc') = Putting(apc) - 1
    BY <1>0, <1>2, <1>3, PuttingMove
<1>5. ~stopped
    BY <1>0 DEF ControlInv, Ending
<1>6. TypeOK'
    BY <1>0, <1>1, <1>2 DEF TypeOK
<1>7. ControlInv'
    BY <1>0, <1>2, <1>3 DEF ControlInv, Adding, Ending
<1>8. CountersInv' /\ UnitsInv'
    BY <1>0, <1>1, <1>4, <1>5, CountFacts DEF CountersInv, UnitsInv
<1>9. TasksInv' /\ WaitGroupInv' /\ ReturnedMeansRun'
    BY <1>0, <1>2, <1>3 DEF TasksInv, WaitGroupInv, ReturnedMeansRun, Adding
<1> QED BY <1>6, <1>7, <1>8, <1>9

(* The destructor is entered when every task has run: the queue is empty,   *)
(* so no unit is left and no worker is between its unit and the queue.      *)
LEMMA StopStep ==
    ASSUME PoolInv, Stop
    PROVE  PoolInv'
<1> USE DEF PoolInv
<1>0. /\ UNCHANGED <<items, q, waiting, running, value, wpc, task, added, n, ran>>
      /\ stopped' = TRUE /\ tokens' = Cardinality(Worker)
      /\ apc[Owner] = "waited" /\ \A a \in Client : apc[a] = "returned"
    BY DEF Stop
<1>1. tokens' \in Nat
    BY <1>0, FS_CardinalityType
<1>2. apc' \in [Adder -> AdderState] /\ apc'[Owner] = "end_put"
    BY DEF Stop, TypeOK, AdderState
<1>3. \A a \in Adder : a # Owner => apc'[a] = apc[a]
    BY DEF Stop, TypeOK
<1>4. ~stopped
    BY <1>0 DEF ControlInv, Ending
<1>5. ASSUME NEW a \in Adder
      PROVE  Occurs(q, a) = 0 /\ CountOf(wpc, task, "run", a) = 0
    <2>1. ran[a] = items[a] /\ added[a] = items[a]
        BY <1>0 DEF ReturnedMeansRun, TasksInv, Adding
    <2>2. Occurs(q, a) \in Nat /\ CountOf(wpc, task, "run", a) \in Nat
        BY OccursFacts, CountOfFacts DEF TypeOK
    <2>3. items[a] \in Nat
        BY DEF TypeOK
    <2> QED BY <2>1, <2>2, <2>3 DEF TasksInv
<1>6. q = <<>>
    <2>1. q \in Seq(Adder) /\ (q # <<>> => q[1] \in Adder)
        BY DEF TypeOK
    <2> QED BY <2>1, <1>5, OccursFacts
<1>7. \A w \in Worker : wpc[w] # "run"
    <2>1. \A w \in Worker : task[w] \in Adder
        BY DEF TypeOK
    <2> QED BY <2>1, <1>5, CountOfFacts
<1>8. \A w \in Worker : wpc[w] # "pop"
    <2>1. Len(q) = 0 /\ value \in Nat
        BY <1>6 DEF TypeOK
    <2>2. Count(wpc, HasUnit) = 0
        BY <2>1, <1>4, CountFacts, PuttingFacts DEF UnitsInv
    <2>3. \A w \in Worker : wpc[w] \notin HasUnit
        BY <2>2, CountFacts
    <2> QED BY <2>3 DEF HasUnit
<1>9. TypeOK'
    BY <1>0, <1>1, <1>2 DEF TypeOK
<1>10. ControlInv'
    BY <1>0, <1>2, <1>3 DEF ControlInv, Adding, Ending
<1>11. CountersInv' /\ UnitsInv'
    BY <1>0, <1>6, <1>7, <1>8 DEF CountersInv, UnitsInv
<1>12. TasksInv' /\ WaitGroupInv' /\ ReturnedMeansRun'
    BY <1>0, <1>2, <1>3 DEF TasksInv, WaitGroupInv, ReturnedMeansRun, Adding
<1> QED BY <1>9, <1>10, <1>11, <1>12

(* The destructor's sem.put() keeps the invariant. *)
LEMMA StopPutStep ==
    ASSUME PoolInv, StopPut
    PROVE  PoolInv'
<1> USE DEF PoolInv
<1>0. /\ UNCHANGED <<items, q, waiting, running, stopped, wpc, task, added, n, ran>>
      /\ value' = value + 1 /\ tokens' = tokens - 1 /\ tokens > 0
      /\ apc[Owner] = "end_put"
    BY DEF StopPut, SemaPut, poolVars
<1>1. value' \in Nat /\ tokens' \in Nat
    BY <1>0 DEF TypeOK
<1>2. apc' \in [Adder -> AdderState] /\ apc'[Owner] = "end_notify"
    BY DEF StopPut, TypeOK, AdderState
<1>3. \A a \in Adder : a # Owner => apc'[a] = apc[a]
    BY DEF StopPut, TypeOK
<1>4. stopped
    BY <1>0 DEF ControlInv, Ending
<1>5. TypeOK'
    BY <1>0, <1>1, <1>2 DEF TypeOK
<1>6. ControlInv'
    BY <1>0, <1>2, <1>3 DEF ControlInv, Adding, Ending
<1>7. CountersInv' /\ UnitsInv'
    BY <1>0, <1>4 DEF CountersInv, UnitsInv
<1>8. TasksInv' /\ WaitGroupInv' /\ ReturnedMeansRun'
    BY <1>0, <1>2, <1>3 DEF TasksInv, WaitGroupInv, ReturnedMeansRun, Adding
<1> QED BY <1>5, <1>6, <1>7, <1>8

(* The notifications and the steps that only look at the counters are quiet. *)

(* The notification in wait_group::done() keeps the invariant. *)
LEMMA WgNotifyStep ==
    ASSUME PoolInv, NEW w \in Worker, WgNotify(w)
    PROVE  PoolInv'
<1> USE DEF PoolInv
<1>0. UNCHANGED <<items, q, waiting, running, stopped, value, task, added, tokens, n, ran>>
    BY DEF WgNotify, poolVars
<1>1. PICK b \in Client : b = task[w]
    BY DEF WgNotify, ControlInv
<1>2. /\ apc' \in [Adder -> AdderState]
      /\ apc' = apc \/ /\ \A a \in Adder : a # b => apc'[a] = apc[a]
                       /\ apc[b] = "wg_sleep" /\ apc'[b] = "wg_wait"
    BY <1>1, AwakeValues DEF WgNotify, WakeUp, TypeOK, AdderState
<1>3. wpc' \in [Worker -> WorkerState] /\ wpc[w] = "wg_notify" /\ wpc'[w] = "finish"
    BY DEF WgNotify, TypeOK, WorkerState
<1>4. \A v \in Worker : v # w => wpc'[v] = wpc[v]
    BY DEF WgNotify, TypeOK
<1>5. TypeOK'
    BY <1>0, <1>2, <1>3 DEF TypeOK
<1>6. ControlInv'
    BY <1>0, <1>2, <1>3, <1>4 DEF ControlInv, Adding, Ending
<1>7. Quiet
    BY <1>0, <1>2, <1>3, <1>4 DEF Quiet, TasksInv, Adding
<1> QED BY <1>5, <1>6, <1>7, QuietStep

(* The worker's notification after its task keeps the invariant. *)
LEMMA NotifyStep ==
    ASSUME PoolInv, NEW w \in Worker, Notify(w)
    PROVE  PoolInv'
<1> USE DEF PoolInv
<1>0. UNCHANGED <<items, q, waiting, running, stopped, value, task, added, tokens, n, ran>>
    BY DEF Notify, poolVars
<1>2. /\ apc' \in [Adder -> AdderState]
      /\ apc' = apc \/ /\ \A a \in Adder : a # Owner => apc'[a] = apc[a]
                       /\ \/ apc[Owner] = "wait_sleep" /\ apc'[Owner] = "wait"
                          \/ apc[Owner] = "end_sleep" /\ apc'[Owner] = "end_wait"
    BY AwakeValues DEF Notify, WakeUp, TypeOK, AdderState
<1>3. wpc' \in [Worker -> WorkerState] /\ wpc[w] = "notify" /\ wpc'[w] = "get"
    BY DEF Notify, TypeOK, WorkerState
<1>4. \A v \in Worker : v # w => wpc'[v] = wpc[v]
    BY DEF Notify, TypeOK
<1>5. TypeOK'
    BY <1>0, <1>2, <1>3 DEF TypeOK
<1>6. ControlInv'
    BY <1>0, <1>2, <1>3, <1>4 DEF ControlInv, Adding, Ending
<1>7. Quiet
    BY <1>0, <1>2, <1>3, <1>4 DEF Quiet, TasksInv, Adding
<1> QED BY <1>5, <1>6, <1>7, QuietStep

(* notify_one() of the semaphore wakes a worker or nobody. *)
LEMMA SemaNotifyWakes ==
    ASSUME TypeOK, SemaNotify
    PROVE  /\ wpc' \in [Worker -> WorkerState]
           /\ \/ wpc' = wpc
              \/ \E w \in Worker : /\ \A v \in Worker : v # w => wpc'[v] = wpc[v]
                                   /\ wpc[w] = "sleep" /\ wpc'[w] = "woken"
    BY DEF SemaNotify, TypeOK, WorkerState

(* A step of adder b alone from one of its states to another, in which the  *)
(* tasks are counted alike and, before b returns, have run; a notification  *)
(* of the semaphore may go with it.                                         *)
LEMMA AdderStepQuiet ==
    ASSUME PoolInv, NEW b \in Adder, NEW st \in AdderState,
           UNCHANGED <<items, q, waiting, running, stopped, value, task, added, tokens, n, ran>>,
           wpc' = wpc \/ SemaNotify,
           apc' = [apc EXCEPT ![b] = st],
           apc[b] # "put" /\ st # "put",
           b \in Client => st \in Adding \cup {"wg_wait", "wg_sleep", "returned"},
           b \in Client /\ st # "returned" => apc[b] # "returned",
           b = Owner => st \notin {"wg_wait", "wg_sleep"} /\ (st \in Ending <=> apc[b] \in Ending),
           st \notin Adding => added[b] = items[b],
           st \in {"returned", "waited"} /\ ~stopped => ran[b] = items[b]
    PROVE  PoolInv'
<1> USE DEF PoolInv
<1>1. /\ wpc' \in [Worker -> WorkerState]
      /\ \/ wpc' = wpc
         \/ \E w \in Worker : /\ \A v \in Worker : v # w => wpc'[v] = wpc[v]
                              /\ wpc[w] = "sleep" /\ wpc'[w] = "woken"
    <2>1. wpc \in [Worker -> WorkerState]
        BY DEF TypeOK
    <2> QED BY <2>1, SemaNotifyWakes
<1>2. apc' \in [Adder -> AdderState] /\ apc'[b] = st /\ \A a \in Adder : a # b => apc'[a] = apc[a]
    BY DEF TypeOK
<1>3. TypeOK'
    BY <1>1, <1>2 DEF TypeOK
<1>4. ControlInv'
    <2>1. \A w \in Worker : wpc'[w] \in {"done", "wg_notify"} => wpc[w] = wpc'[w]
        BY <1>1
    <2>2. \A w \in Worker : wpc'[w] \in {"done", "wg_notify"} => task'[w] \in Client
        BY <2>1 DEF ControlInv
    <2>3. \A a \in Client : apc'[a] \in Adding \cup {"wg_wait", "wg_sleep", "returned"}
        BY <1>2 DEF ControlInv
    <2>4. /\ apc'[Owner] \notin {"wg_wait", "wg_sleep"}
          /\ stopped' <=> apc'[Owner] \in Ending
        BY <1>2 DEF ControlInv
    <2>5. stopped' => \A a \in Client : apc'[a] = "returned"
        BY <1>2 DEF ControlInv
    <2> QED BY <2>2, <2>3, <2>4, <2>5 DEF ControlInv
<1>5. Quiet
    BY <1>1, <1>2 DEF Quiet
<1> QED BY <1>3, <1>4, <1>5, QuietStep

(* add()'s notification, the end of its loop and wait_group::wait() keep the *)
(* invariant.                                                                *)
LEMMA AdderQuietSteps ==
    ASSUME PoolInv, NEW b \in Adder,
           AddNotify(b) \/ AddedAll(b) \/ WgWait(b)
    PROVE  PoolInv'
<1> USE DEF PoolInv
<1>1. CASE AddNotify(b)
    <2>1. /\ UNCHANGED <<items, q, waiting, running, stopped, value, task, added, tokens, n, ran>>
          /\ apc[b] = "sema_notify" /\ apc' = [apc EXCEPT ![b] = "add"] /\ SemaNotify
        BY <1>1 DEF AddNotify, poolVars
    <2> QED BY <2>1, AdderStepQuiet DEF Adding, Ending, AdderState
<1>2. CASE AddedAll(b)
    <2>1. /\ UNCHANGED <<items, q, waiting, running, stopped, value, task, added, tokens, n, ran, wpc>>
          /\ apc[b] = "add" /\ added[b] = items[b]
          /\ apc' = [apc EXCEPT ![b] = IF b = Owner THEN "wait" ELSE "wg_wait"]
        BY <1>2 DEF AddedAll, poolVars
    <2>2. CASE b = Owner
        BY <2>1, <2>2, AdderStepQuiet DEF Adding, Ending, AdderState
    <2>3. CASE b # Owner
        BY <2>1, <2>3, AdderStepQuiet DEF Adding, Ending, AdderState
    <2> QED BY <2>2, <2>3
<1>3. CASE WgWait(b)
    <2>1. /\ UNCHANGED <<items, q, waiting, running, stopped, value, task, added, tokens, n, ran, wpc>>
          /\ apc[b] = "wg_wait"
          /\ apc' = [apc EXCEPT ![b] = IF n[b] = 0 THEN "returned" ELSE "wg_sleep"]
        BY <1>3 DEF WgWait, poolVars
    <2>2. b \in Client /\ added[b] = items[b]
        BY <2>1 DEF ControlInv, TasksInv, Adding
    <2>3. CASE n[b] = 0
        <3>1. ran[b] = items[b]
            <4>1. /\ Occurs(q, b) \in Nat /\ CountOf(wpc, task, "run", b) \in Nat
                  /\ CountOf(wpc, task, "done", b) \in Nat
                BY OccursFacts, CountOfFacts DEF TypeOK
            <4>2. ran[b] \in Nat /\ items[b] \in Nat
                BY DEF TypeOK
            <4>3. Occurs(q, b) + CountOf(wpc, task, "run", b) + ran[b] = added[b]
                BY DEF TasksInv
            <4>4. n[b] + ran[b] = items[b] + CountOf(wpc, task, "done", b)
                BY <2>2 DEF WaitGroupInv
            <4> QED BY <2>2, <2>3, <4>1, <4>2, <4>3, <4>4
        <3> QED BY <2>1, <2>2, <2>3, <3>1, AdderStepQuiet DEF Adding, Ending, AdderState
    <2>4. CASE n[b] # 0
        BY <2>1, <2>2, <2>4, AdderStepQuiet DEF Adding, Ending, AdderState
    <2> QED BY <2>3, <2>4
<1> QED BY <1>1, <1>2, <1>3

(* wait() returns when both counters are zero: nothing of the owner's is in *)
(* the queue or being run.                                                  *)
LEMMA OwnerQuietSteps ==
    ASSUME PoolInv, Wait \/ StopNotify \/ StopWait \/ Join
    PROVE  PoolInv'
<1> USE DEF PoolInv
<1>0. apc[Owner] \notin Adding => added[Owner] = items[Owner]
    BY DEF TasksInv
<1>1. CASE Wait
    <2>1. /\ UNCHANGED <<items, q, waiting, running, stopped, value, task, added, tokens, n, ran, wpc>>
          /\ apc[Owner] = "wait"
          /\ apc' = [apc EXCEPT ![Owner] = IF IsZero THEN "waited" ELSE "wait_sleep"]
        BY <1>1 DEF Wait, poolVars
    <2>2. CASE IsZero
        <3>1. ran[Owner] = items[Owner]
            <4>0. Len(q) = 0 /\ Count(wpc, Busy) = 0
                BY <2>2 DEF IsZero, CountersInv
            <4>1. q = <<>> /\ Count(wpc, Busy) = 0
                BY <4>0 DEF TypeOK
            <4>2. \A w \in Worker : wpc[w] # "run"
                BY <4>1, CountFacts DEF Busy
            <4>3. CountOf(wpc, task, "run", Owner) = 0 /\ Occurs(q, Owner) = 0
                BY <4>1, <4>2, CountOfFacts, OccursFacts DEF TypeOK
            <4>4. ran[Owner] \in Nat
                BY DEF TypeOK
            <4> QED BY <1>0, <2>1, <4>3, <4>4 DEF TasksInv, Adding
        <3> QED BY <1>0, <2>1, <2>2, <3>1, AdderStepQuiet DEF Adding, Ending, AdderState
    <2>3. CASE ~IsZero
        BY <1>0, <2>1, <2>3, AdderStepQuiet DEF Adding, Ending, AdderState
    <2> QED BY <2>2, <2>3
<1>2. CASE StopNotify
    <2>1. /\ UNCHANGED <<items, q, waiting, running, stopped, value, task, added, tokens, n, ran>>
          /\ apc[Owner] = "end_notify" /\ SemaNotify
          /\ apc' = [apc EXCEPT ![Owner] = IF tokens > 0 THEN "end_put" ELSE "end_wait"]
        BY <1>2 DEF StopNotify, poolVars
    <2>2. CASE tokens > 0
        BY <1>0, <2>1, <2>2, AdderStepQuiet DEF Adding, Ending, AdderState
    <2>3. CASE ~(tokens > 0)
        BY <1>0, <2>1, <2>3, AdderStepQuiet DEF Adding, Ending, AdderState
    <2> QED BY <2>2, <2>3
<1>3. CASE StopWait
    <2>1. /\ UNCHANGED <<items, q, waiting, running, stopped, value, task, added, tokens, n, ran, wpc>>
          /\ apc[Owner] = "end_wait"
          /\ apc' = [apc EXCEPT ![Owner] = IF IsZero THEN "join" ELSE "end_sleep"]
        BY <1>3 DEF StopWait, poolVars
    <2>2. CASE IsZero
        BY <1>0, <2>1, <2>2, AdderStepQuiet DEF Adding, Ending, AdderState
    <2>3. CASE ~IsZero
        BY <1>0, <2>1, <2>3, AdderStepQuiet DEF Adding, Ending, AdderState
    <2> QED BY <2>2, <2>3
<1>4. CASE Join
    <2>1. /\ UNCHANGED <<items, q, waiting, running, stopped, value, task, added, tokens, n, ran, wpc>>
          /\ apc[Owner] = "join" /\ apc' = [apc EXCEPT ![Owner] = "returned"]
        BY <1>4 DEF Join, poolVars
    <2>2. stopped
        BY <2>1 DEF ControlInv, Ending
    <2> QED BY <1>0, <2>1, <2>2, AdderStepQuiet DEF Adding, Ending, AdderState
<1> QED BY <1>1, <1>2, <1>3, <1>4

(* A spurious wakeup keeps the invariant. *)
LEMMA SpuriousWakeupStep ==
    ASSUME PoolInv, SpuriousWakeup
    PROVE  PoolInv'
<1> USE DEF PoolInv
<1>1. ASSUME NEW w \in Worker, wpc[w] = "sleep", wpc' = [wpc EXCEPT ![w] = "woken"],
             UNCHANGED <<poolVars, value, task, apc, added, tokens, n, ran>>
      PROVE  PoolInv'
    <2>1. wpc' \in [Worker -> WorkerState] /\ wpc'[w] = "woken"
        BY <1>1 DEF TypeOK, WorkerState
    <2>2. \A v \in Worker : v # w => wpc'[v] = wpc[v]
        BY <1>1 DEF TypeOK
    <2>3. UNCHANGED <<items, q, waiting, running, stopped, value, task, apc, added, tokens, n, ran>>
        BY <1>1 DEF poolVars
    <2>4. TypeOK'
        BY <2>1, <2>3 DEF TypeOK
    <2>5. ControlInv'
        BY <2>1, <2>2, <2>3 DEF ControlInv
    <2>6. Quiet
        BY <1>1, <2>1, <2>2, <2>3 DEF Quiet
    <2> QED BY <2>4, <2>5, <2>6, QuietStep
<1>2. ASSUME NEW b \in Adder, apc[b] \in DOMAIN Awake, apc' = [apc EXCEPT ![b] = Awake[@]],
             UNCHANGED <<poolVars, value, wpc, task, added, tokens, n, ran>>
      PROVE  PoolInv'
    <2>1. UNCHANGED <<items, q, waiting, running, stopped, value, task, added, tokens, n, ran, wpc>>
        BY <1>2 DEF poolVars
    <2>2. added[b] = items[b]
        BY <1>2, AwakeValues DEF TasksInv, Adding
    <2>3. CASE apc[b] = "wg_sleep"
        <3>1. apc' = [apc EXCEPT ![b] = "wg_wait"] /\ b # Owner
            BY <1>2, <2>3, AwakeValues DEF ControlInv
        <3> QED BY <2>1, <2>2, <2>3, <3>1, AdderStepQuiet DEF Adding, Ending, AdderState
    <2>4. CASE apc[b] = "wait_sleep"
        <3>1. apc' = [apc EXCEPT ![b] = "wait"] /\ b \notin Client
            BY <1>2, <2>4, AwakeValues DEF ControlInv, Adding
        <3> QED BY <2>1, <2>2, <2>4, <3>1, AdderStepQuiet DEF Adding, Ending, AdderState
    <2>5. CASE apc[b] = "end_sleep"
        <3>1. apc' = [apc EXCEPT ![b] = "end_wait"] /\ b \notin Client
            BY <1>2, <2>5, AwakeValues DEF ControlInv, Adding
        <3> QED BY <2>1, <2>2, <2>5, <3>1, AdderStepQuiet DEF Adding, Ending, AdderState
    <2> QED BY <1>2, <2>3, <2>4, <2>5, AwakeValues
<1> QED BY <1>1, <1>2 DEF SpuriousWakeup

----------------------------------------------------------------------------

(* PoolInv is inductive: no worker, adder or notification, in whatever      *)
(* order their critical sections follow each other, loses or duplicates a   *)
(* unit or a task.                                                          *)
THEOREM PoolInvariant == Spec => []PoolInv
<1>1. Init => PoolInv
    BY PoolInvInit
<1>2. PoolInv /\ [Next]_vars => PoolInv'
    <2> SUFFICES ASSUME PoolInv, [Next]_vars PROVE PoolInv'
        OBVIOUS
    <2>1. ASSUME NEW w \in Worker, WorkerStep(w) PROVE PoolInv'
        BY <2>1, SemaGetStep, CheckStoppedStep, PopStep, RunStep, DoneStep,
           WgNotifyStep, FinishStep, NotifyStep DEF WorkerStep
    <2>2. ASSUME NEW a \in Adder, AdderStep(a) PROVE PoolInv'
        BY <2>2, AddStep, AddPutStep, AdderQuietSteps DEF AdderStep
    <2>3. CASE OwnerStep
        BY <2>3, StopStep, StopPutStep, OwnerQuietSteps DEF OwnerStep
    <2>4. CASE SpuriousWakeup
        BY <2>4, SpuriousWakeupStep
    <2>5. CASE UNCHANGED vars
        BY <2>5 DEF vars, poolVars, PoolInv, TypeOK, ControlInv, CountersInv, UnitsInv,
                    TasksInv, WaitGroupInv, ReturnedMeansRun
    <2> QED BY <2>1, <2>2, <2>3, <2>4, <2>5 DEF Next, Terminated
<1> QED BY <1>1, <1>2, PTL DEF Spec

(* Types: no counter of the pool, of its semaphore or of a wait group goes  *)
(* below zero, so that the unsigned n_ never wraps around.                  *)
THEOREM PoolTypeCorrect == Spec => []TypeOK
<1>1. PoolInv => TypeOK
    BY DEF PoolInv
<1> QED BY <1>1, PoolInvariant, PTL

(* q.front() is never called on an empty queue and state's assertions hold, *)
(* for any number of workers and adders.                                    *)
THEOREM PopAlwaysFindsTask == Spec => []PopFindsTask
<1>1. PoolInv => PopFindsTask
    <2> SUFFICES ASSUME PoolInv PROVE PopFindsTask
        OBVIOUS
    <2>1. Len(q) \in Nat /\ value \in Nat
        BY DEF PoolInv, TypeOK
    <2>2. Count(wpc, {"pop"}) <= Len(q)
        <3>1. CASE stopped
            <4>1. \A w \in Worker : wpc[w] \notin {"pop"}
                BY <3>1 DEF PoolInv, UnitsInv
            <4>2. Count(wpc, {"pop"}) = 0
                BY <4>1, CountFacts
            <4> QED BY <2>1, <4>2
        <3>2. CASE ~stopped
            <4>1. {"pop"} \subseteq HasUnit
                BY DEF HasUnit
            <4>2. /\ Count(wpc, {"pop"}) <= Count(wpc, HasUnit)
                  /\ Count(wpc, {"pop"}) \in Nat /\ Count(wpc, HasUnit) \in Nat
                BY <4>1, CountFacts
            <4>3. Putting(apc) \in Nat
                BY PuttingFacts
            <4>4. value + Count(wpc, HasUnit) + Putting(apc) = Len(q)
                BY <3>2 DEF PoolInv, UnitsInv
            <4> QED BY <2>1, <4>2, <4>3, <4>4
        <3> QED BY <3>1, <3>2
    <2>3. Count(wpc, {"pop"}) \in Nat
        BY CountFacts
    <2> QED BY <2>1, <2>2, <2>3 DEF PoolInv, CountersInv, PopFindsTask, Count, Workers, Busy
<1> QED BY <1>1, PoolInvariant, PTL

(* par1 and wait() return only when what their caller added has run. *)
THEOREM ReturnsAfterRun == Spec => []ReturnedMeansRun
<1>1. PoolInv => ReturnedMeansRun
    BY DEF PoolInv
<1> QED BY <1>1, PoolInvariant, PTL

============================================================================
