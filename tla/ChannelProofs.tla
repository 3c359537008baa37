--------------------------- MODULE ChannelProofs ---------------------------
(***************************************************************************)
(* The channel's safety properties for every set of threads and every       *)
(* capacity.  TypeOK is inductive; NoLostWakeup is inductive relative to it. *)
(***************************************************************************)
EXTENDS Channel, TLAPS

USE RolesAssumption, CapAssumption, CallsAssumption DEF Thread

(* Notifying one waiter keeps pc a function into the three control states. *)
LEMMA NotifyOneType ==
    ASSUME TypeOK,
           NEW p \in [Thread -> {"out", "waiting", "woken"}],
           NotifyOne(p)
    PROVE  pc' \in [Thread -> {"out", "waiting", "woken"}]
    BY DEF NotifyOne, Waiting, TypeOK

(* TypeOK is an invariant: in particular a put() never overfills the queue, *)
(* however long its thread waits between its wakeup and the mutex.          *)
THEOREM TypeCorrect == Spec => []TypeOK
<1>1. Init => TypeOK
    BY DEF Init, TypeOK
<1>2. TypeOK /\ [Next]_vars => TypeOK'
    <2> SUFFICES ASSUME TypeOK, [Next]_vars PROVE TypeOK'
        OBVIOUS
    <2>1. ASSUME NEW t \in Getter \cup Poller, Running(t), buffer # <<>>, PopFront(t)
          PROVE  TypeOK'
        <3>1. pc' \in [Thread -> {"out", "waiting", "woken"}]
            BY <2>1, NotifyOneType DEF PopFront, TypeOK
        <3>2. buffer' \in Seq(Putter) /\ Len(buffer') <= Cap
            BY <2>1 DEF PopFront, TypeOK
        <3>3. left' \in [Thread -> Nat]
            BY <2>1 DEF PopFront, Return, Running, TypeOK
        <3> QED BY <3>1, <3>2, <3>3 DEF TypeOK
    <2>2. ASSUME NEW t \in Thread, Block(t) PROVE TypeOK'
        BY <2>2 DEF Block, TypeOK
    <2>3. CASE \E t \in Getter : Get(t)
        BY <2>3, <2>1, <2>2 DEF Get
    <2>4. CASE \E t \in Poller : TryGet(t)
        BY <2>4, <2>1 DEF TryGet
    <2>5. ASSUME NEW t \in Putter, Put(t) PROVE TypeOK'
        <3>1. CASE Len(buffer) < Cap /\ PushBack(t)
            <4>1. pc' \in [Thread -> {"out", "waiting", "woken"}]
                BY <3>1 DEF PushBack, NotifyAll, TypeOK
            <4>2. buffer' \in Seq(Putter) /\ Len(buffer') <= Cap
                BY <3>1 DEF PushBack, TypeOK
            <4>3. left' \in [Thread -> Nat]
                BY <2>5, <3>1 DEF Put, PushBack, Return, Running, TypeOK
            <4> QED BY <4>1, <4>2, <4>3 DEF TypeOK
        <3> QED BY <2>5, <3>1, <2>2 DEF Put
    <2>6. CASE \E t \in Thread : SpuriousWakeup(t)
        BY <2>6 DEF SpuriousWakeup, TypeOK
    <2>7. CASE UNCHANGED vars
        BY <2>7 DEF vars, TypeOK
    <2> QED BY <2>3, <2>4, <2>5, <2>6, <2>7 DEF Next, Terminated
<1> QED BY <1>1, <1>2, PTL DEF Spec

(* What NoLostWakeup needs to be inductive: try_get() never waits, so that  *)
(* the waiter get() wakes up is never a poller.                            *)
PollersAwake == \A t \in Poller : pc[t] # "waiting"

WakeupInv == TypeOK /\ PollersAwake /\ NoLostWakeup

(* Taking a value from the queue and notifying one waiter: no getter sleeps *)
(* because the queue is not empty, no poller ever does, hence the waiter is *)
(* a putter, and if any putter still sleeps another one is now awake.       *)
LEMMA PopFrontWakes ==
    ASSUME WakeupInv, buffer # <<>>,
           NEW t \in Getter \cup Poller, pc[t] # "waiting", PopFront(t)
    PROVE  PollersAwake' /\ NoLostWakeup'
<1> DEFINE p == [pc EXCEPT ![t] = "out"]
<1>1. Waiting \subseteq Putter
    BY DEF WakeupInv, PollersAwake, NoLostWakeup, Waiting
<1>2. \A u \in Thread : p[u] = "waiting" => u \in Waiting
    BY DEF WakeupInv, TypeOK, Waiting
<1>3. CASE Waiting = {}
    <2>1. pc' = p
        BY <1>3 DEF PopFront, NotifyOne
    <2>2. \A u \in Thread : pc'[u] # "waiting"
        BY <2>1, <1>2, <1>3
    <2> QED BY <2>2 DEF PollersAwake, NoLostWakeup
<1>4. CASE Waiting # {}
    <2>1. PICK w \in Waiting : pc' = [p EXCEPT ![w] = "woken"]
        BY <1>4 DEF PopFront, NotifyOne
    <2>2. pc'[w] = "woken" /\ w \in Putter
        BY <2>1, <1>1 DEF WakeupInv, TypeOK, Waiting
    <2>3. \A u \in Thread : pc'[u] = "waiting" => u \in Putter
        BY <2>1, <1>1, <1>2 DEF WakeupInv, TypeOK, Waiting
    <2> QED BY <2>2, <2>3 DEF PollersAwake, NoLostWakeup
<1> QED BY <1>3, <1>4

(* NoLostWakeup is an invariant for every number of getters, pollers and    *)
(* putters and every capacity: get() and try_get() wake a putter            *)
(* (PopFrontWakes) and put() notifies all, so nobody sleeps after it.       *)
THEOREM WakeupsNotLost == Spec => []NoLostWakeup
<1>1. Init => WakeupInv
    BY DEF Init, WakeupInv, TypeOK, PollersAwake, NoLostWakeup
<1>2. WakeupInv /\ TypeOK' /\ [Next]_vars => WakeupInv'
    <2> SUFFICES ASSUME WakeupInv, TypeOK', [Next]_vars
                 PROVE  PollersAwake' /\ NoLostWakeup'
        BY DEF WakeupInv
    <2>1. ASSUME NEW t \in Getter, Get(t) PROVE PollersAwake' /\ NoLostWakeup'
        <3>1. CASE buffer = <<>> /\ Block(t)
            BY <3>1 DEF Block, WakeupInv, TypeOK, PollersAwake, NoLostWakeup
        <3> QED BY <2>1, <3>1, PopFrontWakes DEF Get, Running
    <2>2. ASSUME NEW t \in Poller, TryGet(t) PROVE PollersAwake' /\ NoLostWakeup'
        BY <2>2, PopFrontWakes DEF TryGet, Running
    <2>3. ASSUME NEW t \in Putter, Put(t) PROVE PollersAwake' /\ NoLostWakeup'
        <3>1. CASE Len(buffer) >= Cap /\ Block(t)
            BY <3>1 DEF Block, WakeupInv, TypeOK, PollersAwake, NoLostWakeup
        <3>2. CASE PushBack(t)
            <4>1. \A u \in Thread : pc'[u] # "waiting"
                BY <3>2 DEF PushBack, NotifyAll, Waiting, WakeupInv, TypeOK
            <4> QED BY <4>1 DEF PollersAwake, NoLostWakeup
        <3> QED BY <2>3, <3>1, <3>2 DEF Put
    <2>4. CASE \E t \in Thread : SpuriousWakeup(t)
        BY <2>4 DEF SpuriousWakeup, WakeupInv, TypeOK, PollersAwake, NoLostWakeup
    <2>5. CASE UNCHANGED vars
        BY <2>5 DEF vars, WakeupInv, PollersAwake, NoLostWakeup
    <2> QED BY <2>1, <2>2, <2>3, <2>4, <2>5 DEF Next, Terminated
<1> QED BY <1>1, <1>2, TypeCorrect, PTL DEF Spec, WakeupInv

============================================================================
