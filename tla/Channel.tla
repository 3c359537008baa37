------------------------------ MODULE Channel ------------------------------
(***************************************************************************)
(* stdml::collective::channel<T>: a bounded FIFO guarded by one mutex and  *)
(* ONE condition variable that getters and putters share.  Every step below *)
(* is one critical section: from taking the mutex (on entry to the call, or *)
(* when cv.wait returns) to releasing it (on return, or when cv.wait blocks). *)
(*                                                                         *)
(* mailbox uses channel<buffer>: connection handlers put, collective       *)
(* threads get (or poll with try_get in the asynchronous runtime).  slotbox *)
(* uses two channel<void*>, one in each direction.                         *)
(***************************************************************************)
EXTENDS Naturals, Sequences, FiniteSets

CONSTANTS
    Getter,     \* threads that call get()
    Poller,     \* threads that call try_get() until it returns a value
    Putter,     \* threads that call put()
    Cap,        \* the capacity given to the constructor (1 by default)
    Calls       \* Calls[t]: how many values thread t gets or puts (bound)

Thread == Getter \cup Poller \cup Putter

ASSUME RolesAssumption ==
    /\ Getter \cap Poller = {}
    /\ Getter \cap Putter = {}
    /\ Poller \cap Putter = {}

ASSUME CapAssumption == Cap \in Nat \ {0}

ASSUME CallsAssumption == Calls \in [Thread -> Nat]

VARIABLES
    buffer,     \* the queue; a value is named by the thread that put it
    pc,         \* "out" of the channel, "waiting" in cv's wait set, or "woken"
    left        \* calls each thread still has to make

vars == <<buffer, pc, left>>

Waiting == {t \in Thread : pc[t] = "waiting"}

(* cv.notify_one(), given the control state of the notifying thread: any   *)
(* one of the waiting threads, getter or putter, becomes runnable.         *)
NotifyOne(p) ==
    IF Waiting = {}
    THEN pc' = p
    ELSE \E w \in Waiting : pc' = [p EXCEPT ![w] = "woken"]

(* cv.notify_all() *)
NotifyAll(p) ==
    pc' = [t \in Thread |-> IF t \in Waiting THEN "woken" ELSE p[t]]

(* cv.wait() whose predicate is false: release the mutex and block. *)
Block(t) ==
    /\ pc' = [pc EXCEPT ![t] = "waiting"]
    /\ UNCHANGED <<buffer, left>>

Running(t) == pc[t] # "waiting" /\ left[t] > 0

Return(t) == left' = [left EXCEPT ![t] = @ - 1]

(* Mutant of PopFront: the notification is forgotten. *)
PopFrontSilently(t) ==
    /\ buffer' = Tail(buffer)
    /\ Return(t)
    /\ pc' = [pc EXCEPT ![t] = "out"]

(* buffer.front(), buffer.pop(), cv.notify_one() *)
PopFront(t) ==
    /\ buffer' = Tail(buffer)
    /\ Return(t)
    /\ NotifyOne([pc EXCEPT ![t] = "out"])

(* Mutant of PushBack: notify_one() in place of notify_all(). *)
PushBackNotifyingOne(t) ==
    /\ buffer' = Append(buffer, t)
    /\ Return(t)
    /\ NotifyOne([pc EXCEPT ![t] = "out"])

(* buffer.push(), cv.notify_all() *)
PushBack(t) ==
    /\ buffer' = Append(buffer, t)
    /\ Return(t)
    /\ NotifyAll([pc EXCEPT ![t] = "out"])

Get(t) ==
    /\ Running(t)
    /\ \/ buffer = <<>> /\ Block(t)
       \/ buffer # <<>> /\ PopFront(t)

(* try_get() on an empty channel returns nothing and changes nothing. *)
TryGet(t) ==
    /\ Running(t)
    /\ buffer # <<>>
    /\ PopFront(t)

(* Mutant of Put: the predicate is not checked again after a wakeup. *)
PutWithoutRecheck(t) ==
    /\ Running(t)
    /\ \/ Len(buffer) >= Cap /\ pc[t] = "out" /\ Block(t)
       \/ (Len(buffer) < Cap \/ pc[t] = "woken") /\ PushBack(t)

Put(t) ==
    /\ Running(t)
    /\ \/ Len(buffer) >= Cap /\ Block(t)
       \/ Len(buffer) < Cap /\ PushBack(t)

(* A condition variable may wake a waiter that nobody notified. *)
SpuriousWakeup(t) ==
    /\ pc[t] = "waiting"
    /\ pc' = [pc EXCEPT ![t] = "woken"]
    /\ UNCHANGED <<buffer, left>>

Init ==
    /\ buffer = <<>>
    /\ pc = [t \in Thread |-> "out"]
    /\ left = Calls

(* All calls have returned: the channel stays as it is. *)
Terminated ==
    /\ \A t \in Thread : left[t] = 0
    /\ UNCHANGED vars

Next ==
    \/ \E t \in Getter : Get(t)
    \/ \E t \in Poller : TryGet(t)
    \/ \E t \in Putter : Put(t)
    \/ \E t \in Thread : SpuriousWakeup(t)
    \/ Terminated

(* A thread that can take the mutex eventually does; waking up without a   *)
(* notification is never guaranteed.                                       *)
Fairness ==
    /\ \A t \in Getter : WF_vars(Get(t))
    /\ \A t \in Poller : WF_vars(TryGet(t))
    /\ \A t \in Putter : WF_vars(Put(t))

Spec == Init /\ [][Next]_vars

FairSpec == Spec /\ Fairness

----------------------------------------------------------------------------

(* Types, with the bound the constructor promises: the queue never holds   *)
(* more than Cap values, although a woken putter runs some time after the  *)
(* get() that made room for it.                                            *)
TypeOK ==
    /\ buffer \in Seq(Putter)
    /\ Len(buffer) <= Cap
    /\ pc \in [Thread -> {"out", "waiting", "woken"}]
    /\ left \in [Thread -> Nat]

(* No wakeup is lost although getters and putters share one condition       *)
(* variable and get() notifies only one waiter: a getter sleeps only while  *)
(* the channel is empty, and a putter sleeps in a channel with room only    *)
(* when another putter has been woken and is on its way to the mutex.       *)
NoLostWakeup ==
    /\ \A t \in Getter : pc[t] = "waiting" => buffer = <<>>
    /\ \A t \in Putter :
          pc[t] = "waiting" /\ Len(buffer) < Cap
             => \E u \in Putter : pc[u] = "woken"

(* When as many values are put as are taken, every call of get(), try_get() *)
(* (polled) and put() returns: nobody is left asleep in the wait set.       *)
AllCallsReturn == <>(\A t \in Thread : left[t] = 0)

============================================================================
