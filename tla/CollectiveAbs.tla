--------------------------- MODULE CollectiveAbs ---------------------------
(***************************************************************************)
(* What the collective operations promise to the threads that call them,   *)
(* without graphs, connections or mailboxes: an all_reduce returns the sum  *)
(* of every peer's input and only after every peer has called it (which is  *)
(* what makes it a barrier); a broadcast returns the root's input and only  *)
(* after the root has called it; an all_gather returns every peer's input,  *)
(* in the order of the ranks; a recv returns what the matching send sent.   *)
(***************************************************************************)
EXTENDS Integers, Sequences, Bags

CONSTANTS
    Peer,       \* ranks 0 .. N-1
    Thread,     \* application threads on each peer
    Program     \* Program[t]: sequence of [name, kind, inplace, from, to]

Root == 0

Caller == Peer \X Thread

VARIABLES
    round,      \* round[c]: index of the current or next operation
    busy,       \* busy[c]: the operation has been called and not returned
    out         \* out[c][i]: part i of the last operation's result, while not busy

vars == <<round, busy, out>>

NoData == [i \in Peer |-> EmptyBag]

Init ==
    /\ round = [c \in Caller |-> 1]
    /\ busy = [c \in Caller |-> FALSE]
    /\ out = [c \in Caller |-> NoData]

Call(c) ==
    /\ ~busy[c]
    /\ round[c] <= Len(Program[c[2]])
    /\ busy' = [busy EXCEPT ![c] = TRUE]
    /\ out' = [out EXCEPT ![c] = NoData]
    /\ UNCHANGED round

(* Caller d has at least called operation k of its thread. *)
Reached(d, k) == round[d] > k \/ (round[d] = k /\ busy[d])

(* The peers whose inputs peer p waits for in an operation. *)
Sources(op, p) ==
    CASE op.kind = "broadcast" -> {Root}
      [] op.kind = "send_recv" -> IF p = op.to THEN {op.from} ELSE {}
      [] OTHER                 -> Peer

(* What the inputs of operation k make of p's receive buffer. *)
Result(op, p, t, k) ==
    CASE op.kind = "all_gather" -> [i \in Peer |-> SetToBag({<<i, t, k>>})]
      [] op.kind = "send_recv" /\ p # op.to
             -> [NoData EXCEPT ![0] = SetToBag({<<p, t, 0>>})]
      [] OTHER
             -> [NoData EXCEPT ![0] = SetToBag({<<q, t, k>> : q \in Sources(op, p)})]

Return(c) ==
    LET p  == c[1]
        t  == c[2]
        k  == round[c]
        op == Program[t][k]
    IN  /\ busy[c]
        /\ \A q \in Sources(op, p) : Reached(<<q, t>>, k)
        /\ busy' = [busy EXCEPT ![c] = FALSE]
        /\ round' = [round EXCEPT ![c] = k + 1]
        /\ out' = [out EXCEPT ![c] = Result(op, p, t, k)]

Next == \E c \in Caller : Call(c) \/ Return(c)

Spec == Init /\ [][Next]_vars

============================================================================
