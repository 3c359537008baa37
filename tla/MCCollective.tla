---------------------------- MODULE MCCollective ----------------------------
(* Programs for small sessions. *)
EXTENDS Collective

Call1(n, kind, inplace, from, to) ==
    [name |-> n, kind |-> kind, inplace |-> inplace, from |-> from, to |-> to]

AllReduce(n)   == Call1(n, "all_reduce", FALSE, 0, 1)
InPlace(n)     == Call1(n, "all_reduce", TRUE, 0, 1)
Broadcast(n)   == Call1(n, "broadcast", FALSE, 0, 1)
AllGather(n)   == Call1(n, "all_gather", FALSE, 0, 1)
SendRecv(n, from, to) == Call1(n, "send_recv", FALSE, from, to)

(* The hash picks rank 0 as the ring's root for "a", rank 1 for "b". *)
MCHash == [n \in Name |-> IF n = "b" THEN 1 ELSE 0]

(* One thread, the same names over and over, as barrier() and the calls    *)
(* without a name do; the chunks of an all_reduce have names of their own.  *)
Repeated == [t \in Thread |->
    <<Broadcast("a"), Broadcast("a"), AllReduce("part"), AllReduce("part"),
      SendRecv("a", 0, 2)>>]

(* Two threads with names of their own share the connections, as under      *)
(* group_all_reduce.                                                        *)
GroupedRounds == [t \in Thread |->
    IF t = "s" THEN <<AllReduce("part"), Broadcast("a")>> ELSE <<AllGather("b"), AllGather("b")>>]

GroupedInPlace == [t \in Thread |->
    IF t = "s" THEN <<InPlace("a")>> ELSE <<InPlace("b")>>]

OneAllReduce == [t \in Thread |-> <<AllReduce("a")>>]

============================================================================
