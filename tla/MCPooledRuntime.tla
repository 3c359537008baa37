-------------------------- MODULE MCPooledRuntime --------------------------
(* Instances of PooledRuntime: runtimes, and lists of futures.              *)
EXTENDS PooledRuntime

(* The root lists the futures in an order of its own. *)
Listing(rootList, list) == [p \in Peer |-> IF p = 0 THEN rootList ELSE list]

(* The asynchronous runtime with two operations in flight. *)
AsyncTwo == {[rt |-> "async", calls |-> Listing(<<1, 2>>, <<1, 2>>)]}

(* The same in either order; and three operations, of which two are in      *)
(* flight, on the session's pool.                                           *)
BothRuntimes ==
    AsyncTwo \cup
    {[rt |-> "async", calls |-> Listing(<<2, 1>>, <<1, 2>>)],
     [rt |-> "multi_thread", calls |-> Listing(<<1, 2, 3>>, <<1, 2, 3>>)],
     [rt |-> "multi_thread", calls |-> Listing(<<3, 1, 2>>, <<1, 2, 3>>)]}

(* What "size = min { max |Si|}, \cap Si \neq \emptyset" in                 *)
(* group_all_reduce asks of the number of its threads: whatever has been    *)
(* reduced, the operations in flight have one in common on all peers.       *)
ASSUME WindowsMeet ==
    \A c \in Sessions :
        LET all == {c.calls[0][i] : i \in DOMAIN c.calls[0]}
        IN  \A done \in SUBSET all :
                done # all => \E k \in all \ done : \A p \in Peer :
                    \E i \in DOMAIN c.calls[p] :
                        /\ c.calls[p][i] = k
                        /\ Cardinality({j \in 1 .. i : c.calls[p][j] \notin done}) <= Slots

=============================================================================
