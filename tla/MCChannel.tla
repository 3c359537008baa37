----------------------------- MODULE MCChannel -----------------------------
(* A channel shared by two getters, one poller and three putters: more      *)
(* waiters on either side than the channel has room, so that get() has a    *)
(* choice of whom to wake and put() meets getters and putters asleep.       *)
EXTENDS Channel

CONSTANTS g1, g2, o1, p1, p2, p3

MCGetter == {g1, g2}
MCPoller == {o1}
MCPutter == {p1, p2, p3}

(* As many values put as taken: 2 + 2 + 2. *)
MCCalls == [t \in {g1, g2, o1, p1, p2, p3} |-> 2]

============================================================================
