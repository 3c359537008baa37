---------------------------- MODULE MCThreadPool ----------------------------
(* The two ways in which a pool is used, with two workers. *)
EXTENDS ThreadPool, TLC

CONSTANTS w1, w2, c1, c2, o

MCWorker == {w1, w2}
MCClient == {c1, c2}

(* The pool of a session, two threads that run par1 at the same time; and   *)
(* the pool of group_all_reduce, whose owner adds more tasks than there are *)
(* workers and waits.                                                       *)
MCUses == {(c1 :> 2) @@ (c2 :> 1) @@ (o :> 0),
           (c1 :> 0) @@ (c2 :> 0) @@ (o :> 3)}

============================================================================
