----------------------------- MODULE MCElastic -----------------------------
(* Two hosts with up to two workers each, and a third one whose address is *)
(* in the upper half; addresses of four 2-bit numbers.  Host 10 is also the *)
(* local host of a cluster without runners.                                 *)
EXTENDS Elastic, TLC

W(a, k) == [ipv4 |-> a, port |-> 10000 + k]

TwoRunners(workers) == [runners |-> <<[ipv4 |-> 10, port |-> 9999], [ipv4 |-> 20, port |-> 9999]>>,
                        workers |-> workers]

OneRunner(workers) == [runners |-> <<[ipv4 |-> 200, port |-> 9999]>>, workers |-> workers]

(* Started by kungfu-run in cluster c. *)
KungfuRun(program, c) ==
    [app |-> program, url |-> TRUE,
     envs |-> {KungfuEnv(w, [version |-> 0, cluster |-> c]) : w \in ToSet(c.workers)}]

(* Started by mpirun or alone, without a configuration server. *)
Plain(program, envs) == [app |-> program, url |-> FALSE, envs |-> envs]

Ompi(size, rank) == [by |-> "ompi", size |-> size, rank |-> rank]

(* Clusters of three workers on two hosts; of two, on two hosts or on one   *)
(* of them; of one, on a host whose address is negative in JSON.  Then      *)
(* mpirun, mpirun without a rank or with a server, and a process alone.     *)
MCLaunches ==
    {KungfuRun("example", TwoRunners(<<W(10, 0), W(20, 0), W(10, 1)>>)),
     KungfuRun("example", TwoRunners(<<W(10, 0), W(20, 0)>>)),
     KungfuRun("example", TwoRunners(<<W(10, 0), W(10, 1)>>)),
     KungfuRun("example", OneRunner(<<W(200, 0)>>)),
     KungfuRun("state", TwoRunners(<<W(10, 0), W(20, 0)>>)),
     Plain("example", {Ompi({2}, {r}) : r \in 0 .. 1}),
     Plain("state", {Ompi({2}, {r}) : r \in 0 .. 1}),
     Plain("example", {Ompi({2}, {})}),
     [Plain("example", {Ompi({2}, {r}) : r \in 0 .. 1}) EXCEPT !.url = TRUE],
     Plain("state", {[by |-> "none"]})}

(* Of three workers the last one leaves and its address comes back, on a    *)
(* host that still has a worker; two workers on two hosts grow; two on one  *)
(* host grow onto the other, which has none.                                *)
MCSchedule == (0 :> 2) @@ (1 :> 3)

(* A worker joins and is then replaced: two configurations of one size. *)
MCProposals == <<TwoRunners(<<W(10, 0), W(20, 0), W(10, 1)>>),
                 TwoRunners(<<W(10, 0), W(20, 0), W(20, 1)>>)>>

============================================================================
