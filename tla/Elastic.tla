------------------------------ MODULE Elastic ------------------------------
(***************************************************************************)
(* Elastic training: workers that agree on a new configuration of the       *)
(* cluster between two training steps, leave the old session and form the   *)
(* next one, while the runners start the workers that are new.  Two         *)
(* programs: the loop of examples/example-elastic.cpp, which proposes new   *)
(* sizes on a schedule, and a loop over the library's elastic_state, where  *)
(* an operator changes the configuration at any time.                       *)
(*                                                                         *)
(* An all_reduce is what CollectiveAbs promises: it returns to a member     *)
(* once every member has called it, with all their inputs.  It is made of   *)
(* one message between each two members, in boxes keyed by the sender, the  *)
(* receiver and the name as in the code: nothing but the order of the calls *)
(* tells the operations of two sessions apart.                              *)
(*                                                                         *)
(* The configuration server and the runners are not part of the repository. *)
(* A PUT to the server is written and not waited for: it takes effect later *)
(* or never.  A worker that cannot connect to it throws and is gone, as is  *)
(* one that a resize makes read past an empty list.                         *)
(***************************************************************************)
EXTENDS ClusterConfig, Bags

CONSTANTS
    Localhost,      \* 127.0.0.1
    Launches,       \* how training starts: the program, whether it has a URL of a
                    \* configuration server, the environments of the processes
    Schedule,       \* example-elastic: new size, by the step at which to resize
    Proposals,      \* elastic_state: configurations the operator sets, in order
    MaxStep,        \* training steps
    MaxFailures,    \* requests to the configuration server that fail (bound)
    PromptExit      \* a detached process ends before its address is dialled again

Worker == [ipv4 : Addr, port : Port]

ASSUME StepsAssumption == MaxStep \in Nat /\ MaxFailures \in Nat /\ PromptExit \in BOOLEAN
(* The example's caller does not let the cluster grow after the last step,  *)
(* when the old workers would leave before the new ones have synced.        *)
ASSUME ScheduleAssumption == DOMAIN Schedule \subseteq 0 .. MaxStep - 2

VARIABLES
    app,        \* "example" or "state"
    url,        \* KUNGFU_CONFIG_SERVER is a URL
    server,     \* the JSON on the configuration server
    puts,       \* the bag of PUTs that are under way
    asked,      \* proposals of the operator so far
    failures,   \* failed requests so far
    stage,      \* the last stage the runners were told: version and cluster
    inc,        \* inc[w]: how many processes have been started with w's address
    pc,         \* control state of each worker process
    called,     \* called[w]: w waits in the all_reduce that pc[w] names
    sess,       \* the session of each worker: version and cluster
    progress,   \* the step counter
    synced,     \* synced_: the counter is that of the session
    detached,   \* detached_
    config,     \* config[w]: the configuration w has read
    y,          \* y[w]: what the first all_reduce of a pair returned
    box,        \* box[<<from, to>>]: messages sent and not taken
    conns       \* conns[w]: the processes that w is connected to

extVars  == <<app, url, server, puts, asked, failures, stage, inc>>
loopVars == <<progress, synced, detached>>
netVars  == <<box, conns>>
vars     == <<extVars, pc, called, sess, loopVars, config, y, netVars>>

(* The all_reduces, by where in the program they are. *)
Collectives == {"barrier", "sync", "train", "size_min", "size_max", "digest_min", "digest_max"}

Members(w) == ToSet(sess[w].cluster.workers)
Others(w)  == Members(w) \ {w}
Running(w) == pc[w] \notin {"absent", "done", "crashed", "refused", "threw"}

(* The name of the operation's only chunk: it tells its number of elements  *)
(* and no more.                                                             *)
NameOf(w) ==
    CASE pc[w] \in {"digest_min", "digest_max"} -> ByteSize(Bytes(config[w]))
      [] pc[w] = "train"                        -> 1024
      [] OTHER                                  -> 1

Input(w) ==
    CASE pc[w] = "sync"                         -> progress[w]
      [] pc[w] \in {"size_min", "size_max"}     -> ByteSize(Bytes(config[w]))
      [] pc[w] \in {"digest_min", "digest_max"} -> Bytes(config[w])
      [] OTHER                                  -> 1

----------------------------------------------------------------------------
(* all_reduce *)

(* There is a process for w to connect to, in w's session or on its way     *)
(* there.  One that has been left behind in an older session may still have *)
(* the address of a new worker, and nothing tells them apart: PromptExit.   *)
Up(w, q) == Running(q) /\ (PromptExit => sess[q].version >= sess[w].version - 1)

Known(w) == {q \in Others(w) : \E c \in conns[w] : c[1] = q}

(* The call: connect to the members that w has no connection to, once they  *)
(* are up, and send to all.  A connection whose other end is gone makes     *)
(* send() throw.                                                            *)
Enter(w) ==
    LET msg == [name |-> NameOf(w), x |-> Input(w), op |-> pc[w], version |-> sess[w].version]
        ok  == \A q \in Known(w) : Running(q) /\ <<q, inc[q]>> \in conns[w]
    IN  /\ pc[w] \in Collectives /\ ~called[w]
        /\ \A q \in Others(w) \ Known(w) : Up(w, q)
        /\ IF ok
           THEN /\ box' = [e \in DOMAIN box |->
                              IF e[1] = w /\ e[2] \in Others(w) THEN Append(box[e], msg) ELSE box[e]]
                /\ conns' = [conns EXCEPT ![w] = @ \cup {<<q, inc[q]>> : q \in Others(w)}]
                /\ called' = [called EXCEPT ![w] = TRUE]
                /\ UNCHANGED pc
           ELSE pc' = [pc EXCEPT ![w] = "threw"] /\ UNCHANGED <<box, conns, called>>
        /\ UNCHANGED <<extVars, sess, loopVars, config, y>>

(* The first message of q to w under the name of w's operation. *)
First(w, q) ==
    CHOOSE i \in DOMAIN box[<<q, w>>] :
        /\ box[<<q, w>>][i].name = NameOf(w)
        /\ \A j \in 1 .. i - 1 : box[<<q, w>>][j].name # NameOf(w)

Answers(w) == {box[<<q, w>>][First(w, q)] : q \in Others(w)}

(* The inputs that w's operation combines. *)
Inputs(w) == {Input(w)} \cup {m.x : m \in Answers(w)}

(* The return of w's operation `op'. *)
Leave(w, op) ==
    /\ pc[w] = op /\ called[w]
    /\ \A q \in Others(w) : \E m \in ToSet(box[<<q, w>>]) : m.name = NameOf(w)
    /\ box' = [e \in DOMAIN box |->
                  IF e[2] = w /\ e[1] \in Others(w) THEN RemoveAt(box[e], First(w, e[1])) ELSE box[e]]
    /\ called' = [called EXCEPT ![w] = FALSE]
    /\ UNCHANGED <<extVars, conns>>

----------------------------------------------------------------------------
(* The training loops *)

GoTo(w, label) == pc' = [pc EXCEPT ![w] = label]

(* The session's constructor ends with a barrier. *)
Join(w) ==
    /\ Leave(w, "barrier")
    /\ GoTo(w, "top")
    /\ UNCHANGED <<sess, loopVars, config, y>>

(* example-elastic: the condition of the for loop, then sync_step unless    *)
(* synced.  elastic_state: should_stop() syncs first.                       *)
Top(w) ==
    LET stop == progress[w] >= MaxStep \/ detached[w]
    IN  /\ pc[w] = "top"
        /\ GoTo(w, CASE app = "example" /\ stop -> "done"
                     [] ~synced[w] /\ (app = "state" \/ ~stop) -> "sync"
                     [] OTHER -> IF stop THEN "done" ELSE "train")
        /\ UNCHANGED <<extVars, called, sess, loopVars, config, y, netVars>>

(* Mutant of Sync: each worker keeps its own counter. *)
SyncOwn(w) ==
    /\ Leave(w, "sync")
    /\ synced' = [synced EXCEPT ![w] = TRUE]
    /\ GoTo(w, "top")
    /\ UNCHANGED <<sess, progress, detached, config, y>>

(* progress_ = all_reduce(progress_, max) *)
Sync(w) ==
    /\ Leave(w, "sync")
    /\ progress' = [progress EXCEPT ![w] = CHOOSE x \in Inputs(w) : \A z \in Inputs(w) : x >= z]
    /\ synced' = [synced EXCEPT ![w] = TRUE]
    /\ GoTo(w, "top")
    /\ UNCHANGED <<sess, detached, config, y>>

(* A training step.  The example then resizes when its schedule says so;    *)
(* elastic_state's ++ counts the step and always looks for a new size.      *)
Train(w) ==
    /\ Leave(w, "train")
    /\ IF app = "example" /\ progress[w] \in DOMAIN Schedule
       THEN GoTo(w, "propose") /\ UNCHANGED progress
       ELSE /\ progress' = [progress EXCEPT ![w] = @ + 1]
            /\ GoTo(w, IF app = "example" THEN "top" ELSE "get")
    /\ UNCHANGED <<sess, synced, detached, config, y>>

(* http_put connects, writes the request and does not read the response. *)
HttpPut(js) == puts' = puts (+) SetToBag({js})

(* A request that cannot connect throws out of the training loop. *)
Refused(w) ==
    /\ failures < MaxFailures
    /\ failures' = failures + 1
    /\ GoTo(w, "refused")

(* Mutant of Propose: only the first worker proposes. *)
ProposeFirst(w) ==
    /\ pc[w] = "propose"
    /\ LET new == Resize(sess[w].cluster, Schedule[progress[w]])
       IN  \/ /\ ~url \/ Rank(sess[w].cluster.workers, w) # 0
              /\ GoTo(w, "get") /\ UNCHANGED <<puts, failures>>
           \/ /\ url /\ Rank(sess[w].cluster.workers, w) = 0 /\ new = {}
              /\ GoTo(w, "crashed") /\ UNCHANGED <<puts, failures>>
           \/ /\ url /\ Rank(sess[w].cluster.workers, w) = 0
              /\ \E c \in new : HttpPut(Json(c))
              /\ GoTo(w, "get") /\ UNCHANGED failures
    /\ UNCHANGED <<app, url, server, asked, stage, inc, called, sess, loopVars, config, y, netVars>>

(* propose_new_size: without a URL nothing; otherwise compute the new        *)
(* configuration and PUT it.                                                *)
Propose(w) ==
    /\ pc[w] = "propose"
    /\ LET new == Resize(sess[w].cluster, Schedule[progress[w]])
       IN  \/ ~url /\ GoTo(w, "get") /\ UNCHANGED <<puts, failures>>
           \/ url /\ new = {} /\ GoTo(w, "crashed") /\ UNCHANGED <<puts, failures>>
           \/ url /\ (\E c \in new : HttpPut(Json(c))) /\ GoTo(w, "get") /\ UNCHANGED failures
           \/ url /\ new # {} /\ Refused(w) /\ UNCHANGED puts
    /\ UNCHANGED <<app, url, server, asked, stage, inc, called, sess, loopVars, config, y, netVars>>

----------------------------------------------------------------------------
(* peer::resize *)

(* get_config().value_or(old_cluster): there may be no URL, the JSON may not *)
(* decode, and the read may be answered by an error or throw.               *)
GetConfig(w) ==
    LET old == sess[w].cluster
        new == IF url THEN {From(bs) : bs \in GoReadConfigServer(server)} ELSE {}
    IN  /\ pc[w] = "get"
        /\ \/ /\ config' = [config EXCEPT ![w] = IF new = {} THEN old ELSE CHOOSE c \in new : TRUE]
              /\ GoTo(w, "size_min") /\ UNCHANGED failures
           \/ /\ url /\ failures < MaxFailures
              /\ failures' = failures + 1
              /\ config' = [config EXCEPT ![w] = old]
              /\ GoTo(w, "size_min")
           \/ url /\ Refused(w) /\ UNCHANGED config
        /\ UNCHANGED <<app, url, server, puts, asked, stage, inc, called, sess, loopVars, y, netVars>>

(* session::consistent: min of the sizes, max of the sizes; when they are   *)
(* the same, min and max of the bytes.  The min and max of some inputs are  *)
(* the same when the inputs are.                                            *)
FirstOfPair(w) ==
    /\ \/ Leave(w, "size_min") /\ GoTo(w, "size_max")
       \/ Leave(w, "digest_min") /\ GoTo(w, "digest_max")
    /\ y' = [y EXCEPT ![w] = Inputs(w)]
    /\ UNCHANGED <<sess, loopVars, config>>

AllSame(w) == Cardinality(y[w] \cup Inputs(w)) = 1

SizesCompared(w) ==
    /\ Leave(w, "size_max")
    /\ GoTo(w, IF AllSame(w) THEN "digest_min" ELSE "get")
    /\ y' = [y EXCEPT ![w] = {}]
    /\ UNCHANGED <<sess, loopVars, config>>

(* Mutant of ConfigCompared: a configuration of the right size will do. *)
ConfigSizeOnly(w) ==
    /\ Leave(w, "digest_max")
    /\ IF config[w] # sess[w].cluster THEN GoTo(w, "commit") /\ UNCHANGED progress
       ELSE /\ GoTo(w, "top")
            /\ progress' = [progress EXCEPT ![w] = IF app = "example" THEN @ + 1 ELSE @]
    /\ y' = [y EXCEPT ![w] = {}]
    /\ UNCHANGED <<sess, synced, detached, config>>

(* Not consistent: read again.  Consistent: an unchanged configuration is   *)
(* ignored and the loop goes on.                                            *)
ConfigCompared(w) ==
    /\ Leave(w, "digest_max")
    /\ CASE ~AllSame(w) -> GoTo(w, "get") /\ UNCHANGED progress
         [] AllSame(w) /\ config[w] # sess[w].cluster -> GoTo(w, "commit") /\ UNCHANGED progress
         [] OTHER -> /\ GoTo(w, "top")
                     /\ progress' = [progress EXCEPT ![w] = IF app = "example" THEN @ + 1 ELSE @]
    /\ y' = [y EXCEPT ![w] = {}]
    /\ UNCHANGED <<sess, synced, detached, config>>

NewStage(w) == [version |-> sess[w].version + 1, cluster |-> config[w]]

(* commit_cluster_config: every worker, detached or not, tells every runner. *)
Commit(w) ==
    /\ pc[w] = "commit"
    /\ stage' = stage \cup {NewStage(w)}
    /\ GoTo(w, IF Rank(config[w].workers, w) >= Len(config[w].workers) THEN "detach" ELSE "new_session")
    /\ UNCHANGED <<app, url, server, puts, asked, failures, inc, called, sess, loopVars, config, y, netVars>>

(* Not among the new workers: the example leaves the loop; elastic_state    *)
(* goes back to should_stop(), no longer synced and still in its session.   *)
Detach(w) ==
    /\ pc[w] = "detach"
    /\ detached' = [detached EXCEPT ![w] = TRUE]
    /\ synced' = [synced EXCEPT ![w] = FALSE]
    /\ GoTo(w, "top")
    /\ UNCHANGED <<extVars, called, sess, progress, config, y, netVars>>

(* Mutant of ResetPeers: the connections to the old workers are kept. *)
KeepPeers(w) == UNCHANGED conns

(* client_pool::reset_peers(old - new) *)
ResetPeers(w) ==
    LET gone == ToSet(Minus(sess[w].cluster.workers, config[w].workers))
    IN  conns' = [conns EXCEPT ![w] = {c \in @ : c[1] \notin gone}]

(* Mutant of NewSession: no barrier. *)
NewSessionAtOnce(w) ==
    /\ pc[w] = "new_session"
    /\ ResetPeers(w)
    /\ sess' = [sess EXCEPT ![w] = NewStage(w)]
    /\ synced' = [synced EXCEPT ![w] = FALSE]
    /\ progress' = [progress EXCEPT ![w] = IF app = "example" THEN @ + 1 ELSE @]
    /\ GoTo(w, "top")
    /\ UNCHANGED <<extVars, called, detached, config, y, box>>

(* Mutant of NewSession: the survivors do not sync with the new workers. *)
NewSessionSynced(w) ==
    /\ pc[w] = "new_session"
    /\ ResetPeers(w)
    /\ sess' = [sess EXCEPT ![w] = NewStage(w)]
    /\ progress' = [progress EXCEPT ![w] = IF app = "example" THEN @ + 1 ELSE @]
    /\ GoTo(w, "barrier")
    /\ UNCHANGED <<extVars, called, synced, detached, config, y, box>>

(* The next session, whose constructor enters its barrier. *)
NewSession(w) ==
    /\ pc[w] = "new_session"
    /\ ResetPeers(w)
    /\ sess' = [sess EXCEPT ![w] = NewStage(w)]
    /\ synced' = [synced EXCEPT ![w] = FALSE]
    /\ progress' = [progress EXCEPT ![w] = IF app = "example" THEN @ + 1 ELSE @]
    /\ GoTo(w, "barrier")
    /\ UNCHANGED <<extVars, called, detached, config, y, box>>

----------------------------------------------------------------------------
(* Outside of the repository *)

(* A runner starts the workers that a new stage adds on its host: the peer  *)
(* reads the stage from its environment and joins.  The process that had    *)
(* the address before has to be gone.                                       *)
StartWorker(w) ==
    \E s \in stage :
        /\ w \in ToSet(s.cluster.workers)
        /\ \A t \in stage : t.version = s.version - 1 => w \notin ToSet(t.cluster.workers)
        /\ \A t \in stage : t.version <= s.version
        /\ ~Running(w)
        /\ sess[w].version < s.version
        /\ inc' = [inc EXCEPT ![w] = @ + 1]
        /\ sess' = [sess EXCEPT ![w] = FromEnv(KungfuEnv(w, s), Localhost).stage]
        /\ progress' = [progress EXCEPT ![w] = 0]
        /\ synced' = [synced EXCEPT ![w] = FALSE]
        /\ detached' = [detached EXCEPT ![w] = FALSE]
        /\ conns' = [conns EXCEPT ![w] = {}]
        /\ GoTo(w, "barrier")
        /\ UNCHANGED <<app, url, server, puts, asked, failures, stage, called, config, y, box>>

(* The configuration server handles a PUT, in any order and at any time. *)
TakePut ==
    \E js \in BagToSet(puts) :
        /\ server' = js
        /\ puts' = puts (-) SetToBag({js})
        /\ UNCHANGED <<app, url, asked, failures, stage, inc, pc, called, sess, loopVars, config, y, netVars>>

(* An operator changes the configuration while elastic_state's loop runs. *)
Reconfigure ==
    /\ app = "state" /\ server.Runners # <<>>
    /\ asked < Len(Proposals)
    /\ server' = GoJson(Proposals[asked + 1])
    /\ asked' = asked + 1
    /\ UNCHANGED <<app, url, puts, failures, stage, inc, pc, called, sess, loopVars, config, y, netVars>>

----------------------------------------------------------------------------

Init ==
    \E launch \in Launches :
        LET started == {FromEnv(env, Localhost) : env \in launch.envs}
            init    == {p.self : p \in started}
            first   == (CHOOSE p \in started : TRUE).stage
            c       == first.cluster
        IN  /\ app = launch.app
            /\ url = launch.url
            /\ server = GoJson(c)
            /\ puts = EmptyBag
            /\ asked = 0
            /\ failures = 0
            /\ stage = {first}
            /\ inc = [w \in Worker |-> IF w \in init THEN 1 ELSE 0]
            /\ pc = [w \in Worker |-> IF w \in init THEN "barrier" ELSE "absent"]
            /\ called = [w \in Worker |-> FALSE]
            /\ sess = [w \in Worker |-> first]
            /\ progress = [w \in Worker |-> 0]
            /\ synced = [w \in Worker |-> FALSE]
            /\ detached = [w \in Worker |-> FALSE]
            /\ config = [w \in Worker |-> c]
            /\ y = [w \in Worker |-> {}]
            /\ box = [e \in Worker \X Worker |-> <<>>]
            /\ conns = [w \in Worker |-> {}]

WorkerStep(w) ==
    \/ Enter(w)
    \/ Join(w)
    \/ Top(w)
    \/ Sync(w)
    \/ Train(w)
    \/ Propose(w)
    \/ GetConfig(w)
    \/ FirstOfPair(w)
    \/ SizesCompared(w)
    \/ ConfigCompared(w)
    \/ Commit(w)
    \/ Detach(w)
    \/ NewSession(w)

(* A detached worker of elastic_state waits in should_stop() for ever, or   *)
(* fails there when a member of its old session is gone.                    *)
Abandoned(w) == app = "state" /\ detached[w] /\ pc[w] \in {"sync", "threw"}

AllOver == \A w \in Worker : ~Running(w) \/ Abandoned(w)

(* A worker could not reach the configuration server and is gone.  The       *)
(* others wait for it, or throw when they send to it.                        *)
Unreachable == \E w \in Worker : pc[w] = "refused"

Terminated == (AllOver \/ Unreachable) /\ UNCHANGED vars

Next ==
    \/ \E w \in Worker : WorkerStep(w)
    \/ \E w \in Worker : StartWorker(w)
    \/ TakePut
    \/ Reconfigure
    \/ Terminated

Fairness ==
    \A w \in Worker : WF_vars(WorkerStep(w)) /\ WF_vars(StartWorker(w))

Spec == Init /\ [][Next]_vars

FairSpec == Spec /\ Fairness

----------------------------------------------------------------------------

(* The runners are never told two configurations of one version, although   *)
(* each worker reads the configuration server on its own while late PUTs of *)
(* this and of earlier steps change it, and the configurations have every   *)
(* worker once.                                                             *)
OneClusterPerVersion ==
    \A s, t \in stage :
        /\ s.version = t.version => s.cluster = t.cluster
        /\ Cardinality(ToSet(s.cluster.workers)) = Len(s.cluster.workers)

(* What an all_reduce takes from its boxes was sent for the same operation  *)
(* of the same session, although boxes know names only and the old and the  *)
(* new session, and workers old and new, share them.                        *)
SameOperation ==
    \A w \in Worker : pc[w] \in Collectives /\ ~Abandoned(w) =>
        \A q \in Others(w) :
            (\E m \in ToSet(box[<<q, w>>]) : m.name = NameOf(w)) =>
                LET m == box[<<q, w>>][First(w, q)]
                IN  m.op = pc[w] /\ m.version = sess[w].version

(* Nobody sends to a worker that has left, or to the process that had its   *)
(* address before, except a detached worker of elastic_state (Abandoned),   *)
(* which is still in the old session, and the fellows of one that could not *)
(* reach the configuration server.                                          *)
NoSendToDeparted ==
    \A w \in Worker : pc[w] = "threw" =>
        Abandoned(w) \/ \E q \in Others(w) : pc[q] = "refused"

(* A resize that makes a worker read past an empty list of ports, because   *)
(* the host that is to get a worker has none, takes the whole session down  *)
(* at the same step: no member has gone on to agree on a configuration or   *)
(* waits for one that is gone.                                              *)
CrashTakesAll ==
    \A w \in Worker : pc[w] = "crashed" =>
        /\ \E r \in ToSet(sess[w].cluster.runners) :
              UsedPorts(sess[w].cluster.workers, r.ipv4) = {}
        /\ \A q \in Others(w) :
              /\ sess[q] = sess[w] /\ progress[q] = progress[w]
              /\ pc[q] \in {"train", "propose", "crashed"}

(* The workers of a session train the same step, new ones included, and a   *)
(* worker that ends was detached or has seen the last step.                 *)
SameStep ==
    /\ \A w, q \in Worker :
          pc[w] = "train" /\ pc[q] = "train" /\ sess[w].version = sess[q].version
             => progress[w] = progress[q]
    /\ \A w \in Worker : pc[w] = "done" => detached[w] \/ progress[w] = MaxStep

(* A worker that stays keeps its rank when a scheduled resize changes the   *)
(* session, so that rank 0 is never a worker that has just been started.    *)
SurvivorsKeepRank ==
    [][\A w \in Worker : app = "example" /\ inc'[w] = inc[w] =>
          Rank(sess'[w].cluster.workers, w) = Rank(sess[w].cluster.workers, w)]_vars

(* Every resize ends and so does the training of every worker that is not   *)
(* abandoned: no session waits for a worker that is not coming, unless one  *)
(* could not reach the configuration server.  A session that crashes (see   *)
(* CrashTakesAll) ends, too.                                                *)
TrainingEnds == <>(AllOver \/ Unreachable)

============================================================================
