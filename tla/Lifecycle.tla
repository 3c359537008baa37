----------------------------- MODULE Lifecycle -----------------------------
(***************************************************************************)
(* The life of a peer: its server starts, it joins a session (whose          *)
(* constructor runs a barrier), runs operations and stops.  The module       *)
(* models what surrounds the operations: dialling with retries under the     *)
(* client's mutex, the accept loop, the handshake, one handler thread per    *)
(* accepted connection, closing the client's connections and joining the     *)
(* server's threads, in both builds: net/old, where start() binds and the    *)
(* threads look at a flag to stop, and net/c++20, where the server's own     *)
(* thread binds and handlers end with their connections only.                *)
(*                                                                         *)
(* An operation is its message pattern only: along the reduce graph, then    *)
(* along the broadcast graph (Collective has the buffers and the boxes).     *)
(***************************************************************************)
EXTENDS Integers, Sequences, FiniteSets, Topology

CONSTANTS
    N,          \* number of peers
    Strategies, \* the strategies tried: "star", "ring"
    Rounds      \* operations each peer runs, the barrier of join() included

ASSUME NAssumption == N \in Nat \ {0}
ASSUME StrategiesAssumption == Strategies \subseteq {"star", "ring"}
ASSUME RoundsAssumption == Rounds \in Nat \ {0}

Peer == 0 .. N - 1
Conn == {e \in Peer \X Peer : e[1] # e[2]}      \* <<dialler, server>>
None == -1

Half == {"reduce", "broadcast"}

VARIABLES
    build,      \* "old" or "c++20", the same on every peer
    strategy,   \* init_strategy_, the same on every peer
    main,       \* control state of the thread that owns the peer
    half,       \* the half of the operation it is in
    round,      \* operations it has finished
    todo,       \* successors it still has to send to
    got,        \* got[p]: messages in p's boxes, as <<source, half>>
    listening,  \* the server's socket is bound and listens
    stopped,    \* TcpServer::stopped_, or the io_context is stopped
    dialing,    \* dialing[p]: the target p dials, holding client_impl::mu_
    conn,       \* state of each connection at the dialler
    wire,       \* messages in each connection, by half
    hand        \* state of the thread that handles it at the server

mainVars == <<build, strategy, main, half, round, todo, got>>
vars == <<mainVars, listening, stopped, dialing, conn, wire, hand>>

Pair == Choose(GraphPairList(strategy, N), 0)

(* The graph along which a peer receives and sends in each half of an       *)
(* operation.                                                               *)
G(h) == IF h = "reduce" THEN Pair.reduce_graph ELSE Pair.broadcast_graph

----------------------------------------------------------------------------
(* The owner of a peer *)

(* server_impl::start binds and listens itself, or leaves it to its thread. *)
ListensAtOnce == build = "old"

(* peer::start ... *)
Start(p) ==
    /\ main[p] = "new"
    /\ listening' = [listening EXCEPT ![p] = ListensAtOnce]
    /\ main' = [main EXCEPT ![p] = "recv"]
    /\ UNCHANGED <<build, strategy, half, round, todo, got, stopped, dialing, conn, wire, hand>>

(* ... and, in c++20, the server's thread, once bind() succeeds. *)
Bind(p) ==
    /\ ~ListensAtOnce /\ main[p] \notin {"new", "stopped"}
    /\ ~listening[p]
    /\ listening' = [listening EXCEPT ![p] = TRUE]
    /\ UNCHANGED <<mainVars, stopped, dialing, conn, wire, hand>>

(* What a peer waits for in a half of the operation. *)
Awaited(p, h) == Prevs(G(h), p) \X {h}

(* Mutant of RecvDone: the broadcast half is not waited for. *)
RecvDoneEarly(p) ==
    /\ main[p] = "recv"
    /\ half[p] = "reduce" => Awaited(p, half[p]) \subseteq got[p]
    /\ got' = [got EXCEPT ![p] = @ \ Awaited(p, half[p])]
    /\ main' = [main EXCEPT ![p] = "send"]
    /\ todo' = [todo EXCEPT ![p] = Nexts(G(half[p]), p)]
    /\ UNCHANGED <<build, strategy, half, round, listening, stopped, dialing, conn, wire, hand>>

(* Every predecessor's message has been taken from its box. *)
RecvDone(p) ==
    /\ main[p] = "recv"
    /\ Awaited(p, half[p]) \subseteq got[p]
    /\ got' = [got EXCEPT ![p] = @ \ Awaited(p, half[p])]
    /\ main' = [main EXCEPT ![p] = "send"]
    /\ todo' = [todo EXCEPT ![p] = Nexts(G(half[p]), p)]
    /\ UNCHANGED <<build, strategy, half, round, listening, stopped, dialing, conn, wire, hand>>

(* client_impl::require on a target without a connection: dial it, with     *)
(* the client's mutex held.                                                 *)
Dial(p, q) ==
    /\ main[p] = "send" /\ q \in todo[p]
    /\ conn[<<p, q>>] = "none"
    /\ dialing[p] = None
    /\ dialing' = [dialing EXCEPT ![p] = q]
    /\ conn' = [conn EXCEPT ![<<p, q>>] = "connecting"]
    /\ UNCHANGED <<mainVars, listening, stopped, wire, hand>>

(* wait_connect: retried until the other side listens; then upgrade_to      *)
(* sends its header and waits for the acknowledgement.                      *)
Connect(e) ==
    /\ conn[e] = "connecting"
    /\ listening[e[2]]
    /\ conn' = [conn EXCEPT ![e] = "backlog"]
    /\ UNCHANGED <<mainVars, listening, stopped, dialing, wire, hand>>

(* upgrade_to has read the acknowledgement: require() stores the connection *)
(* and unlocks.                                                             *)
Dialled(e) ==
    /\ conn[e] = "accepted"
    /\ hand[e] \notin {"none", "upgrade"}
    /\ conn' = [conn EXCEPT ![e] = "open"]
    /\ dialing' = [dialing EXCEPT ![e[1]] = None]
    /\ UNCHANGED <<mainVars, listening, stopped, wire, hand>>

(* connection::send; require() of a known target takes the mutex as well. *)
Send(p, q) ==
    /\ main[p] = "send" /\ q \in todo[p]
    /\ conn[<<p, q>>] = "open"
    /\ dialing[p] = None
    /\ wire' = [wire EXCEPT ![<<p, q>>] = Append(@, half[p])]
    /\ todo' = [todo EXCEPT ![p] = @ \ {q}]
    /\ UNCHANGED <<build, strategy, main, half, round, got, listening, stopped, dialing, conn, hand>>

(* Mutant of SendDone: one operation too many. *)
SendDoneOneMore(p) ==
    /\ main[p] = "send" /\ todo[p] = {}
    /\ IF half[p] = "reduce"
       THEN /\ half' = [half EXCEPT ![p] = "broadcast"]
            /\ main' = [main EXCEPT ![p] = "recv"]
            /\ UNCHANGED round
       ELSE /\ half' = [half EXCEPT ![p] = "reduce"]
            /\ round' = [round EXCEPT ![p] = @ + 1]
            /\ main' = [main EXCEPT ![p] = IF round[p] < Rounds THEN "recv" ELSE "stop"]
    /\ UNCHANGED <<build, strategy, todo, got, listening, stopped, dialing, conn, wire, hand>>

(* The next half, the next operation, or the end of the program. *)
SendDone(p) ==
    /\ main[p] = "send" /\ todo[p] = {}
    /\ IF half[p] = "reduce"
       THEN /\ half' = [half EXCEPT ![p] = "broadcast"]
            /\ main' = [main EXCEPT ![p] = "recv"]
            /\ UNCHANGED round
       ELSE /\ half' = [half EXCEPT ![p] = "reduce"]
            /\ round' = [round EXCEPT ![p] = @ + 1]
            /\ main' = [main EXCEPT ![p] = IF round[p] + 1 < Rounds THEN "recv" ELSE "stop"]
    /\ UNCHANGED <<build, strategy, todo, got, listening, stopped, dialing, conn, wire, hand>>

CloseAll(p) ==
    conn' = [e \in Conn |-> IF e[1] = p /\ conn[e] = "open" THEN "closed" ELSE conn[e]]

(* Mutant of StopClient: the server is stopped first. *)
StopClientLast(p) ==
    /\ main[p] = "stop"
    /\ stopped[p] => \A q \in Peer \ {p} : hand[<<q, p>>] \in {"none", "ended"}
    /\ IF stopped[p]
       THEN CloseAll(p) /\ main' = [main EXCEPT ![p] = "join"] /\ UNCHANGED stopped
       ELSE stopped' = [stopped EXCEPT ![p] = TRUE] /\ UNCHANGED <<main, conn>>
    /\ UNCHANGED <<build, strategy, half, round, todo, got, listening, dialing, wire, hand>>

(* peer::stop: client_pool_.reset() closes every connection p has dialled ... *)
StopClient(p) ==
    /\ main[p] = "stop"
    /\ CloseAll(p)
    /\ main' = [main EXCEPT ![p] = "stop_server"]
    /\ UNCHANGED <<build, strategy, half, round, todo, got, listening, stopped, dialing, wire, hand>>

(* ... then server_.reset() raises the flag that ends the accept loop, or   *)
(* cancels the acceptor and stops its io_context ...                        *)
StopServer(p) ==
    /\ main[p] = "stop_server"
    /\ stopped' = [stopped EXCEPT ![p] = TRUE]
    /\ main' = [main EXCEPT ![p] = "join"]
    /\ UNCHANGED <<build, strategy, half, round, todo, got, listening, dialing, conn, wire, hand>>

(* ... and joins it and every handler thread: the serving thread has to get *)
(* as far as its loop.                                                      *)
Joinable(p) ==
    /\ listening[p]
    /\ \A q \in Peer \ {p} : hand[<<q, p>>] \in {"none", "ended"}

Join(p) ==
    /\ main[p] = "join"
    /\ Joinable(p)
    /\ listening' = [listening EXCEPT ![p] = FALSE]
    /\ main' = [main EXCEPT ![p] = "stopped"]
    /\ UNCHANGED <<build, strategy, half, round, todo, got, stopped, dialing, conn, wire, hand>>

----------------------------------------------------------------------------
(* The server's threads *)

(* wait_accept polls until the flag is raised; the io_context runs until it  *)
(* is stopped.                                                              *)
Accepting(p) == listening[p] /\ ~stopped[p]

(* The accept loop gives every connection a thread. *)
Accept(e) ==
    /\ Accepting(e[2])
    /\ conn[e] = "backlog"
    /\ conn' = [conn EXCEPT ![e] = "accepted"]
    /\ hand' = [hand EXCEPT ![e] = "upgrade"]
    /\ UNCHANGED <<mainVars, listening, stopped, dialing, wire>>

(* The flag that recv_all looks at; nothing of the kind in c++20. *)
StopSeen(p) == build = "old" /\ stopped[p]

(* upgrade_from: recv throws when the server has been stopped meanwhile. *)
Upgrade(e) ==
    /\ hand[e] = "upgrade"
    /\ hand' = [hand EXCEPT ![e] = IF StopSeen(e[2]) THEN "threw" ELSE "next"]
    /\ UNCHANGED <<mainVars, listening, stopped, dialing, conn, wire>>

(* recv_all looks at the flag before it blocks in ::recv. *)
NextMessage(e) ==
    /\ hand[e] = "next"
    /\ hand' = [hand EXCEPT ![e] = IF StopSeen(e[2]) THEN "ended" ELSE "blocked"]
    /\ UNCHANGED <<mainVars, listening, stopped, dialing, conn, wire>>

(* Blocked in ::recv: only data or the end of the stream wake it up. *)
ReadNameLen(e) ==
    /\ hand[e] = "blocked"
    /\ IF wire[e] # <<>>
       THEN hand' = [hand EXCEPT ![e] = "message"]
       ELSE conn[e] = "closed" /\ hand' = [hand EXCEPT ![e] = "ended"]
    /\ UNCHANGED <<mainVars, listening, stopped, dialing, conn, wire>>

(* The rest of the message: recv throws when the flag has been raised.  A    *)
(* reduced message goes to its mailbox, which holds one; a broadcast one     *)
(* waits for the receiver to post its buffer.                               *)
ReadMessage(e) ==
    LET q   == e[2]
        msg == <<e[1], Head(wire[e])>>
    IN  /\ hand[e] = "message"
        /\ \/ /\ StopSeen(q)
              /\ hand' = [hand EXCEPT ![e] = "threw"]
              /\ UNCHANGED <<wire, got>>
           \/ /\ ~StopSeen(q)
              /\ msg \notin got[q]
              /\ msg[2] = "broadcast" => main[q] = "recv" /\ half[q] = "broadcast"
              /\ got' = [got EXCEPT ![q] = @ \cup {msg}]
              /\ wire' = [wire EXCEPT ![e] = Tail(@)]
              /\ hand' = [hand EXCEPT ![e] = "next"]
        /\ UNCHANGED <<build, strategy, main, half, round, todo, listening, stopped, dialing, conn>>

----------------------------------------------------------------------------

Init ==
    /\ build \in {"old", "c++20"}
    /\ strategy \in Strategies
    /\ main = [p \in Peer |-> "new"]
    /\ half = [p \in Peer |-> "reduce"]
    /\ round = [p \in Peer |-> 0]
    /\ todo = [p \in Peer |-> {}]
    /\ got = [p \in Peer |-> {}]
    /\ listening = [p \in Peer |-> FALSE]
    /\ stopped = [p \in Peer |-> FALSE]
    /\ dialing = [p \in Peer |-> None]
    /\ conn = [e \in Conn |-> "none"]
    /\ wire = [e \in Conn |-> <<>>]
    /\ hand = [e \in Conn |-> "none"]

PeerStep(p) ==
    \/ Start(p)
    \/ RecvDone(p)
    \/ SendDone(p)
    \/ StopClient(p)
    \/ StopServer(p)
    \/ Join(p)

ConnStep(e) ==
    \/ Dial(e[1], e[2])
    \/ Connect(e)
    \/ Dialled(e)
    \/ Send(e[1], e[2])

ServerStep(e) ==
    \/ Accept(e)
    \/ Upgrade(e)
    \/ NextMessage(e)
    \/ ReadNameLen(e)
    \/ ReadMessage(e)

AllStopped == \A p \in Peer : main[p] = "stopped"

Terminated == AllStopped /\ UNCHANGED vars

Next ==
    \/ \E p \in Peer : PeerStep(p)
    \/ \E e \in Conn : ConnStep(e)
    \/ \E e \in Conn : ServerStep(e)
    \/ \E p \in Peer : Bind(p)
    \/ Terminated

(* Processes are started, and threads that can run do: the accept loop and  *)
(* wait_connect poll for ever, the others wake up when their guard holds.   *)
Fairness ==
    /\ \A p \in Peer : WF_vars(PeerStep(p)) /\ WF_vars(Bind(p))
    /\ \A e \in Conn : WF_vars(ConnStep(e)) /\ WF_vars(ServerStep(e))

Spec == Init /\ [][Next]_vars

FairSpec == Spec /\ Fairness

----------------------------------------------------------------------------

(* Every variable has its type; a peer never runs more than its operations. *)
TypeOK ==
    /\ build \in {"old", "c++20"}
    /\ strategy \in Strategies
    /\ main \in [Peer -> {"new", "recv", "send", "stop", "stop_server", "join", "stopped"}]
    /\ half \in [Peer -> Half]
    /\ round \in [Peer -> 0 .. Rounds]
    /\ todo \in [Peer -> SUBSET Peer]
    /\ got \in [Peer -> SUBSET (Peer \X Half)]
    /\ listening \in [Peer -> BOOLEAN]
    /\ stopped \in [Peer -> BOOLEAN]
    /\ dialing \in [Peer -> Peer \cup {None}]
    /\ conn \in [Conn -> {"none", "connecting", "backlog", "accepted", "open", "closed"}]
    /\ wire \in [Conn -> Seq(Half)]
    /\ hand \in [Conn -> {"none", "upgrade", "next", "blocked", "message", "ended", "threw"}]

(* No thread lets an exception out (which would end the process): when a    *)
(* peer that has returned from its last operation begins to stop its server, *)
(* none of its handlers is in a handshake or in the middle of a message, and *)
(* the acceptor that stop() cancels has been opened.                         *)
NoHandlerThrows ==
    /\ \A e \in Conn : /\ hand[e] # "threw"
                       /\ stopped[e[2]] => hand[e] \notin {"upgrade", "message"}
    /\ \A p \in Peer : main[p] \in {"stop_server", "join"} => listening[p]

(* Nobody is still dialling a peer, or waiting for its acknowledgement,     *)
(* once that peer has begun to stop: wait_connect would retry for ever with *)
(* the client's mutex held.                                                 *)
NoDialToStopped ==
    \A e \in Conn :
        main[e[2]] \in {"stop", "stop_server", "join", "stopped"}
           => conn[e] \in {"none", "open", "closed"}

(* Every peer starts, finishes its operations and stops, whatever the order *)
(* in which the processes come up: stop() waits for handlers that only the  *)
(* other side's close ends, and everyone closes before waiting.             *)
EveryoneStops == <>AllStopped

============================================================================
