----------------------------- MODULE Collective -----------------------------
(***************************************************************************)
(* The multi-threaded collective operations of a session: the threads that  *)
(* run run_graphs_multi_thread on every peer, the connections between the   *)
(* peers, the thread that handles each incoming connection, and the mailbox *)
(* and slotbox through which handlers and callers meet.                     *)
(*                                                                         *)
(* Every peer runs the same program on each of its threads: Program[t] is   *)
(* the sequence of calls that thread t makes: one run_graphs_multi_thread   *)
(* per broadcast and per chunk of an all_reduce, an all_gather, or a send   *)
(* matched by a recv.  Threads and peers are not synchronised other than by *)
(* the operations themselves.                                               *)
(*                                                                         *)
(* A payload is the bag of contributions summed up in it.  A receive buffer *)
(* has one part per peer for all_gather; the others use its first part.     *)
(***************************************************************************)
EXTENDS Integers, Sequences, FiniteSets, Bags, Topology

CONSTANTS
    N,          \* number of peers of the session
    Thread,     \* application threads that call the session on each peer
    Program,    \* Program[t]: sequence of [name, kind, inplace, from, to]
    Strategy,   \* "star" or "ring"
    Hash,       \* name_based_hash: Hash[name], the same on every peer
    SockCap     \* messages a socket holds before send() blocks; 0: rendezvous

Peer == 0 .. N - 1
Name == UNION {{Program[t][k].name : k \in 1 .. Len(Program[t])} : t \in Thread}
Kind == {"all_reduce", "broadcast", "all_gather", "send_recv"}

ASSUME NAssumption == N \in Nat \ {0}
ASSUME SockCapAssumption == SockCap \in Nat
ASSUME HashAssumption == Hash \in [Name -> Nat]

(* The caller's contract: a name is used by one thread, so that operations  *)
(* of the same name are never in flight together on a peer.                 *)
ASSUME ProgramAssumption ==
    /\ \A t \in Thread : Len(Program[t]) \in Nat
    /\ \A t \in Thread : \A k \in 1 .. Len(Program[t]) :
          /\ Program[t][k].kind \in Kind
          /\ Program[t][k].inplace \in BOOLEAN
          /\ Program[t][k].kind \in {"all_gather", "send_recv"} => ~Program[t][k].inplace
          /\ Program[t][k].from # Program[t][k].to
    /\ \A t, u \in Thread :
          \A k \in 1 .. Len(Program[t]) : \A l \in 1 .. Len(Program[u]) :
             Program[t][k].name = Program[u][l].name => t = u

Caller == Peer \X Thread
Conn   == {c \in Peer \X Peer : c[1] # c[2]}     \* <<source, target>>
Box    == Peer \X Peer \X Name                   \* <<owner, source, name>>

ChannelCap == 1
NoThread   == "none"
Idle       == [st |-> "idle"]

(* Round 0 of a contribution marks what a receive buffer holds before the   *)
(* operation writes to it.                                                  *)
Contribution == Peer \X Thread \X Nat
Input(p, t, k) == SetToBag({<<p, t, k>>})
NoData == [q \in Peer |-> EmptyBag]

VARIABLES
    pos,        \* pos[c]: index in Program of the current or next call
    phase,      \* "idle" between calls, "recv" or "send" in a graph, or "flat"
    gi,         \* gi[c]: index of the current graph of the call
    sub,        \* sub[c][q]: what caller c still has to receive from peer q
    out,        \* out[c][q]: what caller c still has to send to peer q
    send,       \* the send buffer of the workspace
    recv,       \* recv[c][i]: part i of the receive buffer
    recv_count, \* workspace_state::recv_count_
    net,        \* net[c]: messages written to connection c and not yet read
    writer,     \* writer[c]: the thread that holds connection c's mutex
    hand,       \* hand[c]: state of the thread that handles connection c
    mail,       \* mailbox: channel<buffer> per box
    waitQ,      \* slotbox: buffers posted by receivers
    recvQ       \* slotbox: buffers filled by handlers

callVars == <<pos, phase, gi, sub, out>>
memVars  == <<send, recv, recv_count>>
netVars  == <<net, writer>>
boxVars  == <<mail, waitQ, recvQ>>
vars     == <<callVars, memVars, netVars, hand, boxVars>>

Op(c) == Program[c[2]][pos[c]]

all_reduce_topo == GraphPairList(Strategy, N)

(* session::broadcast runs the broadcast graph of the first pair. *)
BroadcastGraphs == <<all_reduce_topo[1].broadcast_graph>>

(* Mutant of AllReduceGraphs: the broadcast graph is forgotten. *)
ReduceGraphOnly(name) == <<Choose(all_reduce_topo, Hash[name]).reduce_graph>>

(* split_work picks the pair of a chunk by the hash of the chunk's name. *)
AllReduceGraphs(name) ==
    LET pair == Choose(all_reduce_topo, Hash[name])
    IN  <<pair.reduce_graph, pair.broadcast_graph>>

(* The graphs a call runs; all_gather, send and recv use none. *)
Graphs(op) ==
    CASE op.kind = "broadcast"  -> BroadcastGraphs
      [] op.kind = "all_reduce" -> AllReduceGraphs(op.name)
      [] OTHER                  -> <<>>

(* Mutant of Receivers: all_gather does not send to the first rank. *)
ReceiversButFirst(op, p) ==
    CASE op.kind = "all_gather" -> Peer \ {p, 0}
      [] op.kind = "send_recv"  -> IF p = op.from THEN {op.to} ELSE {}

(* The peers that p sends to in a call without graphs ... *)
Receivers(op, p) ==
    CASE op.kind = "all_gather" -> Peer \ {p}
      [] op.kind = "send_recv"  -> IF p = op.from THEN {op.to} ELSE {}

(* ... and those it gets data from, p itself included in an all_gather. *)
Senders(op, p) ==
    CASE op.kind = "all_gather" -> Peer
      [] op.kind = "send_recv"  -> IF p = op.to THEN {op.from} ELSE {}

Graph(c)   == Graphs(Op(c))[gi[c]]
Reduces(c) == phase[c] # "flat" /\ SelfLoop(Graph(c), c[1])

(* Mutant of Part: the parts of all_gather are not told apart. *)
PartFirst(op, q) == 0

(* The part of the receive buffer that peer q's data goes to. *)
Part(op, q) == IF op.kind = "all_gather" THEN q ELSE 0

Work(S) == [q \in Peer |-> IF q \in S THEN "todo" ELSE "none"]

(* Mutant of EffectiveData: the first reduction is overlooked. *)
EffectiveDataLate(c) == IF recv_count[c] > 1 THEN recv[c][0] ELSE send[c]

(* workspace_state::effective_data *)
EffectiveData(c) == IF recv_count[c] > 0 THEN recv[c][0] ELSE send[c]

(* Writing to part i of w->recv, which is w->send too in an in-place call. *)
WriteRecv(c, i, data) ==
    /\ recv' = [recv EXCEPT ![c][i] = data]
    /\ send' = IF Op(c).inplace THEN [send EXCEPT ![c] = data] ELSE send

(* reduce: whatever the operation and the type, the result combines the     *)
(* contributions that went into its two operands.                           *)
Reduce(x, y) == x (+) y

(* Mutant of AddTo: the sum so far is overwritten, not added to. *)
Overwrite(c, data) ==
    /\ WriteRecv(c, 0, data)
    /\ recv_count' = [recv_count EXCEPT ![c] = @ + 1]

(* workspace_state::add_to, under the lock of the workspace's state. *)
AddTo(c, data) ==
    /\ WriteRecv(c, 0, Reduce(data, EffectiveData(c)))
    /\ recv_count' = [recv_count EXCEPT ![c] = @ + 1]

(* workspace::forward: recv becomes a copy of send. *)
Forward(c, i) == WriteRecv(c, i, send[c])

(* What send puts on the wire for its successors. *)
Message(c) ==
    [name          |-> Op(c).name,
     wait_recv_buf |-> ~Reduces(c),
     data          |-> EffectiveData(c)]

----------------------------------------------------------------------------
(* Callers *)

(* A call begins: its buffers ... *)
Begin(c) ==
    LET x == Input(c[1], c[2], pos[c])
        y == Input(c[1], c[2], 0)
    IN  /\ phase[c] = "idle"
        /\ pos[c] <= Len(Program[c[2]])
        /\ send' = [send EXCEPT ![c] = x]
        /\ recv' = [recv EXCEPT ![c] = [NoData EXCEPT ![0] = IF Op(c).inplace THEN x ELSE y]]
        /\ recv_count' = [recv_count EXCEPT ![c] = 0]
        /\ gi' = [gi EXCEPT ![c] = 1]
        /\ UNCHANGED <<pos, netVars, hand, boxVars>>

(* ... and the first graph of a broadcast or of one chunk of an all_reduce, *)
Call(c) ==
    /\ Begin(c)
    /\ Graphs(Op(c)) # <<>>
    /\ phase' = [phase EXCEPT ![c] = "recv"]
    /\ sub' = [sub EXCEPT ![c] = Work(Prevs(Graphs(Op(c))[1], c[1]))]
    /\ UNCHANGED out

(* or the tasks of all_gather, send or recv, which all run at once. *)
CallFlat(c) ==
    /\ Begin(c)
    /\ Graphs(Op(c)) = <<>>
    /\ phase' = [phase EXCEPT ![c] = "flat"]
    /\ sub' = [sub EXCEPT ![c] = Work(Senders(Op(c), c[1]))]
    /\ out' = [out EXCEPT ![c] = Work(Receivers(Op(c), c[1]))]

(* all_gather's task for its own rank: ws[rank].forward(). *)
GatherOwn(c) ==
    /\ phase[c] = "flat"
    /\ sub[c][c[1]] = "todo"
    /\ Forward(c, Part(Op(c), c[1]))
    /\ sub' = [sub EXCEPT ![c][c[1]] = "none"]
    /\ UNCHANGED <<pos, phase, gi, out, recv_count, netVars, hand, boxVars>>

(* Mutant of RecvOnto: the buffer is read in place and stays in its box. *)
RecvOntoPeeking(c, q) ==
    LET b == <<c[1], q, Op(c).name>>
    IN  /\ phase[c] = "recv" /\ Reduces(c)
        /\ sub[c][q] = "todo"
        /\ mail[b] # <<>>
        /\ AddTo(c, Head(mail[b]))
        /\ sub' = [sub EXCEPT ![c][q] = "none"]
        /\ UNCHANGED <<pos, phase, gi, out, netVars, hand, boxVars>>

(* recv_task with reduce: take the buffer from the mailbox and add_to() it. *)
RecvOnto(c, q) ==
    LET b == <<c[1], q, Op(c).name>>
    IN  /\ phase[c] = "recv" /\ Reduces(c)
        /\ sub[c][q] = "todo"
        /\ mail[b] # <<>>
        /\ AddTo(c, Head(mail[b]))
        /\ mail' = [mail EXCEPT ![b] = Tail(@)]
        /\ sub' = [sub EXCEPT ![c][q] = "none"]
        /\ UNCHANGED <<pos, phase, gi, out, netVars, hand, waitQ, recvQ>>

(* Mutant of PostRecv: posts again each time it finds no answer. *)
PostRecvAgain(c, q) ==
    LET b == <<c[1], q, Op(c).name>>
    IN  /\ phase[c] = "recv" /\ ~Reduces(c)
        /\ sub[c][q] \in {"todo", "posted"}
        /\ waitQ' = [waitQ EXCEPT ![b] = Append(@, <<c[2], Part(Op(c), q)>>)]
        /\ sub' = [sub EXCEPT ![c][q] = "posted"]
        /\ UNCHANGED <<pos, phase, gi, out, memVars, netVars, hand, mail, recvQ>>

(* recv_task without reduce, and the receives of all_gather and recv:       *)
(* queue_pair::get posts the buffer.  In a graph the predecessors are       *)
(* served in order, one at a time.                                          *)
PostRecv(c, q) ==
    LET b == <<c[1], q, Op(c).name>>
    IN  /\ phase[c] \in {"recv", "flat"} /\ ~Reduces(c)
        /\ q # c[1] /\ sub[c][q] = "todo"
        /\ phase[c] = "recv" => \A r \in 0 .. q - 1 : sub[c][r] = "none"
        /\ Len(waitQ[b]) < ChannelCap
        /\ waitQ' = [waitQ EXCEPT ![b] = Append(@, <<c[2], Part(Op(c), q)>>)]
        /\ sub' = [sub EXCEPT ![c][q] = "posted"]
        /\ UNCHANGED <<pos, phase, gi, out, memVars, netVars, hand, mail, recvQ>>

(* Mutant of RecvInto: does not wait for the handler. *)
RecvIntoEarly(c, q) ==
    LET b == <<c[1], q, Op(c).name>>
    IN  /\ sub[c][q] = "posted"
        /\ recvQ' = [recvQ EXCEPT ![b] = <<>>]
        /\ sub' = [sub EXCEPT ![c][q] = "none"]
        /\ UNCHANGED <<pos, phase, gi, out, memVars, netVars, hand, mail, waitQ>>

(* queue_pair::get: take back the buffer the handler has filled. *)
RecvInto(c, q) ==
    LET b == <<c[1], q, Op(c).name>>
    IN  /\ sub[c][q] = "posted"
        /\ recvQ[b] # <<>>
        /\ recvQ' = [recvQ EXCEPT ![b] = Tail(@)]
        /\ sub' = [sub EXCEPT ![c][q] = "none"]
        /\ UNCHANGED <<pos, phase, gi, out, memVars, netVars, hand, mail, waitQ>>

(* Every predecessor has been received from.  Without any, and with nothing *)
(* received before, state.forward() copies send to recv.                    *)
RecvDone(c) ==
    LET p == c[1]
    IN  /\ phase[c] = "recv"
        /\ \A q \in Peer : sub[c][q] = "none"
        /\ phase' = [phase EXCEPT ![c] = "send"]
        /\ out' = [out EXCEPT ![c] = Work(Nexts(Graph(c), p))]
        /\ IF ~Reduces(c) /\ Prevs(Graph(c), p) = {} /\ recv_count[c] = 0
           THEN Forward(c, 0)
           ELSE UNCHANGED <<send, recv>>
        /\ UNCHANGED <<pos, gi, sub, recv_count, netVars, hand, boxVars>>

(* connection::send: take the connection's mutex, write header and body. *)
SendBegin(c, q) ==
    LET e == <<c[1], q>>
    IN  /\ out[c][q] = "todo"
        /\ writer[e] = NoThread
        /\ writer' = [writer EXCEPT ![e] = c[2]]
        /\ net' = [net EXCEPT ![e] = Append(@, Message(c))]
        /\ out' = [out EXCEPT ![c][q] = "sending"]
        /\ UNCHANGED <<pos, phase, gi, sub, memVars, hand, boxVars>>

(* Mutant of SendEnd: returns without unlocking the connection. *)
SendEndLocked(c, q) ==
    LET e == <<c[1], q>>
    IN  /\ out[c][q] = "sending"
        /\ Len(net[e]) <= SockCap
        /\ out' = [out EXCEPT ![c][q] = "none"]
        /\ UNCHANGED <<pos, phase, gi, sub, memVars, netVars, hand, boxVars>>

(* The socket has accepted the whole message: unlock and return. *)
SendEnd(c, q) ==
    LET e == <<c[1], q>>
    IN  /\ out[c][q] = "sending"
        /\ Len(net[e]) <= SockCap
        /\ writer' = [writer EXCEPT ![e] = NoThread]
        /\ out' = [out EXCEPT ![c][q] = "none"]
        /\ UNCHANGED <<pos, phase, gi, sub, memVars, net, hand, boxVars>>

(* Every task is over: go on with the next graph or return. *)
SendDone(c) ==
    /\ phase[c] \in {"send", "flat"}
    /\ \A q \in Peer : sub[c][q] = "none" /\ out[c][q] = "none"
    /\ LET gs == Graphs(Op(c))
       IN  IF gi[c] < Len(gs)
           THEN /\ gi' = [gi EXCEPT ![c] = @ + 1]
                /\ phase' = [phase EXCEPT ![c] = "recv"]
                /\ sub' = [sub EXCEPT ![c] = Work(Prevs(gs[gi[c] + 1], c[1]))]
                /\ UNCHANGED pos
           ELSE /\ phase' = [phase EXCEPT ![c] = "idle"]
                /\ pos' = [pos EXCEPT ![c] = @ + 1]
                /\ UNCHANGED <<gi, sub>>
    /\ UNCHANGED <<out, memVars, netVars, hand, boxVars>>

----------------------------------------------------------------------------
(* Connection handlers: handle_to_end runs one message after the other. *)

(* read_header: the next message of the connection, when there is one. *)
HasNext(e) == hand[e] = Idle /\ net[e] # <<>>
Header(e)  == Head(net[e])

(* msg_handler: no wait_recv_buf flag; the body goes to a new buffer ... *)
ReadMail(e) ==
    /\ HasNext(e)
    /\ ~Header(e).wait_recv_buf
    /\ hand' = [hand EXCEPT ![e] = [st   |-> "mail",
                                    name |-> Header(e).name,
                                    data |-> Header(e).data]]
    /\ net' = [net EXCEPT ![e] = Tail(@)]
    /\ UNCHANGED <<callVars, memVars, writer, boxVars>>

(* ... and the buffer to the mailbox, once its channel has room. *)
PutMail(e) ==
    LET b == <<e[2], e[1], hand[e].name>>
    IN  /\ hand[e].st = "mail"
        /\ Len(mail[b]) < ChannelCap
        /\ mail' = [mail EXCEPT ![b] = Append(@, hand[e].data)]
        /\ hand' = [hand EXCEPT ![e] = Idle]
        /\ UNCHANGED <<callVars, memVars, netVars, waitQ, recvQ>>

(* queue_pair::put: wait for a receiver to post its buffer ... *)
TakeBuf(e) ==
    LET b == <<e[2], e[1], Header(e).name>>
    IN  /\ HasNext(e)
        /\ Header(e).wait_recv_buf
        /\ waitQ[b] # <<>>
        /\ hand' = [hand EXCEPT ![e] = [st   |-> "buf",
                                        name |-> Header(e).name,
                                        ptr  |-> Head(waitQ[b])]]
        /\ waitQ' = [waitQ EXCEPT ![b] = Tail(@)]
        /\ UNCHANGED <<callVars, memVars, netVars, mail, recvQ>>

(* ... read the body into it ... *)
ReadBody(e) ==
    /\ hand[e].st = "buf"
    /\ WriteRecv(<<e[2], hand[e].ptr[1]>>, hand[e].ptr[2], Header(e).data)
    /\ net' = [net EXCEPT ![e] = Tail(@)]
    /\ hand' = [hand EXCEPT ![e].st = "filled"]
    /\ UNCHANGED <<callVars, recv_count, writer, boxVars>>

(* ... and give it back. *)
PutRecvd(e) ==
    LET b == <<e[2], e[1], hand[e].name>>
    IN  /\ hand[e].st = "filled"
        /\ Len(recvQ[b]) < ChannelCap
        /\ recvQ' = [recvQ EXCEPT ![b] = Append(@, hand[e].ptr)]
        /\ hand' = [hand EXCEPT ![e] = Idle]
        /\ UNCHANGED <<callVars, memVars, netVars, mail, waitQ>>

----------------------------------------------------------------------------

Init ==
    /\ pos = [c \in Caller |-> 1]
    /\ phase = [c \in Caller |-> "idle"]
    /\ gi = [c \in Caller |-> 1]
    /\ sub = [c \in Caller |-> Work({})]
    /\ out = sub
    /\ send = [c \in Caller |-> EmptyBag]
    /\ recv = [c \in Caller |-> NoData]
    /\ recv_count = [c \in Caller |-> 0]
    /\ net = [e \in Conn |-> <<>>]
    /\ writer = [e \in Conn |-> NoThread]
    /\ hand = [e \in Conn |-> Idle]
    /\ mail = [b \in Box |-> <<>>]
    /\ waitQ = [b \in Box |-> <<>>]
    /\ recvQ = [b \in Box |-> <<>>]

CallerStep(c) ==
    \/ Call(c)
    \/ CallFlat(c)
    \/ GatherOwn(c)
    \/ RecvDone(c)
    \/ SendDone(c)

TaskStep(c, q) ==
    \/ RecvOnto(c, q)
    \/ PostRecv(c, q)
    \/ RecvInto(c, q)
    \/ SendBegin(c, q)
    \/ SendEnd(c, q)

HandlerStep(e) ==
    \/ ReadMail(e)
    \/ PutMail(e)
    \/ TakeBuf(e)
    \/ ReadBody(e)
    \/ PutRecvd(e)

AllReturned ==
    \A c \in Caller : phase[c] = "idle" /\ pos[c] > Len(Program[c[2]])

(* The program is over; connections and their handlers stay open. *)
Terminated == AllReturned /\ UNCHANGED vars

Next ==
    \/ \E c \in Caller : CallerStep(c)
    \/ \E c \in Caller, q \in Peer : TaskStep(c, q)
    \/ \E e \in Conn : HandlerStep(e)
    \/ Terminated

(* The operating system does not stop scheduling while some thread can      *)
(* run.  Nothing is assumed about which one: programs are finite and every  *)
(* step makes progress, so no thread can be starved for ever.               *)
Fairness == WF_vars(Next)

Spec == Init /\ [][Next]_vars

FairSpec == Spec /\ Fairness

----------------------------------------------------------------------------
(* Properties *)

Payload(B) == IsABag(B) /\ BagToSet(B) \subseteq Contribution

(* Types, with the bound of the boxes' channels: no box ever has a second   *)
(* message or buffer in it, so the model's queues respect channel's         *)
(* capacity of one.                                                         *)
TypeOK ==
    /\ pos \in [Caller -> Nat \ {0}]
    /\ phase \in [Caller -> {"idle", "recv", "send", "flat"}]
    /\ gi \in [Caller -> {1, 2}]
    /\ sub \in [Caller -> [Peer -> {"none", "todo", "posted"}]]
    /\ out \in [Caller -> [Peer -> {"none", "todo", "sending"}]]
    /\ \A c \in Caller : Payload(send[c]) /\ \A i \in Peer : Payload(recv[c][i])
    /\ recv_count \in [Caller -> Nat]
    /\ writer \in [Conn -> Thread \cup {NoThread}]
    /\ \A b \in Box : Len(mail[b]) <= 1 /\ Len(waitQ[b]) <= 1 /\ Len(recvQ[b]) <= 1

(* The collective operations implement their promise (CollectiveAbs): the   *)
(* buffer a caller sees between two calls holds the sum of all inputs of    *)
(* that round, the root's input, every peer's input in its part, or what    *)
(* was sent to it; nothing writes to it after the return, and no peer       *)
(* leaves an operation that a contributor has not entered.                  *)
Abs == INSTANCE CollectiveAbs WITH
    round <- pos,
    busy  <- [c \in Caller |-> phase[c] # "idle"],
    out   <- [c \in Caller |-> IF phase[c] = "idle" THEN recv[c] ELSE NoData]

Refines == Abs!Spec

(* Where the receive buffer posted to box b can be. *)
Holders(b) ==
    LET e == <<b[2], b[1]>>
    IN  {<<"waitQ", waitQ[b][i]>> : i \in DOMAIN waitQ[b]} \cup
        {<<"recvQ", recvQ[b][i]>> : i \in DOMAIN recvQ[b]} \cup
        (IF e \in Conn /\ hand[e].st \in {"buf", "filled"} /\ hand[e].name = b[3]
         THEN {<<"hand", hand[e].ptr>>} ELSE {})

(* A buffer is lent to a handler only while its owner waits for it: each of *)
(* the slotbox's queues and the handlers holds a buffer only if the thread   *)
(* that posted it is still blocked on that peer and name, and then it is in  *)
(* exactly one of them.  So read_body never writes to a buffer whose call    *)
(* has returned, and the assertion in queue_pair::get holds.                 *)
BuffersLent ==
    \A b \in Box :
        LET owners == {t \in Thread : LET c == <<b[1], t>> IN
                          /\ phase[c] # "idle"
                          /\ sub[c][b[2]] = "posted"
                          /\ Op(c).name = b[3]}
        IN  \/ owners = {} /\ Holders(b) = {}
            \/ \E t \in owners, at \in {"waitQ", "hand", "recvQ"} :
                  /\ owners = {t}
                  /\ Holders(b) = {<<at, <<t, Part(Op(<<b[1], t>>), b[2])>>>>}

(* The handler of a connection never waits for room in a mailbox: a peer is *)
(* never a whole round ahead of the one it sends to.  A handler that did    *)
(* would hold up every other operation that uses the connection.            *)
MailboxHasRoom ==
    \A e \in Conn :
        hand[e].st = "mail" => mail[<<e[2], e[1], hand[e].name>>] = <<>>

(* Once every peer has returned from the same operation of a thread, none   *)
(* of that thread's messages or buffers is left anywhere, for the next       *)
(* operation of the same name would take it for its own.                     *)
NoResidue ==
    \A t \in Thread :
        (\A p \in Peer : phase[<<p, t>>] = "idle" /\ pos[<<p, t>>] = pos[<<0, t>>])
        => \A k \in 1 .. Len(Program[t]) :
              LET n == Program[t][k].name IN
              /\ \A e \in Conn : /\ \A i \in DOMAIN net[e] : net[e][i].name # n
                                 /\ hand[e] # Idle => hand[e].name # n
              /\ \A b \in Box : b[3] = n => mail[b] = <<>> /\ Holders(b) = {}

(* Every call returns on every peer, in whatever order peers, threads and   *)
(* handlers run.                                                            *)
AllCallsReturn == <>AllReturned

(* tests/integration/test_all_reduce.cpp: after all_reduce the output       *)
(* buffer holds the sum of what every rank passed in.                       *)
AllReduceReturnsSum ==
    \A c \in Caller :
        /\ phase[c] = "idle" /\ pos[c] > 1
        /\ Program[c[2]][pos[c] - 1].kind = "all_reduce"
        => recv[c][0] = SetToBag({<<q, c[2], pos[c] - 1>> : q \in Peer})

============================================================================
