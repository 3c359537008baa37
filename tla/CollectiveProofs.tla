-------------------------- MODULE CollectiveProofs --------------------------
(***************************************************************************)
(* The buffers that callers lend to the handlers of their connections, the  *)
(* messages that callers exchange and what is in them, for every session,   *)
(* strategy, number of threads and program.                                 *)
(*                                                                         *)
(* CollInv says who has which receive buffer.  FlowInv, proved on top of    *)
(* it, follows each message from its send to its use.  DataInv, proved on   *)
(* top of both, says which contributions a message or a buffer holds; with  *)
(* it, Collective implements CollectiveAbs.                                 *)
(***************************************************************************)
EXTENDS Collective, TopologyProofs

(* What a buffer, a message, a handler and a posted buffer can be. *)
Data == UNION {[S -> Nat \ {0}] : S \in SUBSET Contribution}
Msg  == [name : Name, wait_recv_buf : BOOLEAN, data : Data]
Ptr  == Thread \X Peer
MailState == [st : {"mail"}, name : Name, data : Data]
SlotState == [st : {"buf", "filled"}, name : Name, ptr : Ptr]

CallType ==
    /\ pos \in [Caller -> Nat \ {0}]
    /\ phase \in [Caller -> {"idle", "recv", "send", "flat"}]
    /\ gi \in [Caller -> {1, 2}]
    /\ sub \in [Caller -> [Peer -> {"none", "todo", "posted"}]]
    /\ out \in [Caller -> [Peer -> {"none", "todo", "sending"}]]

MemType ==
    /\ send \in [Caller -> Data]
    /\ recv \in [Caller -> [Peer -> Data]]
    /\ recv_count \in [Caller -> Nat]

NetType ==
    /\ net \in [Conn -> Seq(Msg)]
    /\ writer \in [Conn -> Thread \cup {NoThread}]
    /\ hand \in [Conn -> {Idle} \cup MailState \cup SlotState]

BoxType ==
    /\ mail \in [Box -> Seq(Data)]
    /\ waitQ \in [Box -> Seq(Ptr)]
    /\ recvQ \in [Box -> Seq(Ptr)]
    /\ \A b \in Box : Len(mail[b]) <= 1 /\ Len(waitQ[b]) <= 1 /\ Len(recvQ[b]) <= 1

(* Where a caller is in its program, and the tasks it may have there. *)
CallOK(c) ==
    /\ phase[c] # "idle" => pos[c] <= Len(Program[c[2]])
    /\ phase[c] \in {"recv", "send"} => gi[c] \in 1 .. Len(Graphs(Op(c)))
    /\ phase[c] = "flat" => Graphs(Op(c)) = <<>>
    /\ phase[c] \in {"idle", "send"} => \A q \in Peer : sub[c][q] = "none"
    /\ phase[c] = "idle" => \A q \in Peer : out[c][q] = "none"
    /\ out[c][c[1]] = "none"

CallInv == \A c \in Caller : CallOK(c)

(* The body that a handler with a buffer reads is still on the wire. *)
ReadInv ==
    \A e \in Conn : hand[e].st = "buf" => net[e] # <<>>

(* The threads that wait for a buffer posted to box b. *)
Owners(b) ==
    {t \in Thread : /\ phase[<<b[1], t>>] # "idle"
                    /\ sub[<<b[1], t>>][b[2]] = "posted"
                    /\ Op(<<b[1], t>>).name = b[3]}

LentOK(b) ==
    \/ Owners(b) = {} /\ Holders(b) = {}
    \/ \E t \in Owners(b), at \in {"waitQ", "hand", "recvQ"} :
          /\ Owners(b) = {t}
          /\ Holders(b) = {<<at, <<t, Part(Op(<<b[1], t>>), b[2])>>>>}

LentInv == \A b \in Box : LentOK(b)

(* The inductive invariant. *)
CollInv == CallType /\ MemType /\ NetType /\ BoxType /\ CallInv /\ ReadInv /\ LentInv

----------------------------------------------------------------------------
(* Buffers, programs and graphs *)

(* There is at least one peer, and peers are the vertices of the graphs. *)
LEMMA Constants == N \in Nat /\ N > 0 /\ Peer = Vertex(N) /\ 0 \in Peer
    BY NAssumption DEF Peer, Vertex

(* A thread is a pair of a peer and a thread id, a connection a pair of *)
(* different peers.                                                     *)
LEMMA CallerFacts ==
    /\ \A c \in Caller : c[1] \in Peer /\ c[2] \in Thread /\ c = <<c[1], c[2]>>
    /\ \A p \in Peer, t \in Thread : <<p, t>> \in Caller
    /\ \A e \in Conn : e[1] \in Peer /\ e[2] \in Peer /\ e[1] # e[2] /\ e = <<e[1], e[2]>>
    /\ \A p \in Peer, q \in Peer : p # q => <<p, q>> \in Conn
    BY DEF Caller, Conn

(* A box is a triple of the peer that owns it, the peer it is for, and a *)
(* name.                                                                 *)
LEMMA BoxFacts ==
    /\ \A b \in Box : b[1] \in Peer /\ b[2] \in Peer /\ b[3] \in Name /\ b = <<b[1], b[2], b[3]>>
    /\ \A p \in Peer, q \in Peer, n \in Name : <<p, q, n>> \in Box
    BY DEF Box

(* Data, the bags of contributions, are payloads in the sense of Collective. *)
LEMMA DataIsPayload ==
    ASSUME NEW x
    PROVE  x \in Data => Payload(x)
<1> SUFFICES ASSUME x \in Data PROVE Payload(x)
    OBVIOUS
<1>1. PICK S \in SUBSET Contribution : x \in [S -> Nat \ {0}]
    BY DEF Data
<1>2. DOMAIN x = S /\ {n \in Nat : n > 0} = Nat \ {0}
    BY <1>1
<1>3. IsABag(x) /\ BagToSet(x) = S
    BY <1>1, <1>2 DEF IsABag, BagToSet
<1> QED BY <1>3 DEF Payload

(* A set of contributions, each taken once, is data. *)
LEMMA BagData ==
    ASSUME NEW S \in SUBSET Contribution
    PROVE  SetToBag(S) \in Data
<1>1. SetToBag(S) \in [S -> Nat \ {0}]
    BY DEF SetToBag
<1> QED BY <1>1 DEF Data

(* The input of a call and the empty buffers of an idle thread are data. *)
LEMMA BufferData ==
    /\ EmptyBag \in Data
    /\ \A p \in Peer, t \in Thread, k \in Nat : Input(p, t, k) \in Data
    /\ NoData \in [Peer -> Data]
<1>1. EmptyBag \in Data
    BY BagData DEF EmptyBag
<1>2. ASSUME NEW p \in Peer, NEW t \in Thread, NEW k \in Nat PROVE Input(p, t, k) \in Data
    <2>1. {<<p, t, k>>} \in SUBSET Contribution
        BY DEF Contribution
    <2> QED BY <2>1, BagData DEF Input
<1> QED BY <1>1, <1>2 DEF NoData

(* Reducing two buffers (workspace_state::add_to) gives data. *)
LEMMA ReduceData ==
    ASSUME NEW x \in Data, NEW y \in Data
    PROVE  Reduce(x, y) \in Data
<1>1. PICK S \in SUBSET Contribution : x \in [S -> Nat \ {0}]
    BY DEF Data
<1>2. PICK T \in SUBSET Contribution : y \in [T -> Nat \ {0}]
    BY DEF Data
<1> DEFINE f == [e \in S \cup T |-> (IF e \in S THEN x[e] ELSE 0) + (IF e \in T THEN y[e] ELSE 0)]
<1>3. Reduce(x, y) = f
    BY <1>1, <1>2 DEF Reduce, (+)
<1>4. f \in [S \cup T -> Nat \ {0}]
    <2>1. ASSUME NEW e \in S \cup T
          PROVE  (IF e \in S THEN x[e] ELSE 0) + (IF e \in T THEN y[e] ELSE 0) \in Nat \ {0}
        <3>1. e \in S => x[e] \in Nat /\ x[e] > 0
            BY <1>1
        <3>2. e \in T => y[e] \in Nat /\ y[e] > 0
            BY <1>2
        <3> QED BY <3>1, <3>2
    <2> QED BY <2>1
<1>5. S \cup T \in SUBSET Contribution
    OBVIOUS
<1> QED BY <1>3, <1>4, <1>5 DEF Data

(* The call a caller is in, or is about to make. *)
LEMMA OpFacts ==
    ASSUME NEW c \in Caller, pos[c] \in Nat \ {0}, pos[c] <= Len(Program[c[2]])
    PROVE  /\ Op(c).name \in Name
           /\ Op(c).kind \in Kind
           /\ Op(c).inplace \in BOOLEAN
           /\ Op(c).from # Op(c).to
<1>1. c[2] \in Thread
    BY CallerFacts
<1>2. pos[c] \in 1 .. Len(Program[c[2]])
    BY <1>1, ProgramAssumption
<1> QED BY <1>1, <1>2, ProgramAssumption DEF Op, Name

(* Names tell the threads of a peer apart. *)
LEMMA NamesApart ==
    ASSUME NEW c \in Caller, NEW d \in Caller, c[1] = d[1], Op(c).name = Op(d).name,
           pos[c] \in Nat \ {0}, pos[c] <= Len(Program[c[2]]),
           pos[d] \in Nat \ {0}, pos[d] <= Len(Program[d[2]])
    PROVE  c = d
<1>1. c[2] \in Thread /\ d[2] \in Thread /\ c = <<c[1], c[2]>> /\ d = <<d[1], d[2]>>
    BY CallerFacts
<1>2. pos[c] \in 1 .. Len(Program[c[2]]) /\ pos[d] \in 1 .. Len(Program[d[2]])
    BY <1>1, ProgramAssumption
<1>3. c[2] = d[2]
    BY <1>1, <1>2, ProgramAssumption DEF Op
<1> QED BY <1>1, <1>3

(* A call runs on two graphs (all_reduce), one (broadcast) or none, and in *)
(* none of them does a peer send to itself.                                *)
LEMMA GraphFacts ==
    ASSUME NEW op, op.kind \in Kind, op.name \in Name
    PROVE  /\ Len(Graphs(op)) \in {0, 1, 2}
           /\ Graphs(op) = <<>> <=> op.kind \in {"all_gather", "send_recv"}
           /\ Graphs(op) # <<>> => 1 \in 1 .. Len(Graphs(op))
           /\ \A i \in 1 .. Len(Graphs(op)) : \A p : p \notin Nexts(Graphs(op)[i], p)
<1>0. Hash[op.name] \in Nat
    BY HashAssumption
<1> DEFINE pair  == Choose(all_reduce_topo, Hash[op.name])
           first == all_reduce_topo[1]
<1>1. PICK r \in Vertex(N) : IsTreePair(N, pair, r)
    BY <1>0, Constants, ChosenPairIsTreePair DEF all_reduce_topo
<1>2. 0 \in Vertex(N) /\ IsTreePair(N, first, 0)
    BY <1>0, Constants, ChosenPairIsTreePair DEF all_reduce_topo
<1> HIDE DEF pair, first
<1>3. ASSUME NEW p PROVE /\ p \notin Nexts(pair.reduce_graph, p)
                         /\ p \notin Nexts(pair.broadcast_graph, p)
                         /\ p \notin Nexts(first.broadcast_graph, p)
    <2>1. IsInTree(N, pair.reduce_graph, r) /\ IsOutTree(N, pair.broadcast_graph, r)
        BY <1>1 DEF IsTreePair
    <2>2. IsOutTree(N, first.broadcast_graph, 0)
        BY <1>2 DEF IsTreePair
    <2>3. \A e \in pair.reduce_graph.edges : e[1] # e[2]
        BY <2>1, Constants, InTreeEdges
    <2>4. \A e \in pair.broadcast_graph.edges : e[1] # e[2]
        BY <2>1, Constants, OutTreeEdges
    <2>5. \A e \in first.broadcast_graph.edges : e[1] # e[2]
        BY <1>2, <2>2, Constants, OutTreeEdges
    <2> QED BY <2>3, <2>4, <2>5 DEF Nexts
<1>4. CASE op.kind = "broadcast"
    <2>1. Graphs(op) = <<first.broadcast_graph>>
        BY <1>4 DEF Graphs, BroadcastGraphs, first
    <2> QED BY <1>3, <1>4, <2>1
<1>5. CASE op.kind = "all_reduce"
    <2>1. Graphs(op) = <<pair.reduce_graph, pair.broadcast_graph>>
        BY <1>5 DEF Graphs, AllReduceGraphs, pair
    <2> QED BY <1>3, <1>5, <2>1
<1>6. CASE op.kind \in {"all_gather", "send_recv"}
    <2>1. Graphs(op) = <<>>
        BY <1>6 DEF Graphs
    <2> QED BY <1>6, <2>1
<1> QED BY <1>4, <1>5, <1>6 DEF Kind

----------------------------------------------------------------------------
(* What the steps have in common *)

(* A write to the receive buffer of a call, in place or not, keeps the *)
(* buffers of the other calls.                                         *)
LEMMA WriteRecvType ==
    ASSUME MemType, NEW c \in Caller, NEW i \in Peer, NEW data \in Data, WriteRecv(c, i, data)
    PROVE  /\ send' \in [Caller -> Data]
           /\ recv' \in [Caller -> [Peer -> Data]]
           /\ \A d \in Caller : d # c => send'[d] = send[d] /\ recv'[d] = recv[d]
<1>1. send \in [Caller -> Data] /\ recv \in [Caller -> [Peer -> Data]]
    BY DEF MemType
<1>2. recv' = [recv EXCEPT ![c] = [recv[c] EXCEPT ![i] = data]]
    BY DEF WriteRecv
<1>3. [recv[c] EXCEPT ![i] = data] \in [Peer -> Data]
    BY <1>1
<1>4. recv' \in [Caller -> [Peer -> Data]] /\ \A d \in Caller : d # c => recv'[d] = recv[d]
    BY <1>1, <1>2, <1>3
<1>5. send' = [send EXCEPT ![c] = data] \/ send' = send
    BY DEF WriteRecv
<1>6. send' \in [Caller -> Data] /\ \A d \in Caller : d # c => send'[d] = send[d]
    BY <1>1, <1>5
<1> QED BY <1>4, <1>6

(* effective_data() is data. *)
LEMMA EffectiveDataType ==
    ASSUME MemType, NEW c \in Caller
    PROVE  EffectiveData(c) \in Data
    BY Constants DEF MemType, EffectiveData

(* The items that a parallel step starts with are exactly those of its *)
(* neighbours, and none of them is posted.                             *)
LEMMA WorkType ==
    ASSUME NEW S
    PROVE  /\ Work(S) \in [Peer -> {"none", "todo"}]
           /\ \A q \in Peer : Work(S)[q] = "todo" <=> q \in S
           /\ \A q \in Peer : Work(S)[q] # "posted"
    BY DEF Work

(* Nobody's buffer in box b is posted, moved or taken back. *)
LEMMA LentFrame ==
    ASSUME NEW b \in Box, LentOK(b), Owners(b)' = Owners(b), Holders(b)' = Holders(b),
           \A t \in Owners(b) : pos'[<<b[1], t>>] = pos[<<b[1], t>>]
    PROVE  LentOK(b)'
<1>1. \A t \in Owners(b) : Op(<<b[1], t>>)' = Op(<<b[1], t>>)
    BY DEF Op
<1>2. \A t \in Owners(b) : Part(Op(<<b[1], t>>), b[2])' = Part(Op(<<b[1], t>>), b[2])
    BY <1>1 DEF Part
<1> QED BY <1>2 DEF LentOK

(* The pointers that a box and its handler hold do not change unless its *)
(* queues or a handler that holds one do.                                *)
LEMMA SameHolders ==
    ASSUME NEW b, waitQ'[b] = waitQ[b], recvQ'[b] = recvQ[b],
           LET e == <<b[2], b[1]>> IN
              e \in Conn => \/ hand'[e] = hand[e]
                            \/ /\ hand[e].st \notin {"buf", "filled"}
                               /\ hand'[e].st \notin {"buf", "filled"}
    PROVE  Holders(b)' = Holders(b)
    BY DEF Holders

(* A step of caller c that neither posts a buffer nor takes one back. *)
LEMMA QuietCall ==
    ASSUME CollInv, NEW c \in Caller, UNCHANGED <<hand, waitQ, recvQ>>,
           \A d \in Caller : d # c => pos'[d] = pos[d] /\ phase'[d] = phase[d] /\ sub'[d] = sub[d],
           \A q \in Peer : sub'[c][q] = "posted" <=> sub[c][q] = "posted",
           \A q \in Peer : sub[c][q] = "posted" => pos'[c] = pos[c] /\ phase[c] # "idle" /\ phase'[c] # "idle"
    PROVE  LentInv'
<1> SUFFICES ASSUME NEW b \in Box PROVE LentOK(b)'
    BY DEF LentInv
<1>1. LentOK(b)
    BY DEF CollInv, LentInv
<1>2. Holders(b)' = Holders(b)
    BY SameHolders
<1>3. ASSUME NEW t \in Thread
      PROVE  /\ t \in Owners(b)' <=> t \in Owners(b)
             /\ t \in Owners(b) => pos'[<<b[1], t>>] = pos[<<b[1], t>>]
    <2> DEFINE d == <<b[1], t>>
    <2>1. d \in Caller /\ b[2] \in Peer
        BY CallerFacts, BoxFacts
    <2>2. pos'[d] = pos[d] => Op(d)' = Op(d)
        BY DEF Op
    <2>3. CASE d # c
        BY <2>1, <2>2, <2>3 DEF Owners
    <2>4. CASE d = c
        BY <2>1, <2>2, <2>4 DEF Owners
    <2> QED BY <2>3, <2>4
<1>4. Owners(b)' = Owners(b)
    BY <1>3 DEF Owners
<1> QED BY <1>1, <1>2, <1>3, <1>4, LentFrame DEF Owners

(* The call of a caller that a step leaves alone. *)
LEMMA CallKept ==
    ASSUME NEW d \in Caller, CallOK(d), pos'[d] = pos[d], phase'[d] = phase[d], gi'[d] = gi[d],
           sub'[d] = sub[d], out'[d] = out[d]
    PROVE  CallOK(d)'
<1>1. Op(d)' = Op(d)
    BY DEF Op
<1>2. Graphs(Op(d))' = Graphs(Op(d))
    BY <1>1 DEF Graphs, AllReduceGraphs, BroadcastGraphs, all_reduce_topo
<1> QED BY <1>2 DEF CallOK

----------------------------------------------------------------------------
(* The steps of callers that neither post a buffer nor take one back *)

(* A step of one thread that touches no box keeps the invariant if the items *)
(* it has posted stay posted while its call is in progress.                  *)
LEMMA CallerQuiet ==
    ASSUME CollInv, NEW c \in Caller, CallType', MemType', NetType', BoxType',
           UNCHANGED <<hand, waitQ, recvQ>>,
           \A e \in Conn : net[e] # <<>> => net'[e] # <<>>,
           \A d \in Caller : d # c => /\ pos'[d] = pos[d] /\ phase'[d] = phase[d] /\ gi'[d] = gi[d]
                                      /\ sub'[d] = sub[d] /\ out'[d] = out[d],
           \A q \in Peer : sub'[c][q] = "posted" <=> sub[c][q] = "posted",
           \A q \in Peer : sub[c][q] = "posted" => pos'[c] = pos[c] /\ phase[c] # "idle" /\ phase'[c] # "idle",
           CallOK(c)'
    PROVE  CollInv'
<1>1. LentInv'
    BY QuietCall
<1>2. ReadInv'
    BY DEF CollInv, ReadInv
<1>3. CallInv'
    <2> SUFFICES ASSUME NEW d \in Caller PROVE CallOK(d)'
        BY DEF CallInv
    <2>1. CASE d # c
        BY <2>1, CallKept DEF CollInv, CallInv
    <2> QED BY <2>1
<1> QED BY <1>1, <1>2, <1>3 DEF CollInv

(* A thread that stays in its call stays with its operation and graphs. *)
LEMMA SameGraphs ==
    ASSUME NEW c, pos'[c] = pos[c]
    PROVE  Op(c)' = Op(c) /\ Graphs(Op(c))' = Graphs(Op(c))
<1>1. Op(c)' = Op(c)
    BY DEF Op
<1> QED BY <1>1 DEF Graphs, AllReduceGraphs, BroadcastGraphs, all_reduce_topo

(* What every call does first: it fills its buffers and has no posted items. *)
LEMMA BeginStep ==
    ASSUME CollInv, NEW c \in Caller, Begin(c)
    PROVE  /\ MemType' /\ NetType' /\ BoxType'
           /\ UNCHANGED <<pos, net, hand, waitQ, recvQ>>
           /\ gi' = [gi EXCEPT ![c] = 1]
           /\ \A q \in Peer : sub[c][q] = "none"
           /\ Op(c).kind \in Kind /\ Op(c).name \in Name /\ Op(c).from # Op(c).to
           /\ pos[c] <= Len(Program[c[2]])
           /\ pos[c] \in Nat \ {0}
<1>1. pos[c] \in Nat \ {0} /\ pos[c] <= Len(Program[c[2]]) /\ phase[c] = "idle"
    BY DEF CollInv, CallType, Begin
<1>2. UNCHANGED <<pos, net, writer, hand, mail, waitQ, recvQ>>
    BY DEF Begin, netVars, boxVars
<1>3. NetType' /\ BoxType'
    BY <1>2 DEF CollInv, NetType, BoxType
<1>4. MemType'
    <2> DEFINE x == Input(c[1], c[2], pos[c])
               y == Input(c[1], c[2], 0)
    <2>1. x \in Data /\ y \in Data /\ NoData \in [Peer -> Data]
        BY <1>1, CallerFacts, BufferData
    <2> HIDE DEF x, y
    <2>2. /\ send' = [send EXCEPT ![c] = x]
          /\ recv' = [recv EXCEPT ![c] = [NoData EXCEPT ![0] = IF Op(c).inplace THEN x ELSE y]]
          /\ recv_count' = [recv_count EXCEPT ![c] = 0]
        BY DEF Begin, x, y
    <2>3. send \in [Caller -> Data] /\ recv \in [Caller -> [Peer -> Data]] /\ recv_count \in [Caller -> Nat]
        BY DEF CollInv, MemType
    <2>4. send' \in [Caller -> Data]
        BY <2>1, <2>2, <2>3
    <2>5. [NoData EXCEPT ![0] = IF Op(c).inplace THEN x ELSE y] \in [Peer -> Data]
        BY <2>1, Constants
    <2>6. recv' \in [Caller -> [Peer -> Data]]
        BY <2>2, <2>3, <2>5
    <2>7. recv_count' \in [Caller -> Nat]
        BY <2>2, <2>3
    <2> QED BY <2>4, <2>6, <2>7 DEF MemType
<1>5. \A q \in Peer : sub[c][q] = "none"
    BY <1>1 DEF CollInv, CallInv, CallOK
<1> QED BY <1>1, <1>2, <1>3, <1>4, <1>5, OpFacts DEF Begin

(* Entering an all_reduce, a broadcast or a barrier keeps the invariant. *)
LEMMA CallStep ==
    ASSUME CollInv, NEW c \in Caller, Call(c)
    PROVE  CollInv'
<1> DEFINE w == Work(Prevs(Graphs(Op(c))[1], c[1]))
<1>1. /\ MemType' /\ NetType' /\ BoxType'
      /\ UNCHANGED <<pos, net, hand, waitQ, recvQ>>
      /\ gi' = [gi EXCEPT ![c] = 1]
      /\ \A q \in Peer : sub[c][q] = "none"
      /\ Op(c).kind \in Kind /\ Op(c).name \in Name
      /\ pos[c] <= Len(Program[c[2]])
    BY BeginStep DEF Call
<1>2. /\ phase' = [phase EXCEPT ![c] = "recv"] /\ sub' = [sub EXCEPT ![c] = w]
      /\ out' = out /\ Graphs(Op(c)) # <<>>
    BY DEF Call
<1>3. w \in [Peer -> {"none", "todo"}] /\ \A q \in Peer : w[q] # "posted"
    BY WorkType
<1> HIDE DEF w
<1>4. /\ pos \in [Caller -> Nat \ {0}] /\ phase \in [Caller -> {"idle", "recv", "send", "flat"}]
      /\ gi \in [Caller -> {1, 2}] /\ sub \in [Caller -> [Peer -> {"none", "todo", "posted"}]]
      /\ out \in [Caller -> [Peer -> {"none", "todo", "sending"}]]
    BY DEF CollInv, CallType
<1>5. CallType'
    <2>1. w \in [Peer -> {"none", "todo", "posted"}]
        BY <1>3
    <2>2. sub' \in [Caller -> [Peer -> {"none", "todo", "posted"}]]
        BY <1>2, <1>4, <2>1
    <2>3. phase' \in [Caller -> {"idle", "recv", "send", "flat"}] /\ gi' \in [Caller -> {1, 2}]
        BY <1>1, <1>2, <1>4
    <2> QED BY <1>1, <1>2, <1>4, <2>2, <2>3 DEF CallType
<1>6. /\ phase'[c] = "recv" /\ gi'[c] = 1 /\ sub'[c] = w
      /\ \A d \in Caller : d # c => phase'[d] = phase[d] /\ gi'[d] = gi[d] /\ sub'[d] = sub[d]
    BY <1>1, <1>2, <1>4
<1>7. CallOK(c)'
    <2>1. Graphs(Op(c))' = Graphs(Op(c)) /\ 1 \in 1 .. Len(Graphs(Op(c)))
        BY <1>1, <1>2, SameGraphs, GraphFacts
    <2>2. out[c][c[1]] = "none"
        BY DEF CollInv, CallInv, CallOK
    <2> QED BY <1>1, <1>2, <1>6, <2>1, <2>2 DEF CallOK
<1> QED BY <1>1, <1>2, <1>3, <1>5, <1>6, <1>7, CallerQuiet

(* Entering an all_gather, a send or a recv keeps the invariant. *)
LEMMA CallFlatStep ==
    ASSUME CollInv, NEW c \in Caller, CallFlat(c)
    PROVE  CollInv'
<1> DEFINE w == Work(Senders(Op(c), c[1]))
           o == Work(Receivers(Op(c), c[1]))
<1>1. /\ MemType' /\ NetType' /\ BoxType'
      /\ UNCHANGED <<pos, net, hand, waitQ, recvQ>>
      /\ gi' = [gi EXCEPT ![c] = 1]
      /\ \A q \in Peer : sub[c][q] = "none"
      /\ Op(c).kind \in Kind /\ Op(c).name \in Name /\ Op(c).from # Op(c).to
      /\ pos[c] <= Len(Program[c[2]])
    BY BeginStep DEF CallFlat
<1>2. /\ phase' = [phase EXCEPT ![c] = "flat"] /\ sub' = [sub EXCEPT ![c] = w]
      /\ out' = [out EXCEPT ![c] = o] /\ Graphs(Op(c)) = <<>>
    BY DEF CallFlat
<1>3. /\ w \in [Peer -> {"none", "todo"}] /\ \A q \in Peer : w[q] # "posted"
      /\ o \in [Peer -> {"none", "todo"}] /\ o[c[1]] = "none"
    <2>1. c[1] \notin Receivers(Op(c), c[1])
        <3>1. Op(c).kind \in {"all_gather", "send_recv"}
            BY <1>1, <1>2, GraphFacts
        <3> QED BY <1>1, <3>1 DEF Receivers
    <2>2. c[1] \in Peer
        BY CallerFacts
    <2> QED BY <2>1, <2>2, WorkType
<1> HIDE DEF w, o
<1>4. /\ pos \in [Caller -> Nat \ {0}] /\ phase \in [Caller -> {"idle", "recv", "send", "flat"}]
      /\ gi \in [Caller -> {1, 2}] /\ sub \in [Caller -> [Peer -> {"none", "todo", "posted"}]]
      /\ out \in [Caller -> [Peer -> {"none", "todo", "sending"}]]
    BY DEF CollInv, CallType
<1>5. CallType'
    <2>1. w \in [Peer -> {"none", "todo", "posted"}] /\ o \in [Peer -> {"none", "todo", "sending"}]
        BY <1>3
    <2>2. sub' \in [Caller -> [Peer -> {"none", "todo", "posted"}]]
        BY <1>2, <1>4, <2>1
    <2>3. out' \in [Caller -> [Peer -> {"none", "todo", "sending"}]]
        BY <1>2, <1>4, <2>1
    <2>4. phase' \in [Caller -> {"idle", "recv", "send", "flat"}] /\ gi' \in [Caller -> {1, 2}]
        BY <1>1, <1>2, <1>4
    <2> QED BY <1>1, <1>4, <2>2, <2>3, <2>4 DEF CallType
<1>6. /\ phase'[c] = "flat" /\ gi'[c] = 1 /\ sub'[c] = w /\ out'[c] = o
      /\ \A d \in Caller : d # c => /\ phase'[d] = phase[d] /\ gi'[d] = gi[d]
                                    /\ sub'[d] = sub[d] /\ out'[d] = out[d]
    BY <1>1, <1>2, <1>4
<1>7. CallOK(c)'
    <2>1. Graphs(Op(c))' = Graphs(Op(c))
        BY <1>1, SameGraphs
    <2> QED BY <1>1, <1>2, <1>3, <1>6, <2>1 DEF CallOK
<1> QED BY <1>1, <1>3, <1>5, <1>6, <1>7, CallerQuiet

(* all_gather's copy of a peer's own part keeps the invariant. *)
LEMMA GatherOwnStep ==
    ASSUME CollInv, NEW c \in Caller, GatherOwn(c)
    PROVE  CollInv'
<1> DEFINE q == c[1]
<1>0. q \in Peer
    BY CallerFacts
<1>1. /\ phase[c] = "flat" /\ sub[c][q] = "todo"
      /\ WriteRecv(c, Part(Op(c), q), send[c])
      /\ sub' = [sub EXCEPT ![c][q] = "none"]
      /\ UNCHANGED <<pos, phase, gi, out, recv_count, net, writer, hand, mail, waitQ, recvQ>>
    BY DEF GatherOwn, Forward, netVars, boxVars
<1>2. /\ sub' \in [Caller -> [Peer -> {"none", "todo", "posted"}]]
      /\ sub'[c][q] = "none"
      /\ \A r \in Peer : r # q => sub'[c][r] = sub[c][r]
      /\ \A d \in Caller : d # c => sub'[d] = sub[d]
    <2>1. sub \in [Caller -> [Peer -> {"none", "todo", "posted"}]]
        BY DEF CollInv, CallType
    <2>2. sub' = [sub EXCEPT ![c] = [sub[c] EXCEPT ![q] = "none"]]
        BY <1>1
    <2>3. [sub[c] EXCEPT ![q] = "none"] \in [Peer -> {"none", "todo", "posted"}]
        BY <2>1
    <2> QED BY <1>0, <2>1, <2>2, <2>3
<1>3. CallType'
    BY <1>1, <1>2 DEF CollInv, CallType
<1>4. MemType'
    <2>1. Part(Op(c), q) \in Peer /\ send[c] \in Data
        BY <1>0, Constants DEF Part, CollInv, MemType
    <2>2. send' \in [Caller -> Data] /\ recv' \in [Caller -> [Peer -> Data]]
        BY <1>1, <2>1, WriteRecvType DEF CollInv
    <2> QED BY <1>1, <2>2 DEF CollInv, MemType
<1>5. NetType' /\ BoxType'
    BY <1>1 DEF CollInv, NetType, BoxType
<1>6. CallOK(c)'
    <2>1. Graphs(Op(c))' = Graphs(Op(c))
        BY <1>1, SameGraphs
    <2>2. CallOK(c)
        BY DEF CollInv, CallInv
    <2> QED BY <1>1, <1>2, <2>1, <2>2 DEF CallOK
<1> QED BY <1>0, <1>1, <1>2, <1>3, <1>4, <1>5, <1>6, CallerQuiet

(* A receive that reduces keeps the invariant: it takes from the mailbox, *)
(* which lends no buffer.                                                 *)
LEMMA RecvOntoStep ==
    ASSUME CollInv, NEW c \in Caller, NEW q \in Peer, RecvOnto(c, q)
    PROVE  CollInv'
<1> DEFINE b == <<c[1], q, Op(c).name>>
           x == Head(mail[b])
<1>1. /\ phase[c] = "recv" /\ sub[c][q] = "todo" /\ mail[b] # <<>>
      /\ WriteRecv(c, 0, Reduce(x, EffectiveData(c)))
      /\ recv_count' = [recv_count EXCEPT ![c] = recv_count[c] + 1]
      /\ mail' = [mail EXCEPT ![b] = Tail(mail[b])]
      /\ sub' = [sub EXCEPT ![c][q] = "none"]
      /\ UNCHANGED <<pos, phase, gi, out, net, writer, hand, waitQ, recvQ>>
    BY DEF RecvOnto, AddTo, netVars
<1>2. CallOK(c)
    BY DEF CollInv, CallInv
<1>3. b \in Box
    <2>1. Op(c).name \in Name
        BY <1>1, <1>2, OpFacts DEF CallOK, CollInv, CallType
    <2> QED BY <2>1, CallerFacts, BoxFacts
<1>4. mail \in [Box -> Seq(Data)] /\ \A d \in Box : Len(mail[d]) <= 1
    BY DEF CollInv, BoxType
<1>5. mail[b] \in Seq(Data) /\ x \in Data /\ Tail(mail[b]) \in Seq(Data) /\ Len(Tail(mail[b])) <= 1
    BY <1>1, <1>3, <1>4
<1> HIDE DEF b, x
<1>6. BoxType'
    <2>1. mail' \in [Box -> Seq(Data)]
        BY <1>1, <1>4, <1>5
    <2>2. \A d \in Box : Len(mail'[d]) <= 1
        BY <1>1, <1>4, <1>5
    <2> QED BY <1>1, <2>1, <2>2 DEF CollInv, BoxType
<1>7. MemType'
    <2>1. 0 \in Peer /\ Reduce(x, EffectiveData(c)) \in Data
        BY <1>5, Constants, EffectiveDataType, ReduceData DEF CollInv
    <2>2. send' \in [Caller -> Data] /\ recv' \in [Caller -> [Peer -> Data]]
        BY <1>1, <2>1, WriteRecvType DEF CollInv
    <2>3. recv_count' \in [Caller -> Nat]
        BY <1>1 DEF CollInv, MemType
    <2> QED BY <2>2, <2>3 DEF MemType
<1>8. /\ sub' \in [Caller -> [Peer -> {"none", "todo", "posted"}]]
      /\ sub'[c][q] = "none"
      /\ \A r \in Peer : r # q => sub'[c][r] = sub[c][r]
      /\ \A d \in Caller : d # c => sub'[d] = sub[d]
    <2>1. sub \in [Caller -> [Peer -> {"none", "todo", "posted"}]]
        BY DEF CollInv, CallType
    <2>2. sub' = [sub EXCEPT ![c] = [sub[c] EXCEPT ![q] = "none"]]
        BY <1>1
    <2>3. [sub[c] EXCEPT ![q] = "none"] \in [Peer -> {"none", "todo", "posted"}]
        BY <2>1
    <2> QED BY <2>1, <2>2, <2>3
<1>9. CallType' /\ NetType'
    BY <1>1, <1>8 DEF CollInv, CallType, NetType
<1>10. CallOK(c)'
    <2>1. Graphs(Op(c))' = Graphs(Op(c))
        BY <1>1, SameGraphs
    <2> QED BY <1>1, <1>2, <2>1 DEF CallOK
<1> QED BY <1>1, <1>6, <1>7, <1>8, <1>9, <1>10, CallerQuiet

(* Going on from the receives of a graph to its sends keeps the invariant, *)
(* as all items are done.                                                  *)
LEMMA RecvDoneStep ==
    ASSUME CollInv, NEW c \in Caller, RecvDone(c)
    PROVE  CollInv'
<1> DEFINE o == Work(Nexts(Graph(c), c[1]))
<1>1. /\ phase[c] = "recv" /\ \A q \in Peer : sub[c][q] = "none"
      /\ phase' = [phase EXCEPT ![c] = "send"]
      /\ out' = [out EXCEPT ![c] = o]
      /\ WriteRecv(c, 0, send[c]) \/ UNCHANGED <<send, recv>>
      /\ UNCHANGED <<pos, gi, sub, recv_count, net, writer, hand, mail, waitQ, recvQ>>
    BY DEF RecvDone, Forward, netVars, boxVars
<1>2. CallOK(c) /\ c[1] \in Peer
    BY CallerFacts DEF CollInv, CallInv
<1>3. /\ gi[c] \in 1 .. Len(Graphs(Op(c))) /\ pos[c] <= Len(Program[c[2]])
      /\ Op(c).kind \in Kind /\ Op(c).name \in Name
    BY <1>1, <1>2, OpFacts DEF CallOK, CollInv, CallType
<1>4. o \in [Peer -> {"none", "todo"}] /\ o[c[1]] = "none"
    <2>1. c[1] \notin Nexts(Graph(c), c[1])
        BY <1>3, GraphFacts DEF Graph
    <2> QED BY <1>2, <2>1, WorkType
<1> HIDE DEF o
<1>5. CallType'
    <2>1. /\ phase \in [Caller -> {"idle", "recv", "send", "flat"}]
          /\ out \in [Caller -> [Peer -> {"none", "todo", "sending"}]]
          /\ o \in [Peer -> {"none", "todo", "sending"}]
        BY <1>4 DEF CollInv, CallType
    <2>2. /\ phase' \in [Caller -> {"idle", "recv", "send", "flat"}]
          /\ out' \in [Caller -> [Peer -> {"none", "todo", "sending"}]]
        BY <1>1, <2>1
    <2> QED BY <1>1, <2>2 DEF CollInv, CallType
<1>6. MemType'
    <2>1. 0 \in Peer /\ send[c] \in Data /\ MemType
        BY Constants DEF CollInv, MemType
    <2>2. CASE WriteRecv(c, 0, send[c])
        <3>1. send' \in [Caller -> Data] /\ recv' \in [Caller -> [Peer -> Data]]
            BY <2>1, <2>2, WriteRecvType
        <3> QED BY <1>1, <2>1, <3>1 DEF MemType
    <2>3. CASE UNCHANGED <<send, recv>>
        BY <1>1, <2>1, <2>3 DEF MemType
    <2> QED BY <1>1, <2>2, <2>3
<1>7. NetType' /\ BoxType'
    BY <1>1 DEF CollInv, NetType, BoxType
<1>8. /\ phase'[c] = "send" /\ out'[c] = o
      /\ \A d \in Caller : d # c => phase'[d] = phase[d] /\ out'[d] = out[d]
    BY <1>1 DEF CollInv, CallType
<1>9. CallOK(c)'
    <2>1. Graphs(Op(c))' = Graphs(Op(c))
        BY <1>1, SameGraphs
    <2> QED BY <1>1, <1>2, <1>3, <1>4, <1>8, <2>1 DEF CallOK
<1> QED BY <1>1, <1>5, <1>6, <1>7, <1>8, <1>9, CallerQuiet

(* Taking a connection's mutex and writing a message keeps the invariant. *)
LEMMA SendBeginStep ==
    ASSUME CollInv, NEW c \in Caller, NEW q \in Peer, SendBegin(c, q)
    PROVE  CollInv'
<1> DEFINE e == <<c[1], q>>
           m == Message(c)
<1>1. /\ out[c][q] = "todo"
      /\ writer' = [writer EXCEPT ![e] = c[2]]
      /\ net' = [net EXCEPT ![e] = Append(net[e], m)]
      /\ out' = [out EXCEPT ![c] = [out[c] EXCEPT ![q] = "sending"]]
      /\ UNCHANGED <<pos, phase, gi, sub, send, recv, recv_count, hand, mail, waitQ, recvQ>>
    BY DEF SendBegin, memVars, boxVars
<1>2. CallOK(c) /\ c[1] \in Peer /\ c[2] \in Thread
    BY CallerFacts DEF CollInv, CallInv
<1>3. e \in Conn /\ phase[c] # "idle" /\ q # c[1]
    <2>1. q # c[1] /\ phase[c] # "idle"
        BY <1>1, <1>2 DEF CallOK
    <2> QED BY <1>2, <2>1, CallerFacts
<1>4. m \in Msg
    <2>1. Op(c).name \in Name
        BY <1>2, <1>3, OpFacts DEF CallOK, CollInv, CallType
    <2>2. EffectiveData(c) \in Data
        BY EffectiveDataType DEF CollInv
    <2>3. (~Reduces(c)) \in BOOLEAN
        BY DEF Reduces
    <2> QED BY <2>1, <2>2, <2>3 DEF Msg, Message
<1> HIDE DEF e, m
<1>5. NetType'
    <2>1. net \in [Conn -> Seq(Msg)] /\ writer \in [Conn -> Thread \cup {NoThread}]
        BY DEF CollInv, NetType
    <2>2. Append(net[e], m) \in Seq(Msg)
        BY <1>3, <1>4, <2>1
    <2>3. net' \in [Conn -> Seq(Msg)]
        BY <1>1, <2>1, <2>2
    <2>4. writer' \in [Conn -> Thread \cup {NoThread}]
        BY <1>1, <1>2, <2>1
    <2> QED BY <1>1, <2>3, <2>4 DEF CollInv, NetType
<1>6. \A d \in Conn : net[d] # <<>> => net'[d] # <<>>
    <2>1. net \in [Conn -> Seq(Msg)]
        BY DEF CollInv, NetType
    <2>2. net[e] \in Seq(Msg) /\ Append(net[e], m) # <<>>
        BY <1>3, <1>4, <2>1
    <2> QED BY <1>1, <1>3, <2>1, <2>2
<1>7. /\ out' \in [Caller -> [Peer -> {"none", "todo", "sending"}]]
      /\ \A r \in Peer : r # q => out'[c][r] = out[c][r]
      /\ \A d \in Caller : d # c => out'[d] = out[d]
    <2>1. out \in [Caller -> [Peer -> {"none", "todo", "sending"}]]
        BY DEF CollInv, CallType
    <2>2. [out[c] EXCEPT ![q] = "sending"] \in [Peer -> {"none", "todo", "sending"}]
        BY <2>1
    <2> QED BY <1>1, <2>1, <2>2
<1>8. CallType' /\ MemType' /\ BoxType'
    BY <1>1, <1>7 DEF CollInv, CallType, MemType, BoxType
<1>9. CallOK(c)'
    <2>1. Graphs(Op(c))' = Graphs(Op(c))
        BY <1>1, SameGraphs
    <2> QED BY <1>1, <1>2, <1>3, <1>7, <2>1 DEF CallOK
<1>10. \A r \in Peer : sub[c][r] = "posted" => phase[c] # "idle"
    BY <1>3
<1> QED BY <1>1, <1>5, <1>6, <1>7, <1>8, <1>9, <1>10, CallerQuiet

(* Releasing a connection's mutex keeps the invariant. *)
LEMMA SendEndStep ==
    ASSUME CollInv, NEW c \in Caller, NEW q \in Peer, SendEnd(c, q)
    PROVE  CollInv'
<1> DEFINE e == <<c[1], q>>
<1>1. /\ out[c][q] = "sending"
      /\ writer' = [writer EXCEPT ![e] = NoThread]
      /\ out' = [out EXCEPT ![c] = [out[c] EXCEPT ![q] = "none"]]
      /\ UNCHANGED <<pos, phase, gi, sub, send, recv, recv_count, net, hand, mail, waitQ, recvQ>>
    BY DEF SendEnd, memVars, boxVars
<1>2. CallOK(c) /\ c[1] \in Peer
    BY CallerFacts DEF CollInv, CallInv
<1>3. phase[c] # "idle" /\ q # c[1]
    BY <1>1, <1>2 DEF CallOK
<1> HIDE DEF e
<1>4. NetType'
    <2>1. writer \in [Conn -> Thread \cup {NoThread}]
        BY DEF CollInv, NetType
    <2>2. writer' \in [Conn -> Thread \cup {NoThread}]
        BY <1>1, <2>1
    <2> QED BY <1>1, <2>2 DEF CollInv, NetType
<1>5. /\ out' \in [Caller -> [Peer -> {"none", "todo", "sending"}]]
      /\ \A r \in Peer : r # q => out'[c][r] = out[c][r]
      /\ \A d \in Caller : d # c => out'[d] = out[d]
    <2>1. out \in [Caller -> [Peer -> {"none", "todo", "sending"}]]
        BY DEF CollInv, CallType
    <2>2. [out[c] EXCEPT ![q] = "none"] \in [Peer -> {"none", "todo", "sending"}]
        BY <2>1
    <2> QED BY <1>1, <2>1, <2>2
<1>6. CallType' /\ MemType' /\ BoxType'
    BY <1>1, <1>5 DEF CollInv, CallType, MemType, BoxType
<1>7. CallOK(c)'
    <2>1. Graphs(Op(c))' = Graphs(Op(c))
        BY <1>1, SameGraphs
    <2> QED BY <1>1, <1>2, <1>3, <1>5, <2>1 DEF CallOK
<1>8. \A r \in Peer : sub[c][r] = "posted" => phase[c] # "idle"
    BY <1>3
<1> QED BY <1>1, <1>4, <1>5, <1>6, <1>7, <1>8, CallerQuiet

(* Going on to the next graph, or returning, keeps the invariant: a call *)
(* returns with no item posted.                                          *)
LEMMA SendDoneStep ==
    ASSUME CollInv, NEW c \in Caller, SendDone(c)
    PROVE  CollInv'
<1> DEFINE gs == Graphs(Op(c))
           w  == Work(Prevs(gs[gi[c] + 1], c[1]))
<1>1. /\ phase[c] \in {"send", "flat"}
      /\ \A q \in Peer : sub[c][q] = "none" /\ out[c][q] = "none"
      /\ \/ /\ gi[c] < Len(gs)
            /\ gi' = [gi EXCEPT ![c] = gi[c] + 1]
            /\ phase' = [phase EXCEPT ![c] = "recv"]
            /\ sub' = [sub EXCEPT ![c] = w]
            /\ pos' = pos
         \/ /\ phase' = [phase EXCEPT ![c] = "idle"]
            /\ pos' = [pos EXCEPT ![c] = pos[c] + 1]
            /\ gi' = gi /\ sub' = sub
      /\ UNCHANGED <<out, send, recv, recv_count, net, writer, hand, mail, waitQ, recvQ>>
    BY DEF SendDone, memVars, netVars, boxVars
<1>2. CallOK(c) /\ c[1] \in Peer /\ CallType
    BY CallerFacts DEF CollInv, CallInv
<1>3. /\ pos[c] \in Nat \ {0} /\ pos[c] <= Len(Program[c[2]])
      /\ Op(c).kind \in Kind /\ Op(c).name \in Name
    BY <1>1, <1>2, OpFacts DEF CallOK, CallType
<1>4. Len(gs) \in {0, 1, 2} /\ gi[c] \in {1, 2}
    BY <1>2, <1>3, GraphFacts DEF CallType
<1>5. w \in [Peer -> {"none", "todo"}] /\ \A q \in Peer : w[q] # "posted"
    BY WorkType
<1> HIDE DEF w, gs
<1>6. MemType' /\ NetType' /\ BoxType'
    BY <1>1 DEF CollInv, MemType, NetType, BoxType
<1>7. CASE /\ gi[c] < Len(gs)
           /\ gi' = [gi EXCEPT ![c] = gi[c] + 1]
           /\ phase' = [phase EXCEPT ![c] = "recv"]
           /\ sub' = [sub EXCEPT ![c] = w]
           /\ pos' = pos
    <2>1. /\ gi[c] + 1 \in {1, 2} /\ gi[c] + 1 \in 1 .. Len(gs)
          /\ w \in [Peer -> {"none", "todo", "posted"}]
        <3>0. gi[c] < Len(gs)
            BY <1>7
        <3>1. gi[c] + 1 \in {1, 2} /\ gi[c] + 1 \in 1 .. Len(gs)
            <4> DEFINE i == gi[c]
                       l == Len(gs)
            <4> HIDE DEF i, l
            <4>1. i \in {1, 2} /\ l \in {0, 1, 2} /\ i < l
                BY <1>4, <3>0 DEF i, l
            <4>2. i = 1 /\ l = 2
                BY <4>1
            <4> QED BY <4>2 DEF i, l
        <3>2. w \in [Peer -> {"none", "todo", "posted"}]
            BY <1>5
        <3> QED BY <3>1, <3>2
    <2>2. /\ gi' \in [Caller -> {1, 2}]
          /\ phase' \in [Caller -> {"idle", "recv", "send", "flat"}]
        BY <1>2, <1>7, <2>1 DEF CallType
    <2>3. sub' \in [Caller -> [Peer -> {"none", "todo", "posted"}]]
        BY <1>2, <1>7, <2>1 DEF CallType
    <2>4. CallType'
        BY <1>1, <1>2, <1>7, <2>2, <2>3 DEF CallType
    <2>5. /\ phase'[c] = "recv" /\ gi'[c] = gi[c] + 1 /\ sub'[c] = w
          /\ \A d \in Caller : d # c => phase'[d] = phase[d] /\ gi'[d] = gi[d] /\ sub'[d] = sub[d]
        BY <1>2, <1>7 DEF CallType
    <2>6. CallOK(c)'
        <3>1. Graphs(Op(c))' = gs
            BY <1>7, SameGraphs DEF gs
        <3> QED BY <1>1, <1>2, <1>3, <1>7, <2>1, <2>5, <3>1 DEF CallOK
    <2> QED BY <1>1, <1>5, <1>6, <1>7, <2>4, <2>5, <2>6, CallerQuiet
<1>8. CASE /\ phase' = [phase EXCEPT ![c] = "idle"]
           /\ pos' = [pos EXCEPT ![c] = pos[c] + 1]
           /\ gi' = gi /\ sub' = sub
    <2>1. pos' \in [Caller -> Nat \ {0}]
        <3>1. pos[c] + 1 \in Nat \ {0}
            BY <1>3
        <3> QED BY <1>2, <1>8, <3>1 DEF CallType
    <2>2. phase' \in [Caller -> {"idle", "recv", "send", "flat"}]
        BY <1>2, <1>8 DEF CallType
    <2>3. CallType'
        BY <1>1, <1>2, <1>8, <2>1, <2>2 DEF CallType
    <2>4. /\ phase'[c] = "idle"
          /\ \A d \in Caller : d # c => phase'[d] = phase[d] /\ pos'[d] = pos[d]
        BY <1>2, <1>8 DEF CallType
    <2>5. CallOK(c)'
        BY <1>1, <1>2, <1>8, <2>4 DEF CallOK
    <2> QED BY <1>1, <1>6, <1>8, <2>3, <2>4, <2>5, CallerQuiet
<1> QED BY <1>1, <1>7, <1>8

----------------------------------------------------------------------------
(* The steps that move a buffer through its box *)

WaitHolds(s) == {<<"waitQ", s[i]>> : i \in DOMAIN s}
RecvHolds(s) == {<<"recvQ", s[i]>> : i \in DOMAIN s}
HandHolds(b) ==
    LET e == <<b[2], b[1]>>
    IN  IF e \in Conn /\ hand[e].st \in {"buf", "filled"} /\ hand[e].name = b[3]
        THEN {<<"hand", hand[e].ptr>>} ELSE {}

(* The pointers in use at a box are those in its two queues and the one of *)
(* its handler.                                                            *)
LEMMA HoldersAre ==
    ASSUME NEW b
    PROVE  /\ Holders(b) = WaitHolds(waitQ[b]) \cup RecvHolds(recvQ[b]) \cup HandHolds(b)
           /\ Holders(b)' = WaitHolds(waitQ'[b]) \cup RecvHolds(recvQ'[b]) \cup HandHolds(b)'
    BY DEF Holders, WaitHolds, RecvHolds, HandHolds

(* An empty queue holds no pointer, a queue of one holds that one. *)
LEMMA QueueHolds ==
    /\ WaitHolds(<<>>) = {} /\ RecvHolds(<<>>) = {}
    /\ \A x : WaitHolds(<<x>>) = {<<"waitQ", x>>} /\ RecvHolds(<<x>>) = {<<"recvQ", x>>}
<1>1. DOMAIN <<>> = {} /\ \A x : DOMAIN <<x>> = {1} /\ <<x>>[1] = x
    OBVIOUS
<1> QED BY <1>1 DEF WaitHolds, RecvHolds

(* A channel that is not empty holds just the value that is taken from it, *)
(* and is empty afterwards.                                                *)
LEMMA ShortSeq ==
    ASSUME NEW S, NEW s \in Seq(S), Len(s) <= 1, s # <<>>
    PROVE  Head(s) \in S /\ s = <<Head(s)>> /\ Tail(s) = <<>> /\ Tail(s) \in Seq(S)
<1>1. Len(s) = 1 /\ Head(s) \in S /\ Tail(s) \in Seq(S) /\ Len(Tail(s)) = 0
    OBVIOUS
<1>2. s = <<s[1]>> /\ Head(s) = s[1]
    BY <1>1
<1>3. s = <<Head(s)>>
    BY <1>2
<1>4. Tail(s) = <<>>
    <2> DEFINE u == Tail(s)
    <2>1. u \in Seq(S) /\ Len(u) = 0
        BY <1>1
    <2> HIDE DEF u
    <2>2. u = <<>>
        BY <2>1
    <2> QED BY <2>2 DEF u
<1> QED BY <1>1, <1>3, <1>4

(* The queues of a box with a buffer at a known place: the others are empty. *)
LEMMA OnePlace ==
    ASSUME CollInv, NEW b \in Box, NEW at, NEW x, <<at, x>> \in Holders(b)
    PROVE  /\ Holders(b) = {<<at, x>>}
           /\ at # "waitQ" => waitQ[b] = <<>>
           /\ at # "recvQ" => recvQ[b] = <<>>
           /\ at # "hand" => HandHolds(b) = {}
           /\ \E t \in Owners(b) : Owners(b) = {t} /\ x = <<t, Part(Op(<<b[1], t>>), b[2])>>
<1>1. PICK t \in Owners(b), a \in {"waitQ", "hand", "recvQ"} :
          /\ Owners(b) = {t}
          /\ Holders(b) = {<<a, <<t, Part(Op(<<b[1], t>>), b[2])>>>>}
    BY DEF CollInv, LentInv, LentOK
<1>2. Holders(b) = {<<at, x>>} /\ x = <<t, Part(Op(<<b[1], t>>), b[2])>>
    BY <1>1
<1>3. \A y \in Holders(b) : y[1] = at
    BY <1>2
<1>4. waitQ[b] \in Seq(Ptr) /\ Len(waitQ[b]) <= 1 /\ recvQ[b] \in Seq(Ptr) /\ Len(recvQ[b]) <= 1
    BY DEF CollInv, BoxType
<1>5. ASSUME at # "waitQ", waitQ[b] # <<>> PROVE FALSE
    <2> DEFINE y == Head(waitQ[b])
    <2>1. waitQ[b] = <<y>>
        BY <1>4, <1>5, ShortSeq
    <2> HIDE DEF y
    <2>2. WaitHolds(waitQ[b]) = {<<"waitQ", y>>}
        BY <2>1, QueueHolds
    <2>3. <<"waitQ", y>> \in Holders(b)
        BY <2>2, HoldersAre
    <2> QED BY <1>3, <1>5, <2>3
<1>6. ASSUME at # "recvQ", recvQ[b] # <<>> PROVE FALSE
    <2> DEFINE y == Head(recvQ[b])
    <2>1. recvQ[b] = <<y>>
        BY <1>4, <1>6, ShortSeq
    <2> HIDE DEF y
    <2>2. RecvHolds(recvQ[b]) = {<<"recvQ", y>>}
        BY <2>1, QueueHolds
    <2>3. <<"recvQ", y>> \in Holders(b)
        BY <2>2, HoldersAre
    <2> QED BY <1>3, <1>6, <2>3
<1>7. ASSUME at # "hand", HandHolds(b) # {} PROVE FALSE
    <2>1. \A y \in HandHolds(b) : y[1] = "hand"
        BY DEF HandHolds
    <2> QED BY <1>3, <1>7, <2>1, HoldersAre
<1> QED BY <1>1, <1>2, <1>5, <1>6, <1>7

(* Only the thread in a call can have posted to the boxes of the call's *)
(* name: a name belongs to one thread.                                  *)
LEMMA OneOwner ==
    ASSUME CollInv, NEW c \in Caller, phase[c] # "idle", NEW q \in Peer,
           NEW t \in Owners(<<c[1], q, Op(c).name>>)
    PROVE  t = c[2]
<1> DEFINE b == <<c[1], q, Op(c).name>>
           d == <<c[1], t>>
<1>1. t \in Thread /\ phase[d] # "idle" /\ Op(d).name = Op(c).name
    BY DEF Owners
<1>2. c \in Caller /\ d \in Caller /\ d[1] = c[1] /\ d[2] = t
    BY <1>1, CallerFacts
<1>3. /\ pos[c] \in Nat \ {0} /\ pos[c] <= Len(Program[c[2]])
      /\ pos[d] \in Nat \ {0} /\ pos[d] <= Len(Program[d[2]])
    BY <1>1, <1>2 DEF CollInv, CallType, CallInv, CallOK
<1>4. c = d
    BY <1>1, <1>2, <1>3, NamesApart
<1> QED BY <1>2, <1>4

(* Caller c posts the buffer of box b, or takes it back: the other boxes    *)
(* have the same owners as before.                                          *)
LEMMA OtherBoxes ==
    ASSUME CollInv, NEW c \in Caller, NEW q \in Peer, phase[c] # "idle",
           UNCHANGED <<pos, phase, hand>>,
           \A r \in Peer : r # q => sub'[c][r] = sub[c][r],
           \A d \in Caller : d # c => sub'[d] = sub[d],
           NEW b \in Box, b # <<c[1], q, Op(c).name>>,
           waitQ'[b] = waitQ[b], recvQ'[b] = recvQ[b]
    PROVE  LentOK(b)'
<1>1. Holders(b)' = Holders(b)
    BY SameHolders
<1>2. \A d : Op(d)' = Op(d)
    BY DEF Op
<1>3. ASSUME NEW t \in Thread PROVE t \in Owners(b)' <=> t \in Owners(b)
    <2> DEFINE d == <<b[1], t>>
    <2>1. d \in Caller /\ b[2] \in Peer /\ b = <<b[1], b[2], b[3]>> /\ d[1] = b[1]
        BY CallerFacts, BoxFacts
    <2>2. CASE d # c \/ b[2] # q
        <3>1. sub'[d][b[2]] = sub[d][b[2]]
            BY <2>1, <2>2
        <3> QED BY <1>2, <3>1 DEF Owners
    <2>3. CASE d = c /\ b[2] = q
        <3>1. Op(d).name # b[3]
            BY <2>1, <2>3
        <3> QED BY <1>2, <3>1 DEF Owners
    <2> QED BY <2>2, <2>3
<1>4. Owners(b)' = Owners(b)
    BY <1>3 DEF Owners
<1>5. LentOK(b)
    BY DEF CollInv, LentInv
<1> QED BY <1>1, <1>4, <1>5, LentFrame

(* A step that posts a buffer to one box, or takes it back, keeps the *)
(* invariant if that box is all right afterwards.                     *)
LEMMA BoxStep ==
    ASSUME CollInv, NEW c \in Caller, NEW q \in Peer,
           phase[c] \in {"recv", "flat"}, NEW s \in {"none", "posted"},
           sub' = [sub EXCEPT ![c] = [sub[c] EXCEPT ![q] = s]],
           UNCHANGED <<pos, phase, gi, out, send, recv, recv_count, net, writer, hand, mail>>,
           BoxType', NEW b \in Box, b = <<c[1], q, Op(c).name>>,
           \A d \in Box : d # b => waitQ'[d] = waitQ[d] /\ recvQ'[d] = recvQ[d],
           LentOK(b)'
    PROVE  CollInv'
<1>1. sub \in [Caller -> [Peer -> {"none", "todo", "posted"}]]
    BY DEF CollInv, CallType
<1>2. [sub[c] EXCEPT ![q] = s] \in [Peer -> {"none", "todo", "posted"}]
    BY <1>1
<1>3. /\ sub' \in [Caller -> [Peer -> {"none", "todo", "posted"}]]
      /\ \A r \in Peer : r # q => sub'[c][r] = sub[c][r]
      /\ \A d \in Caller : d # c => sub'[d] = sub[d]
    BY <1>1, <1>2
<1>4. CallType' /\ MemType' /\ NetType' /\ ReadInv'
    BY <1>3 DEF CollInv, CallType, MemType, NetType, ReadInv
<1>5. CallInv'
    <2> SUFFICES ASSUME NEW d \in Caller PROVE CallOK(d)'
        BY DEF CallInv
    <2>1. CallOK(d)
        BY DEF CollInv, CallInv
    <2>2. CASE d # c
        BY <1>3, <2>1, <2>2, CallKept
    <2>3. CASE d = c
        <3>1. Graphs(Op(d))' = Graphs(Op(d))
            BY SameGraphs
        <3> QED BY <2>1, <2>3, <3>1 DEF CallOK
    <2> QED BY <2>2, <2>3
<1>6. LentInv'
    <2> SUFFICES ASSUME NEW d \in Box PROVE LentOK(d)'
        BY DEF LentInv
    <2>1. CASE d = b
        BY <2>1
    <2>2. CASE d # b
        <3>1. waitQ'[d] = waitQ[d] /\ recvQ'[d] = recvQ[d] /\ phase[c] # "idle"
            BY <2>2
        <3> QED BY <1>3, <2>2, <3>1, OtherBoxes
    <2> QED BY <2>1, <2>2
<1> QED BY <1>4, <1>5, <1>6 DEF CollInv

(* The first half of queue_pair::get, waitQ.put(ptr), keeps the invariant. *)
LEMMA PostRecvStep ==
    ASSUME CollInv, NEW c \in Caller, NEW q \in Peer, PostRecv(c, q)
    PROVE  CollInv'
<1>0. phase[c] \in {"recv", "flat"} /\ sub[c][q] = "todo"
    BY DEF PostRecv
<1>1. /\ c[1] \in Peer /\ c[2] \in Thread /\ c = <<c[1], c[2]>>
      /\ <<c[1], q, Op(c).name>> \in Box /\ <<c[2], Part(Op(c), q)>> \in Ptr
    <2>1. c[1] \in Peer /\ c[2] \in Thread /\ c = <<c[1], c[2]>>
        BY CallerFacts
    <2>2. Op(c).name \in Name
        BY <1>0, OpFacts DEF CollInv, CallInv, CallOK, CallType
    <2>3. Part(Op(c), q) \in Peer
        BY Constants DEF Part
    <2> QED BY <2>1, <2>2, <2>3, BoxFacts DEF Ptr
<1>a. PICK b \in Box : b = <<c[1], q, Op(c).name>>
    BY <1>1
<1>b. PICK x \in Ptr : x = <<c[2], Part(Op(c), q)>>
    BY <1>1
<1>2. /\ Len(waitQ[b]) < 1
      /\ waitQ' = [waitQ EXCEPT ![b] = Append(waitQ[b], x)]
      /\ sub' = [sub EXCEPT ![c] = [sub[c] EXCEPT ![q] = "posted"]]
      /\ UNCHANGED <<pos, phase, gi, out, send, recv, recv_count, net, writer, hand, mail, recvQ>>
    BY <1>a, <1>b DEF PostRecv, ChannelCap, memVars, netVars
<1>3. waitQ[b] = <<>> /\ waitQ'[b] = <<x>>
    <2>1. waitQ \in [Box -> Seq(Ptr)] /\ waitQ[b] \in Seq(Ptr)
        BY DEF CollInv, BoxType
    <2>2. waitQ[b] = <<>>
        BY <1>2, <2>1
    <2>3. waitQ'[b] = Append(waitQ[b], x)
        BY <1>2, <2>1
    <2>4. Append(<<>>, x) = <<x>>
        OBVIOUS
    <2> QED BY <2>2, <2>3, <2>4
<1>4. \A d \in Box : d # b => waitQ'[d] = waitQ[d] /\ recvQ'[d] = recvQ[d]
    BY <1>2 DEF CollInv, BoxType
<1>5. BoxType'
    <2>1. waitQ \in [Box -> Seq(Ptr)] /\ <<x>> \in Seq(Ptr) /\ Len(<<x>>) = 1
        BY DEF CollInv, BoxType
    <2>2. waitQ' \in [Box -> Seq(Ptr)]
        <3>1. Append(waitQ[b], x) \in Seq(Ptr)
            BY <2>1
        <3> QED BY <1>2, <2>1, <3>1
    <2>3. ASSUME NEW d \in Box PROVE Len(waitQ'[d]) <= 1
        <3>1. Len(waitQ[d]) <= 1
            BY DEF CollInv, BoxType
        <3>2. CASE d = b
            <4>1. waitQ'[d] = <<x>>
                BY <1>3, <3>2
            <4> QED BY <4>1
        <3>3. CASE d # b
            BY <1>4, <3>1, <3>3
        <3> QED BY <3>2, <3>3
    <2> QED BY <1>2, <2>2, <2>3 DEF CollInv, BoxType
<1>6. sub'[c][q] = "posted" /\ \A d \in Caller : d # c => sub'[d] = sub[d]
    <2>1. sub \in [Caller -> [Peer -> {"none", "todo", "posted"}]]
        BY DEF CollInv, CallType
    <2>2. sub'[c] = [sub[c] EXCEPT ![q] = "posted"]
        BY <1>2, <2>1
    <2>3. sub'[c][q] = "posted"
        BY <2>1, <2>2
    <2> QED BY <1>2, <2>1, <2>3
<1>7. phase[c] # "idle"
    BY <1>0
<1>8. Owners(b) = {}
    <2>1. c[2] \notin Owners(b)
        BY <1>0, <1>1, <1>a DEF Owners
    <2> QED BY <1>7, <1>a, <2>1, OneOwner
<1>9. Holders(b) = {}
    BY <1>8 DEF CollInv, LentInv, LentOK
<1>10. Holders(b)' = {<<"waitQ", x>>}
    <2>1. RecvHolds(recvQ[b]) = {} /\ HandHolds(b) = {}
        BY <1>9, HoldersAre
    <2>2. HandHolds(b)' = HandHolds(b) /\ recvQ' = recvQ
        BY <1>2 DEF HandHolds
    <2>3. WaitHolds(waitQ'[b]) = {<<"waitQ", x>>}
        BY <1>3, QueueHolds
    <2> QED BY <2>1, <2>2, <2>3, HoldersAre
<1>11. \A d : Op(d)' = Op(d)
    BY <1>2 DEF Op
<1>12. Owners(b)' = {c[2]}
    <2>1. c[2] \in Owners(b)'
        BY <1>0, <1>1, <1>2, <1>6, <1>11, <1>a DEF Owners
    <2>2. ASSUME NEW t \in Thread, t \in Owners(b)', t # c[2] PROVE FALSE
        <3>1. <<b[1], t>> \in Caller /\ <<b[1], t>> # c
            BY <1>1, <1>a, <2>2, CallerFacts
        <3>2. sub'[<<b[1], t>>] = sub[<<b[1], t>>]
            BY <1>6, <3>1
        <3>3. t \in Owners(b)
            BY <1>2, <1>11, <2>2, <3>2 DEF Owners
        <3> QED BY <1>8, <3>3
    <2>3. Owners(b)' \subseteq Thread
        BY DEF Owners
    <2> QED BY <2>1, <2>2, <2>3
<1>13. LentOK(b)'
    <2>1. x = <<c[2], Part(Op(<<b[1], c[2]>>)', b[2])>>
        BY <1>1, <1>11, <1>a, <1>b DEF Part
    <2> QED BY <1>10, <1>12, <2>1 DEF LentOK, Part
<1> DEFINE s == "posted"
<1>14. s \in {"none", "posted"} /\ sub' = [sub EXCEPT ![c] = [sub[c] EXCEPT ![q] = s]]
    BY <1>2
<1> HIDE DEF s
<1> QED BY <1>0, <1>2, <1>4, <1>5, <1>13, <1>14, <1>a, BoxStep

(* The second half of queue_pair::get, recvQ.get(), keeps the invariant: *)
(* what comes back is the posted buffer.                                 *)
LEMMA RecvIntoStep ==
    ASSUME CollInv, NEW c \in Caller, NEW q \in Peer, RecvInto(c, q)
    PROVE  CollInv'
<1>0. phase[c] \in {"recv", "flat"} /\ sub[c][q] = "posted"
    <2>1. sub[c][q] = "posted"
        BY DEF RecvInto
    <2> QED BY <2>1 DEF CollInv, CallInv, CallOK, CallType
<1>1. /\ c[1] \in Peer /\ c[2] \in Thread /\ c = <<c[1], c[2]>>
      /\ <<c[1], q, Op(c).name>> \in Box
    <2>1. c[1] \in Peer /\ c[2] \in Thread /\ c = <<c[1], c[2]>>
        BY CallerFacts
    <2>2. Op(c).name \in Name
        BY <1>0, OpFacts DEF CollInv, CallInv, CallOK, CallType
    <2> QED BY <2>1, <2>2, BoxFacts
<1>a. PICK b \in Box : b = <<c[1], q, Op(c).name>>
    BY <1>1
<1>2. /\ recvQ[b] # <<>>
      /\ recvQ' = [recvQ EXCEPT ![b] = Tail(recvQ[b])]
      /\ sub' = [sub EXCEPT ![c] = [sub[c] EXCEPT ![q] = "none"]]
      /\ UNCHANGED <<pos, phase, gi, out, send, recv, recv_count, net, writer, hand, mail, waitQ>>
    BY <1>a DEF RecvInto, memVars, netVars
<1>3. recvQ \in [Box -> Seq(Ptr)] /\ recvQ[b] \in Seq(Ptr) /\ Len(recvQ[b]) <= 1
    BY DEF CollInv, BoxType
<1>b. PICK x \in Ptr : recvQ[b] = <<x>> /\ Tail(recvQ[b]) = <<>>
    BY <1>2, <1>3, ShortSeq
<1>4. /\ recvQ'[b] = <<>>
      /\ \A d \in Box : d # b => waitQ'[d] = waitQ[d] /\ recvQ'[d] = recvQ[d]
    BY <1>2, <1>3, <1>b
<1>5. BoxType'
    <2>1. recvQ' \in [Box -> Seq(Ptr)]
        <3>1. Tail(recvQ[b]) \in Seq(Ptr)
            BY <1>b
        <3> QED BY <1>2, <1>3, <3>1
    <2>2. ASSUME NEW d \in Box PROVE Len(recvQ'[d]) <= 1
        <3>1. Len(recvQ[d]) <= 1
            BY DEF CollInv, BoxType
        <3>2. CASE d = b
            BY <1>4, <3>2
        <3>3. CASE d # b
            BY <1>4, <3>1, <3>3
        <3> QED BY <3>2, <3>3
    <2> QED BY <1>2, <2>1, <2>2 DEF CollInv, BoxType
<1>6. sub'[c][q] = "none" /\ \A d \in Caller : d # c => sub'[d] = sub[d]
    <2>1. sub \in [Caller -> [Peer -> {"none", "todo", "posted"}]]
        BY DEF CollInv, CallType
    <2>2. sub'[c] = [sub[c] EXCEPT ![q] = "none"]
        BY <1>2, <2>1
    <2>3. sub'[c][q] = "none"
        BY <2>1, <2>2
    <2> QED BY <1>2, <2>1, <2>3
<1>7. <<"recvQ", x>> \in Holders(b)
    <2>1. RecvHolds(recvQ[b]) = {<<"recvQ", x>>}
        BY <1>b, QueueHolds
    <2> QED BY <2>1, HoldersAre
<1>8. /\ Holders(b) = {<<"recvQ", x>>} /\ waitQ[b] = <<>> /\ HandHolds(b) = {}
    BY <1>7, OnePlace
<1>9. Holders(b)' = {}
    <2>1. HandHolds(b)' = HandHolds(b) /\ waitQ' = waitQ
        BY <1>2 DEF HandHolds
    <2>2. WaitHolds(waitQ'[b]) = {} /\ RecvHolds(recvQ'[b]) = {}
        BY <1>4, <1>8, <2>1, QueueHolds
    <2> QED BY <1>8, <2>1, <2>2, HoldersAre
<1>10. \A d : Op(d)' = Op(d)
    BY <1>2 DEF Op
<1>11. Owners(b)' = {}
    <2>1. ASSUME NEW t \in Thread, t \in Owners(b)' PROVE FALSE
        <3>1. CASE t = c[2]
            BY <1>1, <1>6, <1>a, <2>1, <3>1 DEF Owners
        <3>2. CASE t # c[2]
            <4>1. <<b[1], t>> \in Caller /\ <<b[1], t>> # c
                BY <1>1, <1>a, <3>2, CallerFacts
            <4>2. sub'[<<b[1], t>>] = sub[<<b[1], t>>]
                BY <1>6, <4>1
            <4>3. t \in Owners(b)
                BY <1>2, <1>10, <2>1, <4>2 DEF Owners
            <4>4. t = c[2]
                BY <1>0, <1>a, <4>3, OneOwner
            <4> QED BY <3>2, <4>4
        <3> QED BY <3>1, <3>2
    <2>2. Owners(b)' \subseteq Thread
        BY DEF Owners
    <2> QED BY <2>1, <2>2
<1>12. LentOK(b)'
    BY <1>9, <1>11 DEF LentOK
<1> DEFINE s == "none"
<1>13. s \in {"none", "posted"} /\ sub' = [sub EXCEPT ![c] = [sub[c] EXCEPT ![q] = s]]
    BY <1>2
<1> HIDE DEF s
<1> QED BY <1>0, <1>2, <1>4, <1>5, <1>12, <1>13, <1>a, BoxStep

----------------------------------------------------------------------------
(* The steps of connection handlers *)

(* A handler does not touch the threads' control, nor the boxes whose *)
(* pointers stay where they are.                                      *)
LEMMA HandlerCalls ==
    ASSUME CollInv, UNCHANGED callVars
    PROVE  /\ CallType' /\ CallInv'
           /\ \A b \in Box : Owners(b)' = Owners(b)
           /\ \A b \in Box : Holders(b)' = Holders(b) => LentOK(b)'
<1>1. UNCHANGED <<pos, phase, gi, sub, out>>
    BY DEF callVars
<1>2. CallType'
    BY <1>1 DEF CollInv, CallType
<1>3. CallInv'
    BY <1>1, CallKept DEF CollInv, CallInv
<1>4. \A d : Op(d)' = Op(d)
    BY <1>1 DEF Op
<1>5. \A b \in Box : Owners(b)' = Owners(b)
    BY <1>1, <1>4 DEF Owners
<1>6. ASSUME NEW b \in Box, Holders(b)' = Holders(b) PROVE LentOK(b)'
    BY <1>1, <1>5, <1>6, LentFrame DEF CollInv, LentInv
<1> QED BY <1>2, <1>3, <1>5, <1>6

(* What a handler remembers, by its state. *)
LEMMA HandStates ==
    ASSUME CollInv, NEW e \in Conn
    PROVE  /\ hand[e].st = "mail" => hand[e].name \in Name /\ hand[e].data \in Data
           /\ hand[e].st \in {"buf", "filled"} =>
                 /\ hand[e].name \in Name /\ hand[e].ptr \in Ptr
                 /\ hand[e] = [st |-> hand[e].st, name |-> hand[e].name, ptr |-> hand[e].ptr]
           /\ hand[e] = Idle => hand[e].st = "idle"
<1>1. hand[e] = Idle \/ hand[e] \in MailState \/ hand[e] \in SlotState
    BY DEF CollInv, NetType
<1>2. Idle.st = "idle"
    BY DEF Idle
<1>3. CASE hand[e] = Idle
    BY <1>2, <1>3
<1>4. CASE hand[e] \in MailState
    BY <1>4, <1>2 DEF MailState
<1>5. CASE hand[e] \in SlotState
    BY <1>5, <1>2 DEF SlotState
<1> QED BY <1>1, <1>3, <1>4, <1>5

(* A handler's step keeps the other handlers. *)
LEMMA HandType ==
    ASSUME CollInv, NEW e \in Conn, NEW h \in {Idle} \cup MailState \cup SlotState,
           hand' = [hand EXCEPT ![e] = h]
    PROVE  /\ hand' \in [Conn -> {Idle} \cup MailState \cup SlotState]
           /\ hand'[e] = h
           /\ \A d \in Conn : d # e => hand'[d] = hand[d]
    BY DEF CollInv, NetType

(* The message at the head of a connection is a message, and taking it keeps *)
(* the other connections.                                                    *)
LEMMA NetHead ==
    ASSUME CollInv, NEW e \in Conn, net[e] # <<>>
    PROVE  /\ Header(e).name \in Name /\ Header(e).wait_recv_buf \in BOOLEAN /\ Header(e).data \in Data
           /\ net' = [net EXCEPT ![e] = Tail(net[e])] =>
                /\ net' \in [Conn -> Seq(Msg)]
                /\ \A d \in Conn : d # e => net'[d] = net[d]
<1>1. net \in [Conn -> Seq(Msg)] /\ net[e] \in Seq(Msg)
    BY DEF CollInv, NetType
<1>2. Head(net[e]) \in Msg /\ Tail(net[e]) \in Seq(Msg)
    BY <1>1
<1> QED BY <1>1, <1>2 DEF Header, Msg

(* The mailbox branch of the handler keeps the invariant. *)
LEMMA MailSteps ==
    ASSUME CollInv, NEW e \in Conn, ReadMail(e) \/ PutMail(e)
    PROVE  CollInv'
<1>1. UNCHANGED <<pos, phase, gi, sub, out, send, recv, recv_count, writer, waitQ, recvQ>>
    BY DEF ReadMail, PutMail, callVars, memVars, netVars, boxVars
<1>2. CallType' /\ CallInv' /\ MemType' /\ \A b \in Box : Holders(b)' = Holders(b) => LentOK(b)'
    BY <1>1, HandlerCalls DEF callVars, CollInv, MemType
<1>3. ASSUME hand[e].st \notin {"buf", "filled"}, hand'[e].st \notin {"buf", "filled"},
             \A d \in Conn : d # e => hand'[d] = hand[d]
      PROVE  LentInv'
    <2> SUFFICES ASSUME NEW b \in Box PROVE LentOK(b)'
        BY DEF LentInv
    <2>1. Holders(b)' = Holders(b)
        BY <1>1, <1>3, SameHolders
    <2> QED BY <1>2, <2>1
<1>4. CASE ReadMail(e)
    <2> DEFINE h == [st |-> "mail", name |-> Header(e).name, data |-> Header(e).data]
    <2>1. /\ hand[e] = Idle /\ net[e] # <<>>
          /\ hand' = [hand EXCEPT ![e] = h] /\ net' = [net EXCEPT ![e] = Tail(net[e])]
          /\ mail' = mail
        BY <1>4 DEF ReadMail, HasNext, boxVars
    <2>2. h \in MailState /\ h.st = "mail"
        BY <2>1, NetHead DEF MailState
    <2> HIDE DEF h
    <2>3. /\ hand' \in [Conn -> {Idle} \cup MailState \cup SlotState]
          /\ hand'[e] = h /\ \A d \in Conn : d # e => hand'[d] = hand[d]
        BY <2>1, <2>2, HandType
    <2>4. net' \in [Conn -> Seq(Msg)] /\ \A d \in Conn : d # e => net'[d] = net[d]
        BY <2>1, NetHead
    <2>5. NetType' /\ BoxType'
        BY <1>1, <2>1, <2>3, <2>4 DEF CollInv, NetType, BoxType
    <2>6. ReadInv'
        BY <2>2, <2>3, <2>4 DEF CollInv, ReadInv
    <2>7. LentInv'
        BY <1>3, <2>1, <2>2, <2>3, HandStates
    <2> QED BY <1>2, <2>5, <2>6, <2>7 DEF CollInv
<1>5. CASE PutMail(e)
    <2> DEFINE b == <<e[2], e[1], hand[e].name>>
               x == hand[e].data
    <2>1. /\ hand[e].st = "mail" /\ Len(mail[b]) < 1
          /\ mail' = [mail EXCEPT ![b] = Append(mail[b], x)]
          /\ hand' = [hand EXCEPT ![e] = Idle] /\ net' = net
        BY <1>5 DEF PutMail, ChannelCap, netVars
    <2>2. b \in Box /\ x \in Data
        BY <2>1, HandStates, CallerFacts, BoxFacts
    <2> HIDE DEF b, x
    <2>3. /\ hand' \in [Conn -> {Idle} \cup MailState \cup SlotState]
          /\ hand'[e] = Idle /\ \A d \in Conn : d # e => hand'[d] = hand[d]
        BY <2>1, HandType
    <2>4. hand'[e].st = "idle"
        BY <2>3 DEF Idle
    <2>5. mail' \in [Box -> Seq(Data)] /\ \A d \in Box : Len(mail'[d]) <= 1
        <3>1. mail \in [Box -> Seq(Data)] /\ mail[b] \in Seq(Data) /\ \A d \in Box : Len(mail[d]) <= 1
            BY <2>2 DEF CollInv, BoxType
        <3>2. Append(mail[b], x) \in Seq(Data) /\ Len(Append(mail[b], x)) = Len(mail[b]) + 1 /\ Len(mail[b]) \in Nat
            BY <2>2, <3>1
        <3>3. Len(Append(mail[b], x)) <= 1
            BY <2>1, <3>2
        <3>4. mail' \in [Box -> Seq(Data)]
            BY <2>1, <3>1, <3>2
        <3>5. \A d \in Box : Len(mail'[d]) <= 1
            BY <2>1, <3>1, <3>3
        <3> QED BY <3>4, <3>5
    <2>6. NetType' /\ BoxType'
        BY <1>1, <2>1, <2>3, <2>5 DEF CollInv, NetType, BoxType
    <2>7. ReadInv'
        BY <2>1, <2>3, <2>4 DEF CollInv, ReadInv
    <2>8. LentInv'
        BY <1>3, <2>1, <2>3, <2>4
    <2> QED BY <1>2, <2>6, <2>7, <2>8 DEF CollInv
<1> QED BY <1>4, <1>5

(* waitQ.get() by the handler keeps the invariant: the pointer moves from *)
(* the queue to the handler.                                              *)
LEMMA TakeBufStep ==
    ASSUME CollInv, NEW e \in Conn, TakeBuf(e)
    PROVE  CollInv'
<1>0. hand[e] = Idle /\ hand[e].st = "idle" /\ net[e] # <<>>
    BY HandStates DEF TakeBuf, HasNext
<1>1. e[1] \in Peer /\ e[2] \in Peer /\ e = <<e[1], e[2]>> /\ Header(e).name \in Name
    BY <1>0, NetHead, CallerFacts
<1>a. PICK b \in Box : b = <<e[2], e[1], Header(e).name>>
    BY <1>1, BoxFacts
<1>2. /\ waitQ[b] # <<>>
      /\ hand' = [hand EXCEPT ![e] = [st |-> "buf", name |-> b[3], ptr |-> Head(waitQ[b])]]
      /\ waitQ' = [waitQ EXCEPT ![b] = Tail(waitQ[b])]
      /\ UNCHANGED <<pos, phase, gi, sub, out, send, recv, recv_count, net, writer, mail, recvQ>>
    BY <1>a DEF TakeBuf, callVars, memVars, netVars
<1>3. waitQ \in [Box -> Seq(Ptr)] /\ waitQ[b] \in Seq(Ptr) /\ Len(waitQ[b]) <= 1
    BY DEF CollInv, BoxType
<1>b. PICK x \in Ptr : waitQ[b] = <<x>> /\ Tail(waitQ[b]) = <<>> /\ Head(waitQ[b]) = x
    BY <1>2, <1>3, ShortSeq
<1> DEFINE h == [st |-> "buf", name |-> b[3], ptr |-> x]
<1>4. h \in SlotState /\ h.st = "buf" /\ h.name = b[3] /\ h.ptr = x
    BY BoxFacts DEF SlotState
<1>5. hand' = [hand EXCEPT ![e] = h]
    BY <1>2, <1>b
<1> HIDE DEF h
<1>6. /\ hand' \in [Conn -> {Idle} \cup MailState \cup SlotState]
      /\ hand'[e] = h /\ \A d \in Conn : d # e => hand'[d] = hand[d]
    BY <1>4, <1>5, HandType
<1>7. waitQ'[b] = <<>> /\ \A d \in Box : d # b => waitQ'[d] = waitQ[d]
    BY <1>2, <1>3, <1>b
<1>8. BoxType'
    <2>1. waitQ' \in [Box -> Seq(Ptr)]
        <3>1. Tail(waitQ[b]) \in Seq(Ptr)
            BY <1>b
        <3> QED BY <1>2, <1>3, <3>1
    <2>2. ASSUME NEW d \in Box PROVE Len(waitQ'[d]) <= 1
        <3>1. Len(waitQ[d]) <= 1
            BY DEF CollInv, BoxType
        <3>2. CASE d = b
            BY <1>7, <3>2
        <3>3. CASE d # b
            BY <1>7, <3>1, <3>3
        <3> QED BY <3>2, <3>3
    <2> QED BY <1>2, <2>1, <2>2 DEF CollInv, BoxType
<1>9. MemType' /\ NetType'
    BY <1>2, <1>6 DEF CollInv, MemType, NetType
<1>10. ReadInv'
    BY <1>0, <1>2, <1>6 DEF CollInv, ReadInv
<1>11. /\ CallType' /\ CallInv'
       /\ \A d \in Box : Owners(d)' = Owners(d)
       /\ \A d \in Box : Holders(d)' = Holders(d) => LentOK(d)'
    BY <1>2, HandlerCalls DEF callVars
<1>12. ASSUME NEW d \in Box, d # b PROVE LentOK(d)'
    <2>1. waitQ'[d] = waitQ[d] /\ recvQ'[d] = recvQ[d]
        BY <1>2, <1>7, <1>12
    <2>2. HandHolds(d)' = HandHolds(d)
        <3>1. CASE <<d[2], d[1]>> # e
            BY <1>6, <3>1 DEF HandHolds
        <3>2. CASE <<d[2], d[1]>> = e
            <4>1. d[3] # b[3]
                BY <1>1, <1>12, <1>a, <3>2, BoxFacts
            <4> QED BY <1>0, <1>4, <1>6, <3>2, <4>1 DEF HandHolds
        <3> QED BY <3>1, <3>2
    <2>3. Holders(d)' = Holders(d)
        BY <2>1, <2>2, HoldersAre
    <2> QED BY <1>11, <2>3
<1>13. LentOK(b)'
    <2>1. WaitHolds(waitQ[b]) = {<<"waitQ", x>>}
        BY <1>b, QueueHolds
    <2>2. <<"waitQ", x>> \in Holders(b)
        BY <2>1, HoldersAre
    <2>3. recvQ[b] = <<>>
        BY <2>2, OnePlace
    <2>4. HandHolds(b)' = {<<"hand", x>>}
        <3>1. <<b[2], b[1]>> = e /\ e \in Conn
            BY <1>1, <1>a
        <3> QED BY <1>4, <1>6, <3>1 DEF HandHolds
    <2>5. WaitHolds(waitQ'[b]) = {} /\ RecvHolds(recvQ'[b]) = {}
        BY <1>2, <1>7, <2>3, QueueHolds
    <2>6. Holders(b)' = {<<"hand", x>>}
        BY <2>4, <2>5, HoldersAre
    <2>7. \A t : Op(<<b[1], t>>)' = Op(<<b[1], t>>)
        BY <1>2 DEF Op
    <2>8. PICK t \in Owners(b) : Owners(b) = {t} /\ x = <<t, Part(Op(<<b[1], t>>), b[2])>>
        BY <2>2, OnePlace
    <2>9. x = <<t, Part(Op(<<b[1], t>>)', b[2])>> /\ Owners(b)' = {t}
        BY <1>11, <2>7, <2>8
    <2> QED BY <2>6, <2>9 DEF LentOK, Part
<1> QED BY <1>8, <1>9, <1>10, <1>11, <1>12, <1>13 DEF CollInv, LentInv

(* The buffer that a handler holds belongs to a caller that waits for it. *)
LEMMA HeldBuffer ==
    ASSUME CollInv, NEW e \in Conn, hand[e].st \in {"buf", "filled"},
           NEW b \in Box, b = <<e[2], e[1], hand[e].name>>
    PROVE  /\ HandHolds(b) = {<<"hand", hand[e].ptr>>}
           /\ waitQ[b] = <<>> /\ recvQ[b] = <<>>
           /\ \E t \in Owners(b) : Owners(b) = {t} /\ hand[e].ptr = <<t, Part(Op(<<b[1], t>>), b[2])>>
<1>1. <<b[2], b[1]>> = e /\ b[3] = hand[e].name
    BY CallerFacts
<1>2. HandHolds(b) = {<<"hand", hand[e].ptr>>}
    BY <1>1 DEF HandHolds
<1>3. <<"hand", hand[e].ptr>> \in Holders(b)
    BY <1>2, HoldersAre
<1>4. waitQ[b] = <<>> /\ recvQ[b] = <<>>
    BY <1>3, OnePlace
<1>5. \E t \in Owners(b) : Owners(b) = {t} /\ hand[e].ptr = <<t, Part(Op(<<b[1], t>>), b[2])>>
    <2>1. PICK x : x = hand[e].ptr
        OBVIOUS
    <2>2. <<"hand", x>> \in Holders(b)
        BY <1>3, <2>1
    <2>3. \E t \in Owners(b) : Owners(b) = {t} /\ x = <<t, Part(Op(<<b[1], t>>), b[2])>>
        BY <2>2, OnePlace
    <2> QED BY <2>1, <2>3
<1> QED BY <1>2, <1>4, <1>5

(* The handler's write through the raw pointer keeps the invariant: the *)
(* buffer is that of a call in progress.                                *)
LEMMA ReadBodyStep ==
    ASSUME CollInv, NEW e \in Conn, ReadBody(e)
    PROVE  CollInv'
<1> DEFINE c == <<e[2], hand[e].ptr[1]>>
           i == hand[e].ptr[2]
           h == [st |-> "filled", name |-> hand[e].name, ptr |-> hand[e].ptr]
<1>1. /\ hand[e].st = "buf"
      /\ WriteRecv(c, i, Header(e).data)
      /\ net' = [net EXCEPT ![e] = Tail(net[e])]
      /\ hand' = [hand EXCEPT ![e].st = "filled"]
      /\ UNCHANGED <<pos, phase, gi, sub, out, recv_count, writer, mail, waitQ, recvQ>>
    BY DEF ReadBody, callVars, boxVars
<1>2. /\ hand[e].name \in Name /\ hand[e].ptr \in Ptr
      /\ hand[e] = [st |-> hand[e].st, name |-> hand[e].name, ptr |-> hand[e].ptr]
    BY <1>1, HandStates
<1>3. hand' = [hand EXCEPT ![e] = h] /\ h \in SlotState
    <2>1. [hand[e] EXCEPT !.st = "filled"] = h
        BY <1>2
    <2>2. hand' = [hand EXCEPT ![e] = [hand[e] EXCEPT !.st = "filled"]]
        BY <1>1
    <2> QED BY <1>2, <2>1, <2>2 DEF SlotState
<1>4. h.st = "filled" /\ h.name = hand[e].name /\ h.ptr = hand[e].ptr
    OBVIOUS
<1>5. net[e] # <<>>
    BY <1>1 DEF CollInv, ReadInv
<1>6. c \in Caller /\ i \in Peer /\ Header(e).data \in Data
    BY <1>2, <1>5, NetHead, CallerFacts DEF Ptr
<1>7. send' \in [Caller -> Data] /\ recv' \in [Caller -> [Peer -> Data]]
    BY <1>1, <1>6, WriteRecvType DEF CollInv
<1> HIDE DEF c, i, h
<1>8. /\ hand' \in [Conn -> {Idle} \cup MailState \cup SlotState]
      /\ hand'[e] = h /\ \A d \in Conn : d # e => hand'[d] = hand[d]
    BY <1>3, HandType
<1>9. net' \in [Conn -> Seq(Msg)] /\ \A d \in Conn : d # e => net'[d] = net[d]
    BY <1>1, <1>5, NetHead
<1>10. MemType' /\ NetType' /\ BoxType'
    BY <1>1, <1>7, <1>8, <1>9 DEF CollInv, MemType, NetType, BoxType
<1>11. ReadInv'
    BY <1>4, <1>8, <1>9 DEF CollInv, ReadInv
<1>12. /\ CallType' /\ CallInv'
       /\ \A d \in Box : Holders(d)' = Holders(d) => LentOK(d)'
    BY <1>1, HandlerCalls DEF callVars
<1>13. ASSUME NEW d \in Box PROVE Holders(d)' = Holders(d)
    <2>1. HandHolds(d)' = HandHolds(d)
        <3>1. CASE <<d[2], d[1]>> # e
            BY <1>8, <3>1 DEF HandHolds
        <3>2. CASE <<d[2], d[1]>> = e
            BY <1>1, <1>4, <1>8, <3>2 DEF HandHolds
        <3> QED BY <3>1, <3>2
    <2> QED BY <1>1, <2>1, HoldersAre
<1> QED BY <1>10, <1>11, <1>12, <1>13 DEF CollInv, LentInv

(* recvQ.put(ptr) by the handler keeps the invariant: there is room, as the *)
(* pointer was in one place only.                                           *)
LEMMA PutRecvdStep ==
    ASSUME CollInv, NEW e \in Conn, PutRecvd(e)
    PROVE  CollInv'
<1>0. /\ hand[e].st = "filled" /\ hand[e].name \in Name /\ hand[e].ptr \in Ptr
      /\ e[1] \in Peer /\ e[2] \in Peer /\ e = <<e[1], e[2]>>
    <2>1. hand[e].st = "filled"
        BY DEF PutRecvd
    <2> QED BY <2>1, HandStates, CallerFacts
<1>a. PICK b \in Box : b = <<e[2], e[1], hand[e].name>>
    BY <1>0, BoxFacts
<1>b. PICK x \in Ptr : x = hand[e].ptr
    BY <1>0
<1>1. /\ recvQ' = [recvQ EXCEPT ![b] = Append(recvQ[b], x)]
      /\ hand' = [hand EXCEPT ![e] = Idle]
      /\ UNCHANGED <<pos, phase, gi, sub, out, send, recv, recv_count, net, writer, mail, waitQ>>
    BY <1>a, <1>b DEF PutRecvd, callVars, memVars, netVars
<1>2. /\ HandHolds(b) = {<<"hand", x>>} /\ waitQ[b] = <<>> /\ recvQ[b] = <<>>
    BY <1>0, <1>a, <1>b, HeldBuffer
<1>3. PICK t \in Owners(b) : Owners(b) = {t} /\ x = <<t, Part(Op(<<b[1], t>>), b[2])>>
    BY <1>0, <1>a, <1>b, HeldBuffer
<1>4. recvQ \in [Box -> Seq(Ptr)]
    BY DEF CollInv, BoxType
<1>5. recvQ'[b] = <<x>> /\ \A d \in Box : d # b => recvQ'[d] = recvQ[d]
    <2>1. Append(<<>>, x) = <<x>>
        OBVIOUS
    <2> QED BY <1>1, <1>2, <1>4, <2>1
<1>6. /\ hand' \in [Conn -> {Idle} \cup MailState \cup SlotState]
      /\ hand'[e] = Idle /\ \A d \in Conn : d # e => hand'[d] = hand[d]
    BY <1>1, HandType
<1>7. hand'[e].st = "idle"
    BY <1>6 DEF Idle
<1>8. BoxType'
    <2>1. recvQ' \in [Box -> Seq(Ptr)]
        <3>1. Append(recvQ[b], x) \in Seq(Ptr)
            BY <1>4
        <3> QED BY <1>1, <1>4, <3>1
    <2>2. ASSUME NEW d \in Box PROVE Len(recvQ'[d]) <= 1
        <3>1. Len(recvQ[d]) <= 1
            BY DEF CollInv, BoxType
        <3>2. CASE d = b
            <4>1. recvQ'[d] = <<x>>
                BY <1>5, <3>2
            <4> QED BY <4>1
        <3>3. CASE d # b
            BY <1>5, <3>1, <3>3
        <3> QED BY <3>2, <3>3
    <2> QED BY <1>1, <2>1, <2>2 DEF CollInv, BoxType
<1>9. MemType' /\ NetType'
    BY <1>1, <1>6 DEF CollInv, MemType, NetType
<1>10. ReadInv'
    BY <1>1, <1>6, <1>7 DEF CollInv, ReadInv
<1>11. /\ CallType' /\ CallInv'
       /\ \A d \in Box : Owners(d)' = Owners(d)
       /\ \A d \in Box : Holders(d)' = Holders(d) => LentOK(d)'
    BY <1>1, HandlerCalls DEF callVars
<1>12. ASSUME NEW d \in Box, d # b PROVE LentOK(d)'
    <2>1. HandHolds(d)' = HandHolds(d)
        <3>1. CASE <<d[2], d[1]>> # e
            BY <1>6, <3>1 DEF HandHolds
        <3>2. CASE <<d[2], d[1]>> = e
            <4>1. d[3] # hand[e].name
                BY <1>0, <1>12, <1>a, <3>2, BoxFacts
            <4> QED BY <1>7, <3>2, <4>1 DEF HandHolds
        <3> QED BY <3>1, <3>2
    <2>2. Holders(d)' = Holders(d)
        BY <1>1, <1>5, <1>12, <2>1, HoldersAre
    <2> QED BY <1>11, <2>2
<1>13. LentOK(b)'
    <2>1. HandHolds(b)' = {}
        <3>1. <<b[2], b[1]>> = e
            BY <1>0, <1>a
        <3> QED BY <1>7, <3>1 DEF HandHolds
    <2>2. WaitHolds(waitQ'[b]) = {} /\ RecvHolds(recvQ'[b]) = {<<"recvQ", x>>}
        BY <1>1, <1>2, <1>5, QueueHolds
    <2>3. Holders(b)' = {<<"recvQ", x>>}
        BY <2>1, <2>2, HoldersAre
    <2>4. \A u : Op(<<b[1], u>>)' = Op(<<b[1], u>>)
        BY <1>1 DEF Op
    <2>5. x = <<t, Part(Op(<<b[1], t>>)', b[2])>> /\ Owners(b)' = {t}
        BY <1>3, <1>11, <2>4
    <2> QED BY <2>3, <2>5 DEF LentOK, Part
<1> QED BY <1>8, <1>9, <1>10, <1>11, <1>12, <1>13 DEF CollInv, LentInv

----------------------------------------------------------------------------
(* The theorems *)

(* The invariant holds when no operation has been called. *)
LEMMA CollInvInit == Init => CollInv
<1> SUFFICES ASSUME Init PROVE CollInv
    OBVIOUS
<1>1. Work({}) = [q \in Peer |-> "none"]
    BY DEF Work
<1>2. CallType
    <2>1. sub \in [Caller -> [Peer -> {"none", "todo", "posted"}]] /\ out \in [Caller -> [Peer -> {"none", "todo", "sending"}]]
        BY <1>1 DEF Init
    <2> QED BY <2>1 DEF Init, CallType
<1>3. MemType
    BY BufferData DEF Init, MemType
<1>4. NetType
    BY DEF Init, NetType
<1>5. BoxType
    BY DEF Init, BoxType
<1>6. \A c \in Caller : phase[c] = "idle" /\ \A q \in Peer : sub[c][q] = "none" /\ out[c][q] = "none"
    BY <1>1 DEF Init
<1>7. CallInv
    <2> SUFFICES ASSUME NEW c \in Caller PROVE CallOK(c)
        BY DEF CallInv
    <2>1. phase[c] = "idle" /\ c[1] \in Peer
        BY <1>6, CallerFacts
    <2> QED BY <1>6, <2>1 DEF CallOK
<1>8. \A e \in Conn : hand[e].st = "idle"
    BY DEF Init, Idle
<1>9. ReadInv
    BY <1>8 DEF ReadInv
<1>10. LentInv
    <2> SUFFICES ASSUME NEW b \in Box PROVE Owners(b) = {} /\ Holders(b) = {}
        BY DEF LentInv, LentOK
    <2>1. Owners(b) = {}
        BY <1>6, CallerFacts, BoxFacts DEF Owners
    <2>2. waitQ[b] = <<>> /\ recvQ[b] = <<>>
        BY DEF Init
    <2>3. HandHolds(b) = {}
        BY <1>8 DEF HandHolds
    <2> QED BY <2>1, <2>2, <2>3, HoldersAre, QueueHolds
<1> QED BY <1>2, <1>3, <1>4, <1>5, <1>7, <1>9, <1>10 DEF CollInv

(* The invariant survives a step that changes nothing. *)
LEMMA CollInvStutter ==
    ASSUME CollInv, UNCHANGED vars
    PROVE  CollInv'
<1>1. /\ UNCHANGED callVars
      /\ UNCHANGED <<send, recv, recv_count, net, writer, hand, mail, waitQ, recvQ>>
    BY DEF vars, memVars, netVars, boxVars
<1>2. CallType' /\ CallInv' /\ \A b \in Box : Holders(b)' = Holders(b) => LentOK(b)'
    BY <1>1, HandlerCalls
<1>3. \A b \in Box : Holders(b)' = Holders(b)
    BY <1>1 DEF Holders
<1> QED BY <1>1, <1>2, <1>3 DEF CollInv, MemType, NetType, BoxType, ReadInv, LentInv

(* In every reachable state of every program: callers, handlers and boxes    *)
(* agree on who has which receive buffer.                                   *)
THEOREM CollInvariant == Spec => []CollInv
<1>1. CollInv /\ [Next]_vars => CollInv'
    <2> SUFFICES ASSUME CollInv, [Next]_vars PROVE CollInv'
        OBVIOUS
    <2>1. CASE UNCHANGED vars
        BY <2>1, CollInvStutter
    <2>2. CASE \E c \in Caller : CallerStep(c)
        BY <2>2, CallStep, CallFlatStep, GatherOwnStep, RecvDoneStep, SendDoneStep DEF CallerStep
    <2>3. CASE \E c \in Caller, q \in Peer : TaskStep(c, q)
        BY <2>3, RecvOntoStep, PostRecvStep, RecvIntoStep, SendBeginStep, SendEndStep DEF TaskStep
    <2>4. CASE \E e \in Conn : HandlerStep(e)
        BY <2>4, MailSteps, TakeBufStep, ReadBodyStep, PutRecvdStep DEF HandlerStep
    <2> QED BY <2>1, <2>2, <2>3, <2>4 DEF Next, Terminated
<1> QED BY <1>1, CollInvInit, PTL DEF Spec

(* Every variable has its type, every buffer is a bag of contributions, and *)
(* the channels of the boxes hold at most one element.                      *)
THEOREM CollTypeCorrect == Spec => []TypeOK
<1>1. CollInv => TypeOK
    <2> SUFFICES ASSUME CollInv PROVE TypeOK
        OBVIOUS
    <2>1. \A c \in Caller : Payload(send[c]) /\ \A i \in Peer : Payload(recv[c][i])
        <3>1. \A c \in Caller : send[c] \in Data /\ \A i \in Peer : recv[c][i] \in Data
            BY DEF CollInv, MemType
        <3> QED BY <3>1, DataIsPayload
    <2> QED BY <2>1 DEF CollInv, CallType, MemType, NetType, BoxType, TypeOK
<1> QED BY <1>1, CollInvariant, PTL

(* A receive buffer is with a handler or in a queue of the slotbox only      *)
(* while the thread that posted it waits for it, and in one place: the       *)
(* assertion in queue_pair::get holds.                                      *)
THEOREM BuffersAlwaysLent == Spec => []BuffersLent
<1>1. CollInv => BuffersLent
    BY DEF CollInv, LentInv, LentOK, Owners, BuffersLent
<1> QED BY <1>1, CollInvariant, PTL

(* Nothing writes to the buffers of a thread between its calls: what an      *)
(* operation has returned stays as it is until the thread calls the next.    *)
ResultStays ==
    \A c \in Caller :
        phase[c] = "idle" /\ phase'[c] = "idle" => recv'[c] = recv[c] /\ send'[c] = send[c]

(* A step writes to the buffers of a thread only while that thread is in a *)
(* call, or in the step that enters it.                                    *)
LEMMA WritersAreBusy ==
    ASSUME CollInv, [Next]_vars
    PROVE  ResultStays
<1> SUFFICES ASSUME NEW c \in Caller, phase[c] = "idle", phase'[c] = "idle"
             PROVE  recv'[c] = recv[c] /\ send'[c] = send[c]
    BY DEF ResultStays
<1>0. phase \in [Caller -> {"idle", "recv", "send", "flat"}] /\ MemType
    BY DEF CollInv, CallType
<1>1. CASE UNCHANGED vars
    BY <1>1 DEF vars, memVars
<1>2. ASSUME NEW d \in Caller, Begin(d), phase' = [phase EXCEPT ![d] = "recv"] \/ phase' = [phase EXCEPT ![d] = "flat"]
      PROVE  recv'[c] = recv[c] /\ send'[c] = send[c]
    <2>1. d # c
        BY <1>0, <1>2
    <2>2. \E x, y : send' = [send EXCEPT ![d] = x] /\ recv' = [recv EXCEPT ![d] = y]
        BY <1>2 DEF Begin
    <2> QED BY <1>0, <2>1, <2>2 DEF MemType
<1>3. ASSUME NEW d \in Caller, NEW i \in Peer, NEW x \in Data, WriteRecv(d, i, x), phase[d] # "idle"
      PROVE  recv'[c] = recv[c] /\ send'[c] = send[c]
    BY <1>0, <1>3, WriteRecvType
<1>4. CASE \E d \in Caller : CallerStep(d)
    <2>1. PICK d \in Caller : CallerStep(d)
        BY <1>4
    <2>2. 0 \in Peer /\ d[1] \in Peer /\ send[d] \in Data /\ Part(Op(d), d[1]) \in Peer
        BY <1>0, Constants, CallerFacts DEF MemType, Part
    <2>3. CASE Call(d) \/ CallFlat(d)
        BY <1>2, <2>3 DEF Call, CallFlat
    <2>4. CASE GatherOwn(d)
        <3>1. WriteRecv(d, Part(Op(d), d[1]), send[d]) /\ phase[d] = "flat"
            BY <2>4 DEF GatherOwn, Forward
        <3> QED BY <1>3, <2>2, <3>1
    <2>5. CASE RecvDone(d)
        <3>1. phase[d] = "recv" /\ (WriteRecv(d, 0, send[d]) \/ UNCHANGED <<send, recv>>)
            BY <2>5 DEF RecvDone, Forward
        <3> QED BY <1>3, <2>2, <3>1
    <2>6. CASE SendDone(d)
        BY <2>6 DEF SendDone, memVars
    <2> QED BY <2>1, <2>3, <2>4, <2>5, <2>6 DEF CallerStep
<1>5. CASE \E d \in Caller, q \in Peer : TaskStep(d, q)
    <2>1. PICK d \in Caller, q \in Peer : TaskStep(d, q)
        BY <1>5
    <2>2. CASE RecvOnto(d, q)
        <3> DEFINE b == <<d[1], q, Op(d).name>>
                   x == Reduce(Head(mail[b]), EffectiveData(d))
        <3>1. phase[d] = "recv" /\ WriteRecv(d, 0, x) /\ mail[b] # <<>>
            BY <2>2 DEF RecvOnto, AddTo
        <3>2. Op(d).name \in Name
            BY <3>1, OpFacts DEF CollInv, CallInv, CallOK, CallType
        <3>3. b \in Box
            BY <3>2, CallerFacts, BoxFacts
        <3>4. Head(mail[b]) \in Data
            <4>1. mail[b] \in Seq(Data)
                BY <3>3 DEF CollInv, BoxType
            <4> QED BY <3>1, <4>1
        <3>5. x \in Data /\ 0 \in Peer
            BY <1>0, <3>4, Constants, EffectiveDataType, ReduceData
        <3> QED BY <1>3, <3>1, <3>5
    <2>3. CASE PostRecv(d, q) \/ RecvInto(d, q) \/ SendBegin(d, q) \/ SendEnd(d, q)
        BY <2>3 DEF PostRecv, RecvInto, SendBegin, SendEnd, memVars
    <2> QED BY <2>1, <2>2, <2>3 DEF TaskStep
<1>6. CASE \E e \in Conn : HandlerStep(e)
    <2>1. PICK e \in Conn : HandlerStep(e)
        BY <1>6
    <2>2. CASE ReadBody(e)
        <3>1. hand[e].st = "buf" /\ WriteRecv(<<e[2], hand[e].ptr[1]>>, hand[e].ptr[2], Header(e).data)
            BY <2>2 DEF ReadBody
        <3>2. hand[e].name \in Name /\ hand[e].ptr \in Ptr /\ e[1] \in Peer /\ e[2] \in Peer
            BY <3>1, HandStates, CallerFacts
        <3>3. PICK b \in Box : b = <<e[2], e[1], hand[e].name>>
            BY <3>2, BoxFacts
        <3>4. PICK t \in Owners(b) : hand[e].ptr = <<t, Part(Op(<<b[1], t>>), b[2])>>
            BY <3>1, <3>3, HeldBuffer
        <3>5. hand[e].ptr[1] = t /\ b[1] = e[2] /\ phase[<<e[2], t>>] # "idle"
            BY <3>3, <3>4 DEF Owners
        <3>6. <<e[2], t>> \in Caller /\ hand[e].ptr[2] \in Peer
            BY <3>2, <3>5, CallerFacts DEF Ptr
        <3>7. Header(e).data \in Data
            BY <3>1, NetHead DEF CollInv, ReadInv
        <3> QED BY <1>3, <3>1, <3>5, <3>6, <3>7
    <2>3. CASE ReadMail(e) \/ PutMail(e) \/ TakeBuf(e) \/ PutRecvd(e)
        BY <2>3 DEF ReadMail, PutMail, TakeBuf, PutRecvd, memVars
    <2> QED BY <2>1, <2>2, <2>3 DEF HandlerStep
<1> QED BY <1>1, <1>4, <1>5, <1>6 DEF Next, Terminated

(* What a call has returned stays in the caller's buffers until that thread *)
(* calls again: no handler writes late through a pointer of an earlier call *)
(* (mailbox.hpp:32).                                                        *)
THEOREM ResultsStay == Spec => [][ResultStays]_vars
<1>1. CollInv /\ [Next]_vars => [ResultStays]_vars
    BY WritersAreBusy
<1> QED BY <1>1, CollInvariant, PTL DEF Spec

----------------------------------------------------------------------------
(* The items that calls exchange, and where they are *)

(* An item is what peer e[1] sends to peer e[2] in stage f of the k-th call  *)
(* of thread t.  Stage 0 is the reduce graph of an all_reduce; stage 1 is    *)
(* the broadcast graph, or the whole of a call without graphs.               *)
Rounds(t) == 1 .. Len(Program[t])

(* The peers that p sends to in stage f of a call. *)
Links(op, f, p) ==
    CASE f = 0 -> IF op.kind = "all_reduce" THEN Nexts(AllReduceGraphs(op.name)[1], p) ELSE {}
      [] f = 1 /\ op.kind = "all_reduce" -> Nexts(AllReduceGraphs(op.name)[2], p)
      [] f = 1 /\ op.kind = "broadcast"  -> Nexts(BroadcastGraphs[1], p)
      [] OTHER -> Receivers(op, p)

Item(e, t, k, f) == k \in 1 .. Len(Program[t]) /\ e[2] \in Links(Program[t][k], f, e[1])

(* The stage a caller is in, and its clock: two ticks per call. *)
Stage(c) == IF Reduces(c) THEN 0 ELSE 1
At(c)    == 2 * pos[c] + (IF phase[c] = "idle" THEN 0 ELSE Stage(c))

(* The sender has written the item to the connection; the receiver has taken *)
(* it from the mailbox or got its buffer back.                               *)
Sent(e, t, k, f) ==
    LET c == <<e[1], t>> IN
    \/ 2 * k + f < At(c)
    \/ 2 * k + f = At(c) /\ phase[c] \in {"send", "flat"} /\ out[c][e[2]] # "todo"

Used(e, t, k, f) ==
    LET c == <<e[2], t>> IN
    \/ 2 * k + f < At(c)
    \/ 2 * k + f = At(c) /\ phase[c] # "idle" /\ sub[c][e[1]] = "none"

InTransit(e, t, k, f) == Item(e, t, k, f) /\ Sent(e, t, k, f) /\ ~Used(e, t, k, f)

(* Data that is made of contributions to the k-th call of thread t only, and *)
(* a message with the data, the name and the flag of an item.                *)
Carries(d, t, k) == DOMAIN d # {} /\ \A x \in DOMAIN d : x[2] = t /\ x[3] = k

IsFor(m, t, k, f) ==
    m.name = Program[t][k].name /\ m.wait_recv_buf = (f = 1) /\ Carries(m.data, t, k)

(* The tasks of a caller are those of its stage; it posts buffers in stage 1 *)
(* only, and a peer sends in a graph once it has received.                   *)
TaskOK(c) ==
    /\ phase[c] = "recv" => \A q \in Peer : out[c][q] = "none"
    /\ \A q \in Peer : out[c][q] # "none" => q \in Links(Op(c), Stage(c), c[1])
    /\ \A q \in Peer : sub[c][q] # "none" /\ q # c[1] => c[1] \in Links(Op(c), Stage(c), q)
    /\ \A q \in Peer : sub[c][q] = "posted" => Stage(c) = 1 /\ q # c[1]

TaskInv == \A c \in Caller : TaskOK(c)

(* The buffers of a caller in a call hold data of that call. *)
MemInv == \A c \in Caller : phase[c] # "idle" =>
    /\ Carries(send[c], c[2], pos[c])
    /\ recv_count[c] > 0 => Carries(recv[c][0], c[2], pos[c])

(* Nothing is used before it is sent. *)
UsedOK(e) ==
    \A t \in Thread, f \in {0, 1} : \A k \in Rounds(t) :
       Item(e, t, k, f) /\ Used(e, t, k, f) => Sent(e, t, k, f)

UsedInv == \A e \in Conn : UsedOK(e)

(* Every message on a connection is an item in transit, ... *)
NetOK(e) ==
    \A i \in DOMAIN net[e] : \E t \in Thread, f \in {0, 1} : \E k \in Rounds(t) :
       IsFor(net[e][i], t, k, f) /\ InTransit(e, t, k, f)

(* those of a thread are in the order of its program, ... *)
OrderOK(e) ==
    \A i, j \in DOMAIN net[e] : \A t \in Thread, f, g \in {0, 1} : \A k, l \in Rounds(t) :
       i < j /\ IsFor(net[e][i], t, k, f) /\ IsFor(net[e][j], t, l, g) => 2 * k + f < 2 * l + g

(* and so are what the handler brings to the mailbox and what is in it. *)
HandOK(e) ==
    hand[e].st = "mail" => \E t \in Thread : \E k \in Rounds(t) :
        /\ hand[e].name = Program[t][k].name /\ Carries(hand[e].data, t, k)
        /\ InTransit(e, t, k, 0)

BoxOK(e) ==
    \A n \in Name : mail[<<e[2], e[1], n>>] # <<>> =>
        \E t \in Thread : \E k \in Rounds(t) :
            /\ n = Program[t][k].name /\ Carries(Head(mail[<<e[2], e[1], n>>]), t, k)
            /\ InTransit(e, t, k, 0)

(* The places an item can be in: on the wire, ... *)
Wire(e, t, k, f) == \E i \in DOMAIN net[e] : IsFor(net[e][i], t, k, f)

(* with the handler, ... *)
Held(e, t, k) == hand[e].st = "mail" /\ Carries(hand[e].data, t, k)

(* in the mailbox, ... *)
Boxed(e, t, k) ==
    LET b == <<e[2], e[1], Program[t][k].name>>
    IN  mail[b] # <<>> /\ Carries(Head(mail[b]), t, k)

(* or in the receiver's buffer, with the handler or in recvQ. *)
Filled(e, t) ==
    LET c == <<e[2], t>> IN
    /\ sub[c][e[1]] = "posted"
    /\ \/ hand[e].st = "filled" /\ hand[e].ptr[1] = t
       \/ recvQ[<<e[2], e[1], Op(c).name>>] # <<>>

(* An item to be added up is in one place, ... *)
OnceOK(e) ==
    \A t \in Thread : \A k \in Rounds(t) :
       /\ ~(Wire(e, t, k, 0) /\ Held(e, t, k))
       /\ ~(Wire(e, t, k, 0) /\ Boxed(e, t, k))
       /\ ~(Held(e, t, k) /\ Boxed(e, t, k))

(* and one that goes into a posted buffer is either on the wire or there. *)
BodyOK(e) ==
    \A t \in Thread : \A k \in Rounds(t) : InTransit(e, t, k, 1) =>
        Wire(e, t, k, 1) \/ (Filled(e, t) /\ k = pos[<<e[2], t>>])

SlotOK(e) ==
    \A t \in Thread : \A k \in Rounds(t) : Filled(e, t) /\ k = pos[<<e[2], t>>] =>
        Sent(e, t, k, 1) /\ ~Wire(e, t, k, 1)

(* The body that a handler with a buffer is about to read is for the call of *)
(* the buffer's owner.                                                       *)
BufOK(e) ==
    hand[e].st = "buf" =>
        IsFor(net[e][1], hand[e].ptr[1], pos[<<e[2], hand[e].ptr[1]>>], 1)

ConnOK(e) ==
    /\ UsedOK(e) /\ NetOK(e) /\ OrderOK(e) /\ HandOK(e) /\ BoxOK(e)
    /\ OnceOK(e) /\ BodyOK(e) /\ SlotOK(e) /\ BufOK(e)

(* A peer sends nothing to itself. *)
SelfBoxInv == \A b \in Box : b[1] = b[2] => mail[b] = <<>>

PlacesInv == SelfBoxInv /\ \A e \in Conn : ConnOK(e)

(* The second inductive invariant, on top of CollInv. *)
FlowInv == TaskInv /\ MemInv /\ PlacesInv

----------------------------------------------------------------------------
(* Stages, clocks and items *)

(* The successors of a graph are those that have a vertex for predecessor. *)
LEMMA NextsPrevs ==
    ASSUME NEW g, NEW p, NEW q
    PROVE  q \in Nexts(g, p) <=> p \in Prevs(g, q)
<1>1. ASSUME q \in Nexts(g, p) PROVE p \in Prevs(g, q)
    <2>1. PICK e \in g.edges : e[1] = p /\ e[2] = q
        BY <1>1 DEF Nexts
    <2> QED BY <2>1 DEF Prevs
<1>2. ASSUME p \in Prevs(g, q) PROVE q \in Nexts(g, p)
    <2>1. PICK e \in g.edges : e[1] = p /\ e[2] = q
        BY <1>2 DEF Prevs
    <2> QED BY <2>1 DEF Nexts
<1> QED BY <1>1, <1>2

(* The graphs of an operation: those of an all_reduce add up on the way in   *)
(* and not on the way out, a broadcast has one that adds up nowhere, and     *)
(* both have a root.                                                         *)
LEMMA GraphStages ==
    ASSUME NEW op, op.kind \in Kind, op.name \in Name
    PROVE  /\ op.kind = "all_reduce" =>
              \E g, h : \E r \in Peer :
                 /\ Graphs(op) = <<g, h>> /\ AllReduceGraphs(op.name) = <<g, h>>
                 /\ IsInTree(N, g, r) /\ IsOutTree(N, h, r)
                 /\ \A p \in Peer : SelfLoop(g, p) /\ ~SelfLoop(h, p)
           /\ op.kind = "broadcast" =>
              \E h :
                 /\ Graphs(op) = <<h>> /\ BroadcastGraphs = <<h>>
                 /\ IsOutTree(N, h, 0)
                 /\ \A p \in Peer : ~SelfLoop(h, p)
           /\ op.kind \in {"all_gather", "send_recv"} => Graphs(op) = <<>>
<1>0. Hash[op.name] \in Nat
    BY HashAssumption
<1> DEFINE pair  == Choose(all_reduce_topo, Hash[op.name])
           first == all_reduce_topo[1]
<1>1. PICK r \in Vertex(N) : IsTreePair(N, pair, r)
    BY <1>0, Constants, ChosenPairIsTreePair DEF all_reduce_topo
<1>2. 0 \in Vertex(N) /\ IsTreePair(N, first, 0)
    BY <1>0, Constants, ChosenPairIsTreePair DEF all_reduce_topo
<1>4. ASSUME op.kind = "broadcast" PROVE Graphs(op) = <<first.broadcast_graph>> /\ BroadcastGraphs = <<first.broadcast_graph>>
    BY <1>4 DEF Graphs, BroadcastGraphs
<1>5. ASSUME op.kind = "all_reduce"
      PROVE /\ Graphs(op) = <<pair.reduce_graph, pair.broadcast_graph>>
            /\ AllReduceGraphs(op.name) = <<pair.reduce_graph, pair.broadcast_graph>>
    BY <1>5 DEF Graphs, AllReduceGraphs
<1> HIDE DEF pair, first
<1>6. op.kind \in {"all_gather", "send_recv"} => Graphs(op) = <<>>
    BY DEF Graphs
<1>7. ASSUME op.kind = "all_reduce"
      PROVE  \E g, h : \E u \in Peer :
                 /\ Graphs(op) = <<g, h>> /\ AllReduceGraphs(op.name) = <<g, h>>
                 /\ IsInTree(N, g, u) /\ IsOutTree(N, h, u)
                 /\ \A p \in Peer : SelfLoop(g, p) /\ ~SelfLoop(h, p)
    <2>1. IsInTree(N, pair.reduce_graph, r) /\ IsOutTree(N, pair.broadcast_graph, r)
        BY <1>1 DEF IsTreePair
    <2>2. \A p \in Peer : SelfLoop(pair.reduce_graph, p) /\ ~SelfLoop(pair.broadcast_graph, p)
        BY <1>1, Constants DEF IsTreePair
    <2> QED BY <1>5, <1>7, <2>1, <2>2, Constants
<1>8. ASSUME op.kind = "broadcast"
      PROVE  \E h : /\ Graphs(op) = <<h>> /\ BroadcastGraphs = <<h>>
                    /\ IsOutTree(N, h, 0)
                    /\ \A p \in Peer : ~SelfLoop(h, p)
    <2>1. IsOutTree(N, first.broadcast_graph, 0)
        BY <1>2 DEF IsTreePair
    <2>2. \A p \in Peer : ~SelfLoop(first.broadcast_graph, p)
        BY <1>2, Constants DEF IsTreePair
    <2> QED BY <1>4, <1>8, <2>1, <2>2
<1> QED BY <1>6, <1>7, <1>8

(* Where a caller in a call is: the stage its graph is for, the peers it     *)
(* sends to there and those it receives from.                                *)
StageOK(c) ==
    /\ Stage(c) \in {0, 1} /\ pos[c] \in Rounds(c[2])
    /\ Op(c).kind \in Kind /\ Op(c).name \in Name /\ Op(c).inplace \in BOOLEAN
    /\ phase[c] \in {"recv", "send"} =>
         /\ \A q \in Peer : q \in Nexts(Graph(c), c[1]) <=> q \in Links(Op(c), Stage(c), c[1])
         /\ \A q \in Peer : q \in Prevs(Graph(c), c[1]) <=> c[1] \in Links(Op(c), Stage(c), q)
         /\ Stage(c) = 0 <=> gi[c] < Len(Graphs(Op(c)))
         /\ Stage(c) = 0 <=> (gi[c] = 1 /\ Op(c).kind = "all_reduce")
         /\ Op(c).kind \in {"all_reduce", "broadcast"}
    /\ phase[c] = "flat" => Stage(c) = 1 /\ Op(c).kind \in {"all_gather", "send_recv"}
    /\ Reduces(c) <=> Stage(c) = 0

(* The stage of a call and its neighbours there follow from the graph. *)
LEMMA StageFacts ==
    ASSUME CollInv, NEW c \in Caller, phase[c] # "idle"
    PROVE  StageOK(c)
<1>1. c[1] \in Peer /\ c[2] \in Thread /\ pos[c] \in Nat \ {0} /\ pos[c] <= Len(Program[c[2]]) /\ gi[c] \in {1, 2}
    BY CallerFacts DEF CollInv, CallType, CallInv, CallOK
<1>2. pos[c] \in Rounds(c[2])
    BY <1>1, ProgramAssumption DEF Rounds
<1>3. Op(c).kind \in Kind /\ Op(c).name \in Name /\ Op(c).inplace \in BOOLEAN
    BY <1>1, OpFacts
<1>4. Stage(c) \in {0, 1} /\ (Reduces(c) <=> Stage(c) = 0)
    BY DEF Stage
<1>5. ASSUME phase[c] = "flat" PROVE Stage(c) = 1 /\ Op(c).kind \in {"all_gather", "send_recv"}
    <2>1. Graphs(Op(c)) = <<>>
        BY <1>5 DEF CollInv, CallInv, CallOK
    <2>2. Op(c).kind \in {"all_gather", "send_recv"}
        BY <1>3, <2>1, GraphFacts
    <2> QED BY <1>5, <2>2 DEF Stage, Reduces
<1>6. ASSUME phase[c] \in {"recv", "send"}
      PROVE  /\ \A q \in Peer : Nexts(Graph(c), q) = Links(Op(c), Stage(c), q)
             /\ Stage(c) = 0 <=> gi[c] < Len(Graphs(Op(c)))
             /\ Stage(c) = 0 <=> (gi[c] = 1 /\ Op(c).kind = "all_reduce")
             /\ Op(c).kind \in {"all_reduce", "broadcast"}
    <2>1. gi[c] \in 1 .. Len(Graphs(Op(c)))
        BY <1>6 DEF CollInv, CallInv, CallOK
    <2>2. CASE Op(c).kind = "all_reduce"
        <3>1. PICK g, h : /\ Graphs(Op(c)) = <<g, h>> /\ AllReduceGraphs(Op(c).name) = <<g, h>>
                          /\ \A p \in Peer : SelfLoop(g, p) /\ ~SelfLoop(h, p)
            BY <1>3, <2>2, GraphStages
        <3>2. CASE gi[c] = 1
            <4>1. Graph(c) = g
                BY <3>1, <3>2 DEF Graph
            <4>2. Stage(c) = 0
                BY <1>1, <1>6, <3>1, <4>1 DEF Stage, Reduces
            <4> QED BY <2>2, <3>1, <3>2, <4>1, <4>2 DEF Links
        <3>3. CASE gi[c] = 2
            <4>1. Graph(c) = h
                BY <3>1, <3>3 DEF Graph
            <4>2. Stage(c) = 1
                BY <1>1, <1>6, <3>1, <4>1 DEF Stage, Reduces
            <4> QED BY <2>2, <3>1, <3>3, <4>1, <4>2 DEF Links
        <3> QED BY <1>1, <3>2, <3>3
    <2>3. CASE Op(c).kind = "broadcast"
        <3>1. PICK h : /\ Graphs(Op(c)) = <<h>> /\ BroadcastGraphs = <<h>>
                       /\ \A p \in Peer : ~SelfLoop(h, p)
            BY <1>3, <2>3, GraphStages
        <3>2. gi[c] = 1
            BY <1>1, <2>1, <3>1
        <3>3. Graph(c) = h
            BY <3>1, <3>2 DEF Graph
        <3>4. Stage(c) = 1
            BY <1>1, <1>6, <3>1, <3>3 DEF Stage, Reduces
        <3> QED BY <2>3, <3>1, <3>2, <3>3, <3>4 DEF Links
    <2>4. CASE Op(c).kind \in {"all_gather", "send_recv"}
        <3>1. Graphs(Op(c)) = <<>>
            BY <1>3, <2>4, GraphStages
        <3> QED BY <2>1, <3>1
    <2> QED BY <1>3, <2>2, <2>3, <2>4 DEF Kind
<1>7. ASSUME phase[c] \in {"recv", "send"}, NEW q \in Peer
      PROVE  q \in Prevs(Graph(c), c[1]) <=> c[1] \in Links(Op(c), Stage(c), q)
    BY <1>6, <1>7, NextsPrevs
<1> QED BY <1>1, <1>2, <1>3, <1>4, <1>5, <1>6, <1>7 DEF StageOK

(* In a call without graphs, who sends to whom is the same from both ends. *)
LEMMA FlatLinks ==
    ASSUME NEW op, op.kind \in {"all_gather", "send_recv"}, NEW p \in Peer, NEW q \in Peer, p # q
    PROVE  /\ q \in Links(op, 1, p) <=> q \in Receivers(op, p)
           /\ q \in Links(op, 1, p) <=> p \in Senders(op, q)
           /\ Links(op, 0, p) = {}
    BY DEF Links, Receivers, Senders

(* What a thread has sent and used is a matter of where it is. *)
LEMMA SentFrame ==
    ASSUME NEW e, NEW t, NEW k, NEW f, NEW c, c = <<e[1], t>>,
           pos'[c] = pos[c], phase'[c] = phase[c], gi'[c] = gi[c],
           (out'[c][e[2]] = "todo") <=> (out[c][e[2]] = "todo")
    PROVE  Sent(e, t, k, f)' <=> Sent(e, t, k, f)
<1>1. Op(c)' = Op(c) /\ Graphs(Op(c))' = Graphs(Op(c))
    BY SameGraphs
<1>2. Reduces(c)' <=> Reduces(c)
    BY <1>1 DEF Reduces, Graph
<1>3. At(c)' = At(c)
    BY <1>2 DEF At, Stage
<1> QED BY <1>3 DEF Sent

(* The same for what it has used. *)
LEMMA UsedFrame ==
    ASSUME NEW e, NEW t, NEW k, NEW f, NEW c, c = <<e[2], t>>,
           pos'[c] = pos[c], phase'[c] = phase[c], gi'[c] = gi[c],
           (sub'[c][e[1]] = "none") <=> (sub[c][e[1]] = "none")
    PROVE  Used(e, t, k, f)' <=> Used(e, t, k, f)
<1>1. Op(c)' = Op(c) /\ Graphs(Op(c))' = Graphs(Op(c))
    BY SameGraphs
<1>2. Reduces(c)' <=> Reduces(c)
    BY <1>1 DEF Reduces, Graph
<1>3. At(c)' = At(c)
    BY <1>2 DEF At, Stage
<1> QED BY <1>3 DEF Used

(* The same as a predicate of the state, so that it can be used of the state *)
(* after a step.                                                             *)
StageLaw == CollInv => \A c \in Caller : phase[c] # "idle" => StageOK(c)

(* The facts about stages hold in every state, ... *)
LEMMA StageHolds == StageLaw
    BY StageFacts DEF StageLaw

(* so they hold in the next one, ... *)
LEMMA StageHoldsNext == StageLaw'
    BY StageHolds, PTL

(* in the form in which the steps use them. *)
LEMMA StageNext ==
    ASSUME CollInv', NEW c \in Caller, phase'[c] # "idle"
    PROVE  StageOK(c)'
    BY StageHoldsNext DEF StageLaw

(* What has been sent and used stays so, and nothing else is. *)
SameFlow ==
    \A e \in Conn, t \in Thread, f \in {0, 1} : \A k \in Rounds(t) :
       Item(e, t, k, f) => /\ Sent(e, t, k, f)' <=> Sent(e, t, k, f)
                           /\ Used(e, t, k, f)' <=> Used(e, t, k, f)

(* The callers other than c stay where they are. *)
OthersStay(c) ==
    \A d \in Caller : d # c => /\ pos'[d] = pos[d] /\ phase'[d] = phase[d] /\ gi'[d] = gi[d]
                               /\ sub'[d] = sub[d] /\ out'[d] = out[d]

(* The callers' clocks. *)
LEMMA AtFacts ==
    ASSUME NEW c
    PROVE  /\ phase[c] = "idle" => At(c) = 2 * pos[c] + 0
           /\ phase[c] # "idle" => At(c) = 2 * pos[c] + Stage(c)
           /\ phase'[c] = "idle" => At(c)' = 2 * pos'[c] + 0
           /\ phase'[c] # "idle" => At(c)' = 2 * pos'[c] + Stage(c)'
    BY DEF At

(* An item belongs to a call of the program; only all_reduce has a stage that *)
(* adds up.                                                                   *)
LEMMA ItemFacts ==
    ASSUME NEW t \in Thread, NEW k \in Rounds(t)
    PROVE  /\ k \in Nat /\ k > 0 /\ k <= Len(Program[t]) /\ Len(Program[t]) \in Nat
           /\ Program[t][k].kind \in Kind /\ Program[t][k].name \in Name
           /\ \A e, f : Item(e, t, k, f) <=> e[2] \in Links(Program[t][k], f, e[1])
           /\ \A e : Item(e, t, k, 0) => Program[t][k].kind = "all_reduce"
<1>1. Len(Program[t]) \in Nat /\ k \in 1 .. Len(Program[t])
    BY ProgramAssumption DEF Rounds
<1>2. Program[t][k].kind \in Kind /\ Program[t][k].name \in Name
    BY <1>1, ProgramAssumption DEF Name
<1>3. \A e, f : Item(e, t, k, f) <=> e[2] \in Links(Program[t][k], f, e[1])
    BY <1>1 DEF Item
<1>4. \A e : Item(e, t, k, 0) => Program[t][k].kind = "all_reduce"
    BY <1>3 DEF Links
<1> QED BY <1>1, <1>2, <1>3, <1>4

(* A step of one caller that does not change what it has sent and used. *)
LEMMA FlowOf ==
    ASSUME NEW c \in Caller, OthersStay(c),
           \A q \in Peer, f \in {0, 1} : \A k \in Rounds(c[2]) : q # c[1] =>
              /\ Item(<<c[1], q>>, c[2], k, f) =>
                    (Sent(<<c[1], q>>, c[2], k, f)' <=> Sent(<<c[1], q>>, c[2], k, f))
              /\ Item(<<q, c[1]>>, c[2], k, f) =>
                    (Used(<<q, c[1]>>, c[2], k, f)' <=> Used(<<q, c[1]>>, c[2], k, f))
    PROVE  SameFlow
<1> SUFFICES ASSUME NEW e \in Conn, NEW t \in Thread, NEW f \in {0, 1}, NEW k \in Rounds(t), Item(e, t, k, f)
             PROVE  /\ Sent(e, t, k, f)' <=> Sent(e, t, k, f)
                    /\ Used(e, t, k, f)' <=> Used(e, t, k, f)
    BY DEF SameFlow
<1>1. e[1] \in Peer /\ e[2] \in Peer /\ e[1] # e[2] /\ e = <<e[1], e[2]>>
    BY CallerFacts
<1>2. <<e[1], t>> \in Caller /\ <<e[2], t>> \in Caller /\ c = <<c[1], c[2]>>
    BY <1>1, CallerFacts
<1>3. Sent(e, t, k, f)' <=> Sent(e, t, k, f)
    <2>1. CASE <<e[1], t>> # c
        <3> DEFINE d == <<e[1], t>>
        <3>1. /\ pos'[d] = pos[d] /\ phase'[d] = phase[d] /\ gi'[d] = gi[d]
              /\ (out'[d][e[2]] = "todo" <=> out[d][e[2]] = "todo")
            BY <1>2, <2>1 DEF OthersStay
        <3> QED BY <3>1, SentFrame
    <2>2. CASE <<e[1], t>> = c
        <3>1. c[1] = e[1] /\ c[2] = t
            BY <1>2, <2>2
        <3> QED BY <1>1, <3>1
    <2> QED BY <2>1, <2>2
<1>4. Used(e, t, k, f)' <=> Used(e, t, k, f)
    <2>1. CASE <<e[2], t>> # c
        <3> DEFINE d == <<e[2], t>>
        <3>1. /\ pos'[d] = pos[d] /\ phase'[d] = phase[d] /\ gi'[d] = gi[d]
              /\ (sub'[d][e[1]] = "none" <=> sub[d][e[1]] = "none")
            BY <1>2, <2>1 DEF OthersStay
        <3> QED BY <3>1, UsedFrame
    <2>2. CASE <<e[2], t>> = c
        <3>1. c[1] = e[2] /\ c[2] = t
            BY <1>2, <2>2
        <3> QED BY <1>1, <3>1
    <2> QED BY <2>1, <2>2
<1> QED BY <1>3, <1>4

(* Sent and used, by the caller's clock. *)
LEMMA SentUsed ==
    ASSUME NEW c \in Caller, NEW q, NEW k, NEW f
    PROVE  /\ Sent(<<c[1], q>>, c[2], k, f) <=>
                 \/ 2 * k + f < At(c)
                 \/ 2 * k + f = At(c) /\ phase[c] \in {"send", "flat"} /\ out[c][q] # "todo"
           /\ Used(<<q, c[1]>>, c[2], k, f) <=>
                 \/ 2 * k + f < At(c)
                 \/ 2 * k + f = At(c) /\ phase[c] # "idle" /\ sub[c][q] = "none"
           /\ Sent(<<c[1], q>>, c[2], k, f)' <=>
                 \/ 2 * k + f < At(c)'
                 \/ 2 * k + f = At(c)' /\ phase'[c] \in {"send", "flat"} /\ out'[c][q] # "todo"
           /\ Used(<<q, c[1]>>, c[2], k, f)' <=>
                 \/ 2 * k + f < At(c)'
                 \/ 2 * k + f = At(c)' /\ phase'[c] # "idle" /\ sub'[c][q] = "none"
<1>1. <<c[1], c[2]>> = c
    BY CallerFacts
<1> QED BY <1>1 DEF Sent, Used

----------------------------------------------------------------------------
(* The steps of callers, and what they have sent and used *)

(* A caller of which everything stays keeps its tasks. *)
LEMMA TaskKept ==
    ASSUME NEW d \in Caller, TaskOK(d), pos'[d] = pos[d], phase'[d] = phase[d], gi'[d] = gi[d],
           sub'[d] = sub[d], out'[d] = out[d]
    PROVE  TaskOK(d)'
<1>1. Op(d)' = Op(d) /\ Graphs(Op(d))' = Graphs(Op(d))
    BY SameGraphs
<1>2. Stage(d)' = Stage(d)
    BY <1>1 DEF Stage, Reduces, Graph
<1> QED BY <1>1, <1>2 DEF TaskOK

(* A step of caller c keeps the tasks of the others. *)
LEMMA TasksKept ==
    ASSUME TaskInv, NEW c \in Caller, OthersStay(c), TaskOK(c)'
    PROVE  TaskInv'
    BY TaskKept DEF TaskInv, OthersStay

(* Entering a call with graphs sends nothing and uses nothing. *)
LEMMA CallFlow ==
    ASSUME CollInv, CollInv', TaskInv, NEW c \in Caller, Call(c)
    PROVE  SameFlow /\ TaskInv'
<1>1. c[1] \in Peer /\ c[2] \in Thread /\ c = <<c[1], c[2]>>
    BY CallerFacts
<1>2. /\ phase[c] = "idle" /\ phase'[c] = "recv" /\ gi'[c] = 1 /\ pos' = pos /\ out' = out
      /\ sub'[c] = Work(Prevs(Graphs(Op(c))[1], c[1]))
      /\ OthersStay(c)
    BY DEF Call, Begin, CollInv, CallType, OthersStay
<1>3. Op(c)' = Op(c) /\ Graphs(Op(c))' = Graphs(Op(c))
    BY <1>2, SameGraphs
<1>4. StageOK(c)' /\ pos[c] \in Nat
    BY <1>2, StageNext DEF CollInv, CallType
<1>5. Graph(c)' = Graphs(Op(c))[1]
    BY <1>2, <1>3 DEF Graph
<1>6. /\ Stage(c)' \in {0, 1} /\ (Stage(c)' = 0 <=> Op(c).kind = "all_reduce")
      /\ \A q \in Peer : sub'[c][q] = "todo" <=> c[1] \in Links(Op(c), Stage(c)', q)
      /\ \A q \in Peer : sub'[c][q] \in {"todo", "none"}
    <2>1. \A q \in Peer : q \in Prevs(Graph(c)', c[1]) <=> c[1] \in Links(Op(c)', Stage(c)', q)
        BY <1>2, <1>4 DEF StageOK
    <2>2. Stage(c)' \in {0, 1} /\ (Stage(c)' = 0 <=> Op(c).kind = "all_reduce")
        BY <1>2, <1>3, <1>4 DEF StageOK
    <2> QED BY <1>2, <1>3, <1>5, <2>1, <2>2, WorkType
<1>7. \A q \in Peer : out'[c][q] = "none"
    BY <1>2 DEF CollInv, CallInv, CallOK
<1>8. TaskOK(c)'
    BY <1>2, <1>3, <1>6, <1>7 DEF TaskOK
<1>9. TaskInv'
    BY <1>2, <1>8, TasksKept
<1>10. At(c) = 2 * pos[c] + 0 /\ At(c)' = 2 * pos[c] + Stage(c)'
    BY <1>2, AtFacts
<1>11. SameFlow
    <2>1. ASSUME NEW q \in Peer, NEW f \in {0, 1}, NEW k \in Rounds(c[2]), q # c[1]
          PROVE  /\ Item(<<c[1], q>>, c[2], k, f) =>
                        (Sent(<<c[1], q>>, c[2], k, f)' <=> Sent(<<c[1], q>>, c[2], k, f))
                 /\ Item(<<q, c[1]>>, c[2], k, f) =>
                        (Used(<<q, c[1]>>, c[2], k, f)' <=> Used(<<q, c[1]>>, c[2], k, f))
        <3>1. k \in Nat
            BY <1>1, ItemFacts
        <3>2. k = pos[c] => Program[c[2]][k] = Op(c)
            BY DEF Op
        <3>3. 2 * k + f < At(c)' <=> 2 * k + f < At(c) \/ (Stage(c)' = 1 /\ k = pos[c] /\ f = 0)
            <4>1. CASE Stage(c)' = 0
                BY <1>10, <4>1
            <4>2. CASE Stage(c)' = 1
                BY <1>4, <1>10, <3>1, <4>2
            <4> QED BY <1>6, <4>1, <4>2
        <3>4. 2 * k + f = At(c)' <=> (k = pos[c] /\ f = Stage(c)')
            BY <1>4, <1>6, <1>10, <3>1
        <3>5. ASSUME k = pos[c], f = 0, Stage(c)' = 1 PROVE ~Item(<<c[1], q>>, c[2], k, f) /\ ~Item(<<q, c[1]>>, c[2], k, f)
            BY <1>1, <1>6, <3>2, <3>5, ItemFacts
        <3>6. ASSUME k = pos[c], f = Stage(c)', Item(<<q, c[1]>>, c[2], k, f) PROVE sub'[c][q] = "todo"
            <4>1. c[1] \in Links(Op(c), Stage(c)', q)
                BY <1>1, <3>2, <3>6, ItemFacts
            <4> QED BY <1>6, <4>1
        <3>7. Item(<<c[1], q>>, c[2], k, f) => (Sent(<<c[1], q>>, c[2], k, f)' <=> Sent(<<c[1], q>>, c[2], k, f))
            BY <1>2, <3>3, <3>4, <3>5, SentUsed
        <3>8. Item(<<q, c[1]>>, c[2], k, f) => (Used(<<q, c[1]>>, c[2], k, f)' <=> Used(<<q, c[1]>>, c[2], k, f))
            BY <1>2, <3>3, <3>4, <3>5, <3>6, SentUsed
        <3> QED BY <3>7, <3>8
    <2> QED BY <1>2, <2>1, FlowOf
<1> QED BY <1>9, <1>11

(* Entering a call without graphs sends nothing and uses nothing. *)
LEMMA CallFlatFlow ==
    ASSUME CollInv, CollInv', TaskInv, NEW c \in Caller, CallFlat(c)
    PROVE  SameFlow /\ TaskInv'
<1>1. c[1] \in Peer /\ c[2] \in Thread /\ c = <<c[1], c[2]>>
    BY CallerFacts
<1>2. /\ phase[c] = "idle" /\ phase'[c] = "flat" /\ gi'[c] = 1 /\ pos' = pos
      /\ sub'[c] = Work(Senders(Op(c), c[1])) /\ out'[c] = Work(Receivers(Op(c), c[1]))
      /\ OthersStay(c)
    BY DEF CallFlat, Begin, CollInv, CallType, OthersStay
<1>3. Op(c)' = Op(c)
    BY <1>2, SameGraphs
<1>4. StageOK(c)' /\ pos[c] \in Nat
    BY <1>2, StageNext DEF CollInv, CallType
<1>5. Stage(c)' = 1 /\ Op(c).kind \in {"all_gather", "send_recv"}
    BY <1>2, <1>3, <1>4 DEF StageOK
<1>6. /\ \A q \in Peer : q # c[1] => (sub'[c][q] = "todo" <=> c[1] \in Links(Op(c), 1, q))
      /\ \A q \in Peer : q # c[1] => (out'[c][q] = "todo" <=> q \in Links(Op(c), 1, c[1]))
      /\ \A q \in Peer : sub'[c][q] \in {"todo", "none"} /\ out'[c][q] \in {"todo", "none"}
    BY <1>1, <1>2, <1>5, WorkType, FlatLinks
<1>7. out'[c][c[1]] = "none"
    BY DEF CollInv, CallInv, CallOK
<1>8. TaskOK(c)'
    BY <1>1, <1>2, <1>3, <1>5, <1>6, <1>7 DEF TaskOK
<1>9. TaskInv'
    BY <1>2, <1>8, TasksKept
<1>10. At(c) = 2 * pos[c] + 0 /\ At(c)' = 2 * pos[c] + 1
    BY <1>2, <1>5, AtFacts
<1>11. SameFlow
    <2>1. ASSUME NEW q \in Peer, NEW f \in {0, 1}, NEW k \in Rounds(c[2]), q # c[1]
          PROVE  /\ Item(<<c[1], q>>, c[2], k, f) =>
                        (Sent(<<c[1], q>>, c[2], k, f)' <=> Sent(<<c[1], q>>, c[2], k, f))
                 /\ Item(<<q, c[1]>>, c[2], k, f) =>
                        (Used(<<q, c[1]>>, c[2], k, f)' <=> Used(<<q, c[1]>>, c[2], k, f))
        <3>1. k \in Nat
            BY <1>1, ItemFacts
        <3>2. k = pos[c] => Program[c[2]][k] = Op(c)
            BY DEF Op
        <3>3. 2 * k + f < At(c)' <=> 2 * k + f < At(c) \/ (k = pos[c] /\ f = 0)
            BY <1>4, <1>10, <3>1
        <3>4. 2 * k + f = At(c)' <=> (k = pos[c] /\ f = 1)
            BY <1>4, <1>10, <3>1
        <3>5. ASSUME k = pos[c], f = 0 PROVE ~Item(<<c[1], q>>, c[2], k, f) /\ ~Item(<<q, c[1]>>, c[2], k, f)
            BY <1>1, <1>5, <3>2, <3>5, ItemFacts
        <3>6. ASSUME k = pos[c], f = 1, Item(<<q, c[1]>>, c[2], k, f) PROVE sub'[c][q] = "todo"
            <4>1. c[1] \in Links(Op(c), 1, q)
                BY <1>1, <3>2, <3>6, ItemFacts
            <4> QED BY <1>6, <2>1, <4>1
        <3>7. ASSUME k = pos[c], f = 1, Item(<<c[1], q>>, c[2], k, f) PROVE out'[c][q] = "todo"
            <4>1. q \in Links(Op(c), 1, c[1])
                BY <1>1, <3>2, <3>7, ItemFacts
            <4> QED BY <1>6, <2>1, <4>1
        <3>8. Item(<<c[1], q>>, c[2], k, f) => (Sent(<<c[1], q>>, c[2], k, f)' <=> Sent(<<c[1], q>>, c[2], k, f))
            BY <1>2, <3>3, <3>4, <3>5, <3>7, SentUsed
        <3>9. Item(<<q, c[1]>>, c[2], k, f) => (Used(<<q, c[1]>>, c[2], k, f)' <=> Used(<<q, c[1]>>, c[2], k, f))
            BY <1>2, <3>3, <3>4, <3>5, <3>6, SentUsed
        <3> QED BY <3>8, <3>9
    <2> QED BY <1>2, <2>1, FlowOf
<1> QED BY <1>9, <1>11

(* A caller that stays in its stage and neither sends nor uses an item. *)
LEMMA StayFlow ==
    ASSUME NEW c \in Caller, OthersStay(c), UNCHANGED <<pos, phase, gi>>
    PROVE  /\ Op(c)' = Op(c) /\ Stage(c)' = Stage(c) /\ At(c)' = At(c)
           /\ (\A q \in Peer : q # c[1] => /\ out'[c][q] = "todo" <=> out[c][q] = "todo"
                                           /\ sub'[c][q] = "none" <=> sub[c][q] = "none")
              => SameFlow
<1>1. Op(c)' = Op(c) /\ Graphs(Op(c))' = Graphs(Op(c))
    BY SameGraphs
<1>2. Stage(c)' = Stage(c)
    BY <1>1 DEF Stage, Reduces, Graph
<1>3. At(c)' = At(c)
    BY <1>2 DEF At
<1>4. ASSUME \A q \in Peer : q # c[1] => /\ out'[c][q] = "todo" <=> out[c][q] = "todo"
                                         /\ sub'[c][q] = "none" <=> sub[c][q] = "none"
      PROVE  SameFlow
    <2>1. ASSUME NEW q \in Peer, NEW f \in {0, 1}, NEW k \in Rounds(c[2]), q # c[1]
          PROVE  /\ Sent(<<c[1], q>>, c[2], k, f)' <=> Sent(<<c[1], q>>, c[2], k, f)
                 /\ Used(<<q, c[1]>>, c[2], k, f)' <=> Used(<<q, c[1]>>, c[2], k, f)
        BY <1>3, <1>4, <2>1, SentUsed
    <2> QED BY <2>1, FlowOf
<1> QED BY <1>1, <1>2, <1>3, <1>4

(* all_gather's own part goes over no connection. *)
LEMMA GatherOwnFlow ==
    ASSUME CollInv, TaskInv, NEW c \in Caller, GatherOwn(c)
    PROVE  SameFlow /\ TaskInv'
<1>1. c[1] \in Peer /\ UNCHANGED <<pos, phase, gi, out>>
    BY CallerFacts DEF GatherOwn
<1>2. sub[c] \in [Peer -> {"none", "todo", "posted"}]
    BY DEF CollInv, CallType
<1>3. sub'[c] = [sub[c] EXCEPT ![c[1]] = "none"] /\ OthersStay(c)
    BY <1>1 DEF GatherOwn, CollInv, CallType, OthersStay
<1>4. \A q \in Peer : q # c[1] => sub'[c][q] = sub[c][q]
    BY <1>2, <1>3
<1>5. sub'[c][c[1]] = "none"
    BY <1>1, <1>2, <1>3
<1>6. Op(c)' = Op(c) /\ Stage(c)' = Stage(c) /\ SameFlow
    BY <1>1, <1>3, <1>4, StayFlow
<1>7. TaskOK(c)'
    BY <1>1, <1>4, <1>5, <1>6 DEF TaskInv, TaskOK
<1> QED BY <1>3, <1>6, <1>7, TasksKept

(* A message counts as sent from SendBegin on. *)
LEMMA SendEndFlow ==
    ASSUME CollInv, TaskInv, NEW c \in Caller, NEW q \in Peer, SendEnd(c, q)
    PROVE  SameFlow /\ TaskInv'
<1>1. c[1] \in Peer /\ UNCHANGED <<pos, phase, gi, sub>> /\ out[c][q] = "sending"
    BY CallerFacts DEF SendEnd
<1>2. out[c] \in [Peer -> {"none", "todo", "sending"}]
    BY DEF CollInv, CallType
<1>3. out'[c] = [out[c] EXCEPT ![q] = "none"] /\ OthersStay(c)
    BY <1>1 DEF SendEnd, CollInv, CallType, OthersStay
<1>4. \A r \in Peer : r # q => out'[c][r] = out[c][r]
    BY <1>2, <1>3
<1>5. out'[c][q] = "none"
    BY <1>2, <1>3
<1>6. \A r \in Peer : out'[c][r] = "todo" <=> out[c][r] = "todo"
    BY <1>1, <1>4, <1>5
<1>7. Op(c)' = Op(c) /\ Stage(c)' = Stage(c) /\ SameFlow
    BY <1>1, <1>3, <1>6, StayFlow
<1>8. TaskOK(c)'
    BY <1>1, <1>4, <1>5, <1>7 DEF TaskInv, TaskOK
<1> QED BY <1>3, <1>7, <1>8, TasksKept

(* A posted buffer is still waited for. *)
LEMMA PostRecvFlow ==
    ASSUME CollInv, TaskInv, NEW c \in Caller, NEW q \in Peer, PostRecv(c, q)
    PROVE  SameFlow /\ TaskInv'
<1>1. /\ c[1] \in Peer /\ UNCHANGED <<pos, phase, gi, out>> /\ sub[c][q] = "todo" /\ q # c[1]
      /\ phase[c] # "idle" /\ ~Reduces(c)
    BY CallerFacts DEF PostRecv
<1>2. sub[c] \in [Peer -> {"none", "todo", "posted"}]
    BY DEF CollInv, CallType
<1>3. sub'[c] = [sub[c] EXCEPT ![q] = "posted"] /\ OthersStay(c)
    BY <1>1 DEF PostRecv, CollInv, CallType, OthersStay
<1>4. \A r \in Peer : r # q => sub'[c][r] = sub[c][r]
    BY <1>2, <1>3
<1>5. sub'[c][q] = "posted"
    BY <1>2, <1>3
<1>6. \A r \in Peer : sub'[c][r] = "none" <=> sub[c][r] = "none"
    BY <1>1, <1>4, <1>5
<1>7. Op(c)' = Op(c) /\ Stage(c)' = Stage(c) /\ SameFlow
    BY <1>1, <1>3, <1>6, StayFlow
<1>8. Stage(c) = 1
    BY <1>1 DEF Stage
<1>9. TaskOK(c)'
    <2>1. TaskOK(c)
        BY DEF TaskInv
    <2>2. ASSUME NEW r \in Peer
          PROVE  /\ phase'[c] = "recv" => out'[c][r] = "none"
                 /\ out'[c][r] # "none" => r \in Links(Op(c)', Stage(c)', c[1])
                 /\ sub'[c][r] # "none" /\ r # c[1] => c[1] \in Links(Op(c)', Stage(c)', r)
                 /\ sub'[c][r] = "posted" => Stage(c)' = 1 /\ r # c[1]
        BY <1>1, <1>4, <1>5, <1>6, <1>7, <1>8, <2>1 DEF TaskOK
    <2> QED BY <2>2 DEF TaskOK
<1> QED BY <1>3, <1>7, <1>9, TasksKept

(* Going on from receiving to sending sends nothing yet. *)
LEMMA RecvDoneFlow ==
    ASSUME CollInv, CollInv', TaskInv, NEW c \in Caller, RecvDone(c)
    PROVE  SameFlow /\ TaskInv'
<1>1. c[1] \in Peer /\ c[2] \in Thread /\ c = <<c[1], c[2]>>
    BY CallerFacts
<1>2. /\ phase[c] = "recv" /\ phase'[c] = "send" /\ UNCHANGED <<pos, gi, sub>>
      /\ out'[c] = Work(Nexts(Graph(c), c[1]))
      /\ OthersStay(c)
      /\ \A q \in Peer : sub[c][q] = "none"
    BY DEF RecvDone, CollInv, CallType, OthersStay
<1>3. Op(c)' = Op(c) /\ Graphs(Op(c))' = Graphs(Op(c))
    BY <1>2, SameGraphs
<1>4. StageOK(c) /\ pos[c] \in Nat
    BY <1>2, StageFacts DEF CollInv, CallType
<1>5. Stage(c)' = Stage(c)
    BY <1>2, <1>3 DEF Stage, Reduces, Graph
<1>6. /\ Stage(c) \in {0, 1}
      /\ \A q \in Peer : out'[c][q] = "todo" <=> q \in Links(Op(c), Stage(c), c[1])
      /\ \A q \in Peer : out'[c][q] \in {"todo", "none"}
    BY <1>2, <1>4, WorkType DEF StageOK
<1>7. TaskOK(c)'
    BY <1>2, <1>3, <1>5, <1>6 DEF TaskOK
<1>8. TaskInv'
    BY <1>2, <1>7, TasksKept
<1>9. At(c)' = At(c) /\ At(c) = 2 * pos[c] + Stage(c)
    BY <1>2, <1>5, AtFacts
<1>10. SameFlow
    <2>1. ASSUME NEW q \in Peer, NEW f \in {0, 1}, NEW k \in Rounds(c[2]), q # c[1]
          PROVE  /\ Item(<<c[1], q>>, c[2], k, f) =>
                        (Sent(<<c[1], q>>, c[2], k, f)' <=> Sent(<<c[1], q>>, c[2], k, f))
                 /\ Used(<<q, c[1]>>, c[2], k, f)' <=> Used(<<q, c[1]>>, c[2], k, f)
        <3>1. k \in Nat
            BY <1>1, ItemFacts
        <3>2. k = pos[c] => Program[c[2]][k] = Op(c)
            BY DEF Op
        <3>3. 2 * k + f = At(c) <=> (k = pos[c] /\ f = Stage(c))
            <4>1. CASE Stage(c) = 0
                BY <1>4, <1>9, <3>1, <4>1
            <4>2. CASE Stage(c) = 1
                BY <1>4, <1>9, <3>1, <4>2
            <4> QED BY <1>6, <4>1, <4>2
        <3>4. ASSUME k = pos[c], f = Stage(c), Item(<<c[1], q>>, c[2], k, f) PROVE out'[c][q] = "todo"
            <4>1. q \in Links(Op(c), Stage(c), c[1])
                BY <1>1, <3>2, <3>4, ItemFacts
            <4> QED BY <1>6, <4>1
        <3> QED BY <1>2, <1>9, <3>3, <3>4, SentUsed
    <2> QED BY <1>2, <2>1, FlowOf
<1> QED BY <1>8, <1>10

(* A stage ends when all its items are sent and used; the next one has not *)
(* begun.                                                                  *)
LEMMA SendDoneFlow ==
    ASSUME CollInv, CollInv', TaskInv, NEW c \in Caller, SendDone(c)
    PROVE  SameFlow /\ TaskInv'
<1>1. c[1] \in Peer /\ c[2] \in Thread /\ c = <<c[1], c[2]>>
    BY CallerFacts
<1>2. /\ phase[c] \in {"send", "flat"} /\ out' = out /\ OthersStay(c)
      /\ \A q \in Peer : sub[c][q] = "none" /\ out[c][q] = "none"
      /\ \/ /\ gi[c] < Len(Graphs(Op(c))) /\ pos' = pos
            /\ phase'[c] = "recv" /\ gi'[c] = gi[c] + 1
            /\ sub'[c] = Work(Prevs(Graphs(Op(c))[gi[c] + 1], c[1]))
         \/ /\ ~(gi[c] < Len(Graphs(Op(c)))) /\ pos'[c] = pos[c] + 1
            /\ phase'[c] = "idle" /\ gi' = gi /\ sub' = sub
    BY DEF SendDone, CollInv, CallType, OthersStay
<1>3. StageOK(c) /\ pos[c] \in Nat /\ Stage(c) \in {0, 1} /\ At(c) = 2 * pos[c] + Stage(c)
    BY <1>2, StageFacts, AtFacts DEF CollInv, CallType, StageOK
<1>4. CASE gi[c] < Len(Graphs(Op(c)))
    <2>1. /\ pos' = pos /\ phase'[c] = "recv" /\ gi'[c] = gi[c] + 1
          /\ sub'[c] = Work(Prevs(Graphs(Op(c))[gi[c] + 1], c[1]))
        BY <1>2, <1>4
    <2>2. phase[c] = "send"
        <3>1. ASSUME phase[c] = "flat" PROVE FALSE
            <4>1. Graphs(Op(c)) = <<>> /\ gi[c] \in {1, 2}
                BY <3>1 DEF CollInv, CallInv, CallOK, CallType
            <4> QED BY <1>4, <4>1
        <3> QED BY <1>2, <3>1
    <2>3. Stage(c) = 0 /\ gi[c] = 1
        BY <1>3, <1>4, <2>2 DEF StageOK
    <2>4. Op(c)' = Op(c) /\ Graphs(Op(c))' = Graphs(Op(c))
        BY <2>1, SameGraphs
    <2>5. StageOK(c)'
        BY <2>1, StageNext
    <2>6. Graph(c)' = Graphs(Op(c))[gi[c] + 1]
        BY <2>1, <2>4 DEF Graph
    <2>7. Stage(c)' = 1
        BY <2>1, <2>3, <2>5 DEF StageOK
    <2>8. /\ \A q \in Peer : sub'[c][q] = "todo" <=> c[1] \in Links(Op(c), 1, q)
          /\ \A q \in Peer : sub'[c][q] \in {"todo", "none"}
        <3>1. \A q \in Peer : q \in Prevs(Graph(c)', c[1]) <=> c[1] \in Links(Op(c)', Stage(c)', q)
            BY <2>1, <2>5 DEF StageOK
        <3> QED BY <2>1, <2>4, <2>6, <2>7, <3>1, WorkType
    <2>9. TaskOK(c)'
        BY <1>2, <2>1, <2>4, <2>7, <2>8 DEF TaskOK
    <2>10. TaskInv'
        BY <1>2, <2>9, TasksKept
    <2>11. At(c)' = 2 * pos[c] + 1 /\ At(c) = 2 * pos[c] + 0
        BY <1>3, <2>1, <2>3, <2>7, AtFacts
    <2>12. SameFlow
        <3>1. ASSUME NEW q \in Peer, NEW f \in {0, 1}, NEW k \in Rounds(c[2]), q # c[1]
              PROVE  /\ Sent(<<c[1], q>>, c[2], k, f)' <=> Sent(<<c[1], q>>, c[2], k, f)
                     /\ Item(<<q, c[1]>>, c[2], k, f) =>
                        (Used(<<q, c[1]>>, c[2], k, f)' <=> Used(<<q, c[1]>>, c[2], k, f))
            <4>1. k \in Nat
                BY <1>1, ItemFacts
            <4>2. k = pos[c] => Program[c[2]][k] = Op(c)
                BY DEF Op
            <4>3. 2 * k + f < At(c)' <=> 2 * k + f < At(c) \/ (2 * k + f = At(c))
                BY <1>3, <2>11, <4>1
            <4>4. 2 * k + f = At(c)' <=> (k = pos[c] /\ f = 1)
                BY <1>3, <2>11, <4>1
            <4>5. ASSUME k = pos[c], f = 1, Item(<<q, c[1]>>, c[2], k, f) PROVE sub'[c][q] = "todo"
                <5>1. c[1] \in Links(Op(c), 1, q)
                    BY <1>1, <4>2, <4>5, ItemFacts
                <5> QED BY <2>8, <5>1
            <4> QED BY <1>2, <2>1, <4>3, <4>4, <4>5, SentUsed
        <3> QED BY <1>2, <3>1, FlowOf
    <2> QED BY <2>10, <2>12
<1>5. CASE ~(gi[c] < Len(Graphs(Op(c))))
    <2>1. pos'[c] = pos[c] + 1 /\ phase'[c] = "idle" /\ gi' = gi /\ sub' = sub
        BY <1>2, <1>5
    <2>2. Stage(c) = 1
        BY <1>2, <1>3, <1>5 DEF StageOK
    <2>3. TaskOK(c)'
        BY <1>2, <2>1 DEF TaskOK
    <2>4. TaskInv'
        BY <1>2, <2>3, TasksKept
    <2>5. At(c)' = 2 * (pos[c] + 1) + 0 /\ At(c) = 2 * pos[c] + 1
        BY <1>3, <2>1, <2>2, AtFacts
    <2>6. SameFlow
        <3>1. ASSUME NEW q \in Peer, NEW f \in {0, 1}, NEW k \in Rounds(c[2]), q # c[1]
              PROVE  /\ Sent(<<c[1], q>>, c[2], k, f)' <=> Sent(<<c[1], q>>, c[2], k, f)
                     /\ Used(<<q, c[1]>>, c[2], k, f)' <=> Used(<<q, c[1]>>, c[2], k, f)
            <4>1. k \in Nat
                BY <1>1, ItemFacts
            <4>2. 2 * k + f < At(c)' <=> 2 * k + f < At(c) \/ (2 * k + f = At(c))
                BY <1>3, <2>5, <4>1
            <4> QED BY <1>2, <2>1, <4>2, SentUsed
        <3> QED BY <1>2, <3>1, FlowOf
    <2> QED BY <2>4, <2>6
<1> QED BY <1>4, <1>5

----------------------------------------------------------------------------
(* The steps that move no item *)

(* A caller that has posted a buffer waits for the item of its stage. *)
LEMMA PostedFacts ==
    ASSUME CollInv, TaskInv, NEW c \in Caller, NEW q \in Peer, sub[c][q] = "posted"
    PROVE  /\ phase[c] \in {"recv", "flat"} /\ Stage(c) = 1 /\ q # c[1] /\ <<q, c[1]>> \in Conn
           /\ pos[c] \in Rounds(c[2]) /\ At(c) = 2 * pos[c] + 1
           /\ Item(<<q, c[1]>>, c[2], pos[c], 1) /\ ~Used(<<q, c[1]>>, c[2], pos[c], 1)
           /\ Op(c) = Program[c[2]][pos[c]] /\ Op(c).name \in Name
<1>1. c[1] \in Peer /\ c[2] \in Thread /\ c = <<c[1], c[2]>>
    BY CallerFacts
<1>2. phase[c] \in {"recv", "flat"}
    BY DEF CollInv, CallType, CallInv, CallOK
<1>3. Stage(c) = 1 /\ q # c[1] /\ c[1] \in Links(Op(c), 1, q)
    BY DEF TaskInv, TaskOK
<1>4. pos[c] \in Rounds(c[2]) /\ Op(c).name \in Name
    BY <1>2, StageFacts DEF StageOK
<1>5. At(c) = 2 * pos[c] + 1 /\ pos[c] \in Nat
    BY <1>2, <1>3, AtFacts DEF CollInv, CallType
<1>6. Op(c) = Program[c[2]][pos[c]]
    BY DEF Op
<1>7. Item(<<q, c[1]>>, c[2], pos[c], 1)
    BY <1>1, <1>3, <1>4, <1>6, ItemFacts
<1>8. ~Used(<<q, c[1]>>, c[2], pos[c], 1)
    <2>1. PICK k \in Nat : k = pos[c]
        BY <1>5
    <2>2. Used(<<q, c[1]>>, c[2], k, 1) <=>
             (2 * k + 1 < At(c) \/ (2 * k + 1 = At(c) /\ phase[c] # "idle" /\ sub[c][q] = "none"))
        BY SentUsed
    <2>3. ~Used(<<q, c[1]>>, c[2], k, 1)
        BY <1>5, <2>1, <2>2
    <2> QED BY <2>1, <2>3
<1> QED BY <1>1, <1>2, <1>3, <1>4, <1>5, <1>6, <1>7, <1>8, CallerFacts

(* What Filled says of a connection, in terms of its receiver. *)
LEMMA FilledFacts ==
    ASSUME CollInv, TaskInv, NEW e \in Conn, NEW t \in Thread, Filled(e, t)
    PROVE  /\ pos[<<e[2], t>>] \in Rounds(t) /\ Item(e, t, pos[<<e[2], t>>], 1)
           /\ ~Used(e, t, pos[<<e[2], t>>], 1)
<1>1. e[1] \in Peer /\ e[2] \in Peer /\ e = <<e[1], e[2]>>
    BY CallerFacts
<1>2. PICK c \in Caller : c = <<e[2], t>>
    BY <1>1, CallerFacts
<1>3. c[1] = e[2] /\ c[2] = t /\ sub[c][e[1]] = "posted"
    BY <1>2 DEF Filled
<1>4. /\ pos[c] \in Rounds(c[2]) /\ Item(<<e[1], c[1]>>, c[2], pos[c], 1)
      /\ ~Used(<<e[1], c[1]>>, c[2], pos[c], 1)
    BY <1>1, <1>3, PostedFacts
<1> QED BY <1>1, <1>2, <1>3, <1>4

(* A buffer in a handler or in recvQ is one that its owner waits for. *)
LEMMA HeldIsPosted ==
    ASSUME CollInv, NEW e \in Conn
    PROVE  /\ hand[e].st \in {"buf", "filled"} =>
                 /\ hand[e].ptr[1] \in Thread /\ hand[e].ptr \in Ptr
                 /\ sub[<<e[2], hand[e].ptr[1]>>][e[1]] = "posted"
                 /\ Op(<<e[2], hand[e].ptr[1]>>).name = hand[e].name
                 /\ hand[e].ptr[2] = Part(Op(<<e[2], hand[e].ptr[1]>>), e[1])
           /\ \A c \in Caller : /\ c[1] = e[2] /\ phase[c] # "idle"
                                /\ recvQ[<<e[2], e[1], Op(c).name>>] # <<>>
                                => sub[c][e[1]] = "posted"
<1>1. e[1] \in Peer /\ e[2] \in Peer
    BY CallerFacts
<1>2. ASSUME hand[e].st \in {"buf", "filled"}
      PROVE  /\ hand[e].ptr[1] \in Thread /\ hand[e].ptr \in Ptr
             /\ sub[<<e[2], hand[e].ptr[1]>>][e[1]] = "posted"
             /\ Op(<<e[2], hand[e].ptr[1]>>).name = hand[e].name
             /\ hand[e].ptr[2] = Part(Op(<<e[2], hand[e].ptr[1]>>), e[1])
    <2>1. hand[e].name \in Name /\ hand[e].ptr \in Ptr
        BY <1>2, HandStates
    <2>2. PICK b \in Box : b = <<e[2], e[1], hand[e].name>>
        BY <1>1, <2>1, BoxFacts
    <2>3. PICK t \in Owners(b) : hand[e].ptr = <<t, Part(Op(<<b[1], t>>), b[2])>>
        BY <1>2, <2>2, HeldBuffer
    <2>4. hand[e].ptr[1] = t /\ hand[e].ptr[2] = Part(Op(<<b[1], t>>), b[2]) /\ b[1] = e[2] /\ b[2] = e[1] /\ b[3] = hand[e].name
        BY <2>2, <2>3
    <2> QED BY <2>1, <2>3, <2>4 DEF Owners
<1>3. ASSUME NEW c \in Caller, c[1] = e[2], phase[c] # "idle", recvQ[<<e[2], e[1], Op(c).name>>] # <<>>
      PROVE  sub[c][e[1]] = "posted"
    <2>1. Op(c).name \in Name /\ c = <<c[1], c[2]>>
        BY <1>3, StageFacts, CallerFacts DEF StageOK
    <2>2. PICK b \in Box : b = <<e[2], e[1], Op(c).name>>
        BY <1>1, <2>1, BoxFacts
    <2>3. recvQ[b] \in Seq(Ptr) /\ Len(recvQ[b]) <= 1 /\ recvQ[b] # <<>>
        BY <1>3, <2>2 DEF CollInv, BoxType
    <2>4. PICK x : recvQ[b] = <<x>>
        BY <2>3, ShortSeq
    <2>5. <<"recvQ", x>> \in Holders(b)
        BY <2>4, QueueHolds, HoldersAre
    <2>6. PICK t \in Owners(b) : TRUE
        BY <2>5, OnePlace
    <2>7. t \in Owners(<<c[1], e[1], Op(c).name>>)
        BY <1>3, <2>2, <2>6
    <2>8. t = c[2]
        BY <1>1, <1>3, <2>7, OneOwner
    <2>9. sub[<<b[1], t>>][b[2]] = "posted" /\ b[1] = c[1] /\ b[2] = e[1]
        BY <1>3, <2>2, <2>6 DEF Owners
    <2> QED BY <2>1, <2>8, <2>9
<1> QED BY <1>2, <1>3

(* A step leaves the items of connection e where they are. *)
LEMMA ConnFrame ==
    ASSUME CollInv, TaskInv, NEW e \in Conn, ConnOK(e),
           net'[e] = net[e], hand'[e] = hand[e],
           \A n \in Name : mail'[<<e[2], e[1], n>>] = mail[<<e[2], e[1], n>>],
           \A t \in Thread, f \in {0, 1} : \A k \in Rounds(t) : Item(e, t, k, f) =>
              /\ Sent(e, t, k, f)' <=> Sent(e, t, k, f)
              /\ Used(e, t, k, f)' <=> Used(e, t, k, f),
           \A t \in Thread : Filled(e, t)' <=> Filled(e, t),
           \A t \in Thread : sub[<<e[2], t>>][e[1]] = "posted" => pos'[<<e[2], t>>] = pos[<<e[2], t>>]
    PROVE  ConnOK(e)'
<1>1. \A t \in Thread, f \in {0, 1} : \A k \in Rounds(t) :
         InTransit(e, t, k, f)' <=> InTransit(e, t, k, f)
    BY DEF InTransit, Item
<1>2. UsedOK(e)'
    BY DEF ConnOK, UsedOK, Item
<1>3. NetOK(e)'
    BY <1>1 DEF ConnOK, NetOK
<1>4. OrderOK(e)'
    BY DEF ConnOK, OrderOK
<1>5. HandOK(e)'
    BY <1>1 DEF ConnOK, HandOK
<1>6. BoxOK(e)'
    <2> SUFFICES ASSUME NEW n \in Name, mail[<<e[2], e[1], n>>] # <<>>
                 PROVE  \E t \in Thread : \E k \in Rounds(t) :
                            /\ n = Program[t][k].name /\ Carries(Head(mail[<<e[2], e[1], n>>]), t, k)
                            /\ InTransit(e, t, k, 0)'
        BY DEF BoxOK
    <2> QED BY <1>1 DEF ConnOK, BoxOK
<1>7. /\ \A t, k, f : Wire(e, t, k, f)' <=> Wire(e, t, k, f)
      /\ \A t, k : Held(e, t, k)' <=> Held(e, t, k)
      /\ \A t \in Thread : \A k \in Rounds(t) : Boxed(e, t, k)' <=> Boxed(e, t, k)
    BY ItemFacts DEF Wire, Held, Boxed
<1>8. OnceOK(e)'
    BY <1>7 DEF ConnOK, OnceOK
<1>9. \A t \in Thread : Filled(e, t) => pos'[<<e[2], t>>] = pos[<<e[2], t>>]
    BY DEF Filled
<1>10. BodyOK(e)'
    BY <1>1, <1>7, <1>9 DEF ConnOK, BodyOK
<1>11. SlotOK(e)'
    <2> SUFFICES ASSUME NEW t \in Thread, NEW k \in Rounds(t), Filled(e, t)', k = pos'[<<e[2], t>>]
                 PROVE  Sent(e, t, k, 1)' /\ ~Wire(e, t, k, 1)'
        BY DEF SlotOK
    <2>1. Filled(e, t) /\ k = pos[<<e[2], t>>]
        BY <1>9
    <2>2. Sent(e, t, k, 1) /\ ~Wire(e, t, k, 1)
        BY <2>1 DEF ConnOK, SlotOK
    <2>3. Item(e, t, k, 1)
        BY <2>1, FilledFacts
    <2> QED BY <1>7, <2>2, <2>3
<1>12. BufOK(e)'
    <2>1. ASSUME hand[e].st = "buf"
          PROVE  pos'[<<e[2], hand[e].ptr[1]>>] = pos[<<e[2], hand[e].ptr[1]>>]
        BY <2>1, HeldIsPosted
    <2> QED BY <2>1 DEF ConnOK, BufOK
<1> QED BY <1>2, <1>3, <1>4, <1>5, <1>6, <1>8, <1>10, <1>11, <1>12 DEF ConnOK

(* A step that moves no item. *)
LEMMA QuietFlow ==
    ASSUME CollInv, FlowInv, SameFlow, UNCHANGED <<net, hand, mail>>,
           \A e \in Conn, t \in Thread : Filled(e, t)' <=> Filled(e, t),
           \A e \in Conn, t \in Thread :
              sub[<<e[2], t>>][e[1]] = "posted" => pos'[<<e[2], t>>] = pos[<<e[2], t>>]
    PROVE  PlacesInv'
<1>1. SelfBoxInv'
    BY DEF FlowInv, PlacesInv, SelfBoxInv
<1>2. ASSUME NEW e \in Conn PROVE ConnOK(e)'
    <2>1. ConnOK(e) /\ TaskInv
        BY DEF FlowInv, PlacesInv
    <2>2. \A t \in Thread, f \in {0, 1} : \A k \in Rounds(t) : Item(e, t, k, f) =>
              /\ Sent(e, t, k, f)' <=> Sent(e, t, k, f)
              /\ Used(e, t, k, f)' <=> Used(e, t, k, f)
        BY DEF SameFlow
    <2> QED BY <2>1, <2>2, ConnFrame
<1> QED BY <1>1, <1>2 DEF PlacesInv

(* A step of a caller that sends nothing, uses nothing and posts nothing that *)
(* a handler has already.                                                     *)
LEMMA QuietCaller ==
    ASSUME CollInv, FlowInv, NEW c \in Caller, OthersStay(c), SameFlow, UNCHANGED <<net, hand, mail, recvQ>>,
           \A q \in Peer : /\ sub[c][q] = "posted" => sub'[c][q] = "posted"
                           /\ sub'[c][q] = "posted" => sub[c][q] = "posted" \/ (phase[c] # "idle" /\ pos'[c] = pos[c])
                           /\ sub[c][q] = "posted" => pos'[c] = pos[c]
    PROVE  PlacesInv'
<1>1. ASSUME NEW e \in Conn, NEW t \in Thread
      PROVE  /\ Filled(e, t)' <=> Filled(e, t)
             /\ sub[<<e[2], t>>][e[1]] = "posted" => pos'[<<e[2], t>>] = pos[<<e[2], t>>]
    <2>1. e[1] \in Peer /\ e[2] \in Peer /\ <<e[2], t>> \in Caller
        BY CallerFacts
    <2>2. CASE <<e[2], t>> # c
        <3> DEFINE d == <<e[2], t>>
        <3>1. pos'[d] = pos[d] /\ sub'[d] = sub[d]
            BY <2>1, <2>2 DEF OthersStay
        <3>2. Op(d)' = Op(d)
            BY <3>1 DEF Op
        <3> QED BY <3>1, <3>2 DEF Filled
    <2>3. CASE <<e[2], t>> = c
        <3>1. c[1] = e[2] /\ c[2] = t
            BY <2>3
        <3>2. pos'[c] = pos[c] => Op(c)' = Op(c)
            BY DEF Op
        <3>3. ASSUME Filled(e, t) PROVE Filled(e, t)'
            <4>1. sub[c][e[1]] = "posted"
                BY <2>3, <3>3 DEF Filled
            <4>2. sub'[c][e[1]] = "posted" /\ Op(c)' = Op(c)
                BY <2>1, <3>2, <4>1
            <4> QED BY <2>3, <3>3, <4>2 DEF Filled
        <3>4. ASSUME Filled(e, t)' PROVE Filled(e, t)
            <4>1. sub'[c][e[1]] = "posted"
                BY <2>3, <3>4 DEF Filled
            <4>2. Op(c)' = Op(c)
                BY <2>1, <3>2, <4>1
            <4>3. \/ hand[e].st = "filled" /\ hand[e].ptr[1] = t
                  \/ recvQ[<<e[2], e[1], Op(c).name>>] # <<>>
                BY <2>3, <3>4, <4>2 DEF Filled
            <4>4. sub[c][e[1]] = "posted"
                <5>1. CASE hand[e].st = "filled" /\ hand[e].ptr[1] = t
                    BY <2>3, <5>1, HeldIsPosted
                <5>2. CASE recvQ[<<e[2], e[1], Op(c).name>>] # <<>>
                    <6>1. sub[c][e[1]] = "posted" \/ phase[c] # "idle"
                        BY <2>1, <4>1
                    <6> QED BY <3>1, <5>2, <6>1, HeldIsPosted
                <5> QED BY <4>3, <5>1, <5>2
            <4> QED BY <2>3, <4>3, <4>4 DEF Filled
        <3> QED BY <2>1, <2>3, <3>3, <3>4
    <2> QED BY <2>2, <2>3
<1> QED BY <1>1, QuietFlow

(* The steps of a caller that move no item. *)
LEMMA QuietSteps ==
    ASSUME CollInv, CollInv', FlowInv, NEW c \in Caller,
           \/ Call(c) \/ CallFlat(c) \/ GatherOwn(c) \/ RecvDone(c) \/ SendDone(c)
           \/ \E q \in Peer : PostRecv(c, q) \/ SendEnd(c, q)
    PROVE  TaskInv' /\ PlacesInv'
<1>0. TaskInv /\ CallType /\ c[1] \in Peer
    BY CallerFacts DEF FlowInv, CollInv
<1>1. ASSUME phase[c] \in {"idle", "send"} \/ \A q \in Peer : sub[c][q] = "none"
      PROVE  \A q \in Peer : sub[c][q] = "none"
    BY <1>1 DEF CollInv, CallInv, CallOK
<1>2. CASE Call(c)
    <2>1. SameFlow /\ TaskInv'
        BY <1>0, <1>2, CallFlow
    <2>2. OthersStay(c) /\ UNCHANGED <<net, hand, mail, recvQ>> /\ phase[c] = "idle"
        BY <1>0, <1>2 DEF Call, Begin, CallType, OthersStay, netVars, boxVars
    <2>3. \A q \in Peer : sub[c][q] = "none" /\ sub'[c][q] # "posted"
        BY <1>0, <1>1, <1>2, <2>2, WorkType DEF Call, CallType
    <2> QED BY <2>1, <2>2, <2>3, QuietCaller
<1>3. CASE CallFlat(c)
    <2>1. SameFlow /\ TaskInv'
        BY <1>0, <1>3, CallFlatFlow
    <2>2. OthersStay(c) /\ UNCHANGED <<net, hand, mail, recvQ>> /\ phase[c] = "idle"
        BY <1>0, <1>3 DEF CallFlat, Begin, CallType, OthersStay, netVars, boxVars
    <2>3. \A q \in Peer : sub[c][q] = "none" /\ sub'[c][q] # "posted"
        BY <1>0, <1>1, <1>3, <2>2, WorkType DEF CallFlat, CallType
    <2> QED BY <2>1, <2>2, <2>3, QuietCaller
<1>4. CASE GatherOwn(c)
    <2>1. SameFlow /\ TaskInv'
        BY <1>0, <1>4, GatherOwnFlow
    <2>2. OthersStay(c) /\ UNCHANGED <<pos, net, hand, mail, recvQ>>
        BY <1>0, <1>4 DEF GatherOwn, CallType, OthersStay, netVars, boxVars
    <2>3. sub[c] \in [Peer -> {"none", "todo", "posted"}] /\ sub'[c] = [sub[c] EXCEPT ![c[1]] = "none"] /\ sub[c][c[1]] = "todo"
        BY <1>0, <1>4 DEF GatherOwn, CallType
    <2>4. \A q \in Peer : sub[c][q] = "posted" <=> sub'[c][q] = "posted"
        BY <2>3
    <2> QED BY <2>1, <2>2, <2>4, QuietCaller
<1>5. CASE RecvDone(c)
    <2>1. SameFlow /\ TaskInv'
        BY <1>0, <1>5, RecvDoneFlow
    <2>2. OthersStay(c) /\ UNCHANGED <<pos, sub, net, hand, mail, recvQ>>
        BY <1>0, <1>5 DEF RecvDone, CallType, OthersStay, netVars, boxVars
    <2> QED BY <2>1, <2>2, QuietCaller
<1>6. CASE SendDone(c)
    <2>1. SameFlow /\ TaskInv'
        BY <1>0, <1>6, SendDoneFlow
    <2>2. OthersStay(c) /\ UNCHANGED <<net, hand, mail, recvQ>> /\ \A q \in Peer : sub[c][q] = "none"
        BY <1>0, <1>6 DEF SendDone, CallType, OthersStay, netVars, boxVars
    <2>3. \A q \in Peer : sub'[c][q] # "posted"
        <3>1. sub' = sub \/ \E S : sub' = [sub EXCEPT ![c] = Work(S)]
            BY <1>6 DEF SendDone
        <3>2. CASE sub' = sub
            BY <2>2, <3>2
        <3>3. CASE \E S : sub' = [sub EXCEPT ![c] = Work(S)]
            BY <1>0, <3>3, WorkType DEF CallType
        <3> QED BY <3>1, <3>2, <3>3
    <2> QED BY <2>1, <2>2, <2>3, QuietCaller
<1>7. ASSUME NEW q \in Peer, PostRecv(c, q) PROVE TaskInv' /\ PlacesInv'
    <2>1. SameFlow /\ TaskInv'
        BY <1>0, <1>7, PostRecvFlow
    <2>2. OthersStay(c) /\ UNCHANGED <<pos, net, hand, mail, recvQ>> /\ phase[c] # "idle"
        BY <1>0, <1>7 DEF PostRecv, CallType, OthersStay, netVars, boxVars
    <2>3. sub[c] \in [Peer -> {"none", "todo", "posted"}] /\ sub'[c] = [sub[c] EXCEPT ![q] = "posted"] /\ sub[c][q] = "todo"
        BY <1>0, <1>7 DEF PostRecv, CallType
    <2>4. \A r \in Peer : sub[c][r] = "posted" => sub'[c][r] = "posted"
        BY <2>3
    <2> QED BY <2>1, <2>2, <2>4, QuietCaller
<1>8. ASSUME NEW q \in Peer, SendEnd(c, q) PROVE TaskInv' /\ PlacesInv'
    <2>1. SameFlow /\ TaskInv'
        BY <1>0, <1>8, SendEndFlow
    <2>2. OthersStay(c) /\ UNCHANGED <<pos, sub, net, hand, mail, recvQ>>
        BY <1>0, <1>8 DEF SendEnd, CallType, OthersStay, netVars, boxVars
    <2> QED BY <2>1, <2>2, QuietCaller
<1> QED BY <1>2, <1>3, <1>4, <1>5, <1>6, <1>7, <1>8

----------------------------------------------------------------------------
(* Who can be ahead of whom: the trees *)

(* Peer p has received all that it needs in stage f of call k. *)
DoneRecv(p, t, k, f) ==
    \/ 2 * k + f < At(<<p, t>>)
    \/ 2 * k + f = At(<<p, t>>) /\ phase[<<p, t>>] = "send"

(* In a graph a peer sends only after it has received, and it has received  *)
(* only what was sent to it.                                                *)
LEMMA DoneBefore ==
    ASSUME CollInv, UsedInv, NEW p \in Peer, NEW q \in Peer, p # q, NEW t \in Thread,
           NEW k \in Rounds(t), NEW f \in {0, 1}, Item(<<p, q>>, t, k, f),
           Program[t][k].kind \in {"all_reduce", "broadcast"}
    PROVE  /\ Sent(<<p, q>>, t, k, f) => DoneRecv(p, t, k, f)
           /\ DoneRecv(q, t, k, f) => Used(<<p, q>>, t, k, f)
           /\ DoneRecv(q, t, k, f) => DoneRecv(p, t, k, f)
<1>1. PICK c \in Caller, d \in Caller : c = <<p, t>> /\ d = <<q, t>>
    BY CallerFacts
<1>2. c[1] = p /\ c[2] = t /\ d[1] = q /\ d[2] = t /\ <<p, q>> \in Conn /\ k \in Nat
    BY <1>1, CallerFacts, ItemFacts
<1>3. ASSUME Sent(<<p, q>>, t, k, f) PROVE DoneRecv(p, t, k, f)
    <2>1. 2 * k + f < At(c) \/ (2 * k + f = At(c) /\ phase[c] \in {"send", "flat"})
        BY <1>1, <1>3 DEF Sent
    <2>2. ASSUME 2 * k + f = At(c), phase[c] = "flat" PROVE FALSE
        <3>1. StageOK(c) /\ pos[c] \in Nat
            BY <2>2, StageFacts DEF CollInv, CallType
        <3>2. Stage(c) = 1 /\ Op(c).kind \in {"all_gather", "send_recv"}
            BY <2>2, <3>1 DEF StageOK
        <3>3. At(c) = 2 * pos[c] + 1
            BY <2>2, <3>2, AtFacts
        <3>4. k = pos[c]
            BY <1>2, <2>2, <3>1, <3>3
        <3> QED BY <1>2, <3>2, <3>4 DEF Op
    <2> QED BY <1>1, <2>1, <2>2 DEF DoneRecv
<1>4. ASSUME DoneRecv(q, t, k, f) PROVE Used(<<p, q>>, t, k, f)
    <2>1. 2 * k + f < At(d) \/ (2 * k + f = At(d) /\ phase[d] = "send")
        BY <1>1, <1>4 DEF DoneRecv
    <2>2. phase[d] = "send" => sub[d][p] = "none"
        BY DEF CollInv, CallInv, CallOK
    <2>3. Used(<<p, d[1]>>, d[2], k, f)
        BY <2>1, <2>2, SentUsed
    <2> QED BY <1>2, <2>3
<1>5. ASSUME DoneRecv(q, t, k, f) PROVE DoneRecv(p, t, k, f)
    BY <1>2, <1>3, <1>4, <1>5 DEF UsedInv, UsedOK
<1> QED BY <1>3, <1>4, <1>5

(* The peers of a tree into the root have received before the root has. *)
LEMMA RootLast ==
    ASSUME CollInv, UsedInv, NEW t \in Thread, NEW k \in Rounds(t),
           Program[t][k].kind = "all_reduce", NEW g, NEW h, NEW r \in Peer,
           AllReduceGraphs(Program[t][k].name) = <<g, h>>, IsInTree(N, g, r),
           DoneRecv(r, t, k, 0), NEW q \in Peer
    PROVE  DoneRecv(q, t, k, 0)
<1> DEFINE S == {p \in Peer : DoneRecv(p, t, k, 0)}
<1>1. ASSUME NEW j \in S, NEW i \in Prevs(g, j) PROVE i \in S
    <2>1. j \in Nexts(g, i)
        BY <1>1, NextsPrevs
    <2>2. g.edges \subseteq Peer \X Peer
        BY Constants DEF IsInTree
    <2>3. i \in Peer
        BY <1>1, <2>2 DEF Prevs
    <2>4. Item(<<i, j>>, t, k, 0)
        <3>1. j \in Links(Program[t][k], 0, i)
            BY <2>1 DEF Links
        <3> QED BY <3>1, ItemFacts
    <2>5. i # j
        <3>1. \A e \in g.edges : e[1] # e[2]
            BY Constants, InTreeEdges
        <3> QED BY <2>1, <3>1 DEF Nexts
    <2> QED BY <2>3, <2>4, <2>5, DoneBefore
<1>2. S \in SUBSET Vertex(N) /\ r \in S /\ \A j \in S : Prevs(g, j) \subseteq S
    BY <1>1, Constants
<1>3. S = Vertex(N)
    <2> HIDE DEF S
    <2> QED BY <1>2 DEF IsInTree
<1> QED BY <1>3, Constants

(* The root of a broadcast has what it sends before any peer has it. *)
LEMMA RootFirst ==
    ASSUME CollInv, UsedInv, NEW t \in Thread, NEW k \in Rounds(t),
           Program[t][k].kind \in {"all_reduce", "broadcast"}, NEW h, NEW r \in Peer,
           \A p \in Peer : Links(Program[t][k], 1, p) = Nexts(h, p), IsOutTree(N, h, r),
           NEW q \in Peer, DoneRecv(q, t, k, 1)
    PROVE  DoneRecv(r, t, k, 1)
<1> DEFINE S == {p \in Peer : DoneRecv(p, t, k, 1) => DoneRecv(r, t, k, 1)}
           g == Reversed(h)
<1>1. \A i, j : i \in Prevs(g, j) => i \in Nexts(h, j) /\ i \in Peer
    <2>1. IsInTree(N, g, r)
        BY DEF IsOutTree
    <2>2. g.edges \subseteq Peer \X Peer
        BY <2>1, Constants DEF IsInTree
    <2>3. g.edges = {<<e[2], e[1]>> : e \in h.edges}
        BY DEF Reversed
    <2> SUFFICES ASSUME NEW i, NEW j, i \in Prevs(g, j) PROVE i \in Nexts(h, j) /\ i \in Peer
        OBVIOUS
    <2>4. PICK d \in g.edges : d[1] = i /\ d[2] = j
        BY DEF Prevs
    <2>5. PICK e \in h.edges : d = <<e[2], e[1]>>
        BY <2>3, <2>4
    <2> QED BY <2>2, <2>4, <2>5 DEF Nexts
<1>2. ASSUME NEW j \in S, NEW i \in Prevs(g, j) PROVE i \in S
    <2>1. i \in Nexts(h, j) /\ i \in Peer
        BY <1>1, <1>2
    <2>2. Item(<<j, i>>, t, k, 1)
        <3>1. i \in Links(Program[t][k], 1, j)
            BY <2>1
        <3> QED BY <3>1, ItemFacts
    <2>3. i # j
        <3>1. \A e \in h.edges : e[1] # e[2]
            BY Constants, OutTreeEdges
        <3> QED BY <2>1, <3>1 DEF Nexts
    <2> QED BY <2>1, <2>2, <2>3, DoneBefore
<1>3. S \in SUBSET Vertex(N) /\ r \in S /\ \A j \in S : Prevs(g, j) \subseteq S
    BY <1>2, Constants
<1>4. S = Vertex(N)
    <2>1. IsInTree(N, g, r)
        BY DEF IsOutTree
    <2> HIDE DEF S, g
    <2> QED BY <1>3, <2>1 DEF IsInTree
<1> QED BY <1>4, Constants

(* A peer that has received the result of an all_reduce leaves nobody behind *)
(* that has yet to receive what it sums up.                                  *)
LEMMA NobodyBehind ==
    ASSUME CollInv, UsedInv, NEW t \in Thread, NEW k \in Rounds(t),
           Program[t][k].kind = "all_reduce",
           NEW p \in Peer, DoneRecv(p, t, k, 1), NEW q \in Peer
    PROVE  DoneRecv(q, t, k, 0)
<1>1. PICK op : op = Program[t][k]
    OBVIOUS
<1>2. op.kind \in Kind /\ op.name \in Name /\ op.kind = "all_reduce" /\ k \in Nat
    BY <1>1, ItemFacts
<1>3. PICK g, h : \E r \in Peer : /\ AllReduceGraphs(op.name) = <<g, h>>
                                  /\ IsInTree(N, g, r) /\ IsOutTree(N, h, r)
    BY <1>2, GraphStages
<1>4. PICK r \in Peer : /\ AllReduceGraphs(op.name) = <<g, h>>
                        /\ IsInTree(N, g, r) /\ IsOutTree(N, h, r)
    BY <1>3
<1>5. \A i \in Peer : Links(op, 1, i) = Nexts(h, i)
    BY <1>2, <1>4 DEF Links
<1>6. DoneRecv(r, t, k, 1)
    BY <1>1, <1>2, <1>4, <1>5, RootFirst
<1>7. DoneRecv(r, t, k, 0)
    <2>1. <<r, t>> \in Caller
        BY CallerFacts
    <2>2. At(<<r, t>>) \in Int
        <3>1. pos[<<r, t>>] \in Nat /\ (phase[<<r, t>>] # "idle" => Stage(<<r, t>>) \in {0, 1})
            BY <2>1, StageFacts DEF CollInv, CallType, StageOK
        <3> QED BY <3>1 DEF At
    <2> QED BY <1>2, <1>6, <2>2 DEF DoneRecv
<1> QED BY <1>1, <1>2, <1>4, <1>7, RootLast

(* So a peer has at most one item of each connection and thread under way   *)
(* that the receiver is to add up.                                          *)
LEMMA OneToAdd ==
    ASSUME CollInv, UsedInv, NEW e \in Conn, NEW t \in Thread, NEW k \in Rounds(t), NEW l \in Rounds(t),
           InTransit(e, t, k, 0), InTransit(e, t, l, 0)
    PROVE  k = l
<1>1. ASSUME NEW m \in Rounds(t), NEW n \in Rounds(t), InTransit(e, t, m, 0), InTransit(e, t, n, 0), m < n
      PROVE  FALSE
    <2>1. e[1] \in Peer /\ e[2] \in Peer /\ e[1] # e[2] /\ e = <<e[1], e[2]>>
        BY CallerFacts
    <2>2. PICK c \in Caller : c = <<e[1], t>>
        BY <2>1, CallerFacts
    <2>3. c[1] = e[1] /\ c[2] = t /\ m \in Nat /\ n \in Nat
        BY <2>2, ItemFacts
    <2>5. 2 * n + 0 < At(c) \/ 2 * n + 0 = At(c)
        BY <1>1, <2>2 DEF InTransit, Sent
    <2>6. At(c) \in Int
        <3>1. pos[c] \in Nat /\ (phase[c] # "idle" => Stage(c) \in {0, 1})
            BY StageFacts DEF CollInv, CallType, StageOK
        <3> QED BY <3>1 DEF At
    <2>7. 2 * m + 1 < At(c)
        BY <1>1, <2>3, <2>5, <2>6
    <2>8. DoneRecv(e[1], t, m, 1)
        BY <2>2, <2>7 DEF DoneRecv
    <2>9. Item(e, t, m, 0) /\ Program[t][m].kind = "all_reduce"
        BY <1>1, ItemFacts DEF InTransit
    <2>10. DoneRecv(e[2], t, m, 0)
        BY <2>1, <2>8, <2>9, NobodyBehind
    <2>11. Used(<<e[1], e[2]>>, t, m, 0)
        BY <2>1, <2>9, <2>10, DoneBefore
    <2> QED BY <1>1, <2>1, <2>11 DEF InTransit
<1>2. k \in Nat /\ l \in Nat
    BY ItemFacts
<1> QED BY <1>1, <1>2

----------------------------------------------------------------------------
(* The steps that send and use items *)

(* The data of a message tells which call it belongs to, and its flag the    *)
(* stage.                                                                    *)
LEMMA CarriesOne ==
    ASSUME NEW d, NEW t, NEW k, NEW u, NEW l, Carries(d, t, k), Carries(d, u, l)
    PROVE  t = u /\ k = l
    BY DEF Carries

(* A message is for one item. *)
LEMMA ForOne ==
    ASSUME NEW m, NEW t, NEW k, NEW u, NEW l, NEW f \in {0, 1}, NEW g \in {0, 1},
           IsFor(m, t, k, f), IsFor(m, u, l, g)
    PROVE  t = u /\ k = l /\ f = g
<1>1. t = u /\ k = l
    BY CarriesOne DEF IsFor
<1>2. (f = 1) = (g = 1)
    BY DEF IsFor
<1> QED BY <1>1, <1>2

(* A stamp determines the call and the stage. *)
LEMMA StampOne ==
    ASSUME NEW k \in Nat, NEW l \in Nat, NEW f \in {0, 1}, NEW g \in {0, 1}, 2 * k + f = 2 * l + g
    PROVE  k = l /\ f = g
<1>1. CASE f = 0 /\ g = 0
    BY <1>1
<1>2. CASE f = 1 /\ g = 1
    BY <1>2
<1>3. CASE f = 0 /\ g = 1
    BY <1>3
<1>4. CASE f = 1 /\ g = 0
    BY <1>4
<1> QED BY <1>1, <1>2, <1>3, <1>4

(* A name belongs to one thread. *)
LEMMA NameThread ==
    ASSUME NEW t \in Thread, NEW u \in Thread, NEW k \in Rounds(t), NEW l \in Rounds(u),
           Program[t][k].name = Program[u][l].name
    PROVE  t = u
    BY ProgramAssumption DEF Rounds

(* A caller's clock is one of the two ticks of its call. *)
LEMMA AtInt ==
    ASSUME CollInv, NEW c \in Caller
    PROVE  At(c) \in Int /\ At(c) >= 2 * pos[c] /\ At(c) <= 2 * pos[c] + 1 /\ pos[c] \in Nat
<1>1. pos[c] \in Nat /\ (phase[c] # "idle" => Stage(c) \in {0, 1})
    BY StageFacts DEF CollInv, CallType, StageOK
<1> QED BY <1>1 DEF At

(* A peer sends to another in the order of its program. *)
LEMMA SentInOrder ==
    ASSUME CollInv, NEW e \in Conn, NEW t \in Thread, NEW k \in Rounds(t), NEW l \in Rounds(t),
           NEW f \in {0, 1}, NEW g \in {0, 1}, 2 * k + f < 2 * l + g, Sent(e, t, l, g)
    PROVE  Sent(e, t, k, f)
<1>1. PICK c \in Caller : c = <<e[1], t>>
    BY CallerFacts
<1>2. 2 * l + g < At(c) \/ 2 * l + g = At(c)
    BY <1>1 DEF Sent
<1>3. 2 * k + f < At(c)
    BY <1>2, AtInt, ItemFacts
<1> QED BY <1>1, <1>3 DEF Sent

(* What was not used yet is not before the receiver's stage. *)
LEMMA NotUsedYet ==
    ASSUME CollInv, NEW e \in Conn, NEW t \in Thread, NEW k \in Rounds(t), NEW f \in {0, 1},
           ~Used(e, t, k, f), NEW c \in Caller, c = <<e[2], t>>
    PROVE  2 * k + f >= At(c)
<1>1. ~(2 * k + f < At(c))
    BY DEF Used
<1> QED BY <1>1, AtInt, ItemFacts

(* The message that a caller sends is for the item of its stage. *)
LEMMA MessageIsFor ==
    ASSUME CollInv, MemInv, NEW c \in Caller, phase[c] # "idle"
    PROVE  IsFor(Message(c), c[2], pos[c], Stage(c))
<1>1. Carries(EffectiveData(c), c[2], pos[c])
    BY DEF MemInv, EffectiveData
<1>2. Op(c) = Program[c[2]][pos[c]] /\ (Reduces(c) <=> Stage(c) = 0) /\ Stage(c) \in {0, 1}
    BY StageFacts DEF Op, StageOK
<1>3. Message(c).data = EffectiveData(c) /\ Message(c).name = Op(c).name /\ Message(c).wait_recv_buf = ~Reduces(c)
    BY DEF Message
<1>4. Message(c).wait_recv_buf = (Stage(c) = 1)
    <2>1. ~Reduces(c) <=> Stage(c) = 1
        BY <1>2
    <2>2. (~Reduces(c)) = (Stage(c) = 1)
        BY <2>1
    <2> QED BY <1>3, <2>2
<1> QED BY <1>1, <1>2, <1>3, <1>4 DEF IsFor

(* A thread that has something to send is in the stage it sends it in. *)
LEMMA SendBeginFlow ==
    ASSUME CollInv, FlowInv, NEW c \in Caller, NEW q \in Peer, SendBegin(c, q),
           NEW e \in Conn, e = <<c[1], q>>
    PROVE  /\ phase[c] \in {"send", "flat"} /\ pos[c] \in Rounds(c[2]) /\ Stage(c) \in {0, 1}
           /\ Item(e, c[2], pos[c], Stage(c)) /\ ~Sent(e, c[2], pos[c], Stage(c))
           /\ TaskInv'
           /\ \A d \in Conn, t \in Thread, f \in {0, 1} : \A k \in Rounds(t) :
                 /\ Used(d, t, k, f)' <=> Used(d, t, k, f)
                 /\ Sent(d, t, k, f)' <=> \/ Sent(d, t, k, f)
                                          \/ d = e /\ t = c[2] /\ k = pos[c] /\ f = Stage(c)
<1>1. /\ UNCHANGED <<pos, phase, gi, sub>> /\ out[c][q] = "todo"
      /\ c[1] \in Peer /\ c[2] \in Thread /\ c = <<c[1], c[2]>>
    BY CallerFacts DEF SendBegin
<1>2. out[c] \in [Peer -> {"none", "todo", "sending"}]
    BY DEF CollInv, CallType
<1>3. out'[c] = [out[c] EXCEPT ![q] = "sending"] /\ OthersStay(c)
    BY <1>1 DEF SendBegin, CollInv, CallType, OthersStay
<1>4. out'[c][q] = "sending" /\ \A r \in Peer : r # q => out'[c][r] = out[c][r]
    BY <1>2, <1>3
<1>5. TaskOK(c)
    BY DEF FlowInv, TaskInv
<1>6. phase[c] \in {"send", "flat"}
    BY <1>1, <1>5 DEF TaskOK, CollInv, CallType, CallInv, CallOK
<1>7. pos[c] \in Rounds(c[2]) /\ Stage(c) \in {0, 1} /\ At(c) = 2 * pos[c] + Stage(c) /\ pos[c] \in Nat
    BY <1>6, StageFacts, AtFacts DEF StageOK, CollInv, CallType
<1>8. Item(e, c[2], pos[c], Stage(c))
    <2>1. q \in Links(Op(c), Stage(c), c[1]) /\ Op(c) = Program[c[2]][pos[c]]
        BY <1>1, <1>5 DEF TaskOK, Op
    <2> QED BY <1>1, <1>7, <2>1, ItemFacts
<1>9. Op(c)' = Op(c) /\ Stage(c)' = Stage(c) /\ At(c)' = At(c)
    BY <1>1, <1>3, StayFlow
<1>10. TaskInv'
    <2>1. TaskOK(c)'
        <3>1. ASSUME NEW r \in Peer
              PROVE  /\ phase'[c] = "recv" => out'[c][r] = "none"
                     /\ out'[c][r] # "none" => r \in Links(Op(c)', Stage(c)', c[1])
                     /\ sub'[c][r] # "none" /\ r # c[1] => c[1] \in Links(Op(c)', Stage(c)', r)
                     /\ sub'[c][r] = "posted" => Stage(c)' = 1 /\ r # c[1]
            BY <1>1, <1>4, <1>5, <1>6, <1>9 DEF TaskOK
        <3> QED BY <3>1 DEF TaskOK
    <2> QED BY <1>3, <2>1, TasksKept DEF FlowInv
<1>11. ASSUME NEW d \in Conn, NEW t \in Thread, NEW f \in {0, 1}, NEW k \in Rounds(t)
       PROVE  /\ Used(d, t, k, f)' <=> Used(d, t, k, f)
              /\ Sent(d, t, k, f)' <=> \/ Sent(d, t, k, f)
                                       \/ d = e /\ t = c[2] /\ k = pos[c] /\ f = Stage(c)
    <2>1. d[1] \in Peer /\ d[2] \in Peer /\ d = <<d[1], d[2]>> /\ <<d[1], t>> \in Caller /\ e[1] = c[1] /\ e[2] = q
        BY CallerFacts
    <2>2. Used(d, t, k, f)' <=> Used(d, t, k, f)
        BY <1>1, UsedFrame
    <2>3. CASE <<d[1], t>> # c \/ d[2] # q
        <3>1. out'[<<d[1], t>>][d[2]] = out[<<d[1], t>>][d[2]]
            BY <1>3, <1>4, <2>1, <2>3 DEF OthersStay
        <3>2. Sent(d, t, k, f)' <=> Sent(d, t, k, f)
            BY <1>1, <3>1, SentFrame
        <3>3. ~(d = e /\ t = c[2])
            BY <1>1, <2>1, <2>3
        <3> QED BY <2>2, <3>2, <3>3
    <2>4. CASE <<d[1], t>> = c /\ d[2] = q
        <3>1. d = e /\ t = c[2]
            BY <1>1, <2>1, <2>4
        <3>2. Sent(d, t, k, f) <=> 2 * k + f < At(c)
            BY <1>1, <2>4 DEF Sent
        <3>3. Sent(d, t, k, f)' <=> 2 * k + f < At(c) \/ 2 * k + f = At(c)
            BY <1>1, <1>4, <1>6, <1>9, <2>4 DEF Sent
        <3>4. 2 * k + f = At(c) <=> (k = pos[c] /\ f = Stage(c))
            <4>1. k \in Nat
                BY ItemFacts
            <4>2. CASE Stage(c) = 0
                BY <1>7, <4>1, <4>2
            <4>3. CASE Stage(c) = 1
                BY <1>7, <4>1, <4>3
            <4> QED BY <1>7, <4>2, <4>3
        <3> QED BY <2>2, <3>1, <3>2, <3>3, <3>4
    <2> QED BY <2>3, <2>4
<1>12. ~Sent(e, c[2], pos[c], Stage(c))
    <2>1. PICK k, f : k = pos[c] /\ f = Stage(c)
        OBVIOUS
    <2>2. Sent(e, c[2], k, f) <=> 2 * k + f < At(c)
        BY <1>1 DEF Sent
    <2>3. ~(2 * k + f < At(c))
        BY <1>7, <2>1
    <2> QED BY <2>1, <2>2, <2>3
<1> QED BY <1>6, <1>7, <1>8, <1>10, <1>11, <1>12

(* What a message, a handler or a mailbox holds is in transit. *)
LEMMA PlaceInTransit ==
    ASSUME NEW e \in Conn, ConnOK(e), NEW t \in Thread, NEW k \in Rounds(t)
    PROVE  /\ \A f \in {0, 1} : Wire(e, t, k, f) => InTransit(e, t, k, f)
           /\ Held(e, t, k) => InTransit(e, t, k, 0)
           /\ Boxed(e, t, k) => InTransit(e, t, k, 0)
<1>1. ASSUME NEW f \in {0, 1}, Wire(e, t, k, f) PROVE InTransit(e, t, k, f)
    <2>1. PICK i \in DOMAIN net[e] : IsFor(net[e][i], t, k, f)
        BY <1>1 DEF Wire
    <2>2. PICK t1 \in Thread, f1 \in {0, 1} : \E k1 \in Rounds(t1) :
             IsFor(net[e][i], t1, k1, f1) /\ InTransit(e, t1, k1, f1)
        BY <2>1 DEF ConnOK, NetOK
    <2> QED BY <2>1, <2>2, ForOne
<1>2. Held(e, t, k) => InTransit(e, t, k, 0)
    BY CarriesOne DEF Held, ConnOK, HandOK
<1>3. ASSUME Boxed(e, t, k) PROVE InTransit(e, t, k, 0)
    <2>1. PICK x \in Name : x = Program[t][k].name
        BY ItemFacts
    <2>2. mail[<<e[2], e[1], x>>] # <<>> /\ Carries(Head(mail[<<e[2], e[1], x>>]), t, k)
        BY <1>3, <2>1 DEF Boxed
    <2>3. PICK t1 \in Thread : \E k1 \in Rounds(t1) :
              Carries(Head(mail[<<e[2], e[1], x>>]), t1, k1) /\ InTransit(e, t1, k1, 0)
        BY <2>2 DEF ConnOK, BoxOK
    <2> QED BY <2>2, <2>3, CarriesOne
<1> QED BY <1>1, <1>2, <1>3

(* A message put at the end of a connection. *)
LEMMA AppendIndex ==
    ASSUME NEW S, NEW s \in Seq(S), NEW m
    PROVE  /\ DOMAIN Append(s, m) = 1 .. Len(s) + 1
           /\ \A i \in DOMAIN s : i \in DOMAIN Append(s, m) /\ Append(s, m)[i] = s[i] /\ i < Len(s) + 1
           /\ \A i \in DOMAIN Append(s, m) : i = Len(s) + 1 \/ i \in DOMAIN s
           /\ Append(s, m)[Len(s) + 1] = m
           /\ s # <<>> => 1 \in DOMAIN s
<1>1. Len(s) \in Nat /\ DOMAIN s = 1 .. Len(s)
    OBVIOUS
<1>2. s # <<>> => Len(s) > 0
    OBVIOUS
<1> QED BY <1>1, <1>2

(* connection::send adds the item of the caller's stage to its connection. *)
LEMMA SendBeginPlaces ==
    ASSUME CollInv, FlowInv, NEW c \in Caller, NEW q \in Peer, SendBegin(c, q)
    PROVE  TaskInv' /\ PlacesInv'
<1>1. /\ UNCHANGED <<pos, phase, gi, sub, hand, mail, recvQ>> /\ out[c][q] = "todo"
      /\ c[1] \in Peer /\ c[2] \in Thread
    BY CallerFacts DEF SendBegin, boxVars
<1>2. q # c[1]
    BY <1>1 DEF CollInv, CallInv, CallOK
<1>3. PICK e \in Conn : e = <<c[1], q>>
    BY <1>1, <1>2, CallerFacts
<1>4. PICK k0, f0, m : k0 = pos[c] /\ f0 = Stage(c) /\ m = Message(c)
    OBVIOUS
<1>5. /\ phase[c] # "idle" /\ k0 \in Rounds(c[2]) /\ f0 \in {0, 1}
      /\ Item(e, c[2], k0, f0) /\ ~Sent(e, c[2], k0, f0)
      /\ TaskInv'
      /\ \A d \in Conn, t \in Thread, f \in {0, 1} : \A k \in Rounds(t) :
                 /\ Used(d, t, k, f)' <=> Used(d, t, k, f)
                 /\ Sent(d, t, k, f)' <=> \/ Sent(d, t, k, f)
                                          \/ d = e /\ t = c[2] /\ k = k0 /\ f = f0
    BY <1>3, <1>4, SendBeginFlow
<1>6. IsFor(m, c[2], k0, f0)
    BY <1>4, <1>5, MessageIsFor DEF FlowInv
<1>7. /\ net[e] \in Seq(Msg) /\ net'[e] = Append(net[e], m)
      /\ \A d \in Conn : d # e => net'[d] = net[d]
    BY <1>3, <1>4 DEF SendBegin, CollInv, NetType
<1>8. \A d, t : Filled(d, t)' <=> Filled(d, t)
    BY <1>1 DEF Filled, Op
<1>9. ASSUME NEW d \in Conn, d # e PROVE ConnOK(d)'
    <2>1. ConnOK(d) /\ TaskInv
        BY DEF FlowInv, PlacesInv
    <2>2. net'[d] = net[d] /\ hand'[d] = hand[d]
        BY <1>1, <1>7, <1>9
    <2>3. \A t \in Thread, f \in {0, 1} : \A k \in Rounds(t) : Item(d, t, k, f) =>
              /\ Sent(d, t, k, f)' <=> Sent(d, t, k, f)
              /\ Used(d, t, k, f)' <=> Used(d, t, k, f)
        BY <1>5, <1>9
    <2> QED BY <1>1, <1>8, <2>1, <2>2, <2>3, ConnFrame
<1>10. ConnOK(e) /\ UsedOK(e) /\ NetOK(e) /\ OrderOK(e) /\ HandOK(e) /\ BoxOK(e) /\ OnceOK(e) /\ BodyOK(e) /\ SlotOK(e) /\ BufOK(e)
    BY DEF FlowInv, PlacesInv, ConnOK
<1>11. ~Used(e, c[2], k0, f0)
    BY <1>1, <1>5, <1>10 DEF UsedOK
<1>12. \A t \in Thread, f \in {0, 1} : \A k \in Rounds(t) :
          InTransit(e, t, k, f)' <=> InTransit(e, t, k, f) \/ (t = c[2] /\ k = k0 /\ f = f0)
    BY <1>5, <1>11 DEF InTransit, Item
<1>13. ~InTransit(e, c[2], k0, f0)
    BY <1>5 DEF InTransit
<1>14. PICK n : n = Len(net[e]) + 1
    OBVIOUS
<1>15. /\ \A i \in DOMAIN net[e] : i \in DOMAIN net'[e] /\ net'[e][i] = net[e][i] /\ i < n
       /\ \A i \in DOMAIN net'[e] : i = n \/ i \in DOMAIN net[e]
       /\ n \in DOMAIN net'[e] /\ net'[e][n] = m
       /\ net[e] # <<>> => 1 \in DOMAIN net[e]
       /\ n \in Nat /\ DOMAIN net[e] \subseteq Nat
    <2>1. Len(net[e]) \in Nat /\ DOMAIN net[e] = 1 .. Len(net[e])
        BY <1>7
    <2>2. n \in 1 .. Len(net[e]) + 1
        BY <1>14, <2>1
    <2> QED BY <1>7, <1>14, <2>1, <2>2, AppendIndex
<1>16. \A t \in Thread, f \in {0, 1} : \A k \in Rounds(t) :
          Wire(e, t, k, f)' <=> Wire(e, t, k, f) \/ (t = c[2] /\ k = k0 /\ f = f0)
    <2> SUFFICES ASSUME NEW t \in Thread, NEW f \in {0, 1}, NEW k \in Rounds(t)
                 PROVE  Wire(e, t, k, f)' <=> Wire(e, t, k, f) \/ (t = c[2] /\ k = k0 /\ f = f0)
        OBVIOUS
    <2>1. ASSUME Wire(e, t, k, f) PROVE Wire(e, t, k, f)'
        <3>1. PICK i \in DOMAIN net[e] : IsFor(net[e][i], t, k, f)
            BY <2>1 DEF Wire
        <3>2. i \in DOMAIN net'[e] /\ IsFor(net'[e][i], t, k, f)
            BY <1>15, <3>1
        <3> QED BY <3>2 DEF Wire
    <2>2. ASSUME t = c[2] /\ k = k0 /\ f = f0 PROVE Wire(e, t, k, f)'
        <3>1. n \in DOMAIN net'[e] /\ IsFor(net'[e][n], t, k, f)
            BY <1>6, <1>15, <2>2
        <3> QED BY <3>1 DEF Wire
    <2>3. ASSUME Wire(e, t, k, f)' PROVE Wire(e, t, k, f) \/ (t = c[2] /\ k = k0 /\ f = f0)
        <3>1. PICK i \in DOMAIN net'[e] : IsFor(net'[e][i], t, k, f)
            BY <2>3 DEF Wire
        <3>2. CASE i = n
            <4>1. IsFor(m, t, k, f)
                BY <1>15, <3>1, <3>2
            <4> QED BY <1>5, <1>6, <4>1, ForOne
        <3>3. CASE i \in DOMAIN net[e]
            <4>1. IsFor(net[e][i], t, k, f)
                BY <1>15, <3>1, <3>3
            <4> QED BY <3>3, <4>1 DEF Wire
        <3> QED BY <1>15, <3>1, <3>2, <3>3
    <2> QED BY <2>1, <2>2, <2>3
<1>17. UsedOK(e)'
    BY <1>5, <1>10 DEF UsedOK, Item
<1>18. NetOK(e)'
    <2> SUFFICES ASSUME NEW i \in DOMAIN net'[e]
                 PROVE  \E t \in Thread, f \in {0, 1} : \E k \in Rounds(t) :
                           IsFor(net'[e][i], t, k, f) /\ InTransit(e, t, k, f)'
        BY DEF NetOK
    <2>1. CASE i = n
        BY <1>1, <1>5, <1>6, <1>12, <1>15, <2>1
    <2>2. CASE i \in DOMAIN net[e]
        BY <1>10, <1>12, <1>15, <2>2 DEF NetOK
    <2> QED BY <1>15, <2>1, <2>2
<1>19. OrderOK(e)'
    <2> SUFFICES ASSUME NEW i \in DOMAIN net'[e], NEW j \in DOMAIN net'[e], NEW t \in Thread,
                        NEW f \in {0, 1}, NEW g \in {0, 1}, NEW k \in Rounds(t), NEW l \in Rounds(t),
                        i < j, IsFor(net'[e][i], t, k, f), IsFor(net'[e][j], t, l, g)
                 PROVE  2 * k + f < 2 * l + g
        BY DEF OrderOK
    <2>1. i \in DOMAIN net[e] /\ IsFor(net[e][i], t, k, f)
        BY <1>15
    <2>2. CASE j \in DOMAIN net[e]
        <3>1. IsFor(net[e][j], t, l, g)
            BY <1>15, <2>2
        <3> QED BY <1>10, <2>1, <2>2, <3>1 DEF OrderOK
    <2>3. CASE j = n
        <3>1. IsFor(m, t, l, g)
            BY <1>15, <2>3
        <3>2. t = c[2] /\ l = k0 /\ g = f0
            BY <1>5, <1>6, <3>1, ForOne
        <3>4. InTransit(e, t, k, f)
            BY <1>10, <2>1, PlaceInTransit DEF Wire
        <3>5. Sent(e, t, k, f) /\ ~Sent(e, t, l, g)
            BY <1>5, <3>2, <3>4 DEF InTransit
        <3>6. k \in Nat /\ l \in Nat
            BY ItemFacts
        <3>7. ~(2 * l + g < 2 * k + f)
            BY <3>5, SentInOrder
        <3>8. ASSUME 2 * l + g = 2 * k + f PROVE FALSE
            <4>1. l = k /\ g = f
                BY <3>6, <3>8, StampOne
            <4> QED BY <3>5, <4>1
        <3> QED BY <3>6, <3>7, <3>8
    <2> QED BY <1>15, <2>2, <2>3
<1>20. HandOK(e)'
    BY <1>1, <1>10, <1>12 DEF HandOK
<1>21. BoxOK(e)'
    <2> SUFFICES ASSUME NEW x \in Name, mail[<<e[2], e[1], x>>] # <<>>
                 PROVE  \E t \in Thread : \E k \in Rounds(t) :
                            /\ x = Program[t][k].name /\ Carries(Head(mail[<<e[2], e[1], x>>]), t, k)
                            /\ InTransit(e, t, k, 0)'
        BY <1>1 DEF BoxOK
    <2> QED BY <1>10, <1>12 DEF BoxOK
<1>22. OnceOK(e)'
    <2> SUFFICES ASSUME NEW t \in Thread, NEW k \in Rounds(t)
                 PROVE  /\ ~(Wire(e, t, k, 0)' /\ Held(e, t, k)')
                        /\ ~(Wire(e, t, k, 0)' /\ Boxed(e, t, k)')
                        /\ ~(Held(e, t, k)' /\ Boxed(e, t, k)')
        BY DEF OnceOK
    <2>1. (Held(e, t, k)' <=> Held(e, t, k)) /\ (Boxed(e, t, k)' <=> Boxed(e, t, k))
        BY <1>1 DEF Held, Boxed
    <2>2. Held(e, t, k) \/ Boxed(e, t, k) => InTransit(e, t, k, 0)
        BY <1>10, PlaceInTransit
    <2>3. Wire(e, t, k, 0)' /\ ~Wire(e, t, k, 0) => ~InTransit(e, t, k, 0)
        BY <1>13, <1>16
    <2> QED BY <1>10, <2>1, <2>2, <2>3 DEF OnceOK
<1>23. BodyOK(e)'
    BY <1>1, <1>8, <1>10, <1>12, <1>16 DEF BodyOK
<1>24. SlotOK(e)'
    <2> SUFFICES ASSUME NEW t \in Thread, NEW k \in Rounds(t), Filled(e, t)', k = pos'[<<e[2], t>>]
                 PROVE  Sent(e, t, k, 1)' /\ ~Wire(e, t, k, 1)'
        BY DEF SlotOK
    <2>1. Sent(e, t, k, 1) /\ ~Wire(e, t, k, 1)
        BY <1>1, <1>8, <1>10 DEF SlotOK
    <2> QED BY <1>5, <1>16, <2>1
<1>25. BufOK(e)'
    <2>1. hand[e].st = "buf" => net'[e][1] = net[e][1]
        BY <1>15 DEF CollInv, ReadInv
    <2> QED BY <1>1, <1>10, <2>1 DEF BufOK
<1>26. ConnOK(e)'
    BY <1>17, <1>18, <1>19, <1>20, <1>21, <1>22, <1>23, <1>24, <1>25 DEF ConnOK
<1>27. SelfBoxInv'
    BY <1>1 DEF FlowInv, PlacesInv, SelfBoxInv
<1> QED BY <1>5, <1>9, <1>26, <1>27 DEF PlacesInv

(* What using an item does to callers, messages sent and messages used. *)
ItemUsed(c, q, e) ==
    /\ phase[c] # "idle" /\ pos[c] \in Rounds(c[2]) /\ Stage(c) \in {0, 1}
    /\ Item(e, c[2], pos[c], Stage(c)) /\ ~Used(e, c[2], pos[c], Stage(c))
    /\ TaskInv' /\ OthersStay(c)
    /\ sub'[c][q] = "none" /\ \A r \in Peer : r # q => sub'[c][r] = sub[c][r]
    /\ \A d \in Conn, t \in Thread, f \in {0, 1} : \A k \in Rounds(t) :
          /\ Sent(d, t, k, f)' <=> Sent(d, t, k, f)
          /\ Used(d, t, k, f)' <=> \/ Used(d, t, k, f)
                                   \/ d = e /\ t = c[2] /\ k = pos[c] /\ f = Stage(c)

(* A caller uses the item of its stage that came from peer q. *)
LEMMA UseFlow ==
    ASSUME CollInv, TaskInv, NEW c \in Caller, NEW q \in Peer, NEW e \in Conn, e = <<q, c[1]>>,
           sub[c][q] # "none", UNCHANGED <<pos, phase, gi, out>>,
           sub' = [sub EXCEPT ![c] = [sub[c] EXCEPT ![q] = "none"]]
    PROVE  ItemUsed(c, q, e)
<1>1. c[1] \in Peer /\ c[2] \in Thread /\ c = <<c[1], c[2]>> /\ q # c[1]
    BY CallerFacts
<1>2. sub[c] \in [Peer -> {"none", "todo", "posted"}] /\ sub \in [Caller -> [Peer -> {"none", "todo", "posted"}]]
    BY DEF CollInv, CallType
<1>3. sub'[c] = [sub[c] EXCEPT ![q] = "none"] /\ OthersStay(c)
    BY <1>1, <1>2 DEF OthersStay
<1>4. sub'[c][q] = "none" /\ \A r \in Peer : r # q => sub'[c][r] = sub[c][r]
    BY <1>2, <1>3
<1>5. TaskOK(c)
    BY DEF TaskInv
<1>6. phase[c] # "idle"
    BY <1>5 DEF TaskOK, CollInv, CallType, CallInv, CallOK
<1>7. pos[c] \in Rounds(c[2]) /\ Stage(c) \in {0, 1} /\ At(c) = 2 * pos[c] + Stage(c) /\ pos[c] \in Nat
    BY <1>6, StageFacts, AtFacts DEF StageOK, CollInv, CallType
<1>8. Item(e, c[2], pos[c], Stage(c))
    <2>1. c[1] \in Links(Op(c), Stage(c), q) /\ Op(c) = Program[c[2]][pos[c]]
        BY <1>1, <1>5 DEF TaskOK, Op
    <2> QED BY <1>1, <1>7, <2>1, ItemFacts
<1>9. Op(c)' = Op(c) /\ Stage(c)' = Stage(c) /\ At(c)' = At(c)
    BY <1>3, StayFlow
<1>10. TaskInv'
    <2>1. TaskOK(c)'
        <3>1. ASSUME NEW r \in Peer
              PROVE  /\ phase'[c] = "recv" => out'[c][r] = "none"
                     /\ out'[c][r] # "none" => r \in Links(Op(c)', Stage(c)', c[1])
                     /\ sub'[c][r] # "none" /\ r # c[1] => c[1] \in Links(Op(c)', Stage(c)', r)
                     /\ sub'[c][r] = "posted" => Stage(c)' = 1 /\ r # c[1]
            BY <1>1, <1>4, <1>5, <1>6, <1>9 DEF TaskOK
        <3> QED BY <3>1 DEF TaskOK
    <2> QED BY <1>3, <2>1, TasksKept
<1>11. ASSUME NEW d \in Conn, NEW t \in Thread, NEW f \in {0, 1}, NEW k \in Rounds(t)
       PROVE  /\ Sent(d, t, k, f)' <=> Sent(d, t, k, f)
              /\ Used(d, t, k, f)' <=> \/ Used(d, t, k, f)
                                       \/ d = e /\ t = c[2] /\ k = pos[c] /\ f = Stage(c)
    <2>1. d[1] \in Peer /\ d[2] \in Peer /\ d = <<d[1], d[2]>> /\ <<d[2], t>> \in Caller /\ e[2] = c[1] /\ e[1] = q
        BY CallerFacts
    <2>2. Sent(d, t, k, f)' <=> Sent(d, t, k, f)
        BY SentFrame
    <2>3. CASE <<d[2], t>> # c \/ d[1] # q
        <3>1. sub'[<<d[2], t>>][d[1]] = sub[<<d[2], t>>][d[1]]
            BY <1>3, <1>4, <2>1, <2>3 DEF OthersStay
        <3>2. Used(d, t, k, f)' <=> Used(d, t, k, f)
            BY <1>1, <3>1, UsedFrame
        <3>3. ~(d = e /\ t = c[2])
            BY <1>1, <2>1, <2>3
        <3> QED BY <2>2, <3>2, <3>3
    <2>4. CASE <<d[2], t>> = c /\ d[1] = q
        <3>1. d = e /\ t = c[2]
            BY <1>1, <2>1, <2>4
        <3>2. Used(d, t, k, f) <=> 2 * k + f < At(c)
            BY <1>1, <2>4 DEF Used
        <3>3. Used(d, t, k, f)' <=> 2 * k + f < At(c) \/ 2 * k + f = At(c)
            BY <1>1, <1>4, <1>6, <1>9, <2>4 DEF Used
        <3>4. 2 * k + f = At(c) <=> (k = pos[c] /\ f = Stage(c))
            <4>1. k \in Nat
                BY ItemFacts
            <4>2. CASE Stage(c) = 0
                BY <1>7, <4>1, <4>2
            <4>3. CASE Stage(c) = 1
                BY <1>7, <4>1, <4>3
            <4> QED BY <1>7, <4>2, <4>3
        <3> QED BY <2>2, <3>1, <3>2, <3>3, <3>4
    <2> QED BY <2>3, <2>4
<1>12. ~Used(e, c[2], pos[c], Stage(c))
    <2>1. PICK k, f : k = pos[c] /\ f = Stage(c)
        OBVIOUS
    <2>2. Used(e, c[2], k, f) <=> 2 * k + f < At(c)
        BY <1>1 DEF Used
    <2>3. ~(2 * k + f < At(c))
        BY <1>7, <2>1
    <2> QED BY <2>1, <2>2, <2>3
<1> QED BY <1>3, <1>4, <1>6, <1>7, <1>8, <1>10, <1>11, <1>12 DEF ItemUsed

(* What is in a thread's mailbox is the item it waits for: the sender cannot *)
(* be a call ahead.                                                          *)
LEMMA MailIsCurrent ==
    ASSUME CollInv, FlowInv, NEW c \in Caller, NEW q \in Peer, phase[c] # "idle",
           sub[c][q] = "todo", Reduces(c), mail[<<c[1], q, Op(c).name>>] # <<>>
    PROVE  /\ q # c[1] /\ <<q, c[1]>> \in Conn /\ Stage(c) = 0
           /\ Boxed(<<q, c[1]>>, c[2], pos[c])
           /\ InTransit(<<q, c[1]>>, c[2], pos[c], 0)
<1>1. c[1] \in Peer /\ c[2] \in Thread /\ c = <<c[1], c[2]>>
    BY CallerFacts
<1>2. Stage(c) = 0 /\ Op(c).name \in Name /\ pos[c] \in Rounds(c[2]) /\ Op(c) = Program[c[2]][pos[c]]
    BY StageFacts DEF StageOK, Op
<1>3. PICK b \in Box : b = <<c[1], q, Op(c).name>>
    BY <1>1, <1>2, BoxFacts
<1>4. q # c[1]
    BY <1>3 DEF FlowInv, PlacesInv, SelfBoxInv
<1>5. PICK e \in Conn : e = <<q, c[1]>>
    BY <1>1, <1>4, CallerFacts
<1>6. PICK x, k0 : x = Op(c).name /\ k0 = pos[c]
    OBVIOUS
<1>7. ConnOK(e) /\ UsedInv /\ TaskOK(c)
    BY DEF FlowInv, PlacesInv, ConnOK, UsedInv, TaskInv
<1>8. mail[<<e[2], e[1], x>>] # <<>>
    BY <1>5, <1>6
<1>9. PICK t \in Thread : \E k \in Rounds(t) :
          /\ x = Program[t][k].name /\ Carries(Head(mail[<<e[2], e[1], x>>]), t, k)
          /\ InTransit(e, t, k, 0)
    BY <1>2, <1>6, <1>7, <1>8 DEF ConnOK, BoxOK
<1>10. PICK k \in Rounds(t) :
          /\ x = Program[t][k].name /\ Carries(Head(mail[<<e[2], e[1], x>>]), t, k)
          /\ InTransit(e, t, k, 0)
    BY <1>9
<1>11. t = c[2]
    BY <1>1, <1>2, <1>6, <1>10, NameThread
<1>12. k0 \in Rounds(t) /\ k0 \in Nat /\ k \in Nat
    BY <1>2, <1>6, <1>11, ItemFacts
<1>13. Item(e, t, k0, 0)
    <2>1. c[1] \in Links(Program[t][k0], 0, q)
        BY <1>1, <1>2, <1>4, <1>6, <1>7, <1>11 DEF TaskOK
    <2> QED BY <1>5, <1>12, <2>1, ItemFacts
<1>14. At(c) = 2 * k0 + 0
    BY <1>2, <1>6, AtFacts
<1>15. 2 * k + 0 >= At(c)
    BY <1>1, <1>5, <1>10, <1>11, NotUsedYet DEF InTransit
<1>16. ASSUME k0 < k PROVE FALSE
    <2>1. Sent(e, t, k0, 0)
        <3>1. 2 * k0 + 0 < 2 * k + 0
            BY <1>12, <1>16
        <3> QED BY <1>10, <1>12, <3>1, SentInOrder DEF InTransit
    <2>2. ~Used(e, t, k0, 0)
        <3>1. ~(2 * k0 + 0 < At(c))
            BY <1>12, <1>14
        <3> QED BY <1>1, <1>5, <1>11, <3>1 DEF Used
    <2>3. InTransit(e, t, k0, 0)
        BY <1>13, <2>1, <2>2 DEF InTransit
    <2>4. k = k0
        BY <1>7, <1>10, <1>12, <2>3, OneToAdd
    <2> QED BY <1>12, <1>16, <2>4
<1>17. k = k0
    BY <1>12, <1>14, <1>15, <1>16
<1>18. Boxed(e, t, k)
    BY <1>8, <1>10 DEF Boxed
<1> QED BY <1>2, <1>4, <1>5, <1>6, <1>10, <1>11, <1>17, <1>18

(* recv_task with reduce takes the item of its stage from the mailbox. *)
LEMMA RecvOntoPlaces ==
    ASSUME CollInv, FlowInv, NEW c \in Caller, NEW q \in Peer, RecvOnto(c, q)
    PROVE  TaskInv' /\ PlacesInv'
<1>1. /\ UNCHANGED <<pos, phase, gi, out, net, hand, recvQ>> /\ sub[c][q] = "todo" /\ phase[c] # "idle"
      /\ Reduces(c) /\ mail[<<c[1], q, Op(c).name>>] # <<>>
      /\ c[1] \in Peer /\ c[2] \in Thread /\ c = <<c[1], c[2]>>
      /\ sub' = [sub EXCEPT ![c] = [sub[c] EXCEPT ![q] = "none"]]
    BY CallerFacts DEF RecvOnto, netVars
<1>2. /\ q # c[1] /\ <<q, c[1]>> \in Conn /\ Stage(c) = 0
      /\ Boxed(<<q, c[1]>>, c[2], pos[c])
      /\ InTransit(<<q, c[1]>>, c[2], pos[c], 0)
    BY <1>1, MailIsCurrent
<1>3. PICK e \in Conn : e = <<q, c[1]>>
    BY <1>2
<1>4. PICK k0 : k0 = pos[c]
    OBVIOUS
<1>5. /\ k0 \in Rounds(c[2]) /\ TaskInv'
      /\ \A d \in Conn, t \in Thread, f \in {0, 1} : \A k \in Rounds(t) :
                 /\ Sent(d, t, k, f)' <=> Sent(d, t, k, f)
                 /\ Used(d, t, k, f)' <=> \/ Used(d, t, k, f)
                                          \/ d = e /\ t = c[2] /\ k = k0 /\ f = 0
      /\ OthersStay(c) /\ sub'[c][q] = "none" /\ \A r \in Peer : r # q => sub'[c][r] = sub[c][r]
    <2>1. TaskInv /\ sub[c][q] # "none" /\ UNCHANGED <<pos, phase, gi, out>> /\ e = <<q, c[1]>>
        BY <1>1, <1>3 DEF FlowInv
    <2>2. /\ phase[c] # "idle" /\ pos[c] \in Rounds(c[2]) /\ Stage(c) \in {0, 1}
          /\ Item(e, c[2], pos[c], Stage(c)) /\ ~Used(e, c[2], pos[c], Stage(c))
          /\ TaskInv' /\ OthersStay(c)
          /\ sub'[c][q] = "none" /\ \A r \in Peer : r # q => sub'[c][r] = sub[c][r]
          /\ \A d \in Conn, t \in Thread, f \in {0, 1} : \A k \in Rounds(t) :
                /\ Sent(d, t, k, f)' <=> Sent(d, t, k, f)
                /\ Used(d, t, k, f)' <=> \/ Used(d, t, k, f)
                                         \/ d = e /\ t = c[2] /\ k = pos[c] /\ f = Stage(c)
        <3>1. ItemUsed(c, q, e)
            BY <1>1, <2>1, UseFlow
        <3> QED BY <3>1 DEF ItemUsed
    <2>3. \A d \in Conn, t \in Thread, f \in {0, 1} : \A k \in Rounds(t) :
                /\ Sent(d, t, k, f)' <=> Sent(d, t, k, f)
                /\ Used(d, t, k, f)' <=> \/ Used(d, t, k, f)
                                         \/ d = e /\ t = c[2] /\ k = k0 /\ f = 0
        BY <1>2, <1>4, <2>2
    <2> QED BY <1>4, <2>2, <2>3
<1>6. Boxed(e, c[2], k0) /\ InTransit(e, c[2], k0, 0) /\ e[1] = q /\ e[2] = c[1]
    BY <1>2, <1>3, <1>4
<1>7. PICK n \in Name : n = Op(c).name /\ n = Program[c[2]][k0].name
    BY <1>1, <1>4, StageFacts DEF StageOK, Op
<1>8. PICK b \in Box : b = <<c[1], q, n>>
    BY <1>1, BoxFacts
<1>9. mail'[b] = <<>> /\ \A x \in Box : x # b => mail'[x] = mail[x]
    <2>1. mail \in [Box -> Seq(Data)] /\ mail[b] \in Seq(Data) /\ Len(mail[b]) <= 1 /\ mail[b] # <<>>
        BY <1>1, <1>7, <1>8 DEF CollInv, BoxType
    <2>2. mail' = [mail EXCEPT ![b] = Tail(mail[b])]
        BY <1>7, <1>8 DEF RecvOnto
    <2>3. Tail(mail[b]) = <<>>
        BY <2>1, ShortSeq
    <2> QED BY <2>1, <2>2, <2>3
<1>10. ASSUME NEW d \in Conn, NEW t \in Thread PROVE Filled(d, t)' <=> Filled(d, t)
    <2>1. <<d[2], t>> \in Caller /\ d[1] \in Peer
        BY CallerFacts
    <2>2. sub'[<<d[2], t>>][d[1]] = "posted" <=> sub[<<d[2], t>>][d[1]] = "posted"
        <3>1. CASE <<d[2], t>> = c /\ d[1] = q
            BY <1>1, <1>5, <3>1
        <3>2. CASE ~(<<d[2], t>> = c /\ d[1] = q)
            BY <1>5, <2>1, <3>2 DEF OthersStay
        <3> QED BY <3>1, <3>2
    <2>3. Op(<<d[2], t>>)' = Op(<<d[2], t>>)
        BY <1>1 DEF Op
    <2> QED BY <1>1, <2>2, <2>3 DEF Filled
<1>11. ASSUME NEW d \in Conn, d # e PROVE ConnOK(d)'
    <2>1. ConnOK(d) /\ TaskInv
        BY DEF FlowInv, PlacesInv
    <2>2. \A x \in Name : mail'[<<d[2], d[1], x>>] = mail[<<d[2], d[1], x>>]
        <3> SUFFICES ASSUME NEW x \in Name PROVE mail'[<<d[2], d[1], x>>] = mail[<<d[2], d[1], x>>]
            OBVIOUS
        <3>1. d = <<d[1], d[2]>> /\ d[1] \in Peer /\ d[2] \in Peer
            BY CallerFacts
        <3>2. <<d[2], d[1], x>> # b /\ <<d[2], d[1], x>> \in Box
            BY <1>3, <1>8, <1>11, <3>1, BoxFacts
        <3> QED BY <1>9, <3>2
    <2>3. \A t \in Thread, f \in {0, 1} : \A k \in Rounds(t) : Item(d, t, k, f) =>
              /\ Sent(d, t, k, f)' <=> Sent(d, t, k, f)
              /\ Used(d, t, k, f)' <=> Used(d, t, k, f)
        BY <1>5, <1>11
    <2>4. net'[d] = net[d] /\ hand'[d] = hand[d] /\ pos' = pos
        BY <1>1
    <2> QED BY <1>10, <2>1, <2>2, <2>3, <2>4, ConnFrame
<1>12. ConnOK(e) /\ UsedOK(e) /\ NetOK(e) /\ OrderOK(e) /\ HandOK(e) /\ BoxOK(e) /\ OnceOK(e) /\ BodyOK(e) /\ SlotOK(e) /\ BufOK(e)
    BY DEF FlowInv, PlacesInv, ConnOK
<1>13. \A t \in Thread, f \in {0, 1} : \A k \in Rounds(t) :
          InTransit(e, t, k, f)' <=> InTransit(e, t, k, f) /\ ~(t = c[2] /\ k = k0 /\ f = 0)
    BY <1>5 DEF InTransit, Item
<1>14. ~Wire(e, c[2], k0, 0) /\ ~Held(e, c[2], k0)
    BY <1>1, <1>5, <1>6, <1>12 DEF OnceOK
<1>15. /\ \A t, k, f : Wire(e, t, k, f)' <=> Wire(e, t, k, f)
       /\ \A t, k : Held(e, t, k)' <=> Held(e, t, k)
    BY <1>1 DEF Wire, Held
<1>16. UsedOK(e)'
    <2>1. Sent(e, c[2], k0, 0)
        BY <1>6 DEF InTransit
    <2> QED BY <1>5, <1>12, <2>1 DEF UsedOK, Item
<1>17. NetOK(e)'
    <2> SUFFICES ASSUME NEW i \in DOMAIN net[e]
                 PROVE  \E t \in Thread, f \in {0, 1} : \E k \in Rounds(t) :
                           IsFor(net[e][i], t, k, f) /\ InTransit(e, t, k, f)'
        BY <1>1 DEF NetOK
    <2>1. PICK t \in Thread, f \in {0, 1} : \E k \in Rounds(t) :
              IsFor(net[e][i], t, k, f) /\ InTransit(e, t, k, f)
        BY <1>12 DEF NetOK
    <2>2. PICK k \in Rounds(t) : IsFor(net[e][i], t, k, f) /\ InTransit(e, t, k, f)
        BY <2>1
    <2>3. ~(t = c[2] /\ k = k0 /\ f = 0)
        BY <1>14, <2>2 DEF Wire
    <2> QED BY <1>13, <2>2, <2>3
<1>18. OrderOK(e)'
    BY <1>1, <1>12 DEF OrderOK
<1>19. HandOK(e)'
    <2> SUFFICES ASSUME hand[e].st = "mail"
                 PROVE  \E t \in Thread : \E k \in Rounds(t) :
                           /\ hand[e].name = Program[t][k].name /\ Carries(hand[e].data, t, k)
                           /\ InTransit(e, t, k, 0)'
        BY <1>1 DEF HandOK
    <2>1. PICK t \in Thread : \E k \in Rounds(t) :
              /\ hand[e].name = Program[t][k].name /\ Carries(hand[e].data, t, k)
              /\ InTransit(e, t, k, 0)
        BY <1>12 DEF HandOK
    <2>2. PICK k \in Rounds(t) :
              /\ hand[e].name = Program[t][k].name /\ Carries(hand[e].data, t, k)
              /\ InTransit(e, t, k, 0)
        BY <2>1
    <2>3. ~(t = c[2] /\ k = k0)
        BY <1>14, <2>2 DEF Held
    <2> QED BY <1>13, <2>2, <2>3
<1>20. BoxOK(e)'
    <2> SUFFICES ASSUME NEW x \in Name, mail'[<<e[2], e[1], x>>] # <<>>
                 PROVE  \E t \in Thread : \E k \in Rounds(t) :
                            /\ x = Program[t][k].name /\ Carries(Head(mail'[<<e[2], e[1], x>>]), t, k)
                            /\ InTransit(e, t, k, 0)'
        BY DEF BoxOK
    <2>1. x # n /\ mail'[<<e[2], e[1], x>>] = mail[<<e[2], e[1], x>>]
        <3>1. <<e[2], e[1], x>> \in Box /\ (x = n => <<e[2], e[1], x>> = b)
            BY <1>1, <1>6, <1>8, BoxFacts
        <3>2. x # n => <<e[2], e[1], x>> # b
            BY <1>8
        <3> QED BY <1>9, <3>1, <3>2
    <2>2. PICK t \in Thread : \E k \in Rounds(t) :
              /\ x = Program[t][k].name /\ Carries(Head(mail[<<e[2], e[1], x>>]), t, k)
              /\ InTransit(e, t, k, 0)
        BY <1>12, <2>1 DEF BoxOK
    <2>3. PICK k \in Rounds(t) :
              /\ x = Program[t][k].name /\ Carries(Head(mail[<<e[2], e[1], x>>]), t, k)
              /\ InTransit(e, t, k, 0)
        BY <2>2
    <2>4. ~(t = c[2] /\ k = k0)
        BY <1>7, <2>1, <2>3
    <2> QED BY <1>13, <2>1, <2>3, <2>4
<1>21. OnceOK(e)'
    <2>1. ASSUME NEW t \in Thread, NEW k \in Rounds(t), Boxed(e, t, k)' PROVE Boxed(e, t, k)
        <3>1. PICK x \in Name : x = Program[t][k].name
            BY ItemFacts
        <3>2. <<e[2], e[1], x>> \in Box
            BY <1>1, <1>6, BoxFacts
        <3>3. mail'[<<e[2], e[1], x>>] # <<>> /\ Carries(Head(mail'[<<e[2], e[1], x>>]), t, k)
            BY <2>1, <3>1 DEF Boxed
        <3>4. mail'[<<e[2], e[1], x>>] = mail[<<e[2], e[1], x>>]
            BY <1>9, <3>2, <3>3
        <3> QED BY <3>1, <3>3, <3>4 DEF Boxed
    <2> QED BY <1>12, <1>15, <2>1 DEF OnceOK
<1>22. BodyOK(e)'
    BY <1>1, <1>10, <1>12, <1>13, <1>15 DEF BodyOK
<1>23. SlotOK(e)'
    <2> SUFFICES ASSUME NEW t \in Thread, NEW k \in Rounds(t), Filled(e, t)', k = pos'[<<e[2], t>>]
                 PROVE  Sent(e, t, k, 1)' /\ ~Wire(e, t, k, 1)'
        BY DEF SlotOK
    <2>1. Sent(e, t, k, 1) /\ ~Wire(e, t, k, 1)
        BY <1>1, <1>10, <1>12 DEF SlotOK
    <2> QED BY <1>5, <1>15, <2>1
<1>24. BufOK(e)'
    BY <1>1, <1>12 DEF BufOK
<1>25. ConnOK(e)'
    BY <1>16, <1>17, <1>18, <1>19, <1>20, <1>21, <1>22, <1>23, <1>24 DEF ConnOK
<1>26. SelfBoxInv'
    BY <1>9 DEF FlowInv, PlacesInv, SelfBoxInv
<1> QED BY <1>5, <1>11, <1>25, <1>26 DEF PlacesInv

(* queue_pair::get ends when the item of the stage is in the buffer. *)
LEMMA RecvIntoPlaces ==
    ASSUME CollInv, FlowInv, NEW c \in Caller, NEW q \in Peer, RecvInto(c, q)
    PROVE  TaskInv' /\ PlacesInv'
<1>1. /\ UNCHANGED <<pos, phase, gi, out, net, hand, mail>> /\ sub[c][q] = "posted"
      /\ c[1] \in Peer /\ c[2] \in Thread /\ c = <<c[1], c[2]>>
      /\ recvQ[<<c[1], q, Op(c).name>>] # <<>>
      /\ sub' = [sub EXCEPT ![c] = [sub[c] EXCEPT ![q] = "none"]]
    BY CallerFacts DEF RecvInto, netVars
<1>2. q # c[1] /\ <<q, c[1]>> \in Conn /\ Stage(c) = 1 /\ phase[c] # "idle" /\ Op(c).name \in Name
    BY <1>1, PostedFacts DEF FlowInv
<1>3. PICK e \in Conn : e = <<q, c[1]>>
    BY <1>2
<1>4. PICK k0 : k0 = pos[c]
    OBVIOUS
<1>5. /\ k0 \in Rounds(c[2]) /\ TaskInv'
      /\ \A d \in Conn, t \in Thread, f \in {0, 1} : \A k \in Rounds(t) :
                 /\ Sent(d, t, k, f)' <=> Sent(d, t, k, f)
                 /\ Used(d, t, k, f)' <=> \/ Used(d, t, k, f)
                                          \/ d = e /\ t = c[2] /\ k = k0 /\ f = 1
      /\ OthersStay(c) /\ sub'[c][q] = "none" /\ \A r \in Peer : r # q => sub'[c][r] = sub[c][r]
    <2>1. TaskInv /\ sub[c][q] # "none" /\ UNCHANGED <<pos, phase, gi, out>> /\ e = <<q, c[1]>>
        BY <1>1, <1>3 DEF FlowInv
    <2>2. /\ phase[c] # "idle" /\ pos[c] \in Rounds(c[2]) /\ Stage(c) \in {0, 1}
          /\ Item(e, c[2], pos[c], Stage(c)) /\ ~Used(e, c[2], pos[c], Stage(c))
          /\ TaskInv' /\ OthersStay(c)
          /\ sub'[c][q] = "none" /\ \A r \in Peer : r # q => sub'[c][r] = sub[c][r]
          /\ \A d \in Conn, t \in Thread, f \in {0, 1} : \A k \in Rounds(t) :
                /\ Sent(d, t, k, f)' <=> Sent(d, t, k, f)
                /\ Used(d, t, k, f)' <=> \/ Used(d, t, k, f)
                                         \/ d = e /\ t = c[2] /\ k = pos[c] /\ f = Stage(c)
        <3>1. ItemUsed(c, q, e)
            BY <1>1, <2>1, UseFlow
        <3> QED BY <3>1 DEF ItemUsed
    <2>3. \A d \in Conn, t \in Thread, f \in {0, 1} : \A k \in Rounds(t) :
                /\ Sent(d, t, k, f)' <=> Sent(d, t, k, f)
                /\ Used(d, t, k, f)' <=> \/ Used(d, t, k, f)
                                         \/ d = e /\ t = c[2] /\ k = k0 /\ f = 1
        BY <1>2, <1>4, <2>2
    <2> QED BY <1>4, <2>2, <2>3
<1>6. e[1] = q /\ e[2] = c[1] /\ <<e[2], c[2]>> = c
    BY <1>1, <1>3
<1>7. PICK b \in Box : b = <<c[1], q, Op(c).name>>
    BY <1>1, <1>2, BoxFacts
<1>8. \A x \in Box : x # b => recvQ'[x] = recvQ[x]
    BY <1>7 DEF RecvInto, CollInv, BoxType
<1>9. ASSUME NEW d \in Conn, NEW t \in Thread, d # e \/ t # c[2] PROVE Filled(d, t)' <=> Filled(d, t)
    <2> DEFINE u == <<d[2], t>>
    <2>1. u \in Caller /\ d[1] \in Peer /\ d[2] \in Peer /\ d = <<d[1], d[2]>> /\ u[1] = d[2] /\ u[2] = t
        BY CallerFacts
    <2>2. sub'[u][d[1]] = sub[u][d[1]]
        <3>1. u # c \/ d[1] # q
            BY <1>3, <1>9, <2>1
        <3> QED BY <1>5, <2>1, <3>1 DEF OthersStay
    <2>3. Op(u)' = Op(u)
        BY <1>1 DEF Op
    <2>4. ASSUME sub[u][d[1]] = "posted"
          PROVE  recvQ'[<<d[2], d[1], Op(u).name>>] = recvQ[<<d[2], d[1], Op(u).name>>]
        <3>1. phase[u] # "idle" /\ Op(u).name \in Name
            BY <2>1, <2>4, PostedFacts DEF FlowInv
        <3>2. <<d[2], d[1], Op(u).name>> \in Box
            BY <2>1, <3>1, BoxFacts
        <3>3. ASSUME <<d[2], d[1], Op(u).name>> = b PROVE FALSE
            <4>1. d[2] = c[1] /\ d[1] = q /\ Op(u).name = Op(c).name
                BY <1>7, <3>3
            <4>2. /\ pos[c] \in Nat \ {0} /\ pos[c] <= Len(Program[c[2]])
                  /\ pos[u] \in Nat \ {0} /\ pos[u] <= Len(Program[u[2]])
                BY <1>2, <2>1, <3>1 DEF CollInv, CallType, CallInv, CallOK
            <4>3. c = u
                BY <2>1, <4>1, <4>2, NamesApart
            <4> QED BY <1>3, <1>9, <2>1, <4>1, <4>3
        <3> QED BY <1>8, <3>2, <3>3
    <2>5. hand'[d] = hand[d]
        BY <1>1
    <2> QED BY <2>2, <2>3, <2>4, <2>5 DEF Filled
<1>10. Filled(e, c[2]) /\ ~Filled(e, c[2])'
    BY <1>1, <1>5, <1>6 DEF Filled
<1>11. ASSUME NEW d \in Conn, d # e PROVE ConnOK(d)'
    <2>1. ConnOK(d) /\ TaskInv
        BY DEF FlowInv, PlacesInv
    <2>2. \A t \in Thread : Filled(d, t)' <=> Filled(d, t)
        BY <1>9, <1>11
    <2>3. \A t \in Thread, f \in {0, 1} : \A k \in Rounds(t) : Item(d, t, k, f) =>
              /\ Sent(d, t, k, f)' <=> Sent(d, t, k, f)
              /\ Used(d, t, k, f)' <=> Used(d, t, k, f)
        BY <1>5, <1>11
    <2>4. net'[d] = net[d] /\ hand'[d] = hand[d] /\ pos' = pos /\ mail' = mail
        BY <1>1
    <2> QED BY <2>1, <2>2, <2>3, <2>4, ConnFrame
<1>12. ConnOK(e) /\ UsedOK(e) /\ NetOK(e) /\ OrderOK(e) /\ HandOK(e) /\ BoxOK(e) /\ OnceOK(e) /\ BodyOK(e) /\ SlotOK(e) /\ BufOK(e)
    BY DEF FlowInv, PlacesInv, ConnOK
<1>13. \A t \in Thread, f \in {0, 1} : \A k \in Rounds(t) :
          InTransit(e, t, k, f)' <=> InTransit(e, t, k, f) /\ ~(t = c[2] /\ k = k0 /\ f = 1)
    BY <1>5 DEF InTransit, Item
<1>14. Sent(e, c[2], k0, 1) /\ ~Wire(e, c[2], k0, 1)
    BY <1>1, <1>4, <1>5, <1>6, <1>10, <1>12 DEF SlotOK
<1>15. /\ \A t, k, f : Wire(e, t, k, f)' <=> Wire(e, t, k, f)
       /\ \A t, k : Held(e, t, k)' <=> Held(e, t, k)
       /\ \A t, k : Boxed(e, t, k)' <=> Boxed(e, t, k)
    BY <1>1 DEF Wire, Held, Boxed
<1>16. UsedOK(e)'
    BY <1>5, <1>12, <1>14 DEF UsedOK, Item
<1>17. NetOK(e)'
    <2> SUFFICES ASSUME NEW i \in DOMAIN net[e]
                 PROVE  \E t \in Thread, f \in {0, 1} : \E k \in Rounds(t) :
                           IsFor(net[e][i], t, k, f) /\ InTransit(e, t, k, f)'
        BY <1>1 DEF NetOK
    <2>1. PICK t \in Thread, f \in {0, 1} : \E k \in Rounds(t) :
              IsFor(net[e][i], t, k, f) /\ InTransit(e, t, k, f)
        BY <1>12 DEF NetOK
    <2>2. PICK k \in Rounds(t) : IsFor(net[e][i], t, k, f) /\ InTransit(e, t, k, f)
        BY <2>1
    <2>3. ~(t = c[2] /\ k = k0 /\ f = 1)
        BY <1>14, <2>2 DEF Wire
    <2> QED BY <1>13, <2>2, <2>3
<1>18. OrderOK(e)'
    BY <1>1, <1>12 DEF OrderOK
<1>19. HandOK(e)'
    BY <1>1, <1>12, <1>13 DEF HandOK
<1>20. BoxOK(e)'
    <2> SUFFICES ASSUME NEW x \in Name, mail[<<e[2], e[1], x>>] # <<>>
                 PROVE  \E t \in Thread : \E k \in Rounds(t) :
                            /\ x = Program[t][k].name /\ Carries(Head(mail[<<e[2], e[1], x>>]), t, k)
                            /\ InTransit(e, t, k, 0)'
        BY <1>1 DEF BoxOK
    <2> QED BY <1>12, <1>13 DEF BoxOK
<1>21. OnceOK(e)'
    BY <1>12, <1>15 DEF OnceOK
<1>22. BodyOK(e)'
    <2> SUFFICES ASSUME NEW t \in Thread, NEW k \in Rounds(t), InTransit(e, t, k, 1)'
                 PROVE  Wire(e, t, k, 1)' \/ (Filled(e, t)' /\ k = pos'[<<e[2], t>>])
        BY DEF BodyOK
    <2>1. InTransit(e, t, k, 1) /\ ~(t = c[2] /\ k = k0)
        BY <1>13
    <2>2. Wire(e, t, k, 1) \/ (Filled(e, t) /\ k = pos[<<e[2], t>>])
        BY <1>12, <2>1 DEF BodyOK
    <2>3. ASSUME Filled(e, t), k = pos[<<e[2], t>>] PROVE Filled(e, t)'
        <3>1. t # c[2]
            BY <1>4, <1>6, <2>1, <2>3
        <3> QED BY <1>9, <2>3, <3>1
    <2> QED BY <1>1, <1>15, <2>2, <2>3
<1>23. SlotOK(e)'
    <2> SUFFICES ASSUME NEW t \in Thread, NEW k \in Rounds(t), Filled(e, t)', k = pos'[<<e[2], t>>]
                 PROVE  Sent(e, t, k, 1)' /\ ~Wire(e, t, k, 1)'
        BY DEF SlotOK
    <2>1. Filled(e, t)
        BY <1>9, <1>10
    <2>2. Sent(e, t, k, 1) /\ ~Wire(e, t, k, 1)
        BY <1>1, <1>12, <2>1 DEF SlotOK
    <2> QED BY <1>5, <1>15, <2>2
<1>24. BufOK(e)'
    BY <1>1, <1>12 DEF BufOK
<1>25. ConnOK(e)'
    BY <1>16, <1>17, <1>18, <1>19, <1>20, <1>21, <1>22, <1>23, <1>24 DEF ConnOK
<1>26. SelfBoxInv'
    BY <1>1 DEF FlowInv, PlacesInv, SelfBoxInv
<1> QED BY <1>5, <1>11, <1>25, <1>26 DEF PlacesInv

----------------------------------------------------------------------------
(* The steps of handlers, and the items they move *)

(* The head of a connection and the messages behind it. *)
LEMMA HeadAndTail ==
    ASSUME NEW S, NEW s \in Seq(S), s # <<>>
    PROVE  /\ 1 \in DOMAIN s /\ Head(s) = s[1] /\ DOMAIN s \subseteq Nat /\ DOMAIN Tail(s) \subseteq Nat
           /\ \A i \in DOMAIN Tail(s) : i + 1 \in DOMAIN s /\ Tail(s)[i] = s[i + 1] /\ 1 < i + 1
           /\ \A i \in DOMAIN s : i # 1 => i - 1 \in DOMAIN Tail(s) /\ Tail(s)[i - 1] = s[i]
<1>1. Len(s) \in Nat /\ DOMAIN s = 1 .. Len(s) /\ Len(s) > 0
    OBVIOUS
<1>2. DOMAIN Tail(s) = 1 .. Len(s) - 1 /\ \A i \in 1 .. Len(s) - 1 : Tail(s)[i] = s[i + 1]
    OBVIOUS
<1>3. ASSUME NEW i \in DOMAIN s, i # 1 PROVE i - 1 \in DOMAIN Tail(s) /\ Tail(s)[i - 1] = s[i]
    <2>1. i - 1 \in 1 .. Len(s) - 1 /\ (i - 1) + 1 = i
        BY <1>1, <1>3
    <2> QED BY <1>2, <2>1
<1>4. ASSUME NEW i \in DOMAIN Tail(s) PROVE i + 1 \in DOMAIN s /\ Tail(s)[i] = s[i + 1] /\ 1 < i + 1
    BY <1>1, <1>2
<1> QED BY <1>1, <1>2, <1>3, <1>4

(* A handler's step moves nothing on the other connections, and no caller. *)
LEMMA HandlerFrame ==
    ASSUME CollInv, FlowInv, UNCHANGED callVars, NEW e \in Conn,
           \A d \in Conn : d # e => net'[d] = net[d] /\ hand'[d] = hand[d],
           \A b \in Box : ~(b[1] = e[2] /\ b[2] = e[1]) => mail'[b] = mail[b] /\ recvQ'[b] = recvQ[b]
    PROVE  /\ TaskInv' /\ SelfBoxInv'
           /\ \A d \in Conn : d # e => ConnOK(d)'
           /\ \A d \in Conn, t \in Thread, f \in {0, 1} : \A k \in Rounds(t) :
                 /\ Sent(d, t, k, f)' <=> Sent(d, t, k, f)
                 /\ Used(d, t, k, f)' <=> Used(d, t, k, f)
                 /\ InTransit(d, t, k, f)' <=> InTransit(d, t, k, f)
<1>1. UNCHANGED <<pos, phase, gi, sub, out>>
    BY DEF callVars
<1>2. TaskInv'
    BY <1>1 DEF FlowInv, TaskInv, TaskOK, Stage, Reduces, Graph, Op
<1>3. ASSUME NEW d \in Conn, NEW t \in Thread, NEW f \in {0, 1}, NEW k \in Rounds(t)
      PROVE  /\ Sent(d, t, k, f)' <=> Sent(d, t, k, f)
             /\ Used(d, t, k, f)' <=> Used(d, t, k, f)
             /\ InTransit(d, t, k, f)' <=> InTransit(d, t, k, f)
    <2>1. Sent(d, t, k, f)' <=> Sent(d, t, k, f)
        BY <1>1, SentFrame
    <2>2. Used(d, t, k, f)' <=> Used(d, t, k, f)
        BY <1>1, UsedFrame
    <2> QED BY <2>1, <2>2 DEF InTransit, Item
<1>4. SelfBoxInv'
    <2> SUFFICES ASSUME NEW b \in Box, b[1] = b[2] PROVE mail'[b] = <<>>
        BY DEF SelfBoxInv
    <2>1. ~(b[1] = e[2] /\ b[2] = e[1])
        BY CallerFacts
    <2> QED BY <2>1 DEF FlowInv, PlacesInv, SelfBoxInv
<1>5. ASSUME NEW d \in Conn, d # e PROVE ConnOK(d)'
    <2>1. d = <<d[1], d[2]>> /\ d[1] \in Peer /\ d[2] \in Peer /\ e = <<e[1], e[2]>>
        BY CallerFacts
    <2>2. \A x \in Name : /\ mail'[<<d[2], d[1], x>>] = mail[<<d[2], d[1], x>>]
                          /\ recvQ'[<<d[2], d[1], x>>] = recvQ[<<d[2], d[1], x>>]
        <3> SUFFICES ASSUME NEW x \in Name
                     PROVE  /\ mail'[<<d[2], d[1], x>>] = mail[<<d[2], d[1], x>>]
                            /\ recvQ'[<<d[2], d[1], x>>] = recvQ[<<d[2], d[1], x>>]
            OBVIOUS
        <3>1. PICK b \in Box : b = <<d[2], d[1], x>>
            BY <2>1, BoxFacts
        <3>2. ~(b[1] = e[2] /\ b[2] = e[1])
            BY <1>5, <2>1, <3>1
        <3> QED BY <3>1, <3>2
    <2>3. ASSUME NEW t \in Thread PROVE Filled(d, t)' <=> Filled(d, t)
        <3>1. PICK c \in Caller : c = <<d[2], t>>
            BY <2>1, CallerFacts
        <3>2. Op(c)' = Op(c) /\ sub' = sub /\ hand'[d] = hand[d]
            BY <1>1, <1>5 DEF Op
        <3>3. CASE sub[c][d[1]] # "posted"
            BY <3>1, <3>2, <3>3 DEF Filled
        <3>4. CASE sub[c][d[1]] = "posted"
            <4>1. Op(c).name \in Name
                BY <2>1, <3>4, PostedFacts DEF FlowInv
            <4>2. recvQ'[<<d[2], d[1], Op(c).name>>] = recvQ[<<d[2], d[1], Op(c).name>>]
                BY <2>2, <4>1
            <4> QED BY <3>1, <3>2, <4>2 DEF Filled
        <3> QED BY <3>3, <3>4
    <2>4. ConnOK(d) /\ TaskInv
        BY DEF FlowInv, PlacesInv
    <2>5. net'[d] = net[d] /\ hand'[d] = hand[d] /\ pos' = pos
        BY <1>1, <1>5
    <2>6. \A t \in Thread, f \in {0, 1} : \A k \in Rounds(t) : Item(d, t, k, f) =>
              /\ Sent(d, t, k, f)' <=> Sent(d, t, k, f)
              /\ Used(d, t, k, f)' <=> Used(d, t, k, f)
        BY <1>3
    <2>7. \A t \in Thread : sub[<<d[2], t>>][d[1]] = "posted" => pos'[<<d[2], t>>] = pos[<<d[2], t>>]
        BY <2>5
    <2>8. \A x \in Name : mail'[<<d[2], d[1], x>>] = mail[<<d[2], d[1], x>>]
        BY <2>2
    <2> QED BY <2>3, <2>4, <2>5, <2>6, <2>7, <2>8, ConnFrame
<1> QED BY <1>2, <1>3, <1>4, <1>5

(* Messages keep their order when the first one is taken. *)
LEMMA OrderShift ==
    ASSUME NEW e, OrderOK(e), DOMAIN net'[e] \subseteq Nat,
           \A i \in DOMAIN net'[e] : i + 1 \in DOMAIN net[e] /\ net'[e][i] = net[e][i + 1]
    PROVE  OrderOK(e)'
<1> SUFFICES ASSUME NEW i \in DOMAIN net'[e], NEW j \in DOMAIN net'[e], NEW t \in Thread,
                    NEW f \in {0, 1}, NEW g \in {0, 1}, NEW k \in Rounds(t), NEW l \in Rounds(t),
                    i < j, IsFor(net'[e][i], t, k, f), IsFor(net'[e][j], t, l, g)
             PROVE  2 * k + f < 2 * l + g
    BY DEF OrderOK
<1>1. PICK x \in DOMAIN net[e], y \in DOMAIN net[e] : x = i + 1 /\ y = j + 1
    OBVIOUS
<1>2. x < y /\ IsFor(net[e][x], t, k, f) /\ IsFor(net[e][y], t, l, g)
    BY <1>1
<1> QED BY <1>2 DEF OrderOK

(* The handler reads the first message of its connection. *)
LEMMA HeadGone ==
    ASSUME CollInv, NEW e \in Conn, ConnOK(e), net[e] # <<>>, net'[e] = Tail(net[e]),
           \A t \in Thread, f \in {0, 1} : \A k \in Rounds(t) :
              InTransit(e, t, k, f)' <=> InTransit(e, t, k, f),
           NEW t0 \in Thread, NEW k0 \in Rounds(t0), NEW f0 \in {0, 1}, IsFor(net[e][1], t0, k0, f0)
    PROVE  /\ NetOK(e)' /\ OrderOK(e)'
           /\ \A t \in Thread, f \in {0, 1} : \A k \in Rounds(t) :
                 Wire(e, t, k, f)' <=> Wire(e, t, k, f) /\ ~(t = t0 /\ k = k0 /\ f = f0)
<1>1. NetOK(e) /\ OrderOK(e)
    BY DEF ConnOK
<1>2. net[e] \in Seq(Msg)
    BY DEF CollInv, NetType
<1>3. /\ 1 \in DOMAIN net[e] /\ DOMAIN net[e] \subseteq Nat /\ DOMAIN net'[e] \subseteq Nat
      /\ \A i \in DOMAIN net'[e] : i + 1 \in DOMAIN net[e] /\ net'[e][i] = net[e][i + 1] /\ 1 < i + 1
      /\ \A i \in DOMAIN net[e] : i # 1 => i - 1 \in DOMAIN net'[e] /\ net'[e][i - 1] = net[e][i]
    BY <1>2, HeadAndTail
<1>4. NetOK(e)'
    <2> SUFFICES ASSUME NEW i \in DOMAIN net'[e]
                 PROVE  \E t \in Thread, f \in {0, 1} : \E k \in Rounds(t) :
                           IsFor(net'[e][i], t, k, f) /\ InTransit(e, t, k, f)'
        BY DEF NetOK
    <2>1. i + 1 \in DOMAIN net[e] /\ net'[e][i] = net[e][i + 1]
        BY <1>3
    <2>2. PICK t \in Thread, f \in {0, 1} : \E k \in Rounds(t) :
                           IsFor(net[e][i + 1], t, k, f) /\ InTransit(e, t, k, f)
        BY <1>1, <2>1 DEF NetOK
    <2> QED BY <2>1, <2>2
<1>5. OrderOK(e)'
    BY <1>1, <1>3, OrderShift
<1>6. ASSUME NEW t \in Thread, NEW f \in {0, 1}, NEW k \in Rounds(t)
      PROVE  Wire(e, t, k, f)' <=> Wire(e, t, k, f) /\ ~(t = t0 /\ k = k0 /\ f = f0)
    <2>1. ASSUME Wire(e, t, k, f)' PROVE Wire(e, t, k, f) /\ ~(t = t0 /\ k = k0 /\ f = f0)
        <3>1. PICK i \in DOMAIN net'[e] : IsFor(net'[e][i], t, k, f)
            BY <2>1 DEF Wire
        <3>2. PICK x \in DOMAIN net[e] : x = i + 1 /\ 1 < x /\ IsFor(net[e][x], t, k, f)
            BY <1>3, <3>1
        <3>3. Wire(e, t, k, f)
            BY <3>2 DEF Wire
        <3>4. ASSUME t = t0 /\ k = k0 /\ f = f0 PROVE FALSE
            <4>1. 2 * k + f < 2 * k + f
                BY <1>1, <1>3, <3>2, <3>4 DEF OrderOK
            <4>2. 2 * k + f \in Int
                BY ItemFacts
            <4> QED BY <4>1, <4>2
        <3> QED BY <3>3, <3>4
    <2>2. ASSUME Wire(e, t, k, f), ~(t = t0 /\ k = k0 /\ f = f0) PROVE Wire(e, t, k, f)'
        <3>1. PICK i \in DOMAIN net[e] : IsFor(net[e][i], t, k, f)
            BY <2>2 DEF Wire
        <3>2. i # 1
            BY <2>2, <3>1, ForOne
        <3>3. i - 1 \in DOMAIN net'[e] /\ IsFor(net'[e][i - 1], t, k, f)
            BY <1>3, <3>1, <3>2
        <3> QED BY <3>3 DEF Wire
    <2> QED BY <2>1, <2>2
<1> QED BY <1>4, <1>5, <1>6

(* msg_handler reads an item to be added up: it moves from the wire to the   *)
(* handler.                                                                  *)
LEMMA ReadMailPlaces ==
    ASSUME CollInv, FlowInv, NEW e \in Conn, ReadMail(e)
    PROVE  TaskInv' /\ PlacesInv'
<1>1. PICK m : m = net[e][1]
    OBVIOUS
<1>2. hand[e] = Idle /\ hand[e].st = "idle" /\ net[e] # <<>> /\ Header(e) = m /\ ~m.wait_recv_buf
    <2>1. hand[e] = Idle /\ net[e] # <<>> /\ ~Header(e).wait_recv_buf
        BY DEF ReadMail, HasNext
    <2>2. net[e] \in Seq(Msg)
        BY DEF CollInv, NetType
    <2>3. Header(e) = m
        BY <1>1, <2>1, <2>2, HeadAndTail DEF Header
    <2> QED BY <2>1, <2>3, HandStates
<1>3. /\ net'[e] = Tail(net[e]) /\ hand'[e] = [st |-> "mail", name |-> m.name, data |-> m.data]
      /\ \A d \in Conn : d # e => net'[d] = net[d] /\ hand'[d] = hand[d]
      /\ UNCHANGED <<callVars, pos, sub, mail, recvQ>>
    BY <1>2 DEF ReadMail, CollInv, NetType, callVars, boxVars
<1>4. hand'[e].st = "mail" /\ hand'[e].name = m.name /\ hand'[e].data = m.data
    BY <1>3
<1>5. /\ TaskInv' /\ SelfBoxInv'
      /\ \A d \in Conn : d # e => ConnOK(d)'
      /\ \A d \in Conn, t \in Thread, f \in {0, 1} : \A k \in Rounds(t) :
            /\ Sent(d, t, k, f)' <=> Sent(d, t, k, f)
            /\ Used(d, t, k, f)' <=> Used(d, t, k, f)
            /\ InTransit(d, t, k, f)' <=> InTransit(d, t, k, f)
    BY <1>3, HandlerFrame
<1>6. ConnOK(e) /\ UsedOK(e) /\ NetOK(e) /\ BoxOK(e) /\ OnceOK(e) /\ BodyOK(e) /\ SlotOK(e)
    BY DEF FlowInv, PlacesInv, ConnOK
<1>a. PICK t0 \in Thread : \E k0 \in Rounds(t0) : IsFor(m, t0, k0, 0) /\ InTransit(e, t0, k0, 0)
    <2>1. 1 \in DOMAIN net[e]
        BY <1>2, HeadAndTail DEF CollInv, NetType
    <2>2. PICK t0 \in Thread, f0 \in {0, 1} : \E k0 \in Rounds(t0) : IsFor(m, t0, k0, f0) /\ InTransit(e, t0, k0, f0)
        BY <1>1, <1>6, <2>1 DEF NetOK
    <2>3. f0 = 0
        BY <1>2, <2>2 DEF IsFor
    <2> QED BY <2>2, <2>3
<1>7. PICK k0 \in Rounds(t0) : IsFor(m, t0, k0, 0) /\ InTransit(e, t0, k0, 0)
    BY <1>a
<1>8. /\ NetOK(e)' /\ OrderOK(e)'
      /\ \A t \in Thread, f \in {0, 1} : \A k \in Rounds(t) :
            Wire(e, t, k, f)' <=> Wire(e, t, k, f) /\ ~(t = t0 /\ k = k0 /\ f = 0)
    BY <1>1, <1>2, <1>3, <1>5, <1>6, <1>7, HeadGone
<1>9. UsedOK(e)'
    BY <1>5, <1>6 DEF UsedOK, Item
<1>10. HandOK(e)'
    BY <1>4, <1>5, <1>7 DEF HandOK, IsFor
<1>11. BoxOK(e)'
    <2> SUFFICES ASSUME NEW x \in Name, mail[<<e[2], e[1], x>>] # <<>>
                 PROVE  \E t \in Thread : \E k \in Rounds(t) :
                            /\ x = Program[t][k].name /\ Carries(Head(mail[<<e[2], e[1], x>>]), t, k)
                            /\ InTransit(e, t, k, 0)'
        BY <1>3 DEF BoxOK
    <2> QED BY <1>5, <1>6 DEF BoxOK
<1>12. OnceOK(e)'
    <2> SUFFICES ASSUME NEW t \in Thread, NEW k \in Rounds(t)
                 PROVE  /\ ~(Wire(e, t, k, 0)' /\ Held(e, t, k)')
                        /\ ~(Wire(e, t, k, 0)' /\ Boxed(e, t, k)')
                        /\ ~(Held(e, t, k)' /\ Boxed(e, t, k)')
        BY DEF OnceOK
    <2>1. Boxed(e, t, k)' <=> Boxed(e, t, k)
        BY <1>3 DEF Boxed
    <2>2. Held(e, t, k)' => t = t0 /\ k = k0
        BY <1>4, <1>7, CarriesOne DEF Held, IsFor
    <2>3. Wire(e, t0, k0, 0)
        <3>1. 1 \in DOMAIN net[e]
            BY <1>2, HeadAndTail DEF CollInv, NetType
        <3> QED BY <1>1, <1>7, <3>1 DEF Wire
    <2> QED BY <1>6, <1>8, <2>1, <2>2, <2>3 DEF OnceOK
<1>13. \A t \in Thread : Filled(e, t)' <=> Filled(e, t)
    BY <1>2, <1>3, <1>4 DEF Filled, Op
<1>14. BodyOK(e)'
    BY <1>3, <1>5, <1>6, <1>8, <1>13 DEF BodyOK
<1>15. SlotOK(e)'
    BY <1>3, <1>5, <1>6, <1>8, <1>13 DEF SlotOK
<1>16. BufOK(e)'
    BY <1>4 DEF BufOK
<1>17. ConnOK(e)'
    BY <1>8, <1>9, <1>10, <1>11, <1>12, <1>14, <1>15, <1>16 DEF ConnOK
<1> QED BY <1>5, <1>17 DEF PlacesInv

(* The handler puts the item into the mailbox. *)
LEMMA PutMailPlaces ==
    ASSUME CollInv, FlowInv, NEW e \in Conn, PutMail(e)
    PROVE  TaskInv' /\ PlacesInv'
<1>1. hand[e].st = "mail" /\ hand[e].name \in Name /\ e[1] \in Peer /\ e[2] \in Peer
    BY HandStates, CallerFacts DEF PutMail
<1>2. PICK b \in Box : b = <<e[2], e[1], hand[e].name>>
    BY <1>1, BoxFacts
<1>3. PICK v : v = hand[e].data
    OBVIOUS
<1>4. b[1] = e[2] /\ b[2] = e[1] /\ b[3] = hand[e].name
    BY <1>2
<1>5. mail[b] = <<>> /\ mail'[b] # <<>> /\ Head(mail'[b]) = v /\ \A x \in Box : x # b => mail'[x] = mail[x]
    <2>1. mail \in [Box -> Seq(Data)] /\ mail[b] \in Seq(Data) /\ Len(mail[b]) < 1
        BY <1>2 DEF PutMail, CollInv, BoxType, ChannelCap
    <2>2. mail[b] = <<>>
        BY <2>1
    <2>3. mail' = [mail EXCEPT ![b] = Append(mail[b], v)]
        BY <1>2, <1>3 DEF PutMail
    <2>4. Append(mail[b], v) = <<v>> /\ <<v>> # <<>> /\ Head(<<v>>) = v
        BY <2>2
    <2> QED BY <2>1, <2>2, <2>3, <2>4
<1>6. /\ hand'[e] = Idle /\ hand'[e].st = "idle"
      /\ \A d \in Conn : d # e => net'[d] = net[d] /\ hand'[d] = hand[d]
      /\ UNCHANGED <<callVars, pos, sub, net, recvQ>>
    BY DEF PutMail, CollInv, NetType, callVars, netVars, Idle
<1>7. /\ TaskInv' /\ SelfBoxInv'
      /\ \A d \in Conn : d # e => ConnOK(d)'
      /\ \A d \in Conn, t \in Thread, f \in {0, 1} : \A k \in Rounds(t) :
            /\ Sent(d, t, k, f)' <=> Sent(d, t, k, f)
            /\ Used(d, t, k, f)' <=> Used(d, t, k, f)
            /\ InTransit(d, t, k, f)' <=> InTransit(d, t, k, f)
    <2>1. \A x \in Box : ~(x[1] = e[2] /\ x[2] = e[1]) => mail'[x] = mail[x] /\ recvQ'[x] = recvQ[x]
        BY <1>4, <1>5, <1>6
    <2> QED BY <1>6, <2>1, HandlerFrame
<1>8. ConnOK(e) /\ UsedOK(e) /\ NetOK(e) /\ OrderOK(e) /\ HandOK(e) /\ BoxOK(e) /\ OnceOK(e) /\ BodyOK(e) /\ SlotOK(e)
    BY DEF FlowInv, PlacesInv, ConnOK
<1>a. PICK t0 \in Thread : \E k0 \in Rounds(t0) :
          hand[e].name = Program[t0][k0].name /\ Carries(v, t0, k0) /\ InTransit(e, t0, k0, 0)
    BY <1>1, <1>3, <1>8 DEF HandOK
<1>9. PICK k0 \in Rounds(t0) :
          hand[e].name = Program[t0][k0].name /\ Carries(v, t0, k0) /\ InTransit(e, t0, k0, 0)
    BY <1>a
<1>10. \A t, k, f : Wire(e, t, k, f)' <=> Wire(e, t, k, f)
    BY <1>6 DEF Wire
<1>11. UsedOK(e)'
    BY <1>7, <1>8 DEF UsedOK, Item
<1>12. NetOK(e)'
    <2> SUFFICES ASSUME NEW i \in DOMAIN net[e]
                 PROVE  \E t \in Thread, f \in {0, 1} : \E k \in Rounds(t) :
                           IsFor(net[e][i], t, k, f) /\ InTransit(e, t, k, f)'
        BY <1>6 DEF NetOK
    <2> QED BY <1>7, <1>8 DEF NetOK
<1>13. OrderOK(e)'
    BY <1>6, <1>8 DEF OrderOK
<1>14. HandOK(e)'
    BY <1>6 DEF HandOK
<1>15. BoxOK(e)'
    <2> SUFFICES ASSUME NEW x \in Name, mail'[<<e[2], e[1], x>>] # <<>>
                 PROVE  \E t \in Thread : \E k \in Rounds(t) :
                            /\ x = Program[t][k].name /\ Carries(Head(mail'[<<e[2], e[1], x>>]), t, k)
                            /\ InTransit(e, t, k, 0)'
        BY DEF BoxOK
    <2>1. CASE x = hand[e].name
        <3>1. Carries(Head(mail'[<<e[2], e[1], x>>]), t0, k0) /\ x = Program[t0][k0].name
            BY <1>2, <1>5, <1>9, <2>1
        <3> QED BY <1>7, <1>9, <3>1
    <2>2. CASE x # hand[e].name
        <3>1. PICK y \in Box : y = <<e[2], e[1], x>>
            BY <1>1, BoxFacts
        <3>2. mail'[<<e[2], e[1], x>>] = mail[<<e[2], e[1], x>>]
            BY <1>4, <1>5, <2>2, <3>1
        <3>3. PICK t \in Thread : \E k \in Rounds(t) :
                            /\ x = Program[t][k].name /\ Carries(Head(mail[<<e[2], e[1], x>>]), t, k)
                            /\ InTransit(e, t, k, 0)
            BY <1>8, <3>2 DEF BoxOK
        <3> QED BY <1>7, <3>2, <3>3
    <2> QED BY <2>1, <2>2
<1>16. OnceOK(e)'
    <2> SUFFICES ASSUME NEW t \in Thread, NEW k \in Rounds(t)
                 PROVE  ~(Wire(e, t, k, 0)' /\ Boxed(e, t, k)')
        BY <1>6 DEF OnceOK, Held
    <2>1. CASE Program[t][k].name = hand[e].name
        <3>1. Boxed(e, t, k)' => Held(e, t, k)
            BY <1>1, <1>2, <1>3, <1>5, <2>1 DEF Boxed, Held
        <3> QED BY <1>8, <1>10, <3>1 DEF OnceOK
    <2>2. CASE Program[t][k].name # hand[e].name
        <3>1. PICK y \in Box : y = <<e[2], e[1], Program[t][k].name>>
            BY <1>1, BoxFacts, ItemFacts
        <3>2. mail'[y] = mail[y]
            BY <1>4, <1>5, <2>2, <3>1
        <3>3. Boxed(e, t, k)' => Boxed(e, t, k)
            BY <3>1, <3>2 DEF Boxed
        <3> QED BY <1>8, <1>10, <3>3 DEF OnceOK
    <2> QED BY <2>1, <2>2
<1>17. \A t \in Thread : Filled(e, t)' <=> Filled(e, t)
    BY <1>1, <1>6 DEF Filled, Op
<1>18. BodyOK(e)'
    BY <1>6, <1>7, <1>8, <1>10, <1>17 DEF BodyOK
<1>19. SlotOK(e)'
    BY <1>6, <1>7, <1>8, <1>10, <1>17 DEF SlotOK
<1>20. BufOK(e)'
    BY <1>6 DEF BufOK
<1>21. ConnOK(e)'
    BY <1>11, <1>12, <1>13, <1>14, <1>15, <1>16, <1>18, <1>19, <1>20 DEF ConnOK
<1> QED BY <1>7, <1>21 DEF PlacesInv

(* A handler that serves the slotbox leaves the items to be added up alone. *)
LEMMA SlotFrame ==
    ASSUME CollInv, FlowInv, NEW e \in Conn, UNCHANGED <<callVars, mail>>, hand'[e].st # "mail",
           \A d \in Conn : d # e => net'[d] = net[d] /\ hand'[d] = hand[d],
           \A b \in Box : ~(b[1] = e[2] /\ b[2] = e[1]) => recvQ'[b] = recvQ[b],
           \A t \in Thread : \A k \in Rounds(t) : Wire(e, t, k, 0)' => Wire(e, t, k, 0),
           NetOK(e)', OrderOK(e)', BodyOK(e)', SlotOK(e)', BufOK(e)'
    PROVE  TaskInv' /\ PlacesInv'
<1>1. /\ TaskInv' /\ SelfBoxInv'
      /\ \A d \in Conn : d # e => ConnOK(d)'
      /\ \A d \in Conn, t \in Thread, f \in {0, 1} : \A k \in Rounds(t) :
            /\ Sent(d, t, k, f)' <=> Sent(d, t, k, f)
            /\ Used(d, t, k, f)' <=> Used(d, t, k, f)
            /\ InTransit(d, t, k, f)' <=> InTransit(d, t, k, f)
    BY HandlerFrame
<1>2. UsedOK(e) /\ BoxOK(e) /\ OnceOK(e)
    BY DEF FlowInv, PlacesInv, ConnOK
<1>3. UsedOK(e)'
    BY <1>1, <1>2 DEF UsedOK, Item
<1>4. HandOK(e)'
    BY DEF HandOK
<1>5. BoxOK(e)'
    <2> SUFFICES ASSUME NEW x \in Name, mail[<<e[2], e[1], x>>] # <<>>
                 PROVE  \E t \in Thread : \E k \in Rounds(t) :
                            /\ x = Program[t][k].name /\ Carries(Head(mail[<<e[2], e[1], x>>]), t, k)
                            /\ InTransit(e, t, k, 0)'
        BY DEF BoxOK
    <2> QED BY <1>1, <1>2 DEF BoxOK
<1>6. OnceOK(e)'
    <2>1. \A t \in Thread : \A k \in Rounds(t) : ~Held(e, t, k)' /\ (Boxed(e, t, k)' <=> Boxed(e, t, k))
        BY DEF Held, Boxed
    <2> QED BY <1>2, <2>1 DEF OnceOK
<1>7. ConnOK(e)'
    BY <1>3, <1>4, <1>5, <1>6 DEF ConnOK
<1> QED BY <1>1, <1>7 DEF PlacesInv

(* The body at the head of a connection is for the call that has posted the  *)
(* buffer: an earlier one would have been used, a later one comes after it.  *)
LEMMA BodyIsCurrent ==
    ASSUME CollInv, FlowInv, NEW e \in Conn, net[e] # <<>>, net[e][1].wait_recv_buf, hand[e].st = "idle",
           NEW c \in Caller, c[1] = e[2], sub[c][e[1]] = "posted", Op(c).name = net[e][1].name,
           recvQ[<<e[2], e[1], Op(c).name>>] = <<>>
    PROVE  IsFor(net[e][1], c[2], pos[c], 1)
<1>1. ConnOK(e) /\ NetOK(e) /\ OrderOK(e) /\ BodyOK(e) /\ TaskInv
    BY DEF FlowInv, PlacesInv, ConnOK
<1>2. e[1] \in Peer /\ e[2] \in Peer /\ e = <<e[1], e[2]>> /\ c = <<e[2], c[2]>> /\ c[2] \in Thread
    BY CallerFacts
<1>3. PICK p : p = pos[c]
    OBVIOUS
<1>4. /\ p \in Rounds(c[2]) /\ At(c) = 2 * p + 1 /\ Item(e, c[2], p, 1) /\ ~Used(e, c[2], p, 1)
      /\ Op(c) = Program[c[2]][p]
    BY <1>1, <1>2, <1>3, PostedFacts
<1>5. 1 \in DOMAIN net[e] /\ DOMAIN net[e] \subseteq Nat
    BY HeadAndTail DEF CollInv, NetType
<1>6. PICK t \in Thread : \E k \in Rounds(t) : IsFor(net[e][1], t, k, 1) /\ InTransit(e, t, k, 1)
    <2>1. PICK t \in Thread, f \in {0, 1} : \E k \in Rounds(t) : IsFor(net[e][1], t, k, f) /\ InTransit(e, t, k, f)
        BY <1>1, <1>5 DEF NetOK
    <2>2. f = 1
        BY <2>1 DEF IsFor
    <2> QED BY <2>1, <2>2
<1>7. PICK k \in Rounds(t) : IsFor(net[e][1], t, k, 1) /\ InTransit(e, t, k, 1)
    BY <1>6
<1>8. t = c[2]
    BY <1>2, <1>4, <1>7, NameThread DEF IsFor
<1>9. k \in Nat /\ p \in Nat
    BY <1>2, <1>4, ItemFacts
<1>10. k >= p
    <2>1. ~Used(e, c[2], k, 1)
        BY <1>7, <1>8 DEF InTransit
    <2>2. 2 * k + 1 >= At(c)
        BY <1>2, <1>8, <2>1, NotUsedYet
    <2> QED BY <1>4, <1>9, <2>2
<1>11. ASSUME k > p PROVE FALSE
    <2>1. Sent(e, c[2], p, 1)
        <3>1. Sent(e, c[2], k, 1) /\ 2 * p + 1 < 2 * k + 1
            BY <1>7, <1>8, <1>9, <1>11 DEF InTransit
        <3> QED BY <1>2, <1>4, <1>8, <3>1, SentInOrder
    <2>2. InTransit(e, c[2], p, 1)
        BY <1>4, <2>1 DEF InTransit
    <2>3. ~Filled(e, c[2])
        BY <1>2 DEF Filled
    <2>4. Wire(e, c[2], p, 1)
        BY <1>1, <1>2, <1>4, <2>2, <2>3 DEF BodyOK
    <2>5. PICK i \in DOMAIN net[e] : IsFor(net[e][i], c[2], p, 1)
        BY <2>4 DEF Wire
    <2>6. i # 1
        BY <1>7, <1>8, <1>9, <1>11, <2>5, ForOne
    <2>7. 1 < i
        BY <1>5, <2>5, <2>6, HeadAndTail DEF CollInv, NetType
    <2>8. 2 * k + 1 < 2 * p + 1
        BY <1>1, <1>2, <1>4, <1>5, <1>7, <1>8, <2>5, <2>7 DEF OrderOK
    <2> QED BY <1>9, <1>11, <2>8
<1>12. k = p
    BY <1>9, <1>10, <1>11
<1> QED BY <1>3, <1>7, <1>8, <1>12

(* queue_pair::put takes the buffer posted for the message it has in hand. *)
LEMMA TakeBufPlaces ==
    ASSUME CollInv, FlowInv, NEW e \in Conn, TakeBuf(e)
    PROVE  TaskInv' /\ PlacesInv'
<1>1. hand[e] = Idle /\ hand[e].st = "idle" /\ net[e] # <<>> /\ Header(e).name \in Name
    BY HandStates, NetHead DEF TakeBuf, HasNext
<1>2. e[1] \in Peer /\ e[2] \in Peer /\ e = <<e[1], e[2]>> /\ Header(e) = net[e][1]
    BY <1>1, CallerFacts, HeadAndTail DEF Header, CollInv, NetType
<1>3. PICK b \in Box : b = <<e[2], e[1], Header(e).name>>
    BY <1>1, <1>2, BoxFacts
<1>4. waitQ[b] \in Seq(Ptr) /\ Len(waitQ[b]) <= 1 /\ waitQ[b] # <<>>
    BY <1>3 DEF TakeBuf, CollInv, BoxType
<1>5. PICK x \in Ptr : waitQ[b] = <<x>> /\ Head(waitQ[b]) = x
    BY <1>4, ShortSeq
<1>6. /\ hand'[e] = [st |-> "buf", name |-> Header(e).name, ptr |-> x]
      /\ \A d \in Conn : d # e => hand'[d] = hand[d]
      /\ UNCHANGED <<callVars, pos, phase, sub, net, mail, recvQ>>
    BY <1>3, <1>5 DEF TakeBuf, CollInv, NetType, callVars, netVars
<1>7. hand'[e].st = "buf" /\ hand'[e].ptr = x
    BY <1>6
<1>8. <<"waitQ", x>> \in Holders(b)
    BY <1>5, QueueHolds, HoldersAre
<1>9. recvQ[b] = <<>>
    BY <1>8, OnePlace
<1>10. PICK t \in Owners(b) : Owners(b) = {t} /\ x = <<t, Part(Op(<<b[1], t>>), b[2])>>
    BY <1>8, OnePlace
<1>11. PICK c \in Caller : c = <<e[2], t>>
    BY <1>2, <1>10, CallerFacts DEF Owners
<1>12. /\ x[1] = t /\ c[1] = e[2] /\ c[2] = t /\ sub[c][e[1]] = "posted"
       /\ Op(c).name = net[e][1].name /\ recvQ[<<e[2], e[1], Op(c).name>>] = <<>>
    BY <1>2, <1>3, <1>9, <1>10, <1>11 DEF Owners
<1>13. net[e][1].wait_recv_buf
    BY <1>2 DEF TakeBuf
<1>14. IsFor(net[e][1], c[2], pos[c], 1)
    BY <1>1, <1>12, <1>13, BodyIsCurrent
<1>15. NetOK(e) /\ OrderOK(e) /\ BodyOK(e) /\ SlotOK(e)
    BY DEF FlowInv, PlacesInv, ConnOK
<1>16. BufOK(e)'
    BY <1>6, <1>7, <1>11, <1>12, <1>14 DEF BufOK
<1>17. \A u \in Thread, f \in {0, 1} : \A k \in Rounds(u) :
            /\ Sent(e, u, k, f)' <=> Sent(e, u, k, f)
            /\ InTransit(e, u, k, f)' <=> InTransit(e, u, k, f)
    <2>1. \A d \in Conn : d # e => net'[d] = net[d] /\ hand'[d] = hand[d]
        BY <1>6
    <2> QED BY <1>6, <2>1, HandlerFrame
<1>18. \A u \in Thread : Filled(e, u)' <=> Filled(e, u)
    BY <1>1, <1>6, <1>7 DEF Filled, Op
<1>19. \A u, k, f : Wire(e, u, k, f)' <=> Wire(e, u, k, f)
    BY <1>6 DEF Wire
<1>20. NetOK(e)'
    <2> SUFFICES ASSUME NEW i \in DOMAIN net[e]
                 PROVE  \E u \in Thread, f \in {0, 1} : \E k \in Rounds(u) :
                           IsFor(net[e][i], u, k, f) /\ InTransit(e, u, k, f)'
        BY <1>6 DEF NetOK
    <2> QED BY <1>15, <1>17 DEF NetOK
<1>21. OrderOK(e)'
    BY <1>6, <1>15 DEF OrderOK
<1>22. BodyOK(e)' /\ SlotOK(e)'
    BY <1>6, <1>15, <1>17, <1>18, <1>19 DEF BodyOK, SlotOK
<1>23. \A d \in Conn : d # e => net'[d] = net[d] /\ hand'[d] = hand[d]
    BY <1>6
<1> QED BY <1>6, <1>7, <1>16, <1>19, <1>20, <1>21, <1>22, <1>23, SlotFrame

(* read_body: the item moves from the wire into the buffer of its receiver. *)
LEMMA ReadBodyPlaces ==
    ASSUME CollInv, FlowInv, NEW e \in Conn, ReadBody(e)
    PROVE  TaskInv' /\ PlacesInv'
<1>1. hand[e].st = "buf" /\ net[e] # <<>>
    BY DEF ReadBody, CollInv, ReadInv
<1>2. e[1] \in Peer /\ e[2] \in Peer /\ e = <<e[1], e[2]>>
    BY CallerFacts
<1>3. PICK t0 \in Thread : t0 = hand[e].ptr[1]
    BY <1>1, HeldIsPosted
<1>4. PICK c \in Caller : c = <<e[2], t0>>
    BY <1>2, CallerFacts
<1>5. PICK k0 : k0 = pos[c]
    OBVIOUS
<1>6. sub[c][e[1]] = "posted" /\ c[1] = e[2] /\ c[2] = t0
    BY <1>1, <1>3, <1>4, HeldIsPosted
<1>7. k0 \in Rounds(t0) /\ TaskInv
    BY <1>2, <1>5, <1>6, PostedFacts DEF FlowInv
<1>8. ConnOK(e) /\ BodyOK(e) /\ SlotOK(e) /\ BufOK(e)
    BY DEF FlowInv, PlacesInv, ConnOK
<1>9. IsFor(net[e][1], t0, k0, 1)
    BY <1>1, <1>3, <1>4, <1>5, <1>8 DEF BufOK
<1>10. 1 \in DOMAIN net[e]
    BY <1>1, HeadAndTail DEF CollInv, NetType
<1>11. InTransit(e, t0, k0, 1) /\ Sent(e, t0, k0, 1)
    BY <1>7, <1>8, <1>9, <1>10, PlaceInTransit DEF Wire, InTransit
<1>12. /\ net'[e] = Tail(net[e]) /\ hand'[e] = [hand[e] EXCEPT !.st = "filled"]
       /\ \A d \in Conn : d # e => net'[d] = net[d] /\ hand'[d] = hand[d]
       /\ UNCHANGED <<callVars, pos, phase, sub, mail, recvQ>>
    BY DEF ReadBody, CollInv, NetType, callVars, boxVars
<1>13. hand'[e].st = "filled" /\ hand'[e].ptr = hand[e].ptr
    <2>1. hand[e] = [st |-> hand[e].st, name |-> hand[e].name, ptr |-> hand[e].ptr]
        BY <1>1, HandStates
    <2>2. PICK n, x : hand[e] = [st |-> "buf", name |-> n, ptr |-> x]
        BY <1>1, <2>1
    <2>3. hand'[e] = [st |-> "filled", name |-> n, ptr |-> x]
        BY <1>12, <2>2
    <2> QED BY <2>2, <2>3
<1>14. \A u \in Thread, f \in {0, 1} : \A k \in Rounds(u) :
            /\ Sent(e, u, k, f)' <=> Sent(e, u, k, f)
            /\ InTransit(e, u, k, f)' <=> InTransit(e, u, k, f)
    BY <1>12, HandlerFrame
<1>15. /\ NetOK(e)' /\ OrderOK(e)'
       /\ \A u \in Thread, f \in {0, 1} : \A k \in Rounds(u) :
             Wire(e, u, k, f)' <=> Wire(e, u, k, f) /\ ~(u = t0 /\ k = k0 /\ f = 1)
    BY <1>1, <1>7, <1>8, <1>9, <1>12, <1>14, HeadGone
<1>16. Filled(e, t0)' /\ pos'[<<e[2], t0>>] = k0 /\ pos[<<e[2], t0>>] = k0
    BY <1>3, <1>4, <1>5, <1>6, <1>12, <1>13 DEF Filled
<1>17. \A u \in Thread : u # t0 => (Filled(e, u)' <=> Filled(e, u))
    BY <1>1, <1>3, <1>12, <1>13 DEF Filled, Op
<1>18. BodyOK(e)'
    <2> SUFFICES ASSUME NEW u \in Thread, NEW k \in Rounds(u), InTransit(e, u, k, 1)
                 PROVE  Wire(e, u, k, 1)' \/ (Filled(e, u)' /\ k = pos'[<<e[2], u>>])
        BY <1>14 DEF BodyOK
    <2>1. CASE u = t0 /\ k = k0
        BY <1>16, <2>1
    <2>2. CASE ~(u = t0 /\ k = k0)
        <3>1. Wire(e, u, k, 1) \/ (Filled(e, u) /\ k = pos[<<e[2], u>>])
            BY <1>8 DEF BodyOK
        <3> QED BY <1>12, <1>15, <1>16, <1>17, <2>2, <3>1
    <2> QED BY <2>1, <2>2
<1>19. SlotOK(e)'
    <2> SUFFICES ASSUME NEW u \in Thread, NEW k \in Rounds(u), Filled(e, u)', k = pos'[<<e[2], u>>]
                 PROVE  Sent(e, u, k, 1)' /\ ~Wire(e, u, k, 1)'
        BY DEF SlotOK
    <2>1. CASE u = t0
        BY <1>11, <1>14, <1>15, <1>16, <2>1
    <2>2. CASE u # t0
        <3>1. Sent(e, u, k, 1) /\ ~Wire(e, u, k, 1)
            BY <1>8, <1>12, <1>17, <2>2 DEF SlotOK
        <3> QED BY <1>14, <1>15, <3>1
    <2> QED BY <2>1, <2>2
<1>20. BufOK(e)'
    BY <1>13 DEF BufOK
<1>21. \A u \in Thread : \A k \in Rounds(u) : Wire(e, u, k, 0)' => Wire(e, u, k, 0)
    BY <1>15
<1>22. UNCHANGED <<callVars, mail>> /\ \A b \in Box : recvQ'[b] = recvQ[b]
    BY <1>12
<1> QED BY <1>12, <1>13, <1>15, <1>18, <1>19, <1>20, <1>21, <1>22, SlotFrame

(* The handler gives the filled buffer back. *)
LEMMA PutRecvdPlaces ==
    ASSUME CollInv, FlowInv, NEW e \in Conn, PutRecvd(e)
    PROVE  TaskInv' /\ PlacesInv'
<1>1. hand[e].st = "filled" /\ hand[e].name \in Name
    BY HandStates DEF PutRecvd
<1>2. e[1] \in Peer /\ e[2] \in Peer /\ e = <<e[1], e[2]>>
    BY CallerFacts
<1>3. PICK t0 \in Thread : t0 = hand[e].ptr[1]
    BY <1>1, HeldIsPosted
<1>4. PICK c \in Caller : c = <<e[2], t0>>
    BY <1>2, CallerFacts
<1>5. sub[c][e[1]] = "posted" /\ c[1] = e[2] /\ c[2] = t0 /\ Op(c).name = hand[e].name
    BY <1>1, <1>3, <1>4, HeldIsPosted
<1>6. PICK b \in Box : b = <<e[2], e[1], hand[e].name>>
    BY <1>1, <1>2, BoxFacts
<1>7. /\ hand'[e] = Idle /\ hand'[e].st = "idle"
      /\ \A d \in Conn : d # e => net'[d] = net[d] /\ hand'[d] = hand[d]
      /\ UNCHANGED <<callVars, pos, phase, sub, net, mail>>
    BY DEF PutRecvd, CollInv, NetType, callVars, netVars, Idle
<1>8. recvQ'[b] # <<>> /\ \A x \in Box : x # b => recvQ'[x] = recvQ[x]
    <2>1. recvQ \in [Box -> Seq(Ptr)] /\ recvQ[b] \in Seq(Ptr)
        BY DEF CollInv, BoxType
    <2>2. recvQ' = [recvQ EXCEPT ![b] = Append(recvQ[b], hand[e].ptr)]
        BY <1>6 DEF PutRecvd
    <2>3. Append(recvQ[b], hand[e].ptr) # <<>>
        <3>1. PICK s \in Seq(Ptr) : s = recvQ[b]
            BY <2>1
        <3>2. PICK x \in Ptr : x = hand[e].ptr
            BY <1>1, HandStates
        <3>3. Len(Append(s, x)) = Len(s) + 1 /\ Len(s) \in Nat
            OBVIOUS
        <3>4. Append(s, x) # <<>>
            BY <3>3
        <3> QED BY <3>1, <3>2, <3>4
    <2> QED BY <2>1, <2>2, <2>3
<1>9. ASSUME NEW u \in Thread PROVE Filled(e, u)' <=> Filled(e, u)
    <2>1. PICK d \in Caller : d = <<e[2], u>>
        BY <1>2, CallerFacts
    <2>2. Op(d)' = Op(d) /\ Op(c)' = Op(c) /\ d[1] = e[2] /\ d[2] = u
        BY <1>7, <2>1 DEF Op
    <2>3. CASE u = t0
        <3>1. Filled(e, u)
            BY <1>1, <1>3, <1>4, <1>5, <2>3 DEF Filled
        <3>2. recvQ'[<<e[2], e[1], Op(c)'.name>>] # <<>>
            BY <1>5, <1>6, <1>8, <2>2
        <3>3. Filled(e, u)'
            BY <1>4, <1>5, <1>7, <2>3, <3>2 DEF Filled
        <3> QED BY <3>1, <3>3
    <2>4. CASE u # t0 /\ sub[d][e[1]] # "posted"
        BY <1>7, <2>1, <2>4 DEF Filled
    <2>5. CASE u # t0 /\ sub[d][e[1]] = "posted"
        <3>1. phase[c] # "idle" /\ phase[d] # "idle" /\ Op(d).name \in Name
            BY <1>2, <1>5, <2>5, PostedFacts DEF FlowInv
        <3>2. /\ pos[c] \in Nat \ {0} /\ pos[c] <= Len(Program[c[2]])
              /\ pos[d] \in Nat \ {0} /\ pos[d] <= Len(Program[d[2]])
            BY <3>1 DEF CollInv, CallType, CallInv, CallOK
        <3>3. Op(d).name # Op(c).name
            BY <1>5, <2>2, <2>5, <3>2, NamesApart
        <3>4. PICK y \in Box : y = <<e[2], e[1], Op(d).name>>
            BY <1>2, <3>1, BoxFacts
        <3>5. y # b
            BY <1>5, <1>6, <3>3, <3>4
        <3>6. recvQ'[<<e[2], e[1], Op(d).name>>] = recvQ[<<e[2], e[1], Op(d).name>>]
            BY <1>8, <3>4, <3>5
        <3> QED BY <1>3, <1>7, <2>1, <2>2, <2>5, <3>6 DEF Filled
    <2> QED BY <2>3, <2>4, <2>5
<1>10. \A x \in Box : ~(x[1] = e[2] /\ x[2] = e[1]) => mail'[x] = mail[x] /\ recvQ'[x] = recvQ[x]
    BY <1>6, <1>7, <1>8
<1>11. \A u \in Thread, f \in {0, 1} : \A k \in Rounds(u) :
            /\ Sent(e, u, k, f)' <=> Sent(e, u, k, f)
            /\ InTransit(e, u, k, f)' <=> InTransit(e, u, k, f)
    BY <1>7, <1>10, HandlerFrame
<1>12. \A u, k, f : Wire(e, u, k, f)' <=> Wire(e, u, k, f)
    BY <1>7 DEF Wire
<1>13. NetOK(e) /\ OrderOK(e) /\ BodyOK(e) /\ SlotOK(e)
    BY DEF FlowInv, PlacesInv, ConnOK
<1>14. NetOK(e)'
    <2> SUFFICES ASSUME NEW i \in DOMAIN net[e]
                 PROVE  \E u \in Thread, f \in {0, 1} : \E k \in Rounds(u) :
                           IsFor(net[e][i], u, k, f) /\ InTransit(e, u, k, f)'
        BY <1>7 DEF NetOK
    <2> QED BY <1>11, <1>13 DEF NetOK
<1>15. OrderOK(e)'
    BY <1>7, <1>13 DEF OrderOK
<1>16. BodyOK(e)' /\ SlotOK(e)'
    BY <1>7, <1>9, <1>11, <1>12, <1>13 DEF BodyOK, SlotOK
<1>17. BufOK(e)'
    BY <1>7 DEF BufOK
<1>18. \A x \in Box : ~(x[1] = e[2] /\ x[2] = e[1]) => recvQ'[x] = recvQ[x]
    BY <1>10
<1> QED BY <1>7, <1>12, <1>14, <1>15, <1>16, <1>17, <1>18, SlotFrame

----------------------------------------------------------------------------
(* The data of different calls *)

(* add_to keeps apart what belongs to different calls. *)
LEMMA ReduceCarries ==
    ASSUME NEW x \in Data, NEW y \in Data, NEW t, NEW k, Carries(x, t, k), Carries(y, t, k)
    PROVE  Carries(Reduce(x, y), t, k)
<1>1. DOMAIN Reduce(x, y) = DOMAIN x \cup DOMAIN y
    BY DEF Reduce, (+)
<1>2. PICK S, T, D : S = DOMAIN x /\ T = DOMAIN y /\ D = DOMAIN Reduce(x, y)
    OBVIOUS
<1>3. S # {} /\ (\A z \in S : z[2] = t /\ z[3] = k) /\ (\A z \in T : z[2] = t /\ z[3] = k) /\ D = S \cup T
    BY <1>1, <1>2 DEF Carries
<1>4. D # {} /\ \A z \in D : z[2] = t /\ z[3] = k
    BY <1>3
<1> QED BY <1>2, <1>4 DEF Carries

(* A call's input belongs to the call. *)
LEMMA InputCarries ==
    ASSUME NEW p, NEW t, NEW k
    PROVE  Carries(Input(p, t, k), t, k)
<1>1. DOMAIN Input(p, t, k) = {<<p, t, k>>}
    BY DEF Input, SetToBag
<1> QED BY <1>1 DEF Carries

(* A step that leaves the buffers alone and begins no call. *)
LEMMA MemKept ==
    ASSUME MemInv, UNCHANGED memVars,
           \A c \in Caller : phase'[c] # "idle" => phase[c] # "idle" /\ pos'[c] = pos[c]
    PROVE  MemInv'
    BY DEF MemInv, memVars

(* A write of data of the call to the caller's receive buffer. *)
LEMMA MemWritten ==
    ASSUME CollInv, MemInv, NEW c \in Caller, NEW i \in Peer, NEW data \in Data, WriteRecv(c, i, data),
           Carries(data, c[2], pos[c]), UNCHANGED pos,
           \A d \in Caller : phase'[d] # "idle" => phase[d] # "idle",
           i = 0 \/ recv_count'[c] = recv_count[c],
           \A d \in Caller : d # c => recv_count'[d] = recv_count[d]
    PROVE  MemInv'
<1>1. /\ \A d \in Caller : d # c => send'[d] = send[d] /\ recv'[d] = recv[d]
      /\ recv \in [Caller -> [Peer -> Data]] /\ send \in [Caller -> Data]
    BY WriteRecvType DEF CollInv, MemType
<1>2. recv'[c] = [recv[c] EXCEPT ![i] = data] /\ recv[c] \in [Peer -> Data] /\ 0 \in Peer
    BY <1>1, Constants DEF WriteRecv
<1>3. recv'[c][0] = (IF i = 0 THEN data ELSE recv[c][0])
    BY <1>2
<1>4. send'[c] = data \/ send'[c] = send[c]
    BY <1>1 DEF WriteRecv
<1>5. ASSUME NEW d \in Caller, phase'[d] # "idle"
      PROVE  /\ Carries(send'[d], d[2], pos'[d])
             /\ recv_count'[d] > 0 => Carries(recv'[d][0], d[2], pos'[d])
    <2>1. phase[d] # "idle" /\ pos'[d] = pos[d]
        BY <1>5
    <2>2. Carries(send[d], d[2], pos[d]) /\ (recv_count[d] > 0 => Carries(recv[d][0], d[2], pos[d]))
        BY <2>1 DEF MemInv
    <2>3. CASE d # c
        BY <1>1, <2>1, <2>2, <2>3
    <2>4. CASE d = c
        BY <1>3, <1>4, <2>1, <2>2, <2>4
    <2> QED BY <2>3, <2>4
<1> QED BY <1>5 DEF MemInv

(* The steps of callers keep apart what belongs to different calls. *)
LEMMA MemCaller ==
    ASSUME CollInv, FlowInv, NEW c \in Caller, CallerStep(c)
    PROVE  MemInv'
<1>1. MemInv
    BY DEF FlowInv
<1>2. CASE Call(c) \/ CallFlat(c)
    <2>1. Begin(c) /\ \A d \in Caller : d # c => phase'[d] = phase[d]
        BY <1>2 DEF Call, CallFlat, CollInv, CallType
    <2>2. /\ send'[c] = Input(c[1], c[2], pos[c]) /\ recv_count'[c] = 0 /\ pos' = pos
          /\ \A d \in Caller : d # c => /\ send'[d] = send[d] /\ recv'[d] = recv[d]
                                        /\ recv_count'[d] = recv_count[d]
        BY <2>1 DEF Begin, CollInv, MemType
    <2>3. Carries(send'[c], c[2], pos'[c]) /\ ~(recv_count'[c] > 0)
        BY <2>2, InputCarries
    <2> QED BY <1>1, <2>1, <2>2, <2>3 DEF MemInv
<1>3. CASE GatherOwn(c)
    <2>1. WriteRecv(c, Part(Op(c), c[1]), send[c]) /\ UNCHANGED <<pos, phase, recv_count>> /\ phase[c] = "flat"
        BY <1>3 DEF GatherOwn, Forward
    <2>2. Carries(send[c], c[2], pos[c]) /\ send[c] \in Data
        BY <1>1, <2>1 DEF MemInv, CollInv, MemType
    <2>3. Part(Op(c), c[1]) \in Peer
        BY CallerFacts, Constants DEF Part
    <2> QED BY <1>1, <2>1, <2>2, <2>3, MemWritten
<1>4. CASE RecvDone(c)
    <2>1. UNCHANGED <<pos, recv_count>> /\ phase[c] = "recv" /\ phase' = [phase EXCEPT ![c] = "send"]
        BY <1>4 DEF RecvDone
    <2>2. \A d \in Caller : phase'[d] # "idle" => phase[d] # "idle" /\ pos'[d] = pos[d]
        BY <2>1 DEF CollInv, CallType
    <2>3. CASE UNCHANGED <<send, recv>>
        BY <1>1, <2>1, <2>2, <2>3, MemKept DEF memVars
    <2>4. CASE Forward(c, 0)
        <3>1. WriteRecv(c, 0, send[c])
            BY <2>4 DEF Forward
        <3>2. Carries(send[c], c[2], pos[c]) /\ send[c] \in Data /\ 0 \in Peer
            BY <1>1, <2>1, Constants DEF MemInv, CollInv, MemType
        <3> QED BY <1>1, <2>1, <2>2, <3>1, <3>2, MemWritten
    <2> QED BY <1>4, <2>3, <2>4 DEF RecvDone
<1>5. CASE SendDone(c)
    <2>1. UNCHANGED memVars /\ phase[c] # "idle" /\ pos \in [Caller -> Nat \ {0}]
          /\ phase \in [Caller -> {"idle", "recv", "send", "flat"}]
        BY <1>5 DEF SendDone, CollInv, CallType
    <2>2. \/ pos' = pos /\ phase' = [phase EXCEPT ![c] = "recv"]
          \/ pos' = [pos EXCEPT ![c] = @ + 1] /\ phase' = [phase EXCEPT ![c] = "idle"]
        BY <1>5 DEF SendDone
    <2>3. \A d \in Caller : phase'[d] # "idle" => phase[d] # "idle" /\ pos'[d] = pos[d]
        BY <2>1, <2>2
    <2> QED BY <1>1, <2>1, <2>3, MemKept
<1> QED BY <1>2, <1>3, <1>4, <1>5 DEF CallerStep

(* So do the tasks of a call, ... *)
LEMMA MemTask ==
    ASSUME CollInv, FlowInv, NEW c \in Caller, NEW q \in Peer, TaskStep(c, q)
    PROVE  MemInv'
<1>1. MemInv
    BY DEF FlowInv
<1>2. CASE PostRecv(c, q) \/ RecvInto(c, q) \/ SendBegin(c, q) \/ SendEnd(c, q)
    <2>1. UNCHANGED <<pos, phase>> /\ UNCHANGED memVars
        BY <1>2 DEF PostRecv, RecvInto, SendBegin, SendEnd
    <2> QED BY <1>1, <2>1, MemKept
<1>3. CASE RecvOnto(c, q)
    <2>1. PICK v : v = Head(mail[<<c[1], q, Op(c).name>>])
        OBVIOUS
    <2>2. PICK w : w = EffectiveData(c)
        OBVIOUS
    <2>3. /\ WriteRecv(c, 0, Reduce(v, w)) /\ recv_count' = [recv_count EXCEPT ![c] = @ + 1]
          /\ UNCHANGED <<pos, phase>> /\ phase[c] = "recv" /\ sub[c][q] = "todo" /\ Reduces(c)
          /\ mail[<<c[1], q, Op(c).name>>] # <<>>
        BY <1>3, <2>1, <2>2 DEF RecvOnto, AddTo
    <2>4. PICK k0 : k0 = pos[c]
        OBVIOUS
    <2>5. Boxed(<<q, c[1]>>, c[2], k0) /\ k0 \in Rounds(c[2]) /\ Op(c) = Program[c[2]][k0] /\ Op(c).name \in Name
        BY <2>3, <2>4, MailIsCurrent, StageFacts DEF StageOK, Op
    <2>6. Carries(v, c[2], k0)
        BY <2>1, <2>5 DEF Boxed
    <2>7. v \in Data
        <3>1. PICK b \in Box : b = <<c[1], q, Op(c).name>>
            BY <2>5, BoxFacts, CallerFacts
        <3>2. mail[b] \in Seq(Data) /\ Len(mail[b]) <= 1 /\ mail[b] # <<>>
            BY <2>3, <3>1 DEF CollInv, BoxType
        <3> QED BY <2>1, <3>1, <3>2, ShortSeq
    <2>8. w \in Data
        BY <2>2, EffectiveDataType DEF CollInv
    <2>9. Carries(w, c[2], k0)
        BY <1>1, <2>2, <2>3, <2>4 DEF MemInv, EffectiveData
    <2>10. Reduce(v, w) \in Data /\ Carries(Reduce(v, w), c[2], pos[c])
        BY <2>4, <2>6, <2>7, <2>8, <2>9, ReduceData, ReduceCarries
    <2>11. \A d \in Caller : d # c => recv_count'[d] = recv_count[d]
        BY <2>3 DEF CollInv, MemType
    <2> QED BY <1>1, <2>3, <2>10, <2>11, Constants, MemWritten
<1> QED BY <1>2, <1>3 DEF TaskStep

(* ... and the handlers, whose writes are for the call in progress. *)
LEMMA MemHandler ==
    ASSUME CollInv, FlowInv, NEW e \in Conn, HandlerStep(e)
    PROVE  MemInv'
<1>1. MemInv
    BY DEF FlowInv
<1>2. CASE ReadMail(e) \/ PutMail(e) \/ TakeBuf(e) \/ PutRecvd(e)
    <2>1. UNCHANGED <<pos, phase>> /\ UNCHANGED memVars
        BY <1>2 DEF ReadMail, PutMail, TakeBuf, PutRecvd, callVars
    <2> QED BY <1>1, <2>1, MemKept
<1>3. CASE ReadBody(e)
    <2>1. hand[e].st = "buf" /\ net[e] # <<>> /\ UNCHANGED <<pos, phase, recv_count>>
        BY <1>3 DEF ReadBody, CollInv, ReadInv, callVars
    <2>2. PICK t0 \in Thread : t0 = hand[e].ptr[1]
        BY <2>1, HeldIsPosted
    <2>3. PICK c \in Caller : c = <<e[2], t0>>
        BY CallerFacts
    <2>4. PICK i \in Peer : i = hand[e].ptr[2]
        BY <2>1, HandStates DEF Ptr
    <2>5. PICK v : v = Header(e).data
        OBVIOUS
    <2>6. WriteRecv(c, i, v) /\ v \in Data
        BY <1>3, <2>1, <2>2, <2>3, <2>4, <2>5, NetHead DEF ReadBody
    <2>7. IsFor(net[e][1], t0, pos[c], 1) /\ Header(e) = net[e][1] /\ c[2] = t0
        BY <2>1, <2>2, <2>3, HeadAndTail DEF FlowInv, PlacesInv, ConnOK, BufOK, Header, CollInv, NetType
    <2>8. Carries(v, c[2], pos[c])
        BY <2>5, <2>7 DEF IsFor
    <2> QED BY <1>1, <2>1, <2>6, <2>8, MemWritten
<1> QED BY <1>2, <1>3 DEF HandlerStep

----------------------------------------------------------------------------
(* The theorems about items *)

(* Nothing has been sent before the first call. *)
LEMMA FlowInvInit == Init => FlowInv
<1> SUFFICES ASSUME Init PROVE FlowInv
    OBVIOUS
<1>1. \A c \in Caller : /\ phase[c] = "idle" /\ pos[c] = 1
                        /\ \A q \in Peer : sub[c][q] = "none" /\ out[c][q] = "none"
    BY DEF Init, Work
<1>2. TaskInv
    BY <1>1 DEF TaskInv, TaskOK
<1>3. MemInv
    BY <1>1 DEF MemInv
<1>4. SelfBoxInv
    BY DEF Init, SelfBoxInv
<1>5. ASSUME NEW e \in Conn PROVE ConnOK(e)
    <2>1. net[e] = <<>> /\ hand[e].st = "idle"
        BY DEF Init, Idle
    <2>2. \A n \in Name : mail[<<e[2], e[1], n>>] = <<>>
        <3> SUFFICES ASSUME NEW n \in Name PROVE mail[<<e[2], e[1], n>>] = <<>>
            OBVIOUS
        <3>1. <<e[2], e[1], n>> \in Box
            BY CallerFacts, BoxFacts
        <3> QED BY <3>1 DEF Init
    <2>3. ASSUME NEW t \in Thread, NEW f \in {0, 1}, NEW k \in Rounds(t)
          PROVE  ~Used(e, t, k, f) /\ ~Sent(e, t, k, f)
        <3>1. PICK c \in Caller, d \in Caller : c = <<e[1], t>> /\ d = <<e[2], t>>
            BY CallerFacts
        <3>2. At(c) = 2 /\ At(d) = 2 /\ phase[c] = "idle" /\ phase[d] = "idle"
            BY <1>1 DEF At
        <3>3. ~(2 * k + f < 2)
            BY ItemFacts
        <3> QED BY <3>1, <3>2, <3>3 DEF Used, Sent
    <2>4. DOMAIN net[e] = {}
        BY <2>1
    <2>5. \A t, k, f : ~Wire(e, t, k, f)
        BY <2>4 DEF Wire
    <2>6. UsedOK(e)
        BY <2>3 DEF UsedOK
    <2>7. NetOK(e) /\ OrderOK(e)
        BY <2>4 DEF NetOK, OrderOK
    <2>8. HandOK(e) /\ BufOK(e)
        BY <2>1 DEF HandOK, BufOK
    <2>9. BoxOK(e)
        BY <2>2 DEF BoxOK
    <2>10. OnceOK(e)
        BY <2>1, <2>5 DEF OnceOK, Held
    <2>11. BodyOK(e)
        BY <2>3 DEF BodyOK, InTransit
    <2>12. SlotOK(e)
        <3>1. ASSUME NEW t \in Thread PROVE ~Filled(e, t)
            <4>1. <<e[2], t>> \in Caller /\ e[1] \in Peer
                BY CallerFacts
            <4>2. sub[<<e[2], t>>][e[1]] = "none"
                BY <1>1, <4>1
            <4> QED BY <4>2 DEF Filled
        <3> QED BY <3>1 DEF SlotOK
    <2> QED BY <2>6, <2>7, <2>8, <2>9, <2>10, <2>11, <2>12 DEF ConnOK
<1> QED BY <1>2, <1>3, <1>4, <1>5 DEF FlowInv, PlacesInv

(* A step that changes nothing keeps the invariant. *)
LEMMA FlowInvStutter ==
    ASSUME CollInv, FlowInv, UNCHANGED vars
    PROVE  FlowInv'
<1>1. /\ UNCHANGED callVars /\ UNCHANGED memVars
      /\ UNCHANGED <<pos, phase, gi, sub, out, net, hand, mail, recvQ>>
    BY DEF vars, callVars, memVars, netVars, boxVars
<1>2. TaskInv' /\ SameFlow
    BY <1>1, SentFrame, UsedFrame DEF FlowInv, TaskInv, TaskOK, Stage, Reduces, Graph, Op, SameFlow
<1>3. \A e \in Conn, t \in Thread : Filled(e, t)' <=> Filled(e, t)
    BY <1>1 DEF Filled, Op
<1>4. PlacesInv'
    BY <1>1, <1>2, <1>3, QuietFlow
<1>5. MemInv'
    BY <1>1, MemKept DEF FlowInv
<1> QED BY <1>2, <1>4, <1>5 DEF FlowInv

(* In every reachable state, for every strategy: each message is the item of *)
(* one stage of one call, sent and not yet used, in one place, and what a     *)
(* connection carries for a thread is in the order of the thread's program.   *)
THEOREM FlowInvariant == Spec => []FlowInv
<1>1. CollInv /\ CollInv' /\ FlowInv /\ [Next]_vars => FlowInv'
    <2> SUFFICES ASSUME CollInv, CollInv', FlowInv, [Next]_vars PROVE FlowInv'
        OBVIOUS
    <2>1. CASE UNCHANGED vars
        BY <2>1, FlowInvStutter
    <2>2. CASE \E c \in Caller : CallerStep(c)
        <3>1. PICK c \in Caller : CallerStep(c)
            BY <2>2
        <3>2. TaskInv' /\ PlacesInv'
            BY <3>1, QuietSteps DEF CallerStep
        <3>3. MemInv'
            BY <3>1, MemCaller
        <3> QED BY <3>2, <3>3 DEF FlowInv
    <2>3. CASE \E c \in Caller, q \in Peer : TaskStep(c, q)
        <3>1. PICK c \in Caller, q \in Peer : TaskStep(c, q)
            BY <2>3
        <3>2. TaskInv' /\ PlacesInv'
            BY <3>1, QuietSteps, RecvOntoPlaces, RecvIntoPlaces, SendBeginPlaces DEF TaskStep
        <3>3. MemInv'
            BY <3>1, MemTask
        <3> QED BY <3>2, <3>3 DEF FlowInv
    <2>4. CASE \E e \in Conn : HandlerStep(e)
        <3>1. PICK e \in Conn : HandlerStep(e)
            BY <2>4
        <3>2. TaskInv' /\ PlacesInv'
            BY <3>1, ReadMailPlaces, PutMailPlaces, TakeBufPlaces, ReadBodyPlaces, PutRecvdPlaces DEF HandlerStep
        <3>3. MemInv'
            BY <3>1, MemHandler
        <3> QED BY <3>2, <3>3 DEF FlowInv
    <2> QED BY <2>1, <2>2, <2>3, <2>4 DEF Next, Terminated
<1> QED BY <1>1, FlowInvInit, CollInvariant, PTL DEF Spec

(* The mailbox has room for what a handler brings: the handler of a           *)
(* connection never blocks in mailbox::put, whatever the peers' speeds.       *)
THEOREM MailboxAlwaysHasRoom == Spec => []MailboxHasRoom
<1>1. CollInv /\ FlowInv => MailboxHasRoom
    <2> SUFFICES ASSUME CollInv, FlowInv, NEW e \in Conn, hand[e].st = "mail",
                        mail[<<e[2], e[1], hand[e].name>>] # <<>>
                 PROVE  FALSE
        BY DEF MailboxHasRoom
    <2>1. PICK n \in Name : n = hand[e].name
        BY HandStates
    <2>2. HandOK(e) /\ BoxOK(e) /\ OnceOK(e) /\ UsedInv
        BY DEF FlowInv, PlacesInv, ConnOK, UsedInv
    <2>3. PICK t \in Thread : \E k \in Rounds(t) :
             /\ n = Program[t][k].name /\ Carries(hand[e].data, t, k) /\ InTransit(e, t, k, 0)
        BY <2>1, <2>2 DEF HandOK
    <2>4. PICK k \in Rounds(t) :
             /\ n = Program[t][k].name /\ Carries(hand[e].data, t, k) /\ InTransit(e, t, k, 0)
        BY <2>3
    <2>5. PICK u \in Thread : \E l \in Rounds(u) :
             /\ n = Program[u][l].name /\ Carries(Head(mail[<<e[2], e[1], n>>]), u, l) /\ InTransit(e, u, l, 0)
        BY <2>1, <2>2 DEF BoxOK
    <2>6. PICK l \in Rounds(u) :
             /\ n = Program[u][l].name /\ Carries(Head(mail[<<e[2], e[1], n>>]), u, l) /\ InTransit(e, u, l, 0)
        BY <2>5
    <2>7. u = t
        BY <2>4, <2>6, NameThread
    <2>8. k = l
        BY <2>2, <2>4, <2>6, <2>7, OneToAdd
    <2>9. Held(e, t, k) /\ Boxed(e, t, k)
        BY <2>1, <2>4, <2>6, <2>7, <2>8 DEF Held, Boxed
    <2> QED BY <2>2, <2>9 DEF OnceOK
<1> QED BY <1>1, CollInvariant, FlowInvariant, PTL

(* When every peer has returned from the same call of a thread, no message    *)
(* and no buffer of that thread is left in a connection, a handler, the       *)
(* mailbox or the slotbox.                                                    *)
THEOREM NothingLeftBehind == Spec => []NoResidue
<1>1. CollInv /\ FlowInv => NoResidue
    <2> SUFFICES ASSUME CollInv, FlowInv, NEW t \in Thread,
                        \A p \in Peer : phase[<<p, t>>] = "idle" /\ pos[<<p, t>>] = pos[<<0, t>>],
                        NEW k \in Rounds(t), NEW n, n = Program[t][k].name
                 PROVE  /\ \A e \in Conn : /\ \A i \in DOMAIN net[e] : net[e][i].name # n
                                           /\ hand[e] # Idle => hand[e].name # n
                        /\ \A b \in Box : b[3] = n => mail[b] = <<>> /\ Holders(b) = {}
        BY DEF NoResidue, Rounds
    <2>1. ASSUME NEW e \in Conn, NEW f \in {0, 1}, NEW l \in Rounds(t) PROVE ~InTransit(e, t, l, f)
        <3>1. PICK c \in Caller, d \in Caller : c = <<e[1], t>> /\ d = <<e[2], t>>
            BY CallerFacts
        <3>2. phase[c] = "idle" /\ phase[d] = "idle" /\ pos[c] = pos[d]
            BY <3>1, CallerFacts
        <3>3. At(c) = At(d)
            BY <3>2 DEF At
        <3> QED BY <3>1, <3>2, <3>3 DEF InTransit, Sent, Used
    <2>2. ASSUME NEW u \in Thread, NEW l \in Rounds(u), Program[u][l].name = n PROVE u = t
        BY <2>2, NameThread
    <2>3. ASSUME NEW c \in Caller, phase[c] # "idle" PROVE Op(c).name # n
        <3>1. pos[c] \in Rounds(c[2]) /\ Op(c) = Program[c[2]][pos[c]]
            BY <2>3, StageFacts DEF StageOK, Op
        <3>2. c[2] \in Thread /\ c[1] \in Peer /\ c = <<c[1], c[2]>>
            BY CallerFacts
        <3>3. c[2] # t
            BY <2>3, <3>2
        <3> QED BY <2>2, <3>1, <3>2, <3>3
    <2>4. ASSUME NEW e \in Conn, NEW i \in DOMAIN net[e] PROVE net[e][i].name # n
        <3>1. PICK u \in Thread, f \in {0, 1} : \E l \in Rounds(u) :
                 IsFor(net[e][i], u, l, f) /\ InTransit(e, u, l, f)
            BY DEF FlowInv, PlacesInv, ConnOK, NetOK
        <3>2. PICK l \in Rounds(u) : IsFor(net[e][i], u, l, f) /\ InTransit(e, u, l, f)
            BY <3>1
        <3>3. u # t
            BY <2>1, <3>2
        <3> QED BY <2>2, <3>2, <3>3 DEF IsFor
    <2>5. ASSUME NEW e \in Conn, hand[e] # Idle PROVE hand[e].name # n
        <3>1. CASE hand[e].st = "mail"
            <4>1. PICK u \in Thread : \E l \in Rounds(u) :
                     hand[e].name = Program[u][l].name /\ InTransit(e, u, l, 0)
                BY <3>1 DEF FlowInv, PlacesInv, ConnOK, HandOK
            <4>2. u # t
                BY <2>1, <4>1
            <4> QED BY <2>2, <4>1, <4>2
        <3>2. CASE hand[e].st \in {"buf", "filled"}
            <4>1. PICK c \in Caller : c = <<e[2], hand[e].ptr[1]>>
                BY <3>2, HeldIsPosted, CallerFacts
            <4>2. sub[c][e[1]] = "posted" /\ Op(c).name = hand[e].name /\ e[1] \in Peer
                BY <3>2, <4>1, HeldIsPosted, CallerFacts
            <4>3. phase[c] # "idle"
                BY <4>2 DEF CollInv, CallInv, CallOK
            <4> QED BY <2>3, <4>2, <4>3
        <3>3. hand[e] \in MailState \cup SlotState
            BY <2>5 DEF CollInv, NetType
        <3> QED BY <3>1, <3>2, <3>3 DEF MailState, SlotState
    <2>6. ASSUME NEW b \in Box, b[3] = n PROVE mail[b] = <<>> /\ Holders(b) = {}
        <3>1. b[1] \in Peer /\ b[2] \in Peer /\ b[3] \in Name /\ b = <<b[1], b[2], b[3]>>
            BY BoxFacts
        <3>2. mail[b] = <<>>
            <4>1. CASE b[1] = b[2]
                BY <4>1 DEF FlowInv, PlacesInv, SelfBoxInv
            <4>2. CASE b[1] # b[2] /\ mail[b] # <<>>
                <5>1. PICK e \in Conn : e = <<b[2], b[1]>>
                    BY <3>1, <4>2, CallerFacts
                <5>2. mail[<<e[2], e[1], b[3]>>] # <<>>
                    BY <3>1, <4>2, <5>1
                <5>3. BoxOK(e)
                    BY DEF FlowInv, PlacesInv, ConnOK
                <5>4. PICK u \in Thread : \E l \in Rounds(u) :
                         b[3] = Program[u][l].name /\ InTransit(e, u, l, 0)
                    BY <3>1, <5>2, <5>3 DEF BoxOK
                <5>5. u # t
                    BY <2>1, <5>4
                <5> QED BY <2>2, <2>6, <5>4, <5>5
            <4> QED BY <4>1, <4>2
        <3>3. Owners(b) = {}
            <4> SUFFICES ASSUME NEW u \in Owners(b) PROVE FALSE
                OBVIOUS
            <4>1. PICK c \in Caller : c = <<b[1], u>>
                BY <3>1, CallerFacts DEF Owners
            <4>2. phase[c] # "idle" /\ Op(c).name = n
                BY <2>6, <4>1 DEF Owners
            <4> QED BY <2>3, <4>2
        <3>4. Holders(b) = {}
            BY <3>3 DEF CollInv, LentInv, LentOK
        <3> QED BY <3>2, <3>4
    <2> QED BY <2>4, <2>5, <2>6
<1> QED BY <1>1, CollInvariant, FlowInvariant, PTL

----------------------------------------------------------------------------
(* What items and buffers hold *)

(* The peers whose contributions reach p along the edges of g, p included. *)
Below(g, p) ==
    {q \in Peer : \A S \in SUBSET Peer : p \in S /\ (\A j \in S : Prevs(g, j) \subseteq S) => q \in S}

(* One contribution to the k-th call of thread t from each peer in S. *)
Sum(S, t, k) == SetToBag({<<u, t, k>> : u \in S})

(* The peers that p gets an item from in stage f of a call. *)
Feeds(op, f, p) == {q \in Peer : q # p /\ p \in Links(op, f, q)}

(* The peers whose contributions are in what p sends in stage f: those below *)
(* it in the reduce tree, then all of them; the root of a broadcast; or p.   *)
Contributors(op, f, p) ==
    CASE f = 0 -> Below(AllReduceGraphs(op.name)[1], p)
      [] f = 1 /\ op.kind = "all_reduce" -> Peer
      [] f = 1 /\ op.kind = "broadcast"  -> {0}
      [] OTHER -> {p}

(* The data of the item that p sends in stage f of the k-th call of t. *)
ItemSum(p, t, k, f) == Sum(Contributors(Program[t][k], f, p), t, k)

(* Where an item is, it is complete. *)
NetData(e) ==
    \A i \in DOMAIN net[e] : \A t \in Thread, f \in {0, 1} : \A k \in Rounds(t) :
       IsFor(net[e][i], t, k, f) => net[e][i].data = ItemSum(e[1], t, k, f)

HandData(e) ==
    \A t \in Thread : \A k \in Rounds(t) : Held(e, t, k) => hand[e].data = ItemSum(e[1], t, k, 0)

BoxData(e) ==
    \A t \in Thread : \A k \in Rounds(t) :
       Boxed(e, t, k) => Head(mail[<<e[2], e[1], Program[t][k].name>>]) = ItemSum(e[1], t, k, 0)

ItemInv == \A e \in Conn : NetData(e) /\ HandData(e) /\ BoxData(e)

(* What a caller has added up so far in the reduce graph. *)
Got(c, op) ==
    {c[1]} \cup UNION {Contributors(op, 0, x) : x \in {q \in Feeds(op, 0, c[1]) : sub[c][q] = "none"}}

(* What the buffers of a caller hold in stage f of its k-th call: in an      *)
(* in-place call they are the same, and only all_gather uses more than one   *)
(* part; ...                                                                 *)
SharedOK(c, op) == op.inplace => send[c] = recv[c][0]

PartsOK(c, op) == op.kind # "all_gather" => \A i \in Peer \ {0} : recv[c][i] = EmptyBag

(* in the reduce graph, the sum of what has been received so far; ...        *)
AddedOK(c, k, op) == EffectiveData(c) = Sum(Got(c, op), c[2], k)

(* afterwards, the item of every peer it has been fed by, ...                *)
FedOK(c, k, op) ==
    \A q \in Feeds(op, 1, c[1]) :
       sub[c][q] = "none" \/ Filled(<<q, c[1]>>, c[2]) =>
          recv[c][Part(op, q)] = Sum(Contributors(op, 1, q), c[2], k)

(* and, where nobody feeds it, or there is no graph, its own item to send;   *)
OwnOK(c, k, op) ==
    phase[c] = "flat" \/ Feeds(op, 1, c[1]) = {} =>
       EffectiveData(c) = Sum(Contributors(op, 1, c[1]), c[2], k)

(* a root has copied it to its receive buffer by the time it sends.          *)
RootOK(c, k, op) ==
    phase[c] = "send" /\ Feeds(op, 1, c[1]) = {} =>
       recv[c][0] = Sum(Contributors(op, 1, c[1]), c[2], k)

(* In a call without graphs nothing is added up; an all_gather's own part is *)
(* copied by a task of its own, and a sender's receive buffer stays as it was. *)
FlatOK(c, k, op) ==
    /\ phase[c] = "flat" => recv_count[c] = 0
    /\ op.kind # "all_gather" => sub[c][c[1]] = "none"
    /\ op.kind = "all_gather" /\ sub[c][c[1]] = "none" => recv[c][c[1]] = Sum({c[1]}, c[2], k)
    /\ op.kind = "send_recv" /\ c[1] # op.to => recv[c][0] = Input(c[1], c[2], 0)

(* What the buffers hold in stage f of the k-th call, which is op. *)
BufferAt(c, k, op, f) ==
    /\ SharedOK(c, op) /\ PartsOK(c, op) /\ FlatOK(c, k, op)
    /\ f = 0 => AddedOK(c, k, op)
    /\ f = 1 => FedOK(c, k, op) /\ OwnOK(c, k, op) /\ RootOK(c, k, op)

BufferOK(c) == phase[c] # "idle" => BufferAt(c, pos[c], Op(c), Stage(c))

BufferInv == \A c \in Caller : BufferOK(c)

(* Every item, wherever it is, and every buffer holds what it should. *)
DataInv == ItemInv /\ BufferInv

(* A peer that passes on what it received passes on its send buffer, unless  *)
(* it has added something up before: the call must be in place, or the       *)
(* strategy one where only the root sends.  A recv must be from a peer.      *)
ForwardsReceived ==
    \A t \in Thread : \A k \in Rounds(t) :
       /\ Strategy = "ring" /\ Program[t][k].kind \in {"all_reduce", "broadcast"} => Program[t][k].inplace
       /\ Program[t][k].kind = "send_recv" => Program[t][k].from \in Peer

----------------------------------------------------------------------------
(* The contributions below a peer, and the shapes of the trees *)

(* Below(g, p) is the least set with p that is closed under predecessors. *)
LEMMA BelowLeast ==
    ASSUME NEW g, g.edges \subseteq Peer \X Peer, NEW p \in Peer
    PROVE  /\ p \in Below(g, p) /\ Below(g, p) \subseteq Peer
           /\ \A j \in Below(g, p) : Prevs(g, j) \subseteq Below(g, p)
           /\ \A S \in SUBSET Peer : p \in S /\ (\A j \in S : Prevs(g, j) \subseteq S) => Below(g, p) \subseteq S
<1>1. p \in Below(g, p) /\ Below(g, p) \subseteq Peer
    BY DEF Below
<1>2. ASSUME NEW S \in SUBSET Peer, p \in S, \A j \in S : Prevs(g, j) \subseteq S
      PROVE  Below(g, p) \subseteq S
    BY <1>2 DEF Below
<1>3. ASSUME NEW j \in Below(g, p), NEW i \in Prevs(g, j) PROVE i \in Below(g, p)
    <2>1. i \in Peer
        BY <1>3 DEF Prevs
    <2>2. ASSUME NEW S \in SUBSET Peer, p \in S, \A x \in S : Prevs(g, x) \subseteq S PROVE i \in S
        <3>1. j \in S
            BY <1>3, <2>2 DEF Below
        <3> QED BY <1>3, <2>2, <3>1
    <2> QED BY <2>1, <2>2 DEF Below
<1> QED BY <1>1, <1>2, <1>3

(* What is below p is p and what is below its predecessors. *)
LEMMA BelowSplit ==
    ASSUME NEW g, g.edges \subseteq Peer \X Peer, NEW p \in Peer
    PROVE  Below(g, p) = {p} \cup UNION {Below(g, x) : x \in Prevs(g, p)}
<1> DEFINE S == {p} \cup UNION {Below(g, x) : x \in Prevs(g, p)}
<1>1. \A x \in Prevs(g, p) : x \in Peer
    BY DEF Prevs
<1>2. S \in SUBSET Peer /\ p \in S
    BY <1>1, BelowLeast
<1>3. ASSUME NEW j \in S, NEW i \in Prevs(g, j) PROVE i \in S
    <2>1. CASE j = p
        BY <1>1, <1>3, <2>1, BelowLeast
    <2>2. ASSUME NEW x \in Prevs(g, p), j \in Below(g, x) PROVE i \in S
        <3>1. i \in Below(g, x)
            BY <1>1, <1>3, <2>2, BelowLeast
        <3> QED BY <2>2, <3>1
    <2> QED BY <2>1, <2>2
<1>4. Below(g, p) \subseteq S
    <2> HIDE DEF S
    <2> QED BY <1>2, <1>3, BelowLeast
<1>5. ASSUME NEW x \in Prevs(g, p) PROVE Below(g, x) \subseteq Below(g, p)
    <2>1. x \in Below(g, p) /\ x \in Peer
        BY <1>1, <1>5, BelowLeast
    <2>2. Below(g, p) \in SUBSET Peer /\ \A j \in Below(g, p) : Prevs(g, j) \subseteq Below(g, p)
        BY BelowLeast
    <2> QED BY <2>1, <2>2, BelowLeast
<1>6. S \subseteq Below(g, p)
    BY <1>5, BelowLeast
<1> QED BY <1>4, <1>6

(* Below p, everything but p has a successor below p. *)
LEMMA BelowNext ==
    ASSUME NEW g, g.edges \subseteq Peer \X Peer, NEW p \in Peer, NEW j \in Below(g, p), j # p
    PROVE  \E n \in Below(g, p) : j \in Prevs(g, n)
<1> DEFINE B == Below(g, p)
           S == {p} \cup {x \in B : \E n \in B : x \in Prevs(g, n)}
<1>1. p \in B /\ B \subseteq Peer /\ \A x \in B : Prevs(g, x) \subseteq B
    BY BelowLeast
<1> HIDE DEF B
<1>2. S \in SUBSET Peer /\ p \in S
    BY <1>1
<1>3. ASSUME NEW x \in S, NEW i \in Prevs(g, x) PROVE i \in S
    <2>1. x \in B
        BY <1>1
    <2> QED BY <1>1, <1>3, <2>1
<1>4. B \subseteq S
    <2> HIDE DEF S
    <2> QED BY <1>2, <1>3, BelowLeast DEF B
<1> QED BY <1>4 DEF B

(* In a tree a vertex has one successor, the root none. *)
LEMMA OneNext ==
    ASSUME NEW g, NEW r \in Peer, IsInTree(N, g, r), NEW i \in Peer, NEW j, NEW l,
           i \in Prevs(g, j), i \in Prevs(g, l)
    PROVE  j = l /\ i # r
<1>1. j \in Nexts(g, i) /\ l \in Nexts(g, i)
    BY NextsPrevs
<1>2. i # r
    BY <1>1 DEF IsInTree
<1>3. Cardinality(Nexts(g, i)) = 1 /\ g.edges \subseteq Vertex(N) \X Vertex(N)
    BY <1>2, Constants DEF IsInTree
<1>4. Nexts(g, i) \subseteq Vertex(N)
    BY <1>3 DEF Nexts
<1>5. PICK x : Nexts(g, i) = {x}
    <2>1. IsFiniteSet(Vertex(N))
        <3>1. 0 \in Int /\ N - 1 \in Int
            BY Constants
        <3> QED BY <3>1, FS_Interval DEF Vertex
    <2>2. IsFiniteSet(Nexts(g, i))
        BY <1>4, <2>1, FS_Subset
    <2> QED BY <1>3, <2>2, FS_Singleton
<1> QED BY <1>1, <1>2, <1>5

(* A tree has no cycle: p is not below its own predecessors. *)
LEMMA NoCycle ==
    ASSUME NEW g, NEW r \in Peer, IsInTree(N, g, r), NEW p \in Peer, NEW x \in Prevs(g, p)
    PROVE  p \notin Below(g, x)
<1> SUFFICES ASSUME p \in Below(g, x) PROVE FALSE
    OBVIOUS
<1> DEFINE C == Below(g, x)
           S == Peer \ C
<1>1. g.edges \subseteq Peer \X Peer
    BY Constants DEF IsInTree
<1>2. x \in Peer
    BY <1>1 DEF Prevs
<1>3. ASSUME NEW j \in C PROVE \E n \in C : j \in Prevs(g, n)
    <2>1. CASE j = x
        BY <2>1
    <2>2. CASE j # x
        BY <1>1, <1>2, <2>2, BelowNext
    <2> QED BY <2>1, <2>2
<1>4. x \in C /\ C \subseteq Peer
    BY <1>1, <1>2, BelowLeast
<1> HIDE DEF C
<1>5. r \in S
    BY <1>3, <1>4, OneNext
<1>6. ASSUME NEW j \in S, NEW i \in Prevs(g, j) PROVE i \in S
    <2>1. i \in Peer
        BY <1>1, <1>6 DEF Prevs
    <2>2. ASSUME i \in C PROVE FALSE
        <3>1. PICK n \in C : i \in Prevs(g, n)
            BY <1>3, <2>2
        <3>2. n = j
            BY <1>6, <2>1, <3>1, OneNext
        <3> QED BY <3>1, <3>2
    <2> QED BY <2>1, <2>2
<1>7. S \in SUBSET Vertex(N)
    BY Constants
<1> HIDE DEF S
<1>8. S = Vertex(N)
    BY <1>5, <1>6, <1>7 DEF IsInTree
<1> QED BY <1>2, <1>4, <1>8, Constants DEF S

(* What is below two predecessors of a vertex is apart. *)
LEMMA BelowApart ==
    ASSUME NEW g, NEW r \in Peer, IsInTree(N, g, r), NEW p \in Peer,
           NEW x \in Prevs(g, p), NEW y \in Prevs(g, p), x # y
    PROVE  Below(g, x) \cap Below(g, y) = {}
<1>1. g.edges \subseteq Peer \X Peer
    BY Constants DEF IsInTree
<1>2. x \in Peer /\ y \in Peer
    BY <1>1 DEF Prevs
<1>3. ASSUME NEW u \in Prevs(g, p), NEW v \in Prevs(g, p), u # v PROVE u \notin Below(g, v)
    <2> SUFFICES ASSUME u \in Below(g, v) PROVE FALSE
        OBVIOUS
    <2>1. u \in Peer /\ v \in Peer
        BY <1>1 DEF Prevs
    <2>2. PICK n \in Below(g, v) : u \in Prevs(g, n)
        BY <1>1, <1>3, <2>1, BelowNext
    <2>3. n = p
        BY <2>1, <2>2, OneNext
    <2> QED BY <2>2, <2>3, NoCycle
<1> DEFINE X == Below(g, x)
           Y == Below(g, y)
           S == X \ Y
<1>4. X \subseteq Peer /\ x \in X /\ x \notin Y /\ y \notin X /\ \A j \in X : Prevs(g, j) \subseteq X
    BY <1>1, <1>2, <1>3, BelowLeast
<1>5. \A i \in Y : i # y => \E n \in Y : i \in Prevs(g, n)
    BY <1>1, <1>2, BelowNext
<1>6. \A T \in SUBSET Peer : x \in T /\ (\A j \in T : Prevs(g, j) \subseteq T) => X \subseteq T
    BY <1>1, <1>2, BelowLeast
<1> HIDE DEF X, Y
<1>7. ASSUME NEW j \in S, NEW i \in Prevs(g, j) PROVE i \in S
    <2>1. i \in X /\ i # y /\ i \in Peer
        BY <1>4, <1>7
    <2>2. ASSUME i \in Y PROVE FALSE
        <3>1. PICK n \in Y : i \in Prevs(g, n)
            BY <1>5, <2>1, <2>2
        <3>2. n = j
            BY <1>7, <2>1, <3>1, OneNext
        <3> QED BY <3>1, <3>2
    <2> QED BY <2>1, <2>2
<1>8. X \subseteq S
    <2>1. S \in SUBSET Peer /\ x \in S
        BY <1>4
    <2> HIDE DEF S
    <2> QED BY <1>6, <1>7, <2>1
<1> QED BY <1>8 DEF X, Y

(* All peers are below the root. *)
LEMMA BelowRoot ==
    ASSUME NEW g, NEW r \in Peer, IsInTree(N, g, r)
    PROVE  Below(g, r) = Peer
<1>1. g.edges \subseteq Peer \X Peer
    BY Constants DEF IsInTree
<1> DEFINE S == Below(g, r)
<1>2. r \in S /\ S \in SUBSET Vertex(N) /\ \A j \in S : Prevs(g, j) \subseteq S
    BY <1>1, Constants, BelowLeast
<1> HIDE DEF S
<1>3. S = Vertex(N)
    BY <1>2 DEF IsInTree
<1> QED BY <1>3, Constants DEF S

(* Adding up contributions of different peers. *)
LEMMA SumOfSums ==
    ASSUME NEW S, NEW T, S \cap T = {}, NEW t, NEW k
    PROVE  Reduce(Sum(S, t, k), Sum(T, t, k)) = Sum(S \cup T, t, k)
<1> DEFINE A == {<<u, t, k>> : u \in S}
           B == {<<u, t, k>> : u \in T}
           C == {<<u, t, k>> : u \in S \cup T}
<1>1. C = A \cup B /\ A \cap B = {}
    OBVIOUS
<1> HIDE DEF A, B, C
<1>2. SetToBag(A) = [x \in A |-> 1] /\ SetToBag(B) = [x \in B |-> 1] /\ SetToBag(C) = [x \in C |-> 1]
    BY DEF SetToBag
<1>3. PICK a, b : a = SetToBag(A) /\ b = SetToBag(B)
    OBVIOUS
<1>4. DOMAIN a = A /\ DOMAIN b = B /\ (\A x \in A : a[x] = 1) /\ (\A x \in B : b[x] = 1)
    BY <1>2, <1>3
<1>5. Reduce(a, b) = [x \in A \cup B |-> (IF x \in A THEN a[x] ELSE 0) + (IF x \in B THEN b[x] ELSE 0)]
    BY <1>4 DEF Reduce, (+)
<1>6. \A x \in C : (IF x \in A THEN a[x] ELSE 0) + (IF x \in B THEN b[x] ELSE 0) = 1
    BY <1>1, <1>4
<1>7. Reduce(a, b) = [x \in C |-> 1]
    BY <1>1, <1>5, <1>6
<1>8. Sum(S, t, k) = SetToBag(A) /\ Sum(T, t, k) = SetToBag(B) /\ Sum(S \cup T, t, k) = SetToBag(C)
    BY DEF Sum, A, B, C
<1> QED BY <1>2, <1>3, <1>7, <1>8

(* In the reduce tree of an all_reduce the contributions of the peers that   *)
(* feed p are apart, and with p's own they are those that p sends on; a peer *)
(* that nobody feeds in the broadcast tree, the root, has them all.          *)
ReduceShape(op, p) ==
    /\ p \in Contributors(op, 0, p) /\ Contributors(op, 0, p) \subseteq Peer
    /\ Contributors(op, 0, p) = {p} \cup UNION {Contributors(op, 0, x) : x \in Feeds(op, 0, p)}
    /\ \A x \in Feeds(op, 0, p) : p \notin Contributors(op, 0, x)
    /\ \A x, y \in Feeds(op, 0, p) : x # y => Contributors(op, 0, x) \cap Contributors(op, 0, y) = {}
    /\ Feeds(op, 1, p) = {} => Contributors(op, 0, p) = Peer

(* The peers that feed a vertex of a tree are its predecessors. *)
LEMMA FeedsIn ==
    ASSUME NEW op, NEW f, NEW g, NEW r \in Peer, IsInTree(N, g, r), NEW p \in Peer,
           \A q \in Peer : Links(op, f, q) = Nexts(g, q)
    PROVE  Feeds(op, f, p) = Prevs(g, p)
<1>1. ASSUME NEW q \in Prevs(g, p) PROVE q \in Feeds(op, f, p)
    <2>1. PICK e \in g.edges : e[1] = q /\ e[2] = p
        BY <1>1 DEF Prevs
    <2>2. q \in Peer /\ q # p
        BY <2>1, InTreeEdges, Constants
    <2> QED BY <1>1, <2>2, NextsPrevs DEF Feeds
<1>2. ASSUME NEW q \in Feeds(op, f, p) PROVE q \in Prevs(g, p)
    BY <1>2, NextsPrevs DEF Feeds
<1> QED BY <1>1, <1>2

(* In a tree out of r everyone but r is fed. *)
LEMMA FedButRoot ==
    ASSUME NEW op, NEW h, NEW r \in Peer, IsOutTree(N, h, r), NEW p \in Peer,
           \A q \in Peer : Links(op, 1, q) = Nexts(h, q), p # r
    PROVE  Feeds(op, 1, p) # {}
<1>1. Cardinality(Nexts(Reversed(h), p)) = 1
    BY Constants DEF IsOutTree, IsInTree
<1>2. Nexts(Reversed(h), p) # {}
    BY <1>1, FS_EmptySet
<1>3. PICK d \in Reversed(h).edges : d[1] = p
    BY <1>2 DEF Nexts
<1>4. PICK e \in h.edges : d = <<e[2], e[1]>>
    BY <1>3 DEF Reversed
<1>5. e[1] \in Peer /\ e[1] # p /\ e[2] = p
    BY <1>3, <1>4, OutTreeEdges, Constants
<1>6. p \in Nexts(h, e[1])
    BY <1>5 DEF Nexts
<1> QED BY <1>5, <1>6 DEF Feeds

(* So it is for every all_reduce. *)
LEMMA ReduceShapes ==
    ASSUME NEW op, op.kind = "all_reduce", op.name \in Name, NEW p \in Peer
    PROVE  ReduceShape(op, p)
<1>0. op.kind \in Kind
    BY DEF Kind
<1>a. PICK g, h : \E r \in Peer : /\ AllReduceGraphs(op.name) = <<g, h>>
                                  /\ IsInTree(N, g, r) /\ IsOutTree(N, h, r)
    BY <1>0, GraphStages
<1>1. PICK r \in Peer : /\ AllReduceGraphs(op.name) = <<g, h>>
                       /\ IsInTree(N, g, r) /\ IsOutTree(N, h, r)
    BY <1>a
<1>2. g.edges \subseteq Peer \X Peer
    BY <1>1, Constants DEF IsInTree
<1>3. \A q : Links(op, 0, q) = Nexts(g, q) /\ Links(op, 1, q) = Nexts(h, q)
    BY <1>1 DEF Links
<1>4. \A q : Contributors(op, 0, q) = Below(g, q)
    BY <1>1 DEF Contributors
<1>5. Feeds(op, 0, p) = Prevs(g, p)
    BY <1>1, <1>3, FeedsIn
<1>6. p \in Below(g, p) /\ Below(g, p) \subseteq Peer
    BY <1>2, BelowLeast
<1>7. Below(g, p) = {p} \cup UNION {Below(g, x) : x \in Prevs(g, p)}
    BY <1>2, BelowSplit
<1>8. \A x \in Prevs(g, p) : p \notin Below(g, x)
    BY <1>1, NoCycle
<1>9. \A x, y \in Prevs(g, p) : x # y => Below(g, x) \cap Below(g, y) = {}
    BY <1>1, BelowApart
<1>10. Feeds(op, 1, p) = {} => Below(g, p) = Peer
    <2>1. Feeds(op, 1, p) = {} => p = r
        BY <1>1, <1>3, FedButRoot
    <2> QED BY <1>1, <2>1, BelowRoot
<1>11. {Contributors(op, 0, x) : x \in Feeds(op, 0, p)} = {Below(g, x) : x \in Prevs(g, p)}
    BY <1>4, <1>5
<1>12. Contributors(op, 0, p) = {p} \cup UNION {Contributors(op, 0, x) : x \in Feeds(op, 0, p)}
    BY <1>4, <1>7, <1>11
<1> QED BY <1>4, <1>5, <1>6, <1>8, <1>9, <1>10, <1>12 DEF ReduceShape

(* Only rank 0 is not fed in a broadcast. *)
LEMMA BroadcastShape ==
    ASSUME NEW op, op.kind = "broadcast", op.name \in Name, NEW p \in Peer, Feeds(op, 1, p) = {}
    PROVE  p = 0
<1>0. op.kind \in Kind
    BY DEF Kind
<1>1. PICK h : BroadcastGraphs = <<h>> /\ IsOutTree(N, h, 0)
    BY <1>0, GraphStages
<1>2. \A q : Links(op, 1, q) = Nexts(h, q)
    BY <1>1 DEF Links
<1> QED BY <1>1, <1>2, FedButRoot, Constants

(* In the broadcast graph of the star only the root sends, to the others. *)
LEMMA StarRoot ==
    ASSUME Strategy # "ring", NEW op, op.kind \in {"all_reduce", "broadcast"}, op.name \in Name
    PROVE  (\A p \in Peer : Links(op, 1, p) # {} => p = 0) /\ Feeds(op, 1, 0) = {}
<1> DEFINE pair == StarPair(N, 0)
<1>1. all_reduce_topo = <<pair>>
    BY DEF all_reduce_topo, GraphPairList, GraphPairListStar
<1>2. Hash[op.name] \in Nat
    BY HashAssumption
<1>3. Hash[op.name] % 1 = 0
    BY <1>2
<1> HIDE DEF pair
<1>4. Choose(all_reduce_topo, Hash[op.name]) = pair
    BY <1>1, <1>3 DEF Choose
<1>5. \A q : Links(op, 1, q) = Nexts(pair.broadcast_graph, q)
    BY <1>1, <1>4 DEF Links, AllReduceGraphs, BroadcastGraphs
<1>6. pair.broadcast_graph.edges = {e \in {<<0, i>> : i \in Vertex(N) \ {0}} : e[1] # e[2]}
    BY DEF pair, StarPair, StarBuilder, GraphBuilder, Build
<1>7. ASSUME NEW p \in Peer, Links(op, 1, p) # {} PROVE p = 0
    <2>1. PICK e \in pair.broadcast_graph.edges : e[1] = p
        BY <1>5, <1>7 DEF Nexts
    <2> QED BY <1>6, <2>1
<1>8. ASSUME Feeds(op, 1, 0) # {} PROVE FALSE
    <2>1. PICK q : 0 \in Nexts(pair.broadcast_graph, q)
        BY <1>5, <1>8 DEF Feeds
    <2>2. PICK e \in pair.broadcast_graph.edges : e[2] = 0
        BY <2>1 DEF Nexts
    <2> QED BY <1>6, <2>2
<1> QED BY <1>7, <1>8

(* A peer that passes on what it has been fed works in place. *)
LEMMA ForwardShape ==
    ASSUME ForwardsReceived, NEW t \in Thread, NEW k \in Rounds(t), NEW op, op = Program[t][k],
           op.kind \in {"all_reduce", "broadcast"}, NEW p \in Peer,
           Feeds(op, 1, p) # {}, Links(op, 1, p) # {}
    PROVE  op.inplace
<1>1. op.name \in Name
    BY ItemFacts
<1>2. Strategy = "ring"
    BY <1>1, StarRoot
<1> QED BY <1>2 DEF ForwardsReceived

----------------------------------------------------------------------------
(* The buffers, step by step *)

(* Writing to the receive buffer. *)
LEMMA WriteRecvValues ==
    ASSUME MemType, NEW c \in Caller, NEW i \in Peer, NEW data \in Data, WriteRecv(c, i, data)
    PROVE  /\ recv'[c][i] = data /\ \A j \in Peer : j # i => recv'[c][j] = recv[c][j]
           /\ Op(c).inplace => send'[c] = data
           /\ ~Op(c).inplace => send'[c] = send[c]
           /\ \A d \in Caller : d # c => send'[d] = send[d] /\ recv'[d] = recv[d]
<1>1. recv \in [Caller -> [Peer -> Data]] /\ send \in [Caller -> Data]
    BY DEF MemType
<1>2. recv' = [recv EXCEPT ![c] = [recv[c] EXCEPT ![i] = data]]
    BY DEF WriteRecv
<1> QED BY <1>1, <1>2 DEF WriteRecv

(* The buffers of a call after a step. *)
LEMMA BufferNext ==
    ASSUME NEW c, NEW k, NEW op, NEW f, pos'[c] = k, Op(c)' = op, Stage(c)' = f, BufferAt(c, k, op, f)'
    PROVE  BufferOK(c)'
    BY DEF BufferOK

(* A caller whose buffers and tasks stay as they are, unless a buffer it has *)
(* lent is no longer filled, which cannot be.                                *)
LEMMA BufferKept ==
    ASSUME NEW d \in Caller, BufferOK(d), send'[d] = send[d], recv'[d] = recv[d],
           recv_count'[d] = recv_count[d], pos'[d] = pos[d], phase'[d] = phase[d], gi'[d] = gi[d],
           sub'[d] = sub[d],
           \A q \in Peer : Filled(<<q, d[1]>>, d[2])' => Filled(<<q, d[1]>>, d[2])
    PROVE  BufferOK(d)'
<1> SUFFICES ASSUME phase[d] # "idle" PROVE BufferOK(d)'
    BY DEF BufferOK
<1>1. PICK k, op, f : k = pos[d] /\ op = Op(d) /\ f = Stage(d)
    OBVIOUS
<1>2. BufferAt(d, k, op, f)
    BY <1>1 DEF BufferOK
<1>3. pos'[d] = k /\ Op(d)' = op /\ Stage(d)' = f
    BY <1>1 DEF Op, Stage, Reduces, Graph
<1>4. (SharedOK(d, op) => SharedOK(d, op)') /\ (PartsOK(d, op) => PartsOK(d, op)')
    BY DEF SharedOK, PartsOK
<1>5. AddedOK(d, k, op) => AddedOK(d, k, op)'
    BY DEF AddedOK, EffectiveData, Got
<1>6. FedOK(d, k, op) => FedOK(d, k, op)'
    BY DEF FedOK, Feeds
<1>7. (OwnOK(d, k, op) => OwnOK(d, k, op)') /\ (RootOK(d, k, op) => RootOK(d, k, op)')
    BY DEF OwnOK, RootOK, EffectiveData
<1>8. FlatOK(d, k, op) => FlatOK(d, k, op)'
    BY DEF FlatOK
<1>9. BufferAt(d, k, op, f)'
    BY <1>2, <1>4, <1>5, <1>6, <1>7, <1>8 DEF BufferAt
<1> QED BY <1>3, <1>9, BufferNext

(* The other callers when one takes a step. *)
LEMMA OtherBuffers ==
    ASSUME CollInv, BufferInv, NEW c \in Caller, OthersStay(c), UNCHANGED hand,
           \A d \in Caller : d # c => send'[d] = send[d] /\ recv'[d] = recv[d] /\ recv_count'[d] = recv_count[d],
           \A b \in Box : recvQ'[b] # <<>> => recvQ[b] # <<>>,
           BufferOK(c)'
    PROVE  BufferInv'
<1> SUFFICES ASSUME NEW d \in Caller, d # c PROVE BufferOK(d)'
    BY DEF BufferInv
<1>1. CASE phase[d] = "idle"
    BY <1>1 DEF BufferOK, OthersStay
<1>2. CASE phase[d] # "idle"
    <2>1. /\ send'[d] = send[d] /\ recv'[d] = recv[d] /\ recv_count'[d] = recv_count[d]
          /\ pos'[d] = pos[d] /\ phase'[d] = phase[d] /\ gi'[d] = gi[d] /\ sub'[d] = sub[d]
        BY DEF OthersStay
    <2>2. Op(d)' = Op(d) /\ Op(d).name \in Name /\ d[1] \in Peer /\ d = <<d[1], d[2]>>
        BY <1>2, <2>1, StageFacts, CallerFacts DEF Op, StageOK
    <2>3. ASSUME NEW q \in Peer, Filled(<<q, d[1]>>, d[2])' PROVE Filled(<<q, d[1]>>, d[2])
        <3>1. <<d[1], q, Op(d).name>> \in Box
            BY <2>2, BoxFacts
        <3> QED BY <2>1, <2>2, <2>3, <3>1 DEF Filled
    <2> QED BY <2>1, <2>3, BufferKept DEF BufferInv
<1> QED BY <1>1, <1>2

(* A single contribution. *)
LEMMA InputSum ==
    ASSUME NEW p, NEW t, NEW k
    PROVE  Input(p, t, k) = Sum({p}, t, k)
<1>1. {<<u, t, k>> : u \in {p}} = {<<p, t, k>>}
    OBVIOUS
<1> QED BY <1>1 DEF Input, Sum

(* The buffers of a call that begins. *)
LEMMA BeginBuffers ==
    ASSUME CollInv, NEW c \in Caller, Begin(c)
    PROVE  /\ send'[c] = Sum({c[1]}, c[2], pos[c])
           /\ Op(c).inplace => recv'[c][0] = Sum({c[1]}, c[2], pos[c])
           /\ ~Op(c).inplace => recv'[c][0] = Input(c[1], c[2], 0)
           /\ \A i \in Peer \ {0} : recv'[c][i] = EmptyBag
           /\ recv_count'[c] = 0
           /\ \A d \in Caller : d # c => send'[d] = send[d] /\ recv'[d] = recv[d] /\ recv_count'[d] = recv_count[d]
           /\ Op(c)' = Op(c) /\ pos' = pos
<1> DEFINE x == Input(c[1], c[2], pos[c])
           y == Input(c[1], c[2], 0)
<1>1. x = Sum({c[1]}, c[2], pos[c])
    BY InputSum
<1> HIDE DEF x, y
<1>2. send \in [Caller -> Data] /\ recv \in [Caller -> [Peer -> Data]] /\ recv_count \in [Caller -> Nat]
    BY DEF CollInv, MemType
<1>3. /\ send' = [send EXCEPT ![c] = x]
      /\ recv' = [recv EXCEPT ![c] = [NoData EXCEPT ![0] = IF Op(c).inplace THEN x ELSE y]]
      /\ recv_count' = [recv_count EXCEPT ![c] = 0]
      /\ pos' = pos
    BY DEF Begin, x, y
<1>4. recv'[c] = [NoData EXCEPT ![0] = IF Op(c).inplace THEN x ELSE y]
    BY <1>2, <1>3
<1>5. (\A i \in Peer \ {0} : recv'[c][i] = EmptyBag) /\ recv'[c][0] = IF Op(c).inplace THEN x ELSE y
    BY <1>4, Constants DEF NoData
<1> QED BY <1>1, <1>2, <1>3, <1>5 DEF Op, y

(* A call that begins in a graph. *)
LEMMA CallBuffers ==
    ASSUME CollInv, CollInv', FlowInv, BufferInv, NEW c \in Caller, Call(c)
    PROVE  BufferInv'
<1>0. c[1] \in Peer /\ c[2] \in Thread /\ c = <<c[1], c[2]>>
    BY CallerFacts
<1>1. Begin(c) /\ phase'[c] = "recv" /\ OthersStay(c) /\ UNCHANGED <<hand, recvQ>>
    BY DEF Call, Begin, OthersStay, CollInv, CallType, boxVars
<1>2. StageOK(c)'
    BY <1>1, StageNext
<1>3. PICK k, op, f, p, t : k = pos[c] /\ op = Op(c) /\ f = Stage(c)' /\ p = c[1] /\ t = c[2]
    OBVIOUS
<1>4. /\ send'[c] = Sum({p}, t, k) /\ recv_count'[c] = 0 /\ (op.inplace => recv'[c][0] = Sum({p}, t, k))
      /\ \A i \in Peer \ {0} : recv'[c][i] = EmptyBag
      /\ \A d \in Caller : d # c => send'[d] = send[d] /\ recv'[d] = recv[d] /\ recv_count'[d] = recv_count[d]
      /\ Op(c)' = op /\ pos'[c] = k
    BY <1>1, <1>3, BeginBuffers
<1>5. /\ op.kind \in {"all_reduce", "broadcast"} /\ op.name \in Name /\ f \in {0, 1}
      /\ \A q \in Peer : q \in Prevs(Graph(c)', p) <=> p \in Links(op, f, q)
      /\ f = 0 => op.kind = "all_reduce"
      /\ f = 1 => op.kind = "broadcast"
    <2>1. gi'[c] = 1
        BY <1>1 DEF Begin, CollInv, CallType
    <2> QED BY <1>0, <1>1, <1>2, <1>3, <1>4, <2>1 DEF StageOK
<1>6. Graph(c)' = Graphs(op)[1]
    <2>1. gi'[c] = 1
        BY <1>1 DEF Begin, CollInv, CallType
    <2> QED BY <1>4, <2>1 DEF Graph
<1>7. \A q \in Peer : sub'[c][q] = (IF p \in Links(op, f, q) THEN "todo" ELSE "none")
    <2>1. sub'[c] = Work(Prevs(Graphs(op)[1], p))
        BY <1>3 DEF Call, CollInv, CallType
    <2> QED BY <1>5, <1>6, <2>1 DEF Work
<1>8. p \notin Links(op, f, p)
    <2>1. Graphs(op) # <<>> /\ op.kind \in Kind
        BY <1>3, <1>5 DEF Call, Kind
    <2>2. p \notin Nexts(Graphs(op)[1], p)
        BY <1>5, <2>1, GraphFacts
    <2> QED BY <1>0, <1>3, <1>5, <1>6, <2>2, NextsPrevs
<1>9. SharedOK(c, op)' /\ PartsOK(c, op)' /\ FlatOK(c, k, op)'
    BY <1>0, <1>1, <1>3, <1>4, <1>5, <1>7, <1>8 DEF SharedOK, PartsOK, FlatOK
<1>10. ASSUME f = 0 PROVE AddedOK(c, k, op)'
    <2>1. Got(c, op)' = {p}
        <3>1. {q \in Feeds(op, 0, c[1]) : sub'[c][q] = "none"} = {}
            BY <1>3, <1>7, <1>10 DEF Feeds
        <3> QED BY <1>3, <3>1 DEF Got
    <2> QED BY <1>3, <1>4, <2>1 DEF AddedOK, EffectiveData
<1>11. ASSUME f = 1 PROVE FedOK(c, k, op)' /\ OwnOK(c, k, op)' /\ RootOK(c, k, op)'
    <2>1. \A q \in Feeds(op, 1, p) : sub'[c][q] = "todo"
        BY <1>7, <1>11 DEF Feeds
    <2>2. FedOK(c, k, op)'
        BY <1>0, <1>3, <2>1 DEF FedOK, Filled
    <2>3. OwnOK(c, k, op)'
        <3>1. ASSUME Feeds(op, 1, p) = {} PROVE Contributors(op, 1, p) = {p}
            <4>1. p = 0
                BY <1>0, <1>3, <1>5, <1>11, <3>1, BroadcastShape
            <4> QED BY <1>5, <1>11, <4>1 DEF Contributors
        <3> QED BY <1>1, <1>3, <1>4, <3>1 DEF OwnOK, EffectiveData
    <2> QED BY <1>1, <2>2, <2>3 DEF RootOK
<1>12. BufferAt(c, k, op, f)'
    BY <1>9, <1>10, <1>11 DEF BufferAt
<1>13. BufferOK(c)'
    BY <1>3, <1>4, <1>12, BufferNext
<1> QED BY <1>1, <1>4, <1>13, OtherBuffers

(* A call that begins without graphs. *)
LEMMA CallFlatBuffers ==
    ASSUME CollInv, CollInv', FlowInv, BufferInv, NEW c \in Caller, CallFlat(c)
    PROVE  BufferInv'
<1>0. c[1] \in Peer /\ c[2] \in Thread /\ c = <<c[1], c[2]>>
    BY CallerFacts
<1>1. Begin(c) /\ phase'[c] = "flat" /\ OthersStay(c) /\ UNCHANGED <<hand, recvQ>>
    BY DEF CallFlat, Begin, OthersStay, CollInv, CallType, boxVars
<1>2. StageOK(c)'
    BY <1>1, StageNext
<1>3. PICK k, op, p, t : k = pos[c] /\ op = Op(c) /\ p = c[1] /\ t = c[2]
    OBVIOUS
<1>4. /\ send'[c] = Sum({p}, t, k) /\ recv_count'[c] = 0
      /\ (op.inplace => recv'[c][0] = Sum({p}, t, k)) /\ (~op.inplace => recv'[c][0] = Input(p, t, 0))
      /\ \A i \in Peer \ {0} : recv'[c][i] = EmptyBag
      /\ \A d \in Caller : d # c => send'[d] = send[d] /\ recv'[d] = recv[d] /\ recv_count'[d] = recv_count[d]
      /\ Op(c)' = op /\ pos'[c] = k
    BY <1>1, <1>3, BeginBuffers
<1>5. op.kind \in {"all_gather", "send_recv"} /\ Stage(c)' = 1
    BY <1>1, <1>2, <1>4 DEF StageOK
<1>6. ~op.inplace /\ op.from # op.to
    <2>1. k \in 1 .. Len(Program[t]) /\ op = Program[t][k]
        BY <1>2, <1>3, <1>4 DEF StageOK, Rounds, Op
    <2> QED BY <1>0, <1>3, <1>5, <2>1, ProgramAssumption
<1>7. \A q \in Peer : sub'[c][q] = (IF q \in Senders(op, p) THEN "todo" ELSE "none")
    BY <1>3 DEF CallFlat, CollInv, CallType, Work
<1>8. \A q \in Feeds(op, 1, p) : sub'[c][q] = "todo"
    <2> SUFFICES ASSUME NEW q \in Feeds(op, 1, p) PROVE sub'[c][q] = "todo"
        OBVIOUS
    <2>1. q \in Peer /\ q # p /\ p \in Links(op, 1, q)
        BY DEF Feeds
    <2>2. q \in Senders(op, p)
        BY <1>0, <1>3, <1>5, <2>1, FlatLinks
    <2> QED BY <1>7, <2>1, <2>2
<1>9. SharedOK(c, op)' /\ PartsOK(c, op)'
    BY <1>4, <1>6 DEF SharedOK, PartsOK
<1>10. FlatOK(c, k, op)'
    <2>1. op.kind = "all_gather" => sub'[c][p] = "todo"
        BY <1>0, <1>3, <1>7 DEF Senders
    <2>2. op.kind = "send_recv" => sub'[c][p] = "none"
        BY <1>0, <1>3, <1>6, <1>7 DEF Senders
    <2> QED BY <1>3, <1>4, <1>5, <1>6, <2>1, <2>2 DEF FlatOK
<1>11. FedOK(c, k, op)'
    BY <1>0, <1>3, <1>8 DEF FedOK, Filled
<1>12. Contributors(op, 1, p) = {p}
    BY <1>5 DEF Contributors
<1>13. OwnOK(c, k, op)' /\ RootOK(c, k, op)'
    BY <1>1, <1>3, <1>4, <1>12 DEF OwnOK, RootOK, EffectiveData
<1>14. BufferAt(c, k, op, 1)'
    BY <1>9, <1>10, <1>11, <1>13 DEF BufferAt
<1>15. BufferOK(c)'
    BY <1>3, <1>4, <1>5, <1>14, BufferNext
<1> QED BY <1>1, <1>4, <1>15, OtherBuffers

(* What a step that does not change the call of c keeps. *)
LEMMA SameCall ==
    ASSUME CollInv, BufferInv, NEW c \in Caller, phase[c] # "idle", UNCHANGED <<pos, gi>>,
           phase'[c] = "flat" <=> phase[c] = "flat"
    PROVE  \E k, op, f, p, t :
              /\ k = pos[c] /\ op = Op(c) /\ f = Stage(c) /\ p = c[1] /\ t = c[2]
              /\ pos'[c] = k /\ Op(c)' = op /\ Stage(c)' = f
              /\ StageOK(c) /\ BufferAt(c, k, op, f) /\ f \in {0, 1}
              /\ p \in Peer /\ t \in Thread /\ c = <<p, t>>
              /\ k \in Rounds(t) /\ op = Program[t][k] /\ op.kind \in Kind /\ op.name \in Name
              /\ op.inplace \in BOOLEAN
              /\ op.kind \in {"all_gather", "send_recv"} => ~op.inplace
              /\ phase[c] = "flat" => f = 1 /\ op.kind \in {"all_gather", "send_recv"}
              /\ phase[c] \in {"recv", "send"} => op.kind \in {"all_reduce", "broadcast"}
              /\ f = 0 => op.kind = "all_reduce" /\ phase[c] \in {"recv", "send"}
<1>1. StageOK(c)
    BY StageFacts
<1>2. Op(c)' = Op(c) /\ Stage(c)' = Stage(c)
    BY DEF Op, Stage, Reduces, Graph
<1>3. BufferAt(c, pos[c], Op(c), Stage(c))
    BY DEF BufferInv, BufferOK
<1>4. c[1] \in Peer /\ c[2] \in Thread /\ c = <<c[1], c[2]>>
    BY CallerFacts
<1>5. phase[c] \in {"recv", "send", "flat"}
    BY DEF CollInv, CallType
<1>6. Op(c) = Program[c[2]][pos[c]] /\ pos[c] \in Rounds(c[2])
    BY <1>1 DEF Op, StageOK
<1>7. Op(c).kind \in {"all_gather", "send_recv"} => ~Op(c).inplace
    BY <1>4, <1>6, ProgramAssumption DEF Rounds
<1>8. /\ phase[c] = "flat" => Stage(c) = 1 /\ Op(c).kind \in {"all_gather", "send_recv"}
      /\ phase[c] \in {"recv", "send"} => Op(c).kind \in {"all_reduce", "broadcast"}
      /\ Stage(c) = 0 => Op(c).kind = "all_reduce" /\ phase[c] \in {"recv", "send"}
    BY <1>1, <1>5 DEF StageOK
<1> QED BY <1>1, <1>2, <1>3, <1>4, <1>6, <1>7, <1>8 DEF StageOK

(* An all_gather copies its own part. *)
LEMMA GatherOwnBuffers ==
    ASSUME CollInv, FlowInv, BufferInv, NEW c \in Caller, GatherOwn(c)
    PROVE  BufferInv'
<1>0. phase[c] = "flat" /\ UNCHANGED <<pos, phase, gi, recv_count, hand, recvQ>>
    BY DEF GatherOwn, boxVars
<1>1. PICK k, op, f, p, t :
              /\ k = pos[c] /\ op = Op(c) /\ f = Stage(c) /\ p = c[1] /\ t = c[2]
              /\ pos'[c] = k /\ Op(c)' = op /\ Stage(c)' = f
              /\ BufferAt(c, k, op, f) /\ f = 1
              /\ p \in Peer /\ t \in Thread /\ c = <<p, t>>
              /\ op.kind \in {"all_gather", "send_recv"} /\ ~op.inplace
    BY <1>0, SameCall
<1>2. sub[c][p] = "todo" /\ sub'[c][p] = "none" /\ \A q \in Peer : q # p => sub'[c][q] = sub[c][q]
    BY <1>1 DEF GatherOwn, CollInv, CallType
<1>3. op.kind = "all_gather"
    BY <1>1, <1>2 DEF BufferAt, FlatOK
<1>4. Part(op, p) = p
    BY <1>3 DEF Part
<1>5. send[c] \in Data
    BY DEF CollInv, MemType
<1>6. WriteRecv(c, p, send[c])
    BY <1>1, <1>4 DEF GatherOwn, Forward
<1>7. /\ recv'[c][p] = send[c] /\ \A j \in Peer : j # p => recv'[c][j] = recv[c][j]
      /\ send'[c] = send[c]
      /\ \A d \in Caller : d # c => send'[d] = send[d] /\ recv'[d] = recv[d]
    BY <1>1, <1>5, <1>6, WriteRecvValues DEF CollInv
<1>8. recv_count[c] = 0 /\ send[c] = Sum({p}, t, k)
    <2>1. recv_count[c] = 0
        BY <1>0, <1>1 DEF BufferAt, FlatOK
    <2>2. EffectiveData(c) = Sum(Contributors(op, 1, p), t, k)
        BY <1>0, <1>1 DEF BufferAt, OwnOK
    <2>3. Contributors(op, 1, p) = {p}
        BY <1>3 DEF Contributors
    <2> QED BY <2>1, <2>2, <2>3 DEF EffectiveData
<1>9. SharedOK(c, op)' /\ PartsOK(c, op)' /\ FlatOK(c, k, op)'
    BY <1>0, <1>1, <1>2, <1>3, <1>7, <1>8 DEF SharedOK, PartsOK, FlatOK
<1>10. FedOK(c, k, op)'
    <2> SUFFICES ASSUME NEW q \in Feeds(op, 1, p), sub'[c][q] = "none" \/ Filled(<<q, p>>, t)'
                 PROVE  recv'[c][Part(op, q)] = Sum(Contributors(op, 1, q), t, k)
        BY <1>1 DEF FedOK
    <2>1. q \in Peer /\ q # p
        BY DEF Feeds
    <2>2. Part(op, q) = q
        BY <1>3 DEF Part
    <2>3. sub[c][q] = "none" \/ Filled(<<q, p>>, t)
        BY <1>0, <1>1, <1>2, <2>1 DEF Filled, Op
    <2>4. recv[c][q] = Sum(Contributors(op, 1, q), t, k)
        BY <1>1, <2>2, <2>3 DEF BufferAt, FedOK
    <2> QED BY <1>7, <2>1, <2>2, <2>4
<1>11. OwnOK(c, k, op)' /\ RootOK(c, k, op)'
    BY <1>0, <1>1, <1>7, <1>8 DEF BufferAt, OwnOK, RootOK, EffectiveData
<1>12. BufferOK(c)'
    BY <1>1, <1>9, <1>10, <1>11, BufferNext DEF BufferAt
<1>13. OthersStay(c)
    BY DEF GatherOwn, OthersStay, CollInv, CallType
<1> QED BY <1>0, <1>7, <1>12, <1>13, OtherBuffers

(* A peer adds what it takes from the mailbox to its sum. *)
LEMMA RecvOntoBuffers ==
    ASSUME CollInv, FlowInv, DataInv, NEW c \in Caller, NEW q \in Peer, RecvOnto(c, q)
    PROVE  BufferInv'
<1>0. phase[c] = "recv" /\ UNCHANGED <<pos, phase, gi, hand, recvQ>> /\ BufferInv
    BY DEF RecvOnto, DataInv
<1>1. PICK k, op, f, p, t :
              /\ k = pos[c] /\ op = Op(c) /\ f = Stage(c) /\ p = c[1] /\ t = c[2]
              /\ pos'[c] = k /\ Op(c)' = op /\ Stage(c)' = f
              /\ BufferAt(c, k, op, f) /\ f \in {0, 1}
              /\ p \in Peer /\ t \in Thread /\ c = <<p, t>>
              /\ k \in Rounds(t) /\ op = Program[t][k] /\ op.name \in Name
              /\ op.inplace \in BOOLEAN
              /\ f = 0 => op.kind = "all_reduce"
    BY <1>0, SameCall
<1>2. PICK b : b = <<p, q, op.name>>
    OBVIOUS
<1>3. Reduces(c) /\ sub[c][q] = "todo" /\ mail[b] # <<>>
    BY <1>1, <1>2 DEF RecvOnto
<1>4. q # p /\ <<q, p>> \in Conn /\ f = 0 /\ Boxed(<<q, p>>, t, k) /\ InTransit(<<q, p>>, t, k, 0)
    BY <1>0, <1>1, <1>2, <1>3, MailIsCurrent
<1>5. op.kind = "all_reduce" /\ q \in Feeds(op, 0, p)
    BY <1>1, <1>4 DEF InTransit, Item, Feeds
<1>6. Head(mail[b]) = Sum(Contributors(op, 0, q), t, k)
    <2>1. BoxData(<<q, p>>)
        BY <1>4 DEF DataInv, ItemInv
    <2> QED BY <1>1, <1>2, <1>4, <2>1 DEF BoxData, ItemSum
<1>7. Head(mail[b]) \in Data /\ EffectiveData(c) \in Data
    <2>1. b \in Box
        BY <1>1, <1>2, BoxFacts
    <2>2. mail[b] \in Seq(Data) /\ Len(mail[b]) <= 1
        BY <2>1 DEF CollInv, BoxType
    <2> QED BY <1>3, <2>2, ShortSeq, EffectiveDataType DEF CollInv
<1>8. EffectiveData(c) = Sum(Got(c, op), t, k)
    BY <1>1, <1>4 DEF BufferAt, AddedOK
<1>9. sub'[c][q] = "none" /\ \A r \in Peer : r # q => sub'[c][r] = sub[c][r]
    BY DEF RecvOnto, CollInv, CallType
<1>10. ReduceShape(op, p)
    BY <1>1, <1>5, ReduceShapes
<1>11. Contributors(op, 0, q) \cap Got(c, op) = {} /\ Got(c, op)' = Contributors(op, 0, q) \cup Got(c, op)
    <2> DEFINE F == {x \in Feeds(op, 0, p) : sub[c][x] = "none"}
    <2>1. Got(c, op) = {p} \cup UNION {Contributors(op, 0, x) : x \in F}
        BY <1>1 DEF Got
    <2>2. Got(c, op)' = {p} \cup UNION {Contributors(op, 0, x) : x \in F \cup {q}}
        <3>1. {x \in Feeds(op, 0, p) : sub'[c][x] = "none"} = F \cup {q}
            BY <1>5, <1>9 DEF Feeds
        <3> QED BY <1>1, <3>1 DEF Got
    <2>3. \A x \in F : x \in Feeds(op, 0, p) /\ x # q
        BY <1>3
    <2> HIDE DEF F
    <2>4. \A x \in F : Contributors(op, 0, x) \cap Contributors(op, 0, q) = {}
        BY <1>5, <1>10, <2>3 DEF ReduceShape
    <2>5. p \notin Contributors(op, 0, q)
        BY <1>5, <1>10 DEF ReduceShape
    <2> QED BY <2>1, <2>2, <2>4, <2>5
<1>12. Reduce(Head(mail[b]), EffectiveData(c)) = Sum(Contributors(op, 0, q) \cup Got(c, op), t, k)
    BY <1>6, <1>8, <1>11, SumOfSums
<1>13. PICK data : data = Reduce(Head(mail[b]), EffectiveData(c))
    OBVIOUS
<1>14. data \in Data
    BY <1>7, <1>13, ReduceData
<1>15. WriteRecv(c, 0, data) /\ recv_count'[c] = recv_count[c] + 1
    BY <1>1, <1>2, <1>13 DEF RecvOnto, AddTo, CollInv, MemType
<1>16. /\ recv'[c][0] = data /\ \A j \in Peer : j # 0 => recv'[c][j] = recv[c][j]
       /\ op.inplace => send'[c] = data
       /\ \A d \in Caller : d # c => send'[d] = send[d] /\ recv'[d] = recv[d]
    BY <1>1, <1>14, <1>15, WriteRecvValues, Constants DEF CollInv
<1>17. AddedOK(c, k, op)'
    <2>1. recv_count'[c] > 0
        BY <1>15 DEF CollInv, MemType
    <2> QED BY <1>1, <1>11, <1>12, <1>13, <1>16, <2>1 DEF AddedOK, EffectiveData
<1>18. SharedOK(c, op)' /\ PartsOK(c, op)'
    BY <1>1, <1>16 DEF BufferAt, SharedOK, PartsOK
<1>19. FlatOK(c, k, op)'
    BY <1>0, <1>1, <1>4, <1>5, <1>9 DEF BufferAt, FlatOK
<1>20. BufferOK(c)'
    BY <1>1, <1>4, <1>17, <1>18, <1>19, BufferNext DEF BufferAt
<1>21. OthersStay(c) /\ \A d \in Caller : d # c => recv_count'[d] = recv_count[d]
    BY DEF RecvOnto, AddTo, OthersStay, CollInv, CallType, MemType
<1> QED BY <1>0, <1>16, <1>20, <1>21, OtherBuffers

(* What is in the buffers when only a task of the call has changed. *)
LEMMA TaskBuffers ==
    ASSUME NEW c \in Caller, NEW k, NEW op, BufferAt(c, k, op, 1), phase[c] # "idle",
           UNCHANGED <<send, recv, recv_count, phase>>,
           op.kind # "all_gather" => sub'[c][c[1]] = "none",
           sub'[c][c[1]] = "none" => sub[c][c[1]] = "none",
           \A q \in Feeds(op, 1, c[1]) :
              sub'[c][q] = "none" \/ Filled(<<q, c[1]>>, c[2])' => sub[c][q] = "none" \/ Filled(<<q, c[1]>>, c[2])
    PROVE  BufferAt(c, k, op, 1)'
<1>1. SharedOK(c, op)' /\ PartsOK(c, op)'
    BY DEF BufferAt, SharedOK, PartsOK
<1>2. FlatOK(c, k, op)'
    BY DEF BufferAt, FlatOK
<1>3. FedOK(c, k, op)'
    BY DEF BufferAt, FedOK
<1>4. OwnOK(c, k, op)' /\ RootOK(c, k, op)'
    BY DEF BufferAt, OwnOK, RootOK, EffectiveData
<1> QED BY <1>1, <1>2, <1>3, <1>4 DEF BufferAt

(* A buffer that has just been posted is not filled. *)
LEMMA PostRecvBuffers ==
    ASSUME CollInv, FlowInv, BufferInv, NEW c \in Caller, NEW q \in Peer, PostRecv(c, q)
    PROVE  BufferInv'
<1>0. /\ phase[c] # "idle" /\ q # c[1] /\ sub[c][q] = "todo" /\ ~Reduces(c)
      /\ UNCHANGED <<pos, phase, gi, send, recv, recv_count, hand, recvQ>>
    BY DEF PostRecv, memVars
<1>1. PICK k, op, f, p, t :
              /\ k = pos[c] /\ op = Op(c) /\ f = Stage(c) /\ p = c[1] /\ t = c[2]
              /\ pos'[c] = k /\ Op(c)' = op /\ Stage(c)' = f
              /\ BufferAt(c, k, op, f) /\ f = 1
              /\ p \in Peer /\ t \in Thread /\ c = <<p, t>>
    BY <1>0, SameCall DEF Stage
<1>2. sub'[c][q] = "posted" /\ \A r \in Peer : r # q => sub'[c][r] = sub[c][r]
    BY DEF PostRecv, CollInv, CallType
<1>3. ~Filled(<<q, p>>, t)'
    <2>1. <<q, p>> \in Conn
        BY <1>0, <1>1, CallerFacts
    <2>2. ~(hand[<<q, p>>].st = "filled" /\ hand[<<q, p>>].ptr[1] = t)
        BY <1>0, <1>1, <2>1, HeldIsPosted
    <2>3. recvQ[<<p, q, op.name>>] = <<>>
        BY <1>0, <1>1, <2>1, HeldIsPosted
    <2> QED BY <1>0, <1>1, <2>2, <2>3 DEF Filled
<1>4. ASSUME NEW r \in Feeds(op, 1, c[1]), sub'[c][r] = "none" \/ Filled(<<r, c[1]>>, c[2])'
      PROVE  sub[c][r] = "none" \/ Filled(<<r, c[1]>>, c[2])
    <2>1. r # q /\ r \in Peer
        BY <1>1, <1>2, <1>3, <1>4 DEF Feeds
    <2> QED BY <1>0, <1>1, <1>2, <1>4, <2>1 DEF Filled
<1>5. sub'[c][p] = sub[c][p] /\ (op.kind # "all_gather" => sub[c][p] = "none")
    BY <1>0, <1>1, <1>2 DEF BufferAt, FlatOK
<1>6. BufferAt(c, k, op, 1)'
    BY <1>0, <1>1, <1>4, <1>5, TaskBuffers
<1>7. BufferOK(c)'
    BY <1>1, <1>6, BufferNext
<1>8. OthersStay(c)
    BY DEF PostRecv, OthersStay, CollInv, CallType
<1> QED BY <1>0, <1>7, <1>8, OtherBuffers

(* A buffer that is taken back has been filled. *)
LEMMA RecvIntoBuffers ==
    ASSUME CollInv, FlowInv, BufferInv, NEW c \in Caller, NEW q \in Peer, RecvInto(c, q)
    PROVE  BufferInv'
<1>0. /\ sub[c][q] = "posted" /\ recvQ[<<c[1], q, Op(c).name>>] # <<>>
      /\ UNCHANGED <<pos, phase, gi, send, recv, recv_count, hand>>
    BY DEF RecvInto, memVars
<1>a. phase[c] # "idle" /\ Stage(c) = 1 /\ q # c[1]
    BY <1>0, PostedFacts DEF FlowInv
<1>1. PICK k, op, f, p, t :
              /\ k = pos[c] /\ op = Op(c) /\ f = Stage(c) /\ p = c[1] /\ t = c[2]
              /\ pos'[c] = k /\ Op(c)' = op /\ Stage(c)' = f
              /\ BufferAt(c, k, op, f) /\ f = 1
              /\ p \in Peer /\ t \in Thread /\ c = <<p, t>> /\ op.name \in Name
    BY <1>0, <1>a, SameCall
<1>2. sub'[c][q] = "none" /\ \A r \in Peer : r # q => sub'[c][r] = sub[c][r]
    BY DEF RecvInto, CollInv, CallType
<1>3. Filled(<<q, p>>, t)
    BY <1>0, <1>1 DEF Filled
<1>4. ASSUME NEW b \in Box, recvQ'[b] # <<>> PROVE recvQ[b] # <<>>
    <2>1. PICK x \in Box : x = <<c[1], q, Op(c).name>>
        BY <1>1, BoxFacts
    <2>2. recvQ' = [recvQ EXCEPT ![x] = Tail(recvQ[x])] /\ recvQ \in [Box -> Seq(Ptr)]
        BY <2>1 DEF RecvInto, CollInv, BoxType
    <2>3. CASE b = x
        BY <1>0, <2>1, <2>3
    <2>4. CASE b # x
        BY <1>4, <2>2, <2>4
    <2> QED BY <2>3, <2>4
<1>5. ASSUME NEW r \in Feeds(op, 1, c[1]), sub'[c][r] = "none" \/ Filled(<<r, c[1]>>, c[2])'
      PROVE  sub[c][r] = "none" \/ Filled(<<r, c[1]>>, c[2])
    <2>1. CASE r = q
        BY <1>1, <1>3, <2>1
    <2>2. CASE r # q
        <3>1. r \in Peer /\ <<p, r, op.name>> \in Box
            BY <1>1, BoxFacts DEF Feeds
        <3> QED BY <1>0, <1>1, <1>2, <1>4, <1>5, <2>2, <3>1 DEF Filled
    <2> QED BY <2>1, <2>2
<1>6. sub'[c][p] = sub[c][p] /\ (op.kind # "all_gather" => sub[c][p] = "none")
    BY <1>a, <1>1, <1>2 DEF BufferAt, FlatOK
<1>7. BufferAt(c, k, op, 1)'
    BY <1>0, <1>a, <1>1, <1>5, <1>6, TaskBuffers
<1>8. BufferOK(c)'
    BY <1>1, <1>7, BufferNext
<1>9. OthersStay(c)
    BY DEF RecvInto, OthersStay, CollInv, CallType
<1> QED BY <1>0, <1>4, <1>8, <1>9, OtherBuffers

(* Nobody feeds a peer in a graph without predecessors of it. *)
LEMMA FeedsNow ==
    ASSUME CollInv, NEW c \in Caller, phase[c] \in {"recv", "send"}
    PROVE  Prevs(Graph(c), c[1]) = {} <=> Feeds(Op(c), Stage(c), c[1]) = {}
<1>1. StageOK(c) /\ c[1] \in Peer
    BY StageFacts, CallerFacts
<1>2. gi[c] \in 1 .. Len(Graphs(Op(c))) /\ Op(c).kind \in Kind /\ Op(c).name \in Name
    BY <1>1 DEF CollInv, CallInv, CallOK, StageOK
<1>3. c[1] \notin Nexts(Graph(c), c[1])
    BY <1>2, GraphFacts DEF Graph
<1>4. ASSUME NEW q \in Prevs(Graph(c), c[1]) PROVE q \in Peer
    <2>1. PICK g, r : r \in Peer /\ g = Graph(c) /\ (IsInTree(N, g, r) \/ IsOutTree(N, g, r))
        <3>1. CASE Op(c).kind = "all_reduce"
            <4>1. PICK g, h : \E r \in Peer : Graphs(Op(c)) = <<g, h>> /\ IsInTree(N, g, r) /\ IsOutTree(N, h, r)
                BY <1>2, <3>1, GraphStages
            <4>2. Graph(c) = g \/ Graph(c) = h
                BY <1>2, <4>1 DEF Graph
            <4> QED BY <4>1, <4>2
        <3>2. CASE Op(c).kind = "broadcast"
            <4>1. PICK h : Graphs(Op(c)) = <<h>> /\ IsOutTree(N, h, 0)
                BY <1>2, <3>2, GraphStages
            <4>2. Graph(c) = h
                BY <1>2, <4>1 DEF Graph
            <4> QED BY <4>1, <4>2, Constants
        <3> QED BY <1>1, <3>1, <3>2 DEF StageOK
    <2>2. PICK e \in g.edges : e[1] = q
        BY <1>4, <2>1 DEF Prevs
    <2> QED BY <2>1, <2>2, InTreeEdges, OutTreeEdges, Constants
<1> QED BY <1>1, <1>3, <1>4, NextsPrevs DEF StageOK, Feeds

(* A peer that has received from everyone; the root copies send to recv. *)
LEMMA RecvDoneBuffers ==
    ASSUME CollInv, FlowInv, BufferInv, NEW c \in Caller, RecvDone(c)
    PROVE  BufferInv'
<1>0. /\ phase[c] = "recv" /\ phase'[c] = "send"
      /\ UNCHANGED <<pos, gi, sub, recv_count, hand, recvQ>>
    BY DEF RecvDone, boxVars, CollInv, CallType
<1>1. PICK k, op, f, p, t :
              /\ k = pos[c] /\ op = Op(c) /\ f = Stage(c) /\ p = c[1] /\ t = c[2]
              /\ pos'[c] = k /\ Op(c)' = op /\ Stage(c)' = f
              /\ BufferAt(c, k, op, f) /\ f \in {0, 1}
              /\ p \in Peer /\ t \in Thread /\ c = <<p, t>> /\ op.name \in Name
              /\ op.inplace \in BOOLEAN
              /\ op.kind \in {"all_reduce", "broadcast"}
    BY <1>0, SameCall
<1>2. Prevs(Graph(c), p) = {} <=> Feeds(op, f, p) = {}
    BY <1>0, <1>1, FeedsNow
<1>3. Reduces(c) <=> f = 0
    BY <1>1 DEF Stage
<1>4. OthersStay(c) /\ \A d \in Caller : recv_count'[d] = recv_count[d]
    BY DEF RecvDone, OthersStay, CollInv, CallType
<1>5. ASSUME NEW q \in Peer, Filled(<<q, p>>, t)' PROVE Filled(<<q, p>>, t)
    BY <1>0, <1>1, <1>5 DEF Filled
<1>6. CASE ~Reduces(c) /\ Prevs(Graph(c), p) = {} /\ recv_count[c] = 0
    <2>1. Forward(c, 0) /\ f = 1 /\ Feeds(op, 1, p) = {}
        BY <1>1, <1>2, <1>3, <1>6 DEF RecvDone
    <2>2. send[c] \in Data
        BY DEF CollInv, MemType
    <2>3. /\ recv'[c][0] = send[c] /\ \A j \in Peer : j # 0 => recv'[c][j] = recv[c][j]
          /\ send'[c] = send[c]
          /\ \A d \in Caller : d # c => send'[d] = send[d] /\ recv'[d] = recv[d]
        BY <1>1, <2>1, <2>2, WriteRecvValues, Constants DEF CollInv, Forward
    <2>4. send[c] = Sum(Contributors(op, 1, p), t, k)
        BY <1>1, <1>6, <2>1 DEF BufferAt, OwnOK, EffectiveData
    <2>5. SharedOK(c, op)' /\ PartsOK(c, op)'
        BY <1>1, <2>3 DEF BufferAt, SharedOK, PartsOK
    <2>6. FlatOK(c, k, op)'
        BY <1>0, <1>1 DEF BufferAt, FlatOK
    <2>7. FedOK(c, k, op)'
        BY <1>1, <2>1 DEF FedOK
    <2>8. OwnOK(c, k, op)' /\ RootOK(c, k, op)'
        BY <1>0, <1>1, <1>6, <2>3, <2>4 DEF OwnOK, RootOK, EffectiveData
    <2>9. BufferOK(c)'
        BY <1>1, <2>1, <2>5, <2>6, <2>7, <2>8, BufferNext DEF BufferAt
    <2> QED BY <1>0, <1>4, <2>3, <2>9, OtherBuffers
<1>7. CASE ~(~Reduces(c) /\ Prevs(Graph(c), p) = {} /\ recv_count[c] = 0)
    <2>1. UNCHANGED <<send, recv>>
        BY <1>1, <1>7 DEF RecvDone
    <2>2. SharedOK(c, op)' /\ PartsOK(c, op)' /\ FlatOK(c, k, op)'
        BY <1>0, <1>1, <2>1 DEF BufferAt, SharedOK, PartsOK, FlatOK
    <2>3. f = 0 => AddedOK(c, k, op)'
        BY <1>0, <1>1, <2>1 DEF BufferAt, AddedOK, EffectiveData, Got
    <2>4. f = 1 => FedOK(c, k, op)'
        BY <1>0, <1>1, <1>5, <2>1 DEF BufferAt, FedOK, Feeds
    <2>5. f = 1 => OwnOK(c, k, op)'
        BY <1>0, <1>1, <2>1 DEF BufferAt, OwnOK, EffectiveData
    <2>6. f = 1 => RootOK(c, k, op)'
        <3> SUFFICES ASSUME f = 1, Feeds(op, 1, p) = {} PROVE recv'[c][0] = Sum(Contributors(op, 1, p), t, k)
            BY <1>1 DEF RootOK
        <3>1. recv_count[c] > 0
            BY <1>2, <1>3, <1>7 DEF CollInv, MemType
        <3> QED BY <1>1, <2>1, <3>1 DEF BufferAt, OwnOK, EffectiveData
    <2>7. BufferOK(c)'
        BY <1>1, <2>2, <2>3, <2>4, <2>5, <2>6, BufferNext DEF BufferAt
    <2> QED BY <1>0, <1>4, <2>1, <2>7, OtherBuffers
<1> QED BY <1>6, <1>7

(* A peer that has received from everyone has all it is to send on. *)
LEMMA AllGot ==
    ASSUME NEW c \in Caller, NEW op, op.kind = "all_reduce", op.name \in Name,
           \A q \in Peer : sub[c][q] = "none"
    PROVE  Got(c, op) = Contributors(op, 0, c[1])
<1>1. ReduceShape(op, c[1])
    BY CallerFacts, ReduceShapes
<1>2. {q \in Feeds(op, 0, c[1]) : sub[c][q] = "none"} = Feeds(op, 0, c[1])
    BY DEF Feeds
<1> QED BY <1>1, <1>2 DEF Got, ReduceShape

(* From the reduce graph to the broadcast graph: the root has the sum. *)
LEMMA SendDoneBuffers ==
    ASSUME CollInv, CollInv', FlowInv, BufferInv, NEW c \in Caller, SendDone(c)
    PROVE  BufferInv'
<1>0. /\ phase[c] \in {"send", "flat"} /\ \A q \in Peer : sub[c][q] = "none"
      /\ UNCHANGED <<send, recv, recv_count, hand, recvQ>> /\ OthersStay(c)
    BY DEF SendDone, boxVars, memVars, OthersStay, CollInv, CallType
<1>a. c[1] \in Peer /\ c[2] \in Thread /\ c = <<c[1], c[2]>>
    BY CallerFacts
<1>1. CASE phase'[c] = "idle"
    <2>1. BufferOK(c)'
        BY <1>1 DEF BufferOK
    <2> QED BY <1>0, <2>1, OtherBuffers
<1>2. CASE phase'[c] # "idle"
    <2>1. /\ gi[c] < Len(Graphs(Op(c))) /\ gi' = [gi EXCEPT ![c] = gi[c] + 1]
          /\ phase'[c] = "recv" /\ pos' = pos
          /\ sub'[c] = Work(Prevs(Graphs(Op(c))[gi[c] + 1], c[1]))
        BY <1>2 DEF SendDone, CollInv, CallType
    <2>2. StageOK(c) /\ StageOK(c)'
        BY <1>0, <1>2, StageFacts, StageNext
    <2>3. PICK k, op, p, t, g : k = pos[c] /\ op = Op(c) /\ p = c[1] /\ t = c[2] /\ g = gi[c]
        OBVIOUS
    <2>4. pos'[c] = k /\ Op(c)' = op /\ op.name \in Name /\ op.kind \in Kind
        BY <2>1, <2>2, <2>3 DEF Op, StageOK
    <2>5. phase[c] = "send" /\ Stage(c) = 0 /\ op.kind = "all_reduce" /\ g = 1
        <3>1. phase[c] = "flat" => Len(Graphs(op)) = 0
            BY <2>3 DEF CollInv, CallInv, CallOK
        <3>2. gi[c] \in {1, 2}
            BY DEF CollInv, CallType
        <3>3. phase[c] = "send"
            BY <1>0, <2>1, <2>3, <3>1, <3>2
        <3> QED BY <2>1, <2>2, <2>3, <3>3 DEF StageOK
    <2>6. gi'[c] = 2
        BY <2>1, <2>3, <2>5 DEF CollInv, CallType
    <2>7. Stage(c)' = 1 /\ Graph(c)' = Graphs(op)[2]
        BY <2>1, <2>2, <2>4, <2>6 DEF StageOK, Graph
    <2>8. \A q \in Peer : q \in Prevs(Graphs(op)[2], p) <=> p \in Links(op, 1, q)
        BY <2>1, <2>2, <2>3, <2>4, <2>7 DEF StageOK
    <2>9. \A q \in Peer : sub'[c][q] = (IF p \in Links(op, 1, q) THEN "todo" ELSE "none")
        BY <2>1, <2>3, <2>5, <2>8 DEF Work
    <2>10. p \notin Links(op, 1, p)
        <3>1. Len(Graphs(op)) \in {0, 1, 2} /\ 1 < Len(Graphs(op))
            BY <2>1, <2>3, <2>4, <2>5, GraphFacts
        <3>2. p \notin Nexts(Graphs(op)[2], p)
            BY <2>4, <3>1, GraphFacts
        <3> QED BY <1>a, <2>3, <2>8, <3>2, NextsPrevs
    <2>11. BufferAt(c, k, op, 0)
        BY <1>0, <2>3, <2>5 DEF BufferInv, BufferOK
    <2>12. EffectiveData(c) = Sum(Contributors(op, 0, p), t, k)
        BY <1>0, <2>3, <2>4, <2>5, <2>11, AllGot DEF BufferAt, AddedOK
    <2>13. SharedOK(c, op)' /\ PartsOK(c, op)'
        BY <1>0, <2>11 DEF BufferAt, SharedOK, PartsOK
    <2>14. FlatOK(c, k, op)'
        BY <1>a, <2>1, <2>3, <2>5, <2>9, <2>10 DEF FlatOK
    <2>15. FedOK(c, k, op)'
        <3>1. \A q \in Feeds(op, 1, p) : sub'[c][q] = "todo"
            BY <2>9 DEF Feeds
        <3> QED BY <1>a, <2>3, <3>1 DEF FedOK, Filled
    <2>16. OwnOK(c, k, op)'
        <3> SUFFICES ASSUME Feeds(op, 1, p) = {} PROVE EffectiveData(c)' = Sum(Contributors(op, 1, p), t, k)
            BY <2>1, <2>3 DEF OwnOK
        <3>1. Contributors(op, 0, p) = Peer
            BY <1>a, <2>3, <2>4, <2>5, ReduceShapes DEF ReduceShape
        <3>2. Contributors(op, 1, p) = Peer
            BY <2>5 DEF Contributors
        <3>3. EffectiveData(c)' = EffectiveData(c)
            BY <1>0 DEF EffectiveData
        <3> QED BY <2>12, <3>1, <3>2, <3>3
    <2>17. RootOK(c, k, op)'
        BY <2>1 DEF RootOK
    <2>18. BufferOK(c)'
        BY <2>4, <2>7, <2>13, <2>14, <2>15, <2>16, <2>17, BufferNext DEF BufferAt
    <2> QED BY <1>0, <2>18, OtherBuffers
<1> QED BY <1>1, <1>2

(* Sending does not change a caller's own buffers. *)
LEMMA SendBuffers ==
    ASSUME CollInv, FlowInv, BufferInv, NEW c \in Caller, NEW q \in Peer, SendBegin(c, q) \/ SendEnd(c, q)
    PROVE  BufferInv'
<1>1. UNCHANGED <<pos, phase, gi, sub, send, recv, recv_count, hand, recvQ>>
    BY DEF SendBegin, SendEnd, boxVars, memVars
<1>2. ASSUME NEW d \in Caller, NEW r \in Peer PROVE Filled(<<r, d[1]>>, d[2])' <=> Filled(<<r, d[1]>>, d[2])
    BY <1>1 DEF Filled, Op
<1> QED BY <1>1, <1>2, BufferKept DEF BufferInv

(* A handler that writes to no buffer and fills none. *)
LEMMA HandlerBuffers ==
    ASSUME CollInv, FlowInv, BufferInv, NEW e \in Conn, UNCHANGED <<callVars, memVars>>,
           \A d \in Conn : d # e => hand'[d] = hand[d], hand'[e].st # "filled",
           \A b \in Box : recvQ'[b] # <<>> =>
              \/ recvQ[b] # <<>>
              \/ hand[e].st = "filled" /\ b = <<e[2], e[1], hand[e].name>>
    PROVE  BufferInv'
<1> SUFFICES ASSUME NEW d \in Caller PROVE BufferOK(d)'
    BY DEF BufferInv
<1>1. UNCHANGED <<pos, phase, gi, sub, send, recv, recv_count>>
    BY DEF callVars, memVars
<1>2. CASE phase[d] = "idle"
    BY <1>1, <1>2 DEF BufferOK
<1>3. CASE phase[d] # "idle"
    <2>1. d[1] \in Peer /\ d[2] \in Thread /\ d = <<d[1], d[2]>> /\ Op(d).name \in Name
        BY <1>3, CallerFacts, StageFacts DEF StageOK
    <2>2. ASSUME NEW r \in Peer, Filled(<<r, d[1]>>, d[2])' PROVE Filled(<<r, d[1]>>, d[2])
        <3>1. sub[d][r] = "posted" /\ Op(d)' = Op(d)
            BY <1>1, <2>1, <2>2 DEF Filled, Op
        <3>2. PICK b \in Box : b = <<d[1], r, Op(d).name>>
            BY <2>1, BoxFacts
        <3>a. r # d[1] /\ <<r, d[1]>> \in Conn
            BY <3>1, PostedFacts DEF FlowInv
        <3>3. CASE recvQ[b] # <<>>
            BY <2>1, <3>1, <3>2, <3>3 DEF Filled
        <3>4. CASE hand[e].st = "filled" /\ b = <<e[2], e[1], hand[e].name>>
            <4>1. PICK t \in Owners(b) : Owners(b) = {t} /\ hand[e].ptr = <<t, Part(Op(<<b[1], t>>), b[2])>>
                BY <3>4, HeldBuffer
            <4>2. d[2] \in Owners(b)
                BY <1>3, <2>1, <3>1, <3>2 DEF Owners
            <4>3. hand[e].ptr[1] = d[2]
                BY <4>1, <4>2
            <4>4. <<r, d[1]>> = e
                BY <3>2, <3>4, CallerFacts
            <4> QED BY <2>1, <3>1, <3>4, <4>3, <4>4 DEF Filled
        <3>5. CASE hand'[<<r, d[1]>>].st = "filled" /\ hand'[<<r, d[1]>>].ptr[1] = d[2]
            <4>1. <<r, d[1]>> # e
                BY <3>5
            <4> QED BY <2>1, <3>1, <3>5, <3>a, <4>1 DEF Filled
        <3> QED BY <2>1, <2>2, <3>1, <3>2, <3>3, <3>4, <3>5 DEF Filled
    <2> QED BY <1>1, <2>2, BufferKept DEF BufferInv
<1> QED BY <1>2, <1>3

(* Handlers of mail, and those that take a buffer or give one back. *)
LEMMA HandlersBuffers ==
    ASSUME CollInv, FlowInv, BufferInv, NEW e \in Conn,
           ReadMail(e) \/ PutMail(e) \/ TakeBuf(e) \/ PutRecvd(e)
    PROVE  BufferInv'
<1>0. hand \in [Conn -> {Idle} \cup MailState \cup SlotState] /\ recvQ \in [Box -> Seq(Ptr)]
    BY DEF CollInv, NetType, BoxType
<1>1. UNCHANGED <<callVars, memVars>>
    BY DEF ReadMail, PutMail, TakeBuf, PutRecvd
<1>2. (\A d \in Conn : d # e => hand'[d] = hand[d]) /\ hand'[e].st # "filled"
    BY <1>0 DEF ReadMail, PutMail, TakeBuf, PutRecvd, Idle
<1>3. ASSUME NEW b \in Box, recvQ'[b] # <<>>
      PROVE  \/ recvQ[b] # <<>>
             \/ hand[e].st = "filled" /\ b = <<e[2], e[1], hand[e].name>>
    <2>1. CASE recvQ' = recvQ
        BY <1>3, <2>1
    <2>2. CASE PutRecvd(e)
        <3>1. PICK x : x = <<e[2], e[1], hand[e].name>>
            OBVIOUS
        <3>2. hand[e].st = "filled" /\ recvQ' = [recvQ EXCEPT ![x] = Append(recvQ[x], hand[e].ptr)]
            BY <2>2, <3>1 DEF PutRecvd
        <3> QED BY <1>0, <1>3, <3>1, <3>2
    <2> QED BY <2>1, <2>2 DEF ReadMail, PutMail, TakeBuf, boxVars
<1> QED BY <1>1, <1>2, <1>3, HandlerBuffers

(* A handler writes the item to the buffer it was lent. *)
LEMMA ReadBodyBuffers ==
    ASSUME CollInv, FlowInv, DataInv, NEW e \in Conn, ReadBody(e)
    PROVE  BufferInv'
<1>0. hand[e].st = "buf" /\ net[e] # <<>> /\ BufferInv /\ ItemInv
    BY DEF ReadBody, CollInv, ReadInv, DataInv
<1>1. PICK c, q : q = e[1] /\ c = <<e[2], hand[e].ptr[1]>>
    OBVIOUS
<1>2. /\ hand[e].ptr[1] \in Thread /\ sub[c][q] = "posted"
      /\ hand[e].ptr[2] = Part(Op(c), q)
    BY <1>0, <1>1, HeldIsPosted
<1>3. c \in Caller /\ q \in Peer /\ q # e[2] /\ e[2] \in Peer /\ e = <<q, e[2]>>
    BY <1>1, <1>2, CallerFacts
<1>4. /\ phase[c] \in {"recv", "flat"} /\ Stage(c) = 1
      /\ Item(<<q, c[1]>>, c[2], pos[c], 1)
    BY <1>2, <1>3, PostedFacts DEF FlowInv
<1>5. UNCHANGED <<pos, phase, gi, sub, recv_count, recvQ>>
    BY DEF ReadBody, callVars, boxVars
<1>6. PICK k, op, f, p, t :
              /\ k = pos[c] /\ op = Op(c) /\ f = Stage(c) /\ p = c[1] /\ t = c[2]
              /\ pos'[c] = k /\ Op(c)' = op /\ Stage(c)' = f
              /\ BufferAt(c, k, op, f) /\ f = 1
              /\ p \in Peer /\ t \in Thread /\ c = <<p, t>>
              /\ k \in Rounds(t) /\ op = Program[t][k] /\ op.kind \in Kind
              /\ op.inplace \in BOOLEAN
              /\ op.kind \in {"all_gather", "send_recv"} => ~op.inplace
              /\ phase[c] = "flat" => op.kind \in {"all_gather", "send_recv"}
    BY <1>0, <1>3, <1>4, <1>5, SameCall
<1>7. p = e[2] /\ t = hand[e].ptr[1] /\ e = <<q, p>> /\ q \in Feeds(op, 1, p)
    BY <1>1, <1>3, <1>4, <1>6 DEF Item, Feeds
<1>8. PICK data : data = Header(e).data
    OBVIOUS
<1>9. data = Sum(Contributors(op, 1, q), t, k) /\ data \in Data
    <2>1. net[e] \in Seq(Msg)
        BY DEF CollInv, NetType
    <2>2. 1 \in DOMAIN net[e] /\ Header(e) = net[e][1]
        BY <1>0, <2>1, HeadAndTail DEF Header
    <2>3. IsFor(net[e][1], t, k, 1)
        BY <1>0, <1>6, <1>7 DEF FlowInv, PlacesInv, ConnOK, BufOK
    <2>4. net[e][1].data = ItemSum(q, t, k, 1)
        BY <1>0, <1>1, <1>6, <2>2, <2>3 DEF ItemInv, NetData
    <2>5. data \in Data
        BY <1>0, <1>8, NetHead
    <2> QED BY <1>6, <1>8, <2>2, <2>4, <2>5 DEF ItemSum
<1>10. PICK i \in Peer : i = Part(op, q)
    BY <1>3, Constants DEF Part
<1>11. WriteRecv(c, i, data)
    BY <1>1, <1>2, <1>6, <1>8, <1>10 DEF ReadBody
<1>12. /\ recv'[c][i] = data /\ \A j \in Peer : j # i => recv'[c][j] = recv[c][j]
       /\ op.inplace => send'[c] = data
       /\ ~op.inplace => send'[c] = send[c]
       /\ \A d \in Caller : d # c => send'[d] = send[d] /\ recv'[d] = recv[d]
    BY <1>3, <1>6, <1>9, <1>11, WriteRecvValues DEF CollInv
<1>13. hand'[e].ptr = hand[e].ptr /\ \A d \in Conn : d # e => hand'[d] = hand[d]
    BY DEF ReadBody, CollInv, NetType
<1>14. ASSUME NEW d \in Caller, NEW r \in Peer, Filled(<<r, d[1]>>, d[2])', ~(d = c /\ r = q)
       PROVE  Filled(<<r, d[1]>>, d[2])
    <2>1. d[1] \in Peer /\ d[2] \in Thread /\ d = <<d[1], d[2]>>
        BY CallerFacts
    <2>2. sub[d][r] = "posted" /\ Op(d)' = Op(d)
        BY <1>5, <1>14, <2>1 DEF Filled, Op
    <2>3. <<r, d[1]>> \in Conn
        BY <2>2, PostedFacts DEF FlowInv
    <2>4. CASE <<r, d[1]>> = e
        <3>1. r = q /\ d[1] = p /\ d[2] # t
            BY <1>6, <1>7, <1>14, <2>1, <2>4
        <3>2. hand'[e].ptr[1] # d[2]
            BY <1>7, <1>13, <3>1
        <3> QED BY <1>5, <1>14, <2>1, <2>2, <2>4, <3>2 DEF Filled
    <2>5. CASE <<r, d[1]>> # e
        <3>1. hand'[<<r, d[1]>>] = hand[<<r, d[1]>>]
            BY <1>13, <2>3, <2>5
        <3> QED BY <1>5, <1>14, <2>1, <2>2, <3>1 DEF Filled
    <2> QED BY <2>4, <2>5
<1>15. SharedOK(c, op)' /\ PartsOK(c, op)'
    <2>1. op.kind # "all_gather" => i = 0
        BY <1>10 DEF Part
    <2>2. op.inplace => op.kind # "all_gather"
        BY <1>6
    <2> QED BY <1>6, <1>12, <2>1, <2>2 DEF BufferAt, SharedOK, PartsOK
<1>16. FlatOK(c, k, op)'
    <2>1. op.kind = "all_gather" => i = q
        BY <1>10 DEF Part
    <2>2. op.kind = "send_recv" => p = op.to
        <3>1. p \in Links(op, 1, q)
            BY <1>7 DEF Feeds
        <3> QED BY <3>1 DEF Links, Receivers
    <2>3. p # q
        BY <1>7 DEF Feeds
    <2> QED BY <1>5, <1>6, <1>12, <2>1, <2>2, <2>3 DEF BufferAt, FlatOK
<1>17. FedOK(c, k, op)'
    <2> SUFFICES ASSUME NEW r \in Feeds(op, 1, p), sub'[c][r] = "none" \/ Filled(<<r, p>>, t)'
                 PROVE  recv'[c][Part(op, r)] = Sum(Contributors(op, 1, r), t, k)
        BY <1>6 DEF FedOK
    <2>0. r \in Peer
        BY DEF Feeds
    <2>1. CASE r = q
        BY <1>9, <1>10, <1>12, <2>1
    <2>2. CASE r # q /\ op.kind = "all_gather"
        <3>1. Part(op, r) = r /\ i = q
            BY <1>10, <2>2 DEF Part
        <3>2. sub[c][r] = "none" \/ Filled(<<r, p>>, t)
            BY <1>3, <1>5, <1>6, <1>14, <2>0, <2>2
        <3> QED BY <1>6, <1>12, <2>0, <2>2, <3>1, <3>2 DEF BufferAt, FedOK
    <2>3. CASE op.kind \in {"all_reduce", "broadcast"}
        <3>1. Contributors(op, 1, r) = Contributors(op, 1, q)
            BY <2>3 DEF Contributors
        <3>2. Part(op, r) = i
            BY <1>10, <2>3 DEF Part
        <3> QED BY <1>9, <1>12, <3>1, <3>2
    <2>4. CASE op.kind = "send_recv"
        <3>1. p \in Links(op, 1, r) /\ p \in Links(op, 1, q)
            BY <1>7 DEF Feeds
        <3>2. r = q
            BY <2>4, <3>1 DEF Links, Receivers
        <3> QED BY <2>1, <3>2
    <2> QED BY <1>6, <2>1, <2>2, <2>3, <2>4 DEF Kind
<1>18. OwnOK(c, k, op)' /\ RootOK(c, k, op)'
    <2>1. Feeds(op, 1, p) # {}
        BY <1>7
    <2>2. phase[c] = "flat" => recv_count[c] = 0 /\ send'[c] = send[c]
        BY <1>6, <1>12 DEF BufferAt, FlatOK
    <2> QED BY <1>5, <1>6, <2>1, <2>2 DEF BufferAt, OwnOK, RootOK, EffectiveData
<1>19. BufferOK(c)'
    BY <1>6, <1>15, <1>16, <1>17, <1>18, BufferNext DEF BufferAt
<1>20. ASSUME NEW d \in Caller, d # c PROVE BufferOK(d)'
    <2>1. send'[d] = send[d] /\ recv'[d] = recv[d]
        BY <1>12, <1>20
    <2>2. \A r \in Peer : Filled(<<r, d[1]>>, d[2])' => Filled(<<r, d[1]>>, d[2])
        BY <1>14, <1>20
    <2> QED BY <1>0, <1>5, <2>1, <2>2, BufferKept DEF BufferInv
<1> QED BY <1>19, <1>20 DEF BufferInv

----------------------------------------------------------------------------
(* The items, step by step *)

(* Items stay as they are where nothing is added. *)
LEMMA ItemsKept ==
    ASSUME ItemInv, NEW e \in Conn, net'[e] = net[e],
           hand'[e] = hand[e] \/ hand'[e].st # "mail",
           \A n \in Name : LET b == <<e[2], e[1], n>> IN mail'[b] = mail[b] \/ mail'[b] = <<>>
    PROVE  NetData(e)' /\ HandData(e)' /\ BoxData(e)'
<1>1. NetData(e) /\ HandData(e) /\ BoxData(e)
    BY DEF ItemInv
<1>2. NetData(e)'
    BY <1>1 DEF NetData
<1>3. HandData(e)'
    BY <1>1 DEF HandData, Held
<1>4. BoxData(e)'
    <2> SUFFICES ASSUME NEW t \in Thread, NEW k \in Rounds(t), Boxed(e, t, k)'
                 PROVE  Head(mail'[<<e[2], e[1], Program[t][k].name>>]) = ItemSum(e[1], t, k, 0)
        BY DEF BoxData
    <2>1. PICK b : b = <<e[2], e[1], Program[t][k].name>>
        OBVIOUS
    <2>2. mail'[b] # <<>> /\ Carries(Head(mail'[b]), t, k)
        BY <2>1 DEF Boxed
    <2>3. Program[t][k].name \in Name
        BY ItemFacts
    <2>4. mail'[b] = mail[b]
        BY <2>1, <2>2, <2>3
    <2>5. Boxed(e, t, k)
        BY <2>1, <2>2, <2>4 DEF Boxed
    <2> QED BY <1>1, <2>1, <2>4, <2>5 DEF BoxData
<1> QED BY <1>2, <1>3, <1>4

(* The items when a message has been read. *)
LEMMA TailData ==
    ASSUME CollInv, NEW e \in Conn, NetData(e), net[e] # <<>>, net'[e] = Tail(net[e])
    PROVE  NetData(e)'
<1>1. net[e] \in Seq(Msg)
    BY DEF CollInv, NetType
<1>2. PICK s : s = Tail(net[e])
    OBVIOUS
<1>3. \A i \in DOMAIN s : i + 1 \in DOMAIN net[e] /\ s[i] = net[e][i + 1]
    BY <1>1, <1>2, HeadAndTail
<1>4. net'[e] = s
    BY <1>2
<1> HIDE <1>2
<1> SUFFICES ASSUME NEW i \in DOMAIN s, NEW t \in Thread, NEW f \in {0, 1}, NEW k \in Rounds(t),
                    IsFor(s[i], t, k, f)
             PROVE  s[i].data = ItemSum(e[1], t, k, f)
    BY <1>4 DEF NetData
<1>5. i + 1 \in DOMAIN net[e] /\ s[i] = net[e][i + 1]
    BY <1>3
<1> QED BY <1>5 DEF NetData

(* What a peer sends is complete. *)
LEMMA MessageComplete ==
    ASSUME CollInv, FlowInv, DataInv, ForwardsReceived, NEW c \in Caller, NEW q \in Peer, SendBegin(c, q)
    PROVE  EffectiveData(c) = ItemSum(c[1], c[2], pos[c], Stage(c))
<1>1. /\ <<c[1], q>> \in Conn /\ phase[c] \in {"send", "flat"} /\ pos[c] \in Rounds(c[2]) /\ Stage(c) \in {0, 1}
      /\ Item(<<c[1], q>>, c[2], pos[c], Stage(c))
    <2>1. q # c[1]
        BY DEF SendBegin, CollInv, CallInv, CallOK
    <2>2. <<c[1], q>> \in Conn
        BY <2>1, CallerFacts
    <2> QED BY <2>2, SendBeginFlow
<1>2. StageOK(c) /\ BufferAt(c, pos[c], Op(c), Stage(c)) /\ c[1] \in Peer /\ c[2] \in Thread
    BY <1>1, StageFacts, CallerFacts DEF DataInv, BufferInv, BufferOK
<1>3. PICK k, op, f, p, t : k = pos[c] /\ op = Op(c) /\ f = Stage(c) /\ p = c[1] /\ t = c[2]
    OBVIOUS
<1>4. op = Program[t][k] /\ op.kind \in Kind /\ op.name \in Name /\ op.inplace \in BOOLEAN /\ k \in Rounds(t)
    BY <1>2, <1>3 DEF Op, StageOK
<1>5. BufferAt(c, k, op, f) /\ p \in Peer /\ t \in Thread /\ f \in {0, 1}
    BY <1>1, <1>2, <1>3
<1>6. q \in Links(op, f, p)
    BY <1>1, <1>3, <1>4 DEF Item
<1>7. ASSUME phase[c] = "send" PROVE \A x \in Peer : sub[c][x] = "none"
    BY <1>7 DEF CollInv, CallInv, CallOK
<1>8. CASE f = 0
    <2>1. phase[c] = "send" /\ op.kind = "all_reduce"
        BY <1>1, <1>2, <1>3, <1>8 DEF StageOK
    <2>2. Got(c, op) = Contributors(op, 0, p)
        BY <1>3, <1>4, <1>7, <2>1, AllGot
    <2> QED BY <1>3, <1>4, <1>5, <1>8, <2>2 DEF BufferAt, AddedOK, ItemSum
<1>9. CASE f = 1 /\ (phase[c] = "flat" \/ Feeds(op, 1, p) = {})
    BY <1>3, <1>4, <1>5, <1>9 DEF BufferAt, OwnOK, ItemSum
<1>10. CASE f = 1 /\ phase[c] # "flat" /\ Feeds(op, 1, p) # {}
    <2>1. op.kind \in {"all_reduce", "broadcast"} /\ phase[c] = "send"
        BY <1>1, <1>2, <1>3, <1>10 DEF StageOK
    <2>2. op.inplace
        BY <1>4, <1>5, <1>6, <1>10, <2>1, ForwardShape
    <2>3. PICK x \in Feeds(op, 1, p) : TRUE
        BY <1>10
    <2>4. x \in Peer
        BY DEF Feeds
    <2>5. recv[c][Part(op, x)] = Sum(Contributors(op, 1, x), t, k)
        BY <1>3, <1>5, <1>7, <1>10, <2>1, <2>3, <2>4 DEF BufferAt, FedOK
    <2>6. Part(op, x) = 0 /\ Contributors(op, 1, x) = Contributors(op, 1, p)
        BY <2>1 DEF Part, Contributors
    <2>7. EffectiveData(c) = recv[c][0]
        BY <1>5, <2>2 DEF BufferAt, SharedOK, EffectiveData
    <2> QED BY <1>3, <1>4, <1>10, <2>5, <2>6, <2>7 DEF ItemSum
<1> QED BY <1>5, <1>8, <1>9, <1>10

(* A message is sent. *)
LEMMA SendBeginItems ==
    ASSUME CollInv, FlowInv, DataInv, ForwardsReceived, NEW c \in Caller, NEW q \in Peer, SendBegin(c, q)
    PROVE  ItemInv'
<1>1. PICK e \in Conn : e = <<c[1], q>>
    <2>1. q # c[1]
        BY DEF SendBegin, CollInv, CallInv, CallOK
    <2> QED BY <2>1, CallerFacts
<1>2. /\ phase[c] # "idle" /\ c[2] \in Thread /\ pos[c] \in Rounds(c[2]) /\ Stage(c) \in {0, 1}
    BY <1>1, SendBeginFlow, CallerFacts
<1>3. /\ UNCHANGED <<hand, mail>> /\ ItemInv
      /\ net' = [net EXCEPT ![e] = Append(net[e], Message(c))] /\ net \in [Conn -> Seq(Msg)]
    BY <1>1 DEF SendBegin, boxVars, DataInv, CollInv, NetType
<1>4. ASSUME NEW d \in Conn, d # e PROVE NetData(d)' /\ HandData(d)' /\ BoxData(d)'
    <2>1. net'[d] = net[d]
        BY <1>3, <1>4
    <2> QED BY <1>3, <2>1, ItemsKept
<1>5. HandData(e)' /\ BoxData(e)'
    BY <1>3 DEF ItemInv, HandData, BoxData, Held, Boxed
<1>6. NetData(e)'
    <2>1. PICK m : m = Message(c)
        OBVIOUS
    <2>2. IsFor(m, c[2], pos[c], Stage(c)) /\ m.data = ItemSum(c[1], c[2], pos[c], Stage(c))
        BY <1>2, <2>1, MessageIsFor, MessageComplete DEF FlowInv, Message
    <2>3. net'[e] = Append(net[e], m) /\ net[e] \in Seq(Msg)
        BY <1>3, <2>1
    <2> SUFFICES ASSUME NEW i \in DOMAIN net'[e], NEW t \in Thread, NEW f \in {0, 1}, NEW k \in Rounds(t),
                        IsFor(net'[e][i], t, k, f)
                 PROVE  net'[e][i].data = ItemSum(e[1], t, k, f)
        BY DEF NetData
    <2>4. CASE i \in DOMAIN net[e]
        <3>1. net'[e][i] = net[e][i]
            BY <2>3, <2>4, AppendIndex
        <3> QED BY <1>3, <2>4, <3>1 DEF ItemInv, NetData
    <2>5. CASE i \notin DOMAIN net[e]
        <3>1. net'[e][i] = m
            BY <2>3, <2>5, AppendIndex
        <3>2. t = c[2] /\ k = pos[c] /\ f = Stage(c)
            BY <1>2, <2>2, <3>1, ForOne
        <3> QED BY <1>1, <2>2, <3>1, <3>2
    <2> QED BY <2>4, <2>5
<1> QED BY <1>4, <1>5, <1>6 DEF ItemInv

(* Callers other than a sender add no item anywhere. *)
LEMMA CallerItems ==
    ASSUME CollInv, FlowInv, DataInv, NEW c \in Caller,
           CallerStep(c) \/ \E q \in Peer : RecvOnto(c, q) \/ PostRecv(c, q) \/ RecvInto(c, q) \/ SendEnd(c, q)
    PROVE  ItemInv'
<1>1. ItemInv
    BY DEF DataInv
<1>2. CASE \E q \in Peer : RecvOnto(c, q)
    <2>1. PICK q \in Peer : RecvOnto(c, q)
        BY <1>2
    <2>2. UNCHANGED <<net, hand>>
        BY <2>1 DEF RecvOnto, netVars
    <2>3. PICK x : x = <<c[1], q, Op(c).name>>
        OBVIOUS
    <2>4. x \in Box
        <3>1. phase[c] # "idle"
            BY <2>1 DEF RecvOnto
        <3> QED BY <2>3, <3>1, StageFacts, CallerFacts, BoxFacts DEF StageOK
    <2>5. mail' = [mail EXCEPT ![x] = Tail(mail[x])] /\ mail \in [Box -> Seq(Data)]
        BY <2>1, <2>3 DEF RecvOnto, CollInv, BoxType
    <2>6. Tail(mail[x]) = <<>>
        <3>1. mail[x] \in Seq(Data) /\ Len(mail[x]) <= 1 /\ mail[x] # <<>>
            BY <2>1, <2>3, <2>4 DEF RecvOnto, CollInv, BoxType
        <3> QED BY <3>1, ShortSeq
    <2>7. \A b \in Box : mail'[b] = mail[b] \/ mail'[b] = <<>>
        BY <2>5, <2>6
    <2>8. \A e \in Conn, n \in Name : <<e[2], e[1], n>> \in Box
        BY CallerFacts, BoxFacts
    <2> QED BY <1>1, <2>2, <2>7, <2>8, ItemsKept DEF ItemInv
<1>3. CASE ~\E q \in Peer : RecvOnto(c, q)
    <2>1. UNCHANGED <<net, hand, mail>>
        BY <1>3 DEF CallerStep, Call, CallFlat, Begin, GatherOwn, RecvDone, SendDone, PostRecv, RecvInto, SendEnd,
                    netVars, boxVars
    <2> QED BY <1>1, <2>1, ItemsKept DEF ItemInv
<1> QED BY <1>2, <1>3

(* Handlers carry items on as they are. *)
LEMMA HandlerItems ==
    ASSUME CollInv, FlowInv, DataInv, NEW e \in Conn, HandlerStep(e)
    PROVE  ItemInv'
<1>1. ItemInv /\ NetData(e) /\ HandData(e) /\ BoxData(e)
    BY DEF DataInv, ItemInv
<1>2. hand \in [Conn -> {Idle} \cup MailState \cup SlotState] /\ net \in [Conn -> Seq(Msg)] /\ mail \in [Box -> Seq(Data)]
    BY DEF CollInv, NetType, BoxType
<1>3. ASSUME NEW d \in Conn, d # e PROVE NetData(d)' /\ HandData(d)' /\ BoxData(d)'
    <2>1. net'[d] = net[d] /\ hand'[d] = hand[d]
        BY <1>2, <1>3 DEF HandlerStep, ReadMail, PutMail, TakeBuf, ReadBody, PutRecvd, netVars
    <2>2. ASSUME NEW n \in Name PROVE mail'[<<d[2], d[1], n>>] = mail[<<d[2], d[1], n>>]
        <3>1. CASE mail' = mail
            BY <3>1
        <3>2. CASE PutMail(e)
            <4>1. PICK x : x = <<e[2], e[1], hand[e].name>>
                OBVIOUS
            <4>2. mail' = [mail EXCEPT ![x] = Append(mail[x], hand[e].data)]
                BY <3>2, <4>1 DEF PutMail
            <4>3. <<d[2], d[1], n>> # x /\ <<d[2], d[1], n>> \in Box
                BY <1>3, <4>1, CallerFacts, BoxFacts
            <4> QED BY <1>2, <4>2, <4>3
        <3> QED BY <3>1, <3>2 DEF HandlerStep, ReadMail, TakeBuf, ReadBody, PutRecvd, boxVars
    <2> QED BY <1>1, <2>1, <2>2, ItemsKept
<1>4. CASE ReadMail(e)
    <2>1. /\ net[e] # <<>> /\ ~Header(e).wait_recv_buf /\ UNCHANGED mail
          /\ net'[e] = Tail(net[e])
          /\ hand'[e] = [st |-> "mail", name |-> Header(e).name, data |-> Header(e).data]
        BY <1>2, <1>4 DEF ReadMail, HasNext, boxVars
    <2>2. NetData(e)'
        BY <1>1, <2>1, TailData
    <2>3. BoxData(e)'
        BY <1>1, <2>1 DEF BoxData, Boxed
    <2>4. HandData(e)'
        <3> SUFFICES ASSUME NEW t \in Thread, NEW k \in Rounds(t), Held(e, t, k)'
                     PROVE  hand'[e].data = ItemSum(e[1], t, k, 0)
            BY DEF HandData
        <3>1. PICK m : m = net[e][1]
            OBVIOUS
        <3>2. 1 \in DOMAIN net[e] /\ Header(e) = m
            BY <1>2, <2>1, <3>1, HeadAndTail DEF Header
        <3>3. hand'[e].data = m.data /\ Carries(m.data, t, k)
            BY <2>1, <3>2 DEF Held
        <3>4. PICK u \in Thread, f \in {0, 1} : \E l \in Rounds(u) : IsFor(m, u, l, f)
            BY <3>1, <3>2 DEF FlowInv, PlacesInv, ConnOK, NetOK
        <3>5. PICK l \in Rounds(u) : IsFor(m, u, l, f)
            BY <3>4
        <3>6. u = t /\ l = k
            BY <3>3, <3>5, CarriesOne DEF IsFor
        <3>7. f = 0
            BY <2>1, <3>2, <3>5 DEF IsFor
        <3> QED BY <1>1, <3>1, <3>2, <3>3, <3>5, <3>6, <3>7 DEF NetData
    <2> QED BY <1>3, <2>2, <2>3, <2>4 DEF ItemInv
<1>5. CASE PutMail(e)
    <2>1. PICK x : x = <<e[2], e[1], hand[e].name>>
        OBVIOUS
    <2>2. /\ hand[e].st = "mail" /\ UNCHANGED net /\ hand'[e] = Idle /\ Len(mail[x]) < 1
          /\ mail' = [mail EXCEPT ![x] = Append(mail[x], hand[e].data)]
        BY <1>2, <1>5, <2>1 DEF PutMail, netVars, ChannelCap
    <2>3. x \in Box
        BY <2>1, <2>2, HandStates, CallerFacts, BoxFacts
    <2>4. mail'[x] = <<hand[e].data>>
        <3>1. mail[x] \in Seq(Data)
            BY <1>2, <2>3
        <3>2. mail[x] = <<>>
            BY <2>2, <3>1
        <3> QED BY <1>2, <2>2, <2>3, <3>2
    <2>5. NetData(e)'
        BY <1>1, <2>2 DEF NetData
    <2>6. HandData(e)'
        BY <2>2 DEF HandData, Held, Idle
    <2>7. BoxData(e)'
        <3> SUFFICES ASSUME NEW t \in Thread, NEW k \in Rounds(t), Boxed(e, t, k)'
                     PROVE  Head(mail'[<<e[2], e[1], Program[t][k].name>>]) = ItemSum(e[1], t, k, 0)
            BY DEF BoxData
        <3>1. PICK b : b = <<e[2], e[1], Program[t][k].name>>
            OBVIOUS
        <3>2. mail'[b] # <<>> /\ Carries(Head(mail'[b]), t, k)
            BY <3>1 DEF Boxed
        <3>3. b \in Box
            BY <3>1, ItemFacts, CallerFacts, BoxFacts
        <3>4. CASE b = x
            <4>1. Head(mail'[b]) = hand[e].data
                BY <2>4, <3>4
            <4>2. Held(e, t, k)
                BY <2>2, <3>2, <4>1 DEF Held
            <4> QED BY <1>1, <3>1, <4>1, <4>2 DEF HandData
        <3>5. CASE b # x
            <4>1. mail'[b] = mail[b]
                BY <1>2, <2>2, <3>3, <3>5
            <4>2. Boxed(e, t, k)
                BY <3>1, <3>2, <4>1 DEF Boxed
            <4> QED BY <1>1, <3>1, <4>1, <4>2 DEF BoxData
        <3> QED BY <3>4, <3>5
    <2> QED BY <1>3, <2>5, <2>6, <2>7 DEF ItemInv
<1>6. CASE ReadBody(e)
    <2>1. net[e] # <<>> /\ net'[e] = Tail(net[e]) /\ UNCHANGED mail /\ hand'[e].st # "mail"
        BY <1>2, <1>6, HandStates DEF ReadBody, boxVars, CollInv, ReadInv
    <2>2. NetData(e)'
        BY <1>1, <2>1, TailData
    <2>3. BoxData(e)'
        BY <1>1, <2>1 DEF BoxData, Boxed
    <2>4. HandData(e)'
        BY <2>1 DEF HandData, Held
    <2> QED BY <1>3, <2>2, <2>3, <2>4 DEF ItemInv
<1>7. CASE TakeBuf(e) \/ PutRecvd(e)
    <2>1. UNCHANGED <<net, mail>> /\ hand'[e].st # "mail"
        BY <1>2, <1>7 DEF TakeBuf, PutRecvd, netVars, Idle
    <2>2. NetData(e)' /\ HandData(e)' /\ BoxData(e)'
        BY <1>1, <2>1, ItemsKept
    <2> QED BY <1>3, <2>2 DEF ItemInv
<1> QED BY <1>4, <1>5, <1>6, <1>7 DEF HandlerStep

----------------------------------------------------------------------------
(* The data invariant *)

(* There is no item and no call at first. *)
LEMMA DataInvInit == Init => DataInv
<1> SUFFICES ASSUME Init PROVE DataInv
    OBVIOUS
<1>1. BufferInv
    BY DEF Init, BufferInv, BufferOK
<1>2. ASSUME NEW e \in Conn PROVE NetData(e) /\ HandData(e) /\ BoxData(e)
    <2>1. DOMAIN net[e] = {} /\ hand[e].st = "idle"
        BY DEF Init, Idle
    <2>2. ASSUME NEW t \in Thread, NEW k \in Rounds(t) PROVE ~Boxed(e, t, k)
        <3>1. <<e[2], e[1], Program[t][k].name>> \in Box
            BY ItemFacts, CallerFacts, BoxFacts
        <3> QED BY <3>1 DEF Init, Boxed
    <2> QED BY <2>1, <2>2 DEF NetData, HandData, BoxData, Held
<1> QED BY <1>1, <1>2 DEF DataInv, ItemInv

(* A step that changes nothing keeps the invariant. *)
LEMMA DataInvStutter ==
    ASSUME CollInv, FlowInv, DataInv, UNCHANGED vars
    PROVE  DataInv'
<1>1. UNCHANGED <<pos, phase, gi, sub, send, recv, recv_count, net, hand, mail, recvQ>>
    BY DEF vars, callVars, memVars, netVars, boxVars
<1>2. ItemInv'
    BY <1>1, ItemsKept DEF DataInv, ItemInv
<1>3. ASSUME NEW d \in Caller, NEW r \in Peer PROVE Filled(<<r, d[1]>>, d[2])' <=> Filled(<<r, d[1]>>, d[2])
    BY <1>1 DEF Filled, Op
<1>4. BufferInv'
    BY <1>1, <1>3, BufferKept DEF DataInv, BufferInv
<1> QED BY <1>2, <1>4 DEF DataInv

(* Every item holds the contributions it should, wherever it is, and so do   *)
(* the buffers of every caller.                                              *)
THEOREM DataInvariant ==
    ASSUME ForwardsReceived
    PROVE  Spec => []DataInv
<1>1. CollInv /\ CollInv' /\ FlowInv /\ DataInv /\ [Next]_vars => DataInv'
    <2> SUFFICES ASSUME CollInv, CollInv', FlowInv, DataInv, [Next]_vars PROVE DataInv'
        OBVIOUS
    <2>0. BufferInv
        BY DEF DataInv
    <2>1. CASE UNCHANGED vars
        BY <2>1, DataInvStutter
    <2>2. CASE \E c \in Caller : CallerStep(c)
        <3>1. PICK c \in Caller : CallerStep(c)
            BY <2>2
        <3>2. BufferInv'
            BY <2>0, <3>1, CallBuffers, CallFlatBuffers, GatherOwnBuffers, RecvDoneBuffers, SendDoneBuffers
               DEF CallerStep
        <3>3. ItemInv'
            BY <3>1, CallerItems
        <3> QED BY <3>2, <3>3 DEF DataInv
    <2>3. CASE \E c \in Caller, q \in Peer : TaskStep(c, q)
        <3>1. PICK c \in Caller, q \in Peer : TaskStep(c, q)
            BY <2>3
        <3>2. BufferInv'
            BY <2>0, <3>1, RecvOntoBuffers, PostRecvBuffers, RecvIntoBuffers, SendBuffers DEF TaskStep
        <3>3. ItemInv'
            BY <3>1, CallerItems, SendBeginItems DEF TaskStep
        <3> QED BY <3>2, <3>3 DEF DataInv
    <2>4. CASE \E e \in Conn : HandlerStep(e)
        <3>1. PICK e \in Conn : HandlerStep(e)
            BY <2>4
        <3>2. BufferInv'
            BY <2>0, <3>1, HandlersBuffers, ReadBodyBuffers DEF HandlerStep
        <3>3. ItemInv'
            BY <3>1, HandlerItems
        <3> QED BY <3>2, <3>3 DEF DataInv
    <2> QED BY <2>1, <2>2, <2>3, <2>4 DEF Next, Terminated
<1> QED BY <1>1, DataInvInit, CollInvariant, FlowInvariant, PTL DEF Spec

----------------------------------------------------------------------------
(* The refinement of CollectiveAbs, and what all_reduce returns *)

(* A peer that has sent an item of a call, or has received in a graph of it, *)
(* has entered the call.                                                     *)
LEMMA EnteredCall ==
    ASSUME CollInv, NEW q \in Peer, NEW t \in Thread, NEW k \in Rounds(t), NEW f \in {0, 1}, NEW x,
           DoneRecv(q, t, k, f) \/ Sent(<<q, x>>, t, k, f), NEW d \in Caller, d = <<q, t>>
    PROVE  pos[d] > k \/ (pos[d] = k /\ phase[d] # "idle")
<1>1. k \in Nat /\ pos[d] \in Nat /\ phase[d] \in {"idle", "recv", "send", "flat"}
    BY ItemFacts, AtInt DEF CollInv, CallType
<1>2. 2 * k + f < At(d) \/ (2 * k + f = At(d) /\ phase[d] # "idle")
    BY DEF DoneRecv, Sent
<1>3. At(d) \in Int /\ At(d) >= 2 * pos[d] /\ At(d) <= 2 * pos[d] + 1 /\ (phase[d] = "idle" => At(d) = 2 * pos[d])
    BY <1>1, AtInt, AtFacts
<1> QED BY <1>1, <1>2, <1>3

(* What a caller's receive buffer holds when its call returns. *)
LEMMA ReturnedData ==
    ASSUME CollInv, FlowInv, DataInv, ForwardsReceived, NEW c \in Caller,
           phase[c] \in {"send", "flat"}, Stage(c) = 1, \A q \in Peer : sub[c][q] = "none"
    PROVE  recv[c] = Abs!Result(Op(c), c[1], c[2], pos[c])
<1>1. StageOK(c) /\ BufferAt(c, pos[c], Op(c), 1) /\ c[1] \in Peer /\ c[2] \in Thread
    BY StageFacts, CallerFacts DEF DataInv, BufferInv, BufferOK
<1>2. PICK k, op, p, t : k = pos[c] /\ op = Op(c) /\ p = c[1] /\ t = c[2]
    OBVIOUS
<1>3. /\ op = Program[t][k] /\ op.kind \in Kind /\ op.name \in Name /\ k \in Rounds(t)
      /\ phase[c] = "send" => op.kind \in {"all_reduce", "broadcast"}
      /\ phase[c] = "flat" => op.kind \in {"all_gather", "send_recv"}
      /\ op.kind = "send_recv" => op.from \in Peer
      /\ op.from # op.to
    BY <1>1, <1>2, ProgramAssumption DEF Op, StageOK, ForwardsReceived, Rounds
<1>4. recv[c] \in [Peer -> Data] /\ 0 \in Peer
    BY Constants DEF CollInv, MemType
<1>5. \A q \in Feeds(op, 1, p) : recv[c][Part(op, q)] = Sum(Contributors(op, 1, q), t, k)
    BY <1>1, <1>2 DEF BufferAt, FedOK, Feeds
<1>6. op.kind # "all_gather" => \A i \in Peer \ {0} : recv[c][i] = EmptyBag
    BY <1>1, <1>2 DEF BufferAt, PartsOK
<1>7. \A S : Sum(S, t, k) = [e \in {<<u, t, k>> : u \in S} |-> 1]
    BY DEF Sum, SetToBag
<1>8. Abs!NoData = [i \in Peer |-> EmptyBag]
    BY DEF Abs!NoData, Abs!EmptyBag, Abs!SetToBag, EmptyBag, SetToBag
<1>9. ASSUME NEW x, op.kind # "all_gather", recv[c][0] = x PROVE recv[c] = [Abs!NoData EXCEPT ![0] = x]
    BY <1>4, <1>6, <1>8, <1>9
<1>10. CASE op.kind = "all_gather"
    <2>1. ASSUME NEW i \in Peer PROVE recv[c][i] = Sum({i}, t, k)
        <3>1. CASE i = p
            BY <1>1, <1>2, <1>10, <3>1 DEF BufferAt, FlatOK
        <3>2. CASE i # p
            <4>1. i \in Feeds(op, 1, p)
                BY <1>1, <1>2, <1>10, <3>2 DEF Feeds, Links, Receivers
            <4>2. Part(op, i) = i /\ Contributors(op, 1, i) = {i}
                BY <1>10 DEF Part, Contributors
            <4> QED BY <1>5, <4>1, <4>2
        <3> QED BY <3>1, <3>2
    <2>2. \A i : Sum({i}, t, k) = Abs!SetToBag({<<i, t, k>>})
        BY InputSum DEF Abs!SetToBag, Input, SetToBag
    <2>3. Abs!Result(op, p, t, k) = [i \in Peer |-> Abs!SetToBag({<<i, t, k>>})]
        BY <1>10 DEF Abs!Result
    <2>4. \A i \in Peer : recv[c][i] = Abs!SetToBag({<<i, t, k>>})
        BY <2>1, <2>2
    <2>5. recv[c] = [i \in Peer |-> Abs!SetToBag({<<i, t, k>>})]
        BY <1>4, <2>4
    <2> QED BY <1>2, <2>3, <2>5
<1>11. CASE op.kind = "send_recv" /\ p # op.to
    <2>1. recv[c][0] = Abs!SetToBag({<<p, t, 0>>})
        BY <1>1, <1>2, <1>11 DEF BufferAt, FlatOK, Input, SetToBag, Abs!SetToBag
    <2>2. Abs!Result(op, p, t, k) = [Abs!NoData EXCEPT ![0] = Abs!SetToBag({<<p, t, 0>>})]
        BY <1>11 DEF Abs!Result
    <2> QED BY <1>2, <1>9, <1>11, <2>1, <2>2
<1>12. ASSUME op.kind # "all_gather", ~(op.kind = "send_recv" /\ p # op.to),
              recv[c][0] = Sum(Abs!Sources(op, p), t, k)
       PROVE  recv[c] = Abs!Result(op, p, t, k)
    <2>1. Abs!Result(op, p, t, k) = [Abs!NoData EXCEPT ![0] = Abs!SetToBag({<<q, t, k>> : q \in Abs!Sources(op, p)})]
        BY <1>12 DEF Abs!Result
    <2>2. \A S : Abs!SetToBag({<<q, t, k>> : q \in S}) = Sum(S, t, k)
        BY DEF Sum, Abs!SetToBag, SetToBag
    <2> QED BY <1>9, <1>12, <2>1, <2>2
<1>13. CASE op.kind = "send_recv" /\ p = op.to
    <2>1. op.from \in Feeds(op, 1, p)
        BY <1>3, <1>13 DEF Feeds, Links, Receivers
    <2>2. Part(op, op.from) = 0 /\ Contributors(op, 1, op.from) = {op.from}
        BY <1>13 DEF Part, Contributors
    <2>3. Abs!Sources(op, p) = {op.from}
        BY <1>13 DEF Abs!Sources
    <2>4. recv[c][0] = Sum(Abs!Sources(op, p), t, k)
        BY <1>5, <2>1, <2>2, <2>3
    <2> QED BY <1>2, <1>12, <1>13, <2>4
<1>14. CASE op.kind \in {"all_reduce", "broadcast"}
    <2>1. Abs!Sources(op, p) = Contributors(op, 1, p)
        BY <1>14 DEF Abs!Sources, Abs!Root, Contributors
    <2>2. phase[c] = "send"
        BY <1>3, <1>14
    <2>3. recv[c][0] = Sum(Contributors(op, 1, p), t, k)
        <3>1. CASE Feeds(op, 1, p) = {}
            BY <1>1, <1>2, <2>2, <3>1 DEF BufferAt, RootOK
        <3>2. CASE Feeds(op, 1, p) # {}
            <4>1. PICK x \in Feeds(op, 1, p) : TRUE
                BY <3>2
            <4>2. Part(op, x) = 0 /\ Contributors(op, 1, x) = Contributors(op, 1, p)
                BY <1>14 DEF Part, Contributors
            <4> QED BY <1>5, <4>1, <4>2
        <3> QED BY <3>1, <3>2
    <2> QED BY <1>2, <1>12, <1>14, <2>1, <2>3
<1> QED BY <1>2, <1>3, <1>10, <1>11, <1>13, <1>14 DEF Kind

(* A call returns only after those that contribute to it have entered it. *)
LEMMA SourcesEntered ==
    ASSUME CollInv, FlowInv, ForwardsReceived, NEW c \in Caller, phase[c] \in {"send", "flat"}, Stage(c) = 1,
           \A q \in Peer : sub[c][q] = "none",
           NEW q \in Abs!Sources(Op(c), c[1]), NEW d, d = <<q, c[2]>>
    PROVE  d \in Caller /\ (pos[d] > pos[c] \/ (pos[d] = pos[c] /\ phase[d] # "idle"))
<1>1. StageOK(c) /\ c[1] \in Peer /\ c[2] \in Thread /\ c = <<c[1], c[2]>>
    BY StageFacts, CallerFacts
<1>2. PICK k, op, p, t : k = pos[c] /\ op = Op(c) /\ p = c[1] /\ t = c[2]
    OBVIOUS
<1>3. /\ op = Program[t][k] /\ op.kind \in Kind /\ op.name \in Name /\ k \in Rounds(t) /\ t \in Thread /\ p \in Peer
      /\ phase[c] = "send" => op.kind \in {"all_reduce", "broadcast"}
      /\ phase[c] = "flat" => op.kind \in {"all_gather", "send_recv"}
      /\ op.kind = "send_recv" => op.from \in Peer
      /\ op.from # op.to
    BY <1>1, <1>2, ProgramAssumption DEF Op, StageOK, ForwardsReceived, Rounds
<1>4. At(c) = 2 * k + 1
    BY <1>2, AtFacts
<1>5. UsedInv
    BY DEF FlowInv, PlacesInv, ConnOK, UsedInv
<1>6. CASE op.kind = "all_reduce"
    <2>1. q \in Peer
        BY <1>2, <1>6 DEF Abs!Sources
    <2>2. DoneRecv(p, t, k, 1)
        BY <1>1, <1>2, <1>3, <1>4, <1>6 DEF DoneRecv
    <2>3. DoneRecv(q, t, k, 0)
        BY <1>3, <1>5, <1>6, <2>1, <2>2, NobodyBehind
    <2>4. d \in Caller
        BY <1>1, <2>1, CallerFacts
    <2> QED BY <1>2, <1>3, <2>1, <2>3, <2>4, EnteredCall
<1>7. CASE op.kind = "broadcast"
    <2>1. q = 0 /\ q \in Peer
        BY <1>2, <1>7, Constants DEF Abs!Sources, Abs!Root
    <2>2. DoneRecv(p, t, k, 1)
        BY <1>1, <1>2, <1>3, <1>4, <1>7 DEF DoneRecv
    <2>3. PICK h : BroadcastGraphs = <<h>> /\ IsOutTree(N, h, 0)
        BY <1>3, <1>7, GraphStages
    <2>4. \A x \in Peer : Links(op, 1, x) = Nexts(h, x)
        BY <1>7, <2>3 DEF Links
    <2>5. DoneRecv(q, t, k, 1)
        BY <1>3, <1>5, <1>7, <2>1, <2>2, <2>3, <2>4, RootFirst
    <2>6. d \in Caller
        BY <1>1, <2>1, CallerFacts
    <2> QED BY <1>2, <1>3, <2>1, <2>5, <2>6, EnteredCall
<1>8. CASE op.kind \in {"all_gather", "send_recv"}
    <2>1. q \in Peer /\ (q # p => p \in Receivers(op, q))
        BY <1>2, <1>3, <1>8 DEF Abs!Sources, Receivers
    <2>2. d \in Caller
        BY <1>1, <2>1, CallerFacts
    <2>3. CASE q = p
        BY <1>1, <1>2, <2>2, <2>3
    <2>4. CASE q # p
        <3>1. PICK e \in Conn : e = <<q, p>>
            BY <1>3, <2>1, <2>4, CallerFacts
        <3>2. Item(e, t, k, 1)
            BY <1>3, <1>8, <2>1, <2>4, <3>1, ItemFacts, FlatLinks
        <3>3. Used(e, t, k, 1)
            BY <1>1, <1>2, <1>4, <2>1, <3>1 DEF Used
        <3>4. Sent(e, t, k, 1)
            BY <1>3, <1>5, <3>1, <3>2, <3>3 DEF UsedInv, UsedOK
        <3> QED BY <1>2, <1>3, <2>1, <2>2, <3>1, <3>4, EnteredCall
    <2> QED BY <2>3, <2>4
<1> QED BY <1>3, <1>6, <1>7, <1>8 DEF Kind

(* The last step of a call is the abstract return. *)
LEMMA ReturnMaps ==
    ASSUME CollInv, FlowInv, DataInv, ForwardsReceived, NEW c \in Caller, SendDone(c), phase'[c] = "idle"
    PROVE  Abs!Return(c)
<1>1. /\ phase[c] \in {"send", "flat"} /\ \A q \in Peer : sub[c][q] = "none"
      /\ phase' = [phase EXCEPT ![c] = "idle"] /\ pos' = [pos EXCEPT ![c] = pos[c] + 1]
      /\ UNCHANGED recv /\ ~(gi[c] < Len(Graphs(Op(c))))
    BY DEF SendDone, memVars, CollInv, CallType
<1>2. Stage(c) = 1
    BY <1>1, StageFacts DEF StageOK
<1>3. phase \in [Caller -> {"idle", "recv", "send", "flat"}] /\ pos \in [Caller -> Nat \ {0}]
    BY DEF CollInv, CallType
<1>4. recv[c] = Abs!Result(Op(c), c[1], c[2], pos[c])
    BY <1>1, <1>2, ReturnedData
<1>5. \A q \in Abs!Sources(Op(c), c[1]) : Abs!Reached(<<q, c[2]>>, pos[c])
    BY <1>1, <1>2, SourcesEntered DEF Abs!Reached
<1>6. [d \in Caller |-> phase'[d] # "idle"] = [[d \in Caller |-> phase[d] # "idle"] EXCEPT ![c] = FALSE]
    BY <1>1, <1>3
<1>7. [d \in Caller |-> IF phase'[d] = "idle" THEN recv'[d] ELSE NoData]
         = [[d \in Caller |-> IF phase[d] = "idle" THEN recv[d] ELSE NoData] EXCEPT ![c] = recv[c]]
    BY <1>1, <1>3
<1> QED BY <1>1, <1>4, <1>5, <1>6, <1>7 DEF Abs!Return, Op

(* The first step of a call is the abstract call. *)
LEMMA CallMaps ==
    ASSUME CollInv, NEW c \in Caller, Call(c) \/ CallFlat(c)
    PROVE  Abs!Call(c)
<1>1. /\ phase[c] = "idle" /\ pos[c] <= Len(Program[c[2]]) /\ pos' = pos
      /\ \A d \in Caller : d # c => phase'[d] = phase[d] /\ recv'[d] = recv[d]
      /\ phase'[c] # "idle"
    BY DEF Call, CallFlat, Begin, CollInv, CallType, MemType
<1>2. [d \in Caller |-> phase'[d] # "idle"] = [[d \in Caller |-> phase[d] # "idle"] EXCEPT ![c] = TRUE]
    BY <1>1
<1>3. Abs!NoData = NoData
    BY DEF Abs!NoData, NoData, Abs!EmptyBag, Abs!SetToBag, EmptyBag, SetToBag
<1>4. [d \in Caller |-> IF phase'[d] = "idle" THEN recv'[d] ELSE NoData]
         = [[d \in Caller |-> IF phase[d] = "idle" THEN recv[d] ELSE NoData] EXCEPT ![c] = NoData]
    BY <1>1
<1> QED BY <1>1, <1>2, <1>3, <1>4 DEF Abs!Call

(* The other steps change nothing the abstract specification can see. *)
LEMMA InnerStep ==
    ASSUME CollInv, [Next]_vars, UNCHANGED pos, \A c \in Caller : phase'[c] = "idle" <=> phase[c] = "idle"
    PROVE  UNCHANGED Abs!vars
<1>1. \A c \in Caller : phase[c] = "idle" => recv'[c] = recv[c]
    BY WritersAreBusy DEF ResultStays
<1>2. [d \in Caller |-> phase'[d] # "idle"] = [d \in Caller |-> phase[d] # "idle"]
    OBVIOUS
<1>3. [d \in Caller |-> IF phase'[d] = "idle" THEN recv'[d] ELSE NoData]
         = [d \in Caller |-> IF phase[d] = "idle" THEN recv[d] ELSE NoData]
    BY <1>1
<1> QED BY <1>2, <1>3 DEF Abs!vars

(* Every step is an abstract one or none. *)
LEMMA StepMaps ==
    ASSUME CollInv, FlowInv, DataInv, ForwardsReceived, [Next]_vars
    PROVE  [Abs!Next]_Abs!vars
<1>0. phase \in [Caller -> {"idle", "recv", "send", "flat"}] /\ Caller = Abs!Caller
    BY DEF CollInv, CallType, Caller, Abs!Caller
<1>1. CASE \E c \in Caller : Call(c) \/ CallFlat(c)
    BY <1>0, <1>1, CallMaps DEF Abs!Next
<1>2. CASE \E c \in Caller : SendDone(c) /\ phase'[c] = "idle"
    BY <1>0, <1>2, ReturnMaps DEF Abs!Next
<1>3. ASSUME NEW c \in Caller, SendDone(c), phase'[c] # "idle"
      PROVE  UNCHANGED pos /\ \A d \in Caller : phase'[d] = "idle" <=> phase[d] = "idle"
    BY <1>0, <1>3 DEF SendDone
<1>4. ASSUME NEW c \in Caller, GatherOwn(c) \/ RecvDone(c)
      PROVE  UNCHANGED pos /\ \A d \in Caller : phase'[d] = "idle" <=> phase[d] = "idle"
    BY <1>0, <1>4 DEF GatherOwn, RecvDone
<1>5. ASSUME NEW c \in Caller, NEW q \in Peer, TaskStep(c, q)
      PROVE  UNCHANGED <<pos, phase>>
    BY <1>5 DEF TaskStep, RecvOnto, PostRecv, RecvInto, SendBegin, SendEnd
<1>6. ASSUME NEW e \in Conn, HandlerStep(e)
      PROVE  UNCHANGED <<pos, phase>>
    BY <1>6 DEF HandlerStep, ReadMail, PutMail, TakeBuf, ReadBody, PutRecvd, callVars
<1>7. ASSUME UNCHANGED vars PROVE UNCHANGED <<pos, phase>>
    BY <1>7 DEF vars, callVars
<1>8. CASE ~(\E c \in Caller : Call(c) \/ CallFlat(c)) /\ ~(\E c \in Caller : SendDone(c) /\ phase'[c] = "idle")
    <2>1. UNCHANGED pos /\ \A d \in Caller : phase'[d] = "idle" <=> phase[d] = "idle"
        BY <1>3, <1>4, <1>5, <1>6, <1>7, <1>8 DEF Next, Terminated, CallerStep
    <2> QED BY <2>1, InnerStep
<1> QED BY <1>1, <1>2, <1>8

(* The callers begin where the abstract ones do. *)
LEMMA InitMaps == Init => Abs!Init
<1> SUFFICES ASSUME Init PROVE Abs!Init
    OBVIOUS
<1>1. Abs!NoData = NoData /\ Caller = Abs!Caller
    BY DEF Abs!NoData, NoData, Abs!EmptyBag, Abs!SetToBag, EmptyBag, SetToBag, Caller, Abs!Caller
<1>2. [d \in Caller |-> phase[d] # "idle"] = [d \in Caller |-> FALSE]
    BY DEF Init
<1>3. [d \in Caller |-> IF phase[d] = "idle" THEN recv[d] ELSE NoData] = [d \in Caller |-> NoData]
    BY DEF Init
<1> QED BY <1>1, <1>2, <1>3 DEF Init, Abs!Init

(* The collective operations implement their promise, for any number of      *)
(* peers and threads, any program of theirs and any strategy, as long as     *)
(* those that pass data on work in place.                                    *)
THEOREM CollectiveImplements ==
    ASSUME ForwardsReceived
    PROVE  Spec => Refines
<1>1. CollInv /\ FlowInv /\ DataInv /\ [Next]_vars => [Abs!Next]_Abs!vars
    BY StepMaps
<1>2. Init => Abs!Init
    BY InitMaps
<1>3. Spec => []CollInv /\ []FlowInv /\ []DataInv
    BY CollInvariant, FlowInvariant, DataInvariant
<1> QED BY <1>1, <1>2, <1>3, PTL DEF Spec, Refines, Abs!Spec

(* Between two calls the receive buffer holds the last one's result. *)
ResultInv ==
    \A c \in Caller : phase[c] = "idle" /\ pos[c] > 1 =>
       recv[c] = Abs!Result(Program[c[2]][pos[c] - 1], c[1], c[2], pos[c] - 1)

(* A return sets it, and nothing writes to it before the next call. *)
LEMMA ResultStep ==
    ASSUME CollInv, FlowInv, DataInv, ForwardsReceived, ResultInv, [Next]_vars
    PROVE  ResultInv'
<1> SUFFICES ASSUME NEW c \in Caller, phase'[c] = "idle", pos'[c] > 1
             PROVE  recv'[c] = Abs!Result(Program[c[2]][pos'[c] - 1], c[1], c[2], pos'[c] - 1)
    BY DEF ResultInv, Abs!Result, Abs!Sources, Abs!NoData, Abs!Root, Abs!EmptyBag, Abs!SetToBag
<1>0. /\ phase \in [Caller -> {"idle", "recv", "send", "flat"}] /\ pos \in [Caller -> Nat \ {0}]
    BY DEF CollInv, CallType
<1>1. CASE phase[c] = "idle" /\ pos'[c] = pos[c]
    <2>1. recv'[c] = recv[c]
        BY <1>1, WritersAreBusy DEF ResultStays
    <2> QED BY <1>1, <2>1 DEF ResultInv
<1>2. CASE SendDone(c)
    <2>1. /\ phase[c] \in {"send", "flat"} /\ \A q \in Peer : sub[c][q] = "none"
          /\ pos'[c] = pos[c] + 1 /\ recv' = recv /\ ~(gi[c] < Len(Graphs(Op(c))))
        BY <1>0, <1>2 DEF SendDone, memVars
    <2>2. Stage(c) = 1
        BY <2>1, StageFacts DEF StageOK
    <2>3. recv[c] = Abs!Result(Op(c), c[1], c[2], pos[c])
        BY <2>1, <2>2, ReturnedData
    <2>4. pos'[c] - 1 = pos[c]
        BY <1>0, <2>1
    <2> QED BY <2>1, <2>3, <2>4 DEF Op
<1>3. (phase[c] = "idle" /\ pos'[c] = pos[c]) \/ SendDone(c)
    <2>1. CASE UNCHANGED <<pos, phase>>
        BY <2>1
    <2>2. ASSUME NEW d \in Caller, CallerStep(d) PROVE (phase[c] = "idle" /\ pos'[c] = pos[c]) \/ SendDone(c)
        BY <1>0, <2>2 DEF CallerStep, Call, CallFlat, Begin, GatherOwn, RecvDone, SendDone
    <2>3. ASSUME NEW d \in Caller, NEW q \in Peer, TaskStep(d, q) PROVE UNCHANGED <<pos, phase>>
        BY <2>3 DEF TaskStep, RecvOnto, PostRecv, RecvInto, SendBegin, SendEnd
    <2>4. ASSUME NEW e \in Conn, HandlerStep(e) PROVE UNCHANGED <<pos, phase>>
        BY <2>4 DEF HandlerStep, ReadMail, PutMail, TakeBuf, ReadBody, PutRecvd, callVars
    <2>5. ASSUME UNCHANGED vars PROVE UNCHANGED <<pos, phase>>
        BY <2>5 DEF vars, callVars
    <2> QED BY <2>1, <2>2, <2>3, <2>4, <2>5 DEF Next, Terminated
<1> QED BY <1>1, <1>2, <1>3

(* After an all_reduce the output buffer holds the sum of what every rank    *)
(* passed in, as tests/integration/test_all_reduce.cpp expects, where those  *)
(* that pass data on work in place.                                          *)
THEOREM AllReduceSums ==
    ASSUME ForwardsReceived
    PROVE  Spec => []AllReduceReturnsSum
<1>1. Init => ResultInv
    BY DEF Init, ResultInv
<1>2. CollInv /\ FlowInv /\ DataInv /\ ResultInv /\ [Next]_vars => ResultInv'
    BY ResultStep
<1>3. ResultInv => AllReduceReturnsSum
    <2> SUFFICES ASSUME ResultInv, NEW c \in Caller, phase[c] = "idle", pos[c] > 1,
                        Program[c[2]][pos[c] - 1].kind = "all_reduce"
                 PROVE  recv[c][0] = SetToBag({<<q, c[2], pos[c] - 1>> : q \in Peer})
        BY DEF AllReduceReturnsSum
    <2>1. PICK op, k : op = Program[c[2]][pos[c] - 1] /\ k = pos[c] - 1
        OBVIOUS
    <2>2. recv[c] = Abs!Result(op, c[1], c[2], k) /\ op.kind = "all_reduce"
        BY <2>1 DEF ResultInv
    <2>3. Abs!Sources(op, c[1]) = Peer
        BY <2>2 DEF Abs!Sources
    <2>4. recv[c] = [Abs!NoData EXCEPT ![0] = Abs!SetToBag({<<q, c[2], k>> : q \in Peer})]
        BY <2>2, <2>3 DEF Abs!Result
    <2>5. recv[c][0] = Abs!SetToBag({<<q, c[2], k>> : q \in Peer})
        BY <2>4, Constants DEF Abs!NoData
    <2>6. Abs!SetToBag({<<q, c[2], k>> : q \in Peer}) = SetToBag({<<q, c[2], k>> : q \in Peer})
        BY DEF Abs!SetToBag, SetToBag
    <2> QED BY <2>1, <2>5, <2>6
<1>4. Spec => []CollInv /\ []FlowInv /\ []DataInv
    BY CollInvariant, FlowInvariant, DataInvariant
<1> QED BY <1>1, <1>2, <1>3, <1>4, PTL DEF Spec

============================================================================
