-------------------------- MODULE LifecycleProofs --------------------------
(***************************************************************************)
(* A peer that stops is not dialled any more and its handlers are idle, for *)
(* every session, strategy and number of operations.  The argument counts   *)
(* messages: a peer that has finished its operations has received all that  *)
(* will ever be sent to it.                                                 *)
(***************************************************************************)
EXTENDS Lifecycle, TopologyProofs

Ended    == {"stop", "stop_server", "join", "stopped"}
Dialling == {"connecting", "backlog", "accepted"}

(* p sends to q in half h of an operation. *)
Edge(h, p, q) == q \in Nexts(G(h), p)

Bit(b) == IF b THEN 1 ELSE 0

(* How many messages of half h have been sent from p to q ... *)
Sent(h, p, q) ==
    IF Edge(h, p, q)
    THEN round[p] + Bit(\/ h = "reduce" /\ half[p] = "broadcast"
                        \/ main[p] = "send" /\ half[p] = h /\ q \notin todo[p])
    ELSE 0

(* ... and how many q has used. *)
Used(h, p, q) ==
    IF Edge(h, p, q)
    THEN round[q] + Bit(\/ h = "reduce" /\ half[q] = "broadcast"
                        \/ main[q] = "send" /\ half[q] = h)
    ELSE 0

InBox(h, p, q) == Bit(<<p, h>> \in got[q])

ControlInv ==
    \A p \in Peer :
        /\ main[p] \in {"new", "recv", "send"} => round[p] < Rounds
        /\ main[p] \in Ended => round[p] = Rounds /\ half[p] = "reduce"
        /\ main[p] = "new" => round[p] = 0 /\ half[p] = "reduce" /\ ~listening[p]
        /\ todo[p] \subseteq (IF main[p] = "send" THEN Nexts(G(half[p]), p) ELSE {})
        /\ stopped[p] => main[p] \in {"join", "stopped"}

ConnOK(e) ==
    /\ conn[e] \in Dialling => main[e[1]] = "send" /\ e[2] \in todo[e[1]]
    /\ conn[e] \notin {"none", "connecting"} => listening[e[2]] \/ main[e[2]] = "stopped"
    /\ conn[e] \notin {"open", "closed"} => \A h \in Half : Sent(h, e[1], e[2]) = 0
    /\ hand[e] = "upgrade" => conn[e] = "accepted"
    /\ hand[e] = "message" => wire[e] # <<>>
    /\ hand[e] # "threw"

ConnInv == \A e \in Conn : ConnOK(e)

(* What was sent is on the wire, in a box or used. *)
FlowInv ==
    \A e \in Conn :
        Sent("reduce", e[1], e[2]) + Sent("broadcast", e[1], e[2]) =
            Len(wire[e]) + InBox("reduce", e[1], e[2]) + InBox("broadcast", e[1], e[2])
                         + Used("reduce", e[1], e[2]) + Used("broadcast", e[1], e[2])

(* The inductive invariant. *)
LifeInv == TypeOK /\ ControlInv /\ ConnInv /\ FlowInv

----------------------------------------------------------------------------

(* The graphs are those of a pair of trees. *)
LEMMA Trees == \E r \in Peer : IsInTree(N, G("reduce"), r) /\ IsOutTree(N, G("broadcast"), r)
<1>1. N \in Nat /\ N > 0 /\ 0 \in Nat /\ Peer = Vertex(N)
    BY NAssumption DEF Peer, Vertex
<1>2. PICK r \in Vertex(N) : IsTreePair(N, Pair, r)
    BY <1>1, ChosenPairIsTreePair DEF Pair
<1> QED BY <1>1, <1>2 DEF IsTreePair, G

(* The neighbours of a peer in either graph are peers. *)
LEMMA NextsArePeers ==
    ASSUME NEW h \in Half, NEW p
    PROVE  Nexts(G(h), p) \subseteq Peer /\ Prevs(G(h), p) \subseteq Peer
<1> DEFINE g == G(h)
<1>0. Peer = Vertex(N)
    BY DEF Peer, Vertex
<1>1. PICK r \in Peer : IsInTree(N, G("reduce"), r) /\ IsOutTree(N, G("broadcast"), r)
    BY Trees
<1>2. ASSUME NEW e \in g.edges PROVE e[1] \in Peer /\ e[2] \in Peer
    <2>1. N \in Nat
        BY NAssumption
    <2> QED BY <1>0, <1>1, <1>2, <2>1, InTreeEdges, OutTreeEdges DEF Half
<1> HIDE DEF g
<1> QED BY <1>2 DEF g, Nexts, Prevs

(* One peer sends to the other where the other receives from it. *)
LEMMA NextsPrevs ==
    ASSUME NEW g, NEW p, NEW q
    PROVE  q \in Nexts(g, p) <=> p \in Prevs(g, q)
    BY DEF Nexts, Prevs

(* In a session of several peers everyone receives something. *)
LEMMA SomeoneSends ==
    ASSUME N > 1, NEW q \in Peer
    PROVE  \E h \in Half, p \in Peer : <<p, q>> \in Conn /\ Edge(h, p, q)
<1>0. Peer = Vertex(N) /\ N \in Nat /\ \E x \in Vertex(N) : x # q
    <2>1. 0 \in Vertex(N) /\ 1 \in Vertex(N) /\ N \in Nat
        BY NAssumption DEF Vertex
    <2> QED BY <2>1 DEF Peer, Vertex
<1>1. PICK r \in Peer : IsInTree(N, G("reduce"), r) /\ IsOutTree(N, G("broadcast"), r)
    BY Trees
<1>2. CASE q = r
    <2>1. Prevs(G("reduce"), r) # {}
        <3> SUFFICES ASSUME Prevs(G("reduce"), r) = {} PROVE FALSE
            OBVIOUS
        <3>1. {r} \in SUBSET Vertex(N) /\ \A j \in {r} : Prevs(G("reduce"), j) \subseteq {r}
            BY <1>0
        <3>2. {r} = Vertex(N)
            BY <1>1, <3>1 DEF IsInTree
        <3> QED BY <1>0, <1>2, <3>2
    <2>2. PICK p \in Prevs(G("reduce"), r) : TRUE
        BY <2>1
    <2>3. r \in Nexts(G("reduce"), p)
        BY NextsPrevs
    <2>4. p # r
        BY <1>1, <2>3 DEF IsInTree
    <2>5. p \in Peer
        BY NextsArePeers DEF Half
    <2> QED BY <1>2, <2>3, <2>4, <2>5 DEF Edge, Half, Conn
<1>3. CASE q # r
    <2> DEFINE g == G("broadcast")
    <2>1. Cardinality(Nexts(Reversed(g), q)) = 1
        BY <1>0, <1>1, <1>3 DEF IsOutTree, IsInTree
    <2>2. Nexts(Reversed(g), q) # {}
        BY <2>1, FS_EmptySet
    <2>3. PICK e \in Reversed(g).edges : e[1] = q
        BY <2>2 DEF Nexts
    <2>4. PICK d \in g.edges : e = <<d[2], d[1]>>
        BY <2>3 DEF Reversed
    <2>5. d[2] = q
        BY <2>3, <2>4
    <2>6. q \in Nexts(g, d[1]) /\ d[1] \in Prevs(g, q)
        BY <2>5 DEF Nexts, Prevs
    <2>7. d[1] \in Peer
        BY <2>6, NextsArePeers DEF Half
    <2>8. d[1] # q
        BY <1>0, <1>1, <2>5, OutTreeEdges
    <2> QED BY <2>6, <2>7, <2>8 DEF Edge, Half, Conn
<1> QED BY <1>2, <1>3

----------------------------------------------------------------------------
(* What the invariant says of a peer that has finished its operations *)

(* There is at least one round, of two halves. *)
LEMMA Constants ==
    /\ Rounds \in Nat /\ Rounds > 0
    /\ Half = {"reduce", "broadcast"}
    BY RoundsAssumption DEF Half

(* A connection is a pair of two different peers. *)
LEMMA ConnFacts ==
    ASSUME NEW e \in Conn
    PROVE  e[1] \in Peer /\ e[2] \in Peer /\ e[1] # e[2] /\ e = <<e[1], e[2]>>
    BY DEF Conn

(* What has been sent, used and left in a box are numbers, and a box holds *)
(* at most one message.                                                    *)
LEMMA FlowTypes ==
    ASSUME TypeOK, NEW p \in Peer, NEW q \in Peer, NEW h
    PROVE  Sent(h, p, q) \in Nat /\ Used(h, p, q) \in Nat /\ InBox(h, p, q) \in 0 .. 1
<1>1. round[p] \in Nat /\ round[q] \in Nat
    BY Constants DEF TypeOK
<1> QED BY <1>1 DEF Sent, Used, InBox, Bit

(* Nobody sends more than one message of each half per operation, and less  *)
(* while there is one to send. *)
LEMMA SentAtMost ==
    ASSUME TypeOK, ControlInv, NEW p \in Peer, NEW q \in Peer, NEW h \in Half
    PROVE  /\ Edge(h, p, q) => Sent(h, p, q) <= Rounds
           /\ ~Edge(h, p, q) => Sent(h, p, q) = 0
           /\ main[p] = "send" /\ q \in todo[p] /\ h = half[p] =>
                 Edge(h, p, q) /\ Sent(h, p, q) < Rounds
<1>1. round[p] \in Nat /\ Rounds \in Nat /\ half[p] \in {"reduce", "broadcast"}
    BY Constants DEF TypeOK
<1>2. main[p] \in {"new", "recv", "send"} \/ main[p] \in Ended
    BY DEF TypeOK, Ended
<1>3. /\ main[p] \in {"new", "recv", "send"} => round[p] < Rounds
      /\ main[p] \in Ended => round[p] = Rounds /\ half[p] = "reduce"
      /\ main[p] = "send" => todo[p] \subseteq Nexts(G(half[p]), p)
    BY DEF ControlInv
<1>4. main[p] \in Ended => main[p] # "send"
    BY DEF Ended
<1> QED BY <1>1, <1>2, <1>3, <1>4 DEF Sent, Edge, Bit

(* A peer that has ended its operations has used all messages of all rounds. *)
LEMMA UsedAll ==
    ASSUME TypeOK, ControlInv, NEW p \in Peer, NEW q \in Peer, NEW h \in Half, main[q] \in Ended
    PROVE  Used(h, p, q) = IF Edge(h, p, q) THEN Rounds ELSE 0
<1>1. round[q] = Rounds /\ half[q] = "reduce" /\ Rounds \in Nat
    BY Constants DEF ControlInv
<1>2. main[q] # "send"
    BY DEF Ended
<1> QED BY <1>1, <1>2 DEF Used, Bit

(* Nothing is on its way to it, and nobody dials it. *)
LEMMA Drained ==
    ASSUME LifeInv, NEW e \in Conn, main[e[2]] \in Ended
    PROVE  wire[e] = <<>> /\ conn[e] \notin Dialling
<1> DEFINE p == e[1]
           q == e[2]
<1>0. p \in Peer /\ q \in Peer
    BY ConnFacts
<1>1. TypeOK /\ ControlInv
    BY DEF LifeInv
<1>2. /\ Sent("reduce", p, q) \in Nat /\ Sent("broadcast", p, q) \in Nat
      /\ InBox("reduce", p, q) \in 0 .. 1 /\ InBox("broadcast", p, q) \in 0 .. 1
    BY <1>0, <1>1, FlowTypes
<1>3. /\ Used("reduce", p, q) = IF Edge("reduce", p, q) THEN Rounds ELSE 0
      /\ Used("broadcast", p, q) = IF Edge("broadcast", p, q) THEN Rounds ELSE 0
    BY <1>0, <1>1, UsedAll, Constants
<1>4. /\ Sent("reduce", p, q) <= (IF Edge("reduce", p, q) THEN Rounds ELSE 0)
      /\ Sent("broadcast", p, q) <= (IF Edge("broadcast", p, q) THEN Rounds ELSE 0)
    BY <1>0, <1>1, SentAtMost, Constants
<1>5. wire[e] \in Seq(Half) /\ Len(wire[e]) \in Nat
    BY <1>1 DEF TypeOK
<1>6. Sent("reduce", p, q) + Sent("broadcast", p, q) =
          Len(wire[e]) + InBox("reduce", p, q) + InBox("broadcast", p, q)
                       + Used("reduce", p, q) + Used("broadcast", p, q)
    BY DEF LifeInv, FlowInv
<1>7. Len(wire[e]) = 0
    BY <1>2, <1>3, <1>4, <1>5, <1>6, Constants
<1>8. ASSUME conn[e] \in Dialling PROVE FALSE
    <2>1. main[p] = "send" /\ q \in todo[p]
        BY <1>8 DEF LifeInv, ConnInv, ConnOK
    <2>2. half[p] \in Half
        BY <1>0, <1>1 DEF TypeOK
    <2>3. Edge(half[p], p, q) /\ Sent(half[p], p, q) < Rounds
        BY <1>0, <1>1, <2>1, <2>2, SentAtMost
    <2>4. CASE half[p] = "reduce"
        BY <1>2, <1>3, <1>4, <1>6, <1>7, <2>3, <2>4, Constants
    <2>5. CASE half[p] = "broadcast"
        BY <1>2, <1>3, <1>4, <1>6, <1>7, <2>3, <2>5, Constants
    <2> QED BY <2>2, <2>4, <2>5, Constants
<1> QED BY <1>5, <1>7, <1>8

(* What the peers do not change by. *)
LEMMA SameFlow ==
    ASSUME LifeInv, UNCHANGED <<strategy, half, round, todo, got>>,
           \A p \in Peer : main'[p] = "send" <=> main[p] = "send"
    PROVE  /\ \A h \in Half, p, q \in Peer : /\ Sent(h, p, q)' = Sent(h, p, q)
                                             /\ Used(h, p, q)' = Used(h, p, q)
                                             /\ InBox(h, p, q)' = InBox(h, p, q)
           /\ wire' = wire => FlowInv'
           /\ \A h \in Half : G(h)' = G(h)
<1>1. \A h \in Half : G(h)' = G(h)
    BY DEF G, Pair
<1>2. ASSUME NEW h \in Half, NEW p \in Peer, NEW q \in Peer
      PROVE  /\ Sent(h, p, q)' = Sent(h, p, q)
             /\ Used(h, p, q)' = Used(h, p, q)
             /\ InBox(h, p, q)' = InBox(h, p, q)
    <2>1. Edge(h, p, q)' <=> Edge(h, p, q)
        BY <1>1 DEF Edge
    <2>2. Sent(h, p, q)' = Sent(h, p, q)
        BY <2>1 DEF Sent
    <2>3. Used(h, p, q)' = Used(h, p, q)
        BY <2>1 DEF Used
    <2>4. InBox(h, p, q)' = InBox(h, p, q)
        BY DEF InBox
    <2> QED BY <2>2, <2>3, <2>4
<1>3. ASSUME wire' = wire PROVE FlowInv'
    <2> SUFFICES ASSUME NEW e \in Conn
                 PROVE  (Sent("reduce", e[1], e[2]) + Sent("broadcast", e[1], e[2]) =
                           Len(wire[e]) + InBox("reduce", e[1], e[2]) + InBox("broadcast", e[1], e[2])
                                + Used("reduce", e[1], e[2]) + Used("broadcast", e[1], e[2]))'
        BY DEF FlowInv
    <2>1. e[1] \in Peer /\ e[2] \in Peer
        BY ConnFacts
    <2>2. "reduce" \in Half /\ "broadcast" \in Half
        BY Constants
    <2> QED BY <1>2, <1>3, <2>1, <2>2 DEF LifeInv, FlowInv
<1> QED BY <1>1, <1>2, <1>3

----------------------------------------------------------------------------
(* Every step preserves LifeInv.  First the steps of diallers and handlers  *)
(* that change nothing but the state of one connection.                     *)

(* The invariant holds before any peer has started. *)
LEMMA LifeInvInit == Init => LifeInv
<1> SUFFICES ASSUME Init PROVE LifeInv
    OBVIOUS
<1>0. \A h, p, q : p \in Peer /\ q \in Peer => Sent(h, p, q) = 0 /\ Used(h, p, q) = 0 /\ InBox(h, p, q) = 0
    BY DEF Init, Sent, Used, InBox, Bit
<1>1. TypeOK
    <2>1. round \in [Peer -> 0 .. Rounds]
        BY Constants DEF Init
    <2>2. main \in [Peer -> {"new", "recv", "send", "stop", "stop_server", "join", "stopped"}]
        BY DEF Init
    <2>3. half \in [Peer -> Half] /\ todo \in [Peer -> SUBSET Peer]
        BY Constants DEF Init
    <2>4. got \in [Peer -> SUBSET (Peer \X Half)]
        BY DEF Init
    <2>5. listening \in [Peer -> BOOLEAN] /\ stopped \in [Peer -> BOOLEAN]
        BY DEF Init
    <2>6. dialing \in [Peer -> Peer \cup {None}]
        BY DEF Init
    <2>7. conn \in [Conn -> {"none", "connecting", "backlog", "accepted", "open", "closed"}]
        BY DEF Init
    <2>8. wire \in [Conn -> Seq(Half)]
        BY DEF Init
    <2>9. hand \in [Conn -> {"none", "upgrade", "next", "blocked", "message", "ended", "threw"}]
        BY DEF Init
    <2> QED BY <2>1, <2>2, <2>3, <2>4, <2>5, <2>6, <2>7, <2>8, <2>9 DEF Init, TypeOK
<1>2. ControlInv
    BY Constants DEF Init, ControlInv, Ended
<1>3. ConnInv
    <2> SUFFICES ASSUME NEW e \in Conn PROVE ConnOK(e)
        BY DEF ConnInv
    <2>1. conn[e] = "none" /\ hand[e] = "none"
        BY DEF Init
    <2> QED BY <1>0, <2>1, ConnFacts DEF ConnOK, Dialling
<1>4. FlowInv
    <2> SUFFICES ASSUME NEW e \in Conn
                 PROVE  Sent("reduce", e[1], e[2]) + Sent("broadcast", e[1], e[2]) =
                          Len(wire[e]) + InBox("reduce", e[1], e[2]) + InBox("broadcast", e[1], e[2])
                               + Used("reduce", e[1], e[2]) + Used("broadcast", e[1], e[2])
        BY DEF FlowInv
    <2>1. Len(wire[e]) = 0
        BY DEF Init
    <2> QED BY <1>0, <2>1, ConnFacts
<1> QED BY <1>1, <1>2, <1>3, <1>4 DEF LifeInv

(* A connection that a step leaves alone. *)
LEMMA Untouched ==
    ASSUME LifeInv, UNCHANGED <<strategy, half, round, todo, got>>,
           \A p \in Peer : main'[p] = "send" <=> main[p] = "send",
           \A p \in Peer : listening[p] \/ main[p] = "stopped" =>
                              listening'[p] \/ main'[p] = "stopped",
           NEW e \in Conn, conn'[e] = conn[e], hand'[e] = hand[e], wire'[e] = wire[e]
    PROVE  ConnOK(e)'
<1>1. e[1] \in Peer /\ e[2] \in Peer
    BY ConnFacts
<1>2. ConnOK(e)
    BY DEF LifeInv, ConnInv
<1>3. \A h \in Half : Sent(h, e[1], e[2])' = Sent(h, e[1], e[2])
    BY <1>1, SameFlow
<1> QED BY <1>1, <1>2, <1>3 DEF ConnOK

(* A step of one connection: the peers, the stop flags and the wires stay. *)
LEMMA OneConnStep ==
    ASSUME LifeInv, NEW e \in Conn,
           UNCHANGED <<mainVars, listening, stopped, wire>>,
           dialing' \in [Peer -> Peer \cup {None}],
           NEW c \in {"none", "connecting", "backlog", "accepted", "open", "closed"},
           NEW h \in {"none", "upgrade", "next", "blocked", "message", "ended"},
           conn' = [conn EXCEPT ![e] = c],
           hand' = [hand EXCEPT ![e] = h],
           c \in Dialling => main[e[1]] = "send" /\ e[2] \in todo[e[1]],
           c \notin {"none", "connecting"} => listening[e[2]] \/ main[e[2]] = "stopped",
           c \notin {"open", "closed"} => conn[e] \notin {"open", "closed"},
           h = "upgrade" => c = "accepted",
           h = "message" => wire[e] # <<>>
    PROVE  LifeInv'
<1>1. /\ conn \in [Conn -> {"none", "connecting", "backlog", "accepted", "open", "closed"}]
      /\ hand \in [Conn -> {"none", "upgrade", "next", "blocked", "message", "ended", "threw"}]
    BY DEF LifeInv, TypeOK
<1>2. TypeOK'
    <2>1. conn' \in [Conn -> {"none", "connecting", "backlog", "accepted", "open", "closed"}]
        BY <1>1
    <2>2. hand' \in [Conn -> {"none", "upgrade", "next", "blocked", "message", "ended", "threw"}]
        BY <1>1
    <2> QED BY <2>1, <2>2 DEF LifeInv, TypeOK, mainVars
<1>3. /\ UNCHANGED <<strategy, half, round, todo, got>>
      /\ main' = main /\ listening' = listening /\ stopped' = stopped /\ wire' = wire
    BY DEF mainVars
<1>4. FlowInv' /\ \A x \in Half : G(x)' = G(x)
    BY <1>3, SameFlow
<1>5. ControlInv'
    BY <1>3, <1>4 DEF LifeInv, ControlInv, TypeOK
<1>6. ASSUME NEW d \in Conn PROVE ConnOK(d)'
    <2>1. CASE d # e
        <3>1. conn'[d] = conn[d] /\ hand'[d] = hand[d] /\ wire'[d] = wire[d]
            BY <1>1, <1>3, <2>1
        <3> QED BY <1>3, <3>1, Untouched
    <2>2. CASE d = e
        <3>1. conn'[d] = c /\ hand'[d] = h
            BY <1>1, <2>2
        <3>2. \A x \in Half : Sent(x, e[1], e[2])' = Sent(x, e[1], e[2])
            BY <1>3, ConnFacts, SameFlow
        <3>3. conn[e] \notin {"open", "closed"} => \A x \in Half : Sent(x, e[1], e[2]) = 0
            BY DEF LifeInv, ConnInv, ConnOK
        <3> QED BY <1>3, <2>2, <3>1, <3>2, <3>3 DEF ConnOK
    <2> QED BY <2>1, <2>2
<1> QED BY <1>2, <1>4, <1>5, <1>6 DEF LifeInv, ConnInv

(* The states of a connection and of its handler. *)
LEMMA ConnTypes ==
    ASSUME LifeInv, NEW e \in Conn
    PROVE  /\ conn[e] \in {"none", "connecting", "backlog", "accepted", "open", "closed"}
           /\ hand[e] \in {"none", "upgrade", "next", "blocked", "message", "ended"}
           /\ conn = [conn EXCEPT ![e] = conn[e]]
           /\ hand = [hand EXCEPT ![e] = hand[e]]
           /\ dialing \in [Peer -> Peer \cup {None}]
           /\ ConnOK(e)
<1>1. ConnOK(e) /\ TypeOK
    BY DEF LifeInv, ConnInv
<1>2. conn[e] \in {"none", "connecting", "backlog", "accepted", "open", "closed"}
    BY <1>1 DEF TypeOK
<1>3. hand[e] \in {"none", "upgrade", "next", "blocked", "message", "ended"}
    BY <1>1 DEF TypeOK, ConnOK
<1>4. conn = [conn EXCEPT ![e] = conn[e]] /\ hand = [hand EXCEPT ![e] = hand[e]]
    BY <1>1 DEF TypeOK
<1> QED BY <1>1, <1>2, <1>3, <1>4 DEF TypeOK

(* The steps of a dial (client::get_or_create_conn and wait_connect) keep *)
(* the invariant.                                                         *)
LEMMA DialSteps ==
    ASSUME LifeInv, NEW e \in Conn, Dial(e[1], e[2]) \/ Connect(e) \/ Dialled(e)
    PROVE  LifeInv'
<1>0. e[1] \in Peer /\ e[2] \in Peer /\ e = <<e[1], e[2]>>
    BY ConnFacts
<1>1. CASE Dial(e[1], e[2])
    <2>1. /\ UNCHANGED <<mainVars, listening, stopped, wire>> /\ hand' = hand
          /\ conn[e] = "none" /\ conn' = [conn EXCEPT ![e] = "connecting"]
          /\ main[e[1]] = "send" /\ e[2] \in todo[e[1]]
        BY <1>0, <1>1 DEF Dial
    <2>2. dialing' \in [Peer -> Peer \cup {None}]
        BY <1>0, <1>1, ConnTypes DEF Dial
    <2>3. hand' = [hand EXCEPT ![e] = hand[e]]
        BY <2>1, ConnTypes
    <2>4. hand[e] # "upgrade" /\ (hand[e] = "message" => wire[e] # <<>>)
        BY <2>1, ConnTypes DEF ConnOK
    <2> DEFINE c == "connecting"
    <2>5. c \in {"none", "connecting", "backlog", "accepted", "open", "closed"}
        OBVIOUS
    <2> QED BY <2>1, <2>2, <2>3, <2>4, <2>5, ConnTypes, OneConnStep
<1>2. CASE Connect(e)
    <2>1. /\ UNCHANGED <<mainVars, listening, stopped, dialing, wire>> /\ hand' = hand
          /\ conn[e] = "connecting" /\ conn' = [conn EXCEPT ![e] = "backlog"]
          /\ listening[e[2]]
        BY <1>2 DEF Connect
    <2>2. dialing' \in [Peer -> Peer \cup {None}]
        BY <2>1, ConnTypes
    <2>3. hand' = [hand EXCEPT ![e] = hand[e]]
        BY <2>1, ConnTypes
    <2>4. /\ hand[e] # "upgrade" /\ (hand[e] = "message" => wire[e] # <<>>)
          /\ main[e[1]] = "send" /\ e[2] \in todo[e[1]]
        BY <2>1, ConnTypes DEF ConnOK, Dialling
    <2> DEFINE c == "backlog"
    <2>5. c \in {"none", "connecting", "backlog", "accepted", "open", "closed"}
        OBVIOUS
    <2> QED BY <2>1, <2>2, <2>3, <2>4, <2>5, ConnTypes, OneConnStep
<1>3. CASE Dialled(e)
    <2>1. /\ UNCHANGED <<mainVars, listening, stopped, wire>> /\ hand' = hand
          /\ conn[e] = "accepted" /\ conn' = [conn EXCEPT ![e] = "open"]
          /\ hand[e] # "upgrade"
        BY <1>3 DEF Dialled
    <2>2. dialing' \in [Peer -> Peer \cup {None}]
        BY <1>0, <1>3, ConnTypes DEF Dialled
    <2>3. hand' = [hand EXCEPT ![e] = hand[e]]
        BY <2>1, ConnTypes
    <2>4. /\ hand[e] = "message" => wire[e] # <<>>
          /\ listening[e[2]] \/ main[e[2]] = "stopped"
        BY <2>1, ConnTypes DEF ConnOK
    <2> DEFINE c == "open"
    <2>5. c \in {"none", "connecting", "backlog", "accepted", "open", "closed"} /\ c \notin Dialling
        BY DEF Dialling
    <2> QED BY <2>1, <2>2, <2>3, <2>4, <2>5, ConnTypes, OneConnStep
<1> QED BY <1>1, <1>2, <1>3

(* wait_accept keeps the invariant. *)
LEMMA AcceptStep ==
    ASSUME LifeInv, NEW e \in Conn, Accept(e)
    PROVE  LifeInv'
<1>1. /\ UNCHANGED <<mainVars, listening, stopped, dialing, wire>>
      /\ conn[e] = "backlog" /\ conn' = [conn EXCEPT ![e] = "accepted"]
      /\ hand' = [hand EXCEPT ![e] = "upgrade"]
      /\ listening[e[2]]
    BY DEF Accept, Accepting
<1>2. dialing' \in [Peer -> Peer \cup {None}]
    BY <1>1, ConnTypes
<1>3. main[e[1]] = "send" /\ e[2] \in todo[e[1]]
    BY <1>1, ConnTypes DEF ConnOK, Dialling
<1> DEFINE c == "accepted"
           h == "upgrade"
<1>4. /\ c \in {"none", "connecting", "backlog", "accepted", "open", "closed"}
      /\ h \in {"none", "upgrade", "next", "blocked", "message", "ended"}
    OBVIOUS
<1> QED BY <1>1, <1>2, <1>3, <1>4, OneConnStep

(* A stopped server has no handler in a handshake or in a message. *)
LEMMA StoppedIsQuiet ==
    ASSUME LifeInv, NEW e \in Conn, stopped[e[2]]
    PROVE  hand[e] \notin {"upgrade", "message"}
<1>1. main[e[2]] \in Ended
    BY ConnFacts DEF LifeInv, ControlInv, Ended
<1>2. wire[e] = <<>> /\ conn[e] \notin Dialling
    BY <1>1, Drained
<1> QED BY <1>2, ConnTypes DEF ConnOK, Dialling

(* The handshake and the two reads before a message keep the invariant. *)
LEMMA HandlerSteps ==
    ASSUME LifeInv, NEW e \in Conn, Upgrade(e) \/ NextMessage(e) \/ ReadNameLen(e)
    PROVE  LifeInv'
<1>1. UNCHANGED <<mainVars, listening, stopped, dialing, conn, wire>>
    BY DEF Upgrade, NextMessage, ReadNameLen
<1>2. PICK h \in {"next", "blocked", "message", "ended"} :
          hand' = [hand EXCEPT ![e] = h] /\ (h = "message" => wire[e] # <<>>)
    <2>1. CASE Upgrade(e)
        <3>1. ~StopSeen(e[2])
            BY <2>1, StoppedIsQuiet DEF Upgrade, StopSeen
        <3> QED BY <2>1, <3>1 DEF Upgrade
    <2>2. CASE NextMessage(e)
        BY <2>2 DEF NextMessage
    <2>3. CASE ReadNameLen(e)
        BY <2>3 DEF ReadNameLen
    <2> QED BY <2>1, <2>2, <2>3
<1>3. dialing' \in [Peer -> Peer \cup {None}]
    BY <1>1, ConnTypes
<1>4. conn' = [conn EXCEPT ![e] = conn[e]]
    BY <1>1, ConnTypes
<1>5. /\ conn[e] \in Dialling => main[e[1]] = "send" /\ e[2] \in todo[e[1]]
      /\ conn[e] \notin {"none", "connecting"} => listening[e[2]] \/ main[e[2]] = "stopped"
    BY ConnTypes DEF ConnOK
<1>6. h \in {"none", "upgrade", "next", "blocked", "message", "ended"} /\ h # "upgrade"
    BY <1>2
<1> QED BY <1>1, <1>2, <1>3, <1>4, <1>5, <1>6, ConnTypes, OneConnStep

(* Reading a message into the mailbox keeps the invariant: it moves from the *)
(* wire to the box, and there is room.                                       *)
LEMMA ReadMessageStep ==
    ASSUME LifeInv, NEW e \in Conn, ReadMessage(e)
    PROVE  LifeInv'
<1> DEFINE p == e[1]
           q == e[2]
           x == Head(wire[e])
<1>0. p \in Peer /\ q \in Peer /\ p # q
    BY ConnFacts
<1>1. hand[e] = "message" /\ ~StopSeen(q)
    BY StoppedIsQuiet DEF ReadMessage, StopSeen
<1>2. /\ <<p, x>> \notin got[q]
      /\ got' = [got EXCEPT ![q] = got[q] \cup {<<p, x>>}]
      /\ wire' = [wire EXCEPT ![e] = Tail(wire[e])]
      /\ hand' = [hand EXCEPT ![e] = "next"]
      /\ UNCHANGED <<build, strategy, main, half, round, todo, listening, stopped, dialing, conn>>
    BY <1>1 DEF ReadMessage
<1>3. /\ wire \in [Conn -> Seq(Half)]
      /\ got \in [Peer -> SUBSET (Peer \X Half)]
      /\ hand \in [Conn -> {"none", "upgrade", "next", "blocked", "message", "ended", "threw"}]
    BY DEF LifeInv, TypeOK
<1>4. wire[e] # <<>> /\ wire[e] \in Seq(Half)
    BY <1>1, <1>3, ConnTypes DEF ConnOK
<1>5. x \in Half /\ Tail(wire[e]) \in Seq(Half) /\ Len(Tail(wire[e])) = Len(wire[e]) - 1
    BY <1>4
<1> HIDE DEF x
<1>6. TypeOK'
    <2>1. wire' \in [Conn -> Seq(Half)]
        BY <1>2, <1>3, <1>5
    <2>2. got' \in [Peer -> SUBSET (Peer \X Half)]
        BY <1>0, <1>2, <1>3, <1>5
    <2>3. hand' \in [Conn -> {"none", "upgrade", "next", "blocked", "message", "ended", "threw"}]
        BY <1>2, <1>3
    <2> QED BY <1>2, <2>1, <2>2, <2>3 DEF LifeInv, TypeOK
<1>7. \A h \in Half : G(h)' = G(h)
    BY <1>2 DEF G, Pair
<1>8. ControlInv'
    <2>1. \A r \in Peer : half[r] \in Half
        BY DEF LifeInv, TypeOK
    <2> QED BY <1>2, <1>7, <2>1 DEF LifeInv, ControlInv
<1>9. \A h \in Half, a, b \in Peer : /\ Sent(h, a, b)' = Sent(h, a, b)
                                     /\ Used(h, a, b)' = Used(h, a, b)
    <2> SUFFICES ASSUME NEW h \in Half, NEW a \in Peer, NEW b \in Peer
                 PROVE  Sent(h, a, b)' = Sent(h, a, b) /\ Used(h, a, b)' = Used(h, a, b)
        OBVIOUS
    <2>1. Edge(h, a, b)' <=> Edge(h, a, b)
        BY <1>7 DEF Edge
    <2> QED BY <1>2, <2>1 DEF Sent, Used
<1>10. ASSUME NEW d \in Conn PROVE ConnOK(d)'
    <2>0. d[1] \in Peer /\ d[2] \in Peer
        BY ConnFacts
    <2>1. ConnOK(d)
        BY DEF LifeInv, ConnInv
    <2>2. /\ conn'[d] = conn[d]
          /\ d # e => hand'[d] = hand[d] /\ wire'[d] = wire[d]
          /\ d = e => hand'[d] = "next"
        BY <1>2, <1>3
    <2>3. \A h \in Half : Sent(h, d[1], d[2])' = Sent(h, d[1], d[2])
        BY <1>9, <2>0
    <2> QED BY <1>2, <2>0, <2>1, <2>2, <2>3 DEF ConnOK
<1>11. FlowInv'
    <2> SUFFICES ASSUME NEW d \in Conn
                 PROVE  (Sent("reduce", d[1], d[2]) + Sent("broadcast", d[1], d[2]) =
                           Len(wire[d]) + InBox("reduce", d[1], d[2]) + InBox("broadcast", d[1], d[2])
                                + Used("reduce", d[1], d[2]) + Used("broadcast", d[1], d[2]))'
        BY DEF FlowInv
    <2>0. d[1] \in Peer /\ d[2] \in Peer /\ d = <<d[1], d[2]>> /\ e = <<p, q>>
        BY ConnFacts
    <2>1. Sent("reduce", d[1], d[2]) + Sent("broadcast", d[1], d[2]) =
              Len(wire[d]) + InBox("reduce", d[1], d[2]) + InBox("broadcast", d[1], d[2])
                   + Used("reduce", d[1], d[2]) + Used("broadcast", d[1], d[2])
        BY DEF LifeInv, FlowInv
    <2>2. \A h \in Half : /\ Sent(h, d[1], d[2])' = Sent(h, d[1], d[2])
                          /\ Used(h, d[1], d[2])' = Used(h, d[1], d[2])
                          /\ Sent(h, d[1], d[2]) \in Nat /\ Used(h, d[1], d[2]) \in Nat
        BY <1>9, <2>0, FlowTypes DEF LifeInv
    <2>3. "reduce" \in Half /\ "broadcast" \in Half
        BY Constants
    <2>4. Len(wire[d]) \in Nat
        BY <1>3
    <2>5. CASE d # e
        <3>1. wire'[d] = wire[d]
            BY <1>2, <1>3, <2>5
        <3>2. \A h \in Half : InBox(h, d[1], d[2])' = InBox(h, d[1], d[2])
            <4> SUFFICES ASSUME NEW h \in Half
                         PROVE  <<d[1], h>> \in got'[d[2]] <=> <<d[1], h>> \in got[d[2]]
                BY DEF InBox
            <4>1. CASE d[2] = q
                <5>1. d[1] # p
                    BY <2>0, <2>5, <4>1
                <5>2. got'[d[2]] = got[q] \cup {<<p, x>>}
                    BY <1>0, <1>2, <1>3, <4>1
                <5> QED BY <4>1, <5>1, <5>2
            <4>2. CASE d[2] # q
                BY <1>2, <1>3, <2>0, <4>2
            <4> QED BY <4>1, <4>2
        <3> QED BY <2>1, <2>2, <2>3, <3>1, <3>2
    <2>6. CASE d = e
        <3>1. Len(wire'[d]) = Len(wire[d]) - 1
            BY <1>2, <1>3, <1>5, <2>6
        <3>2. got'[q] = got[q] \cup {<<p, x>>}
            BY <1>0, <1>2, <1>3
        <3>3. \A h \in Half : InBox(h, p, q)' = InBox(h, p, q) + Bit(h = x)
            <4> SUFFICES ASSUME NEW h \in Half
                         PROVE  InBox(h, p, q)' = InBox(h, p, q) + Bit(h = x)
                OBVIOUS
            <4>1. CASE h = x
                BY <1>2, <3>2, <4>1 DEF InBox, Bit
            <4>2. CASE h # x
                BY <3>2, <4>2 DEF InBox, Bit
            <4> QED BY <4>1, <4>2
        <3>4. Bit("reduce" = x) + Bit("broadcast" = x) = 1
            BY <1>5, Constants DEF Bit
        <3>5. InBox("reduce", p, q) \in 0 .. 1 /\ InBox("broadcast", p, q) \in 0 .. 1
            BY <1>0, FlowTypes DEF LifeInv
        <3>6. Bit("reduce" = x) \in 0 .. 1 /\ Bit("broadcast" = x) \in 0 .. 1
            BY DEF Bit
        <3>7. /\ InBox("reduce", d[1], d[2])' = InBox("reduce", d[1], d[2]) + Bit("reduce" = x)
              /\ InBox("broadcast", d[1], d[2])' = InBox("broadcast", d[1], d[2]) + Bit("broadcast" = x)
              /\ InBox("reduce", d[1], d[2]) \in 0 .. 1 /\ InBox("broadcast", d[1], d[2]) \in 0 .. 1
            BY <2>3, <2>6, <3>3, <3>5
        <3>8. /\ Sent("reduce", d[1], d[2])' = Sent("reduce", d[1], d[2])
              /\ Sent("broadcast", d[1], d[2])' = Sent("broadcast", d[1], d[2])
              /\ Used("reduce", d[1], d[2])' = Used("reduce", d[1], d[2])
              /\ Used("broadcast", d[1], d[2])' = Used("broadcast", d[1], d[2])
              /\ Used("reduce", d[1], d[2]) \in Nat /\ Used("broadcast", d[1], d[2]) \in Nat
            BY <2>2, <2>3
        <3> QED BY <2>1, <2>4, <3>1, <3>4, <3>6, <3>7, <3>8
    <2> QED BY <2>5, <2>6
<1> QED BY <1>6, <1>8, <1>10, <1>11 DEF LifeInv, ConnInv

----------------------------------------------------------------------------
(* The steps of a peer's owner *)

(* Starting, binding and stopping: no message is sent or used. *)
LEMMA OwnerStep ==
    ASSUME LifeInv, UNCHANGED <<build, strategy, half, round, todo, got, dialing, wire, hand>>,
           main' \in [Peer -> {"new", "recv", "send", "stop", "stop_server", "join", "stopped"}],
           listening' \in [Peer -> BOOLEAN], stopped' \in [Peer -> BOOLEAN],
           \A p \in Peer : main'[p] = "send" <=> main[p] = "send",
           \A p \in Peer : listening[p] \/ main[p] = "stopped" =>
                              listening'[p] \/ main'[p] = "stopped",
           \A p \in Peer : main'[p] \in Ended <=> main[p] \in Ended,
           \A p \in Peer : main'[p] = "new" => main[p] = "new" /\ listening'[p] = listening[p],
           \A p \in Peer : stopped'[p] => main'[p] \in {"join", "stopped"},
           \A e \in Conn : conn'[e] = conn[e] \/ (conn[e] = "open" /\ conn'[e] = "closed"),
           conn' \in [Conn -> {"none", "connecting", "backlog", "accepted", "open", "closed"}]
    PROVE  LifeInv'
<1>1. TypeOK'
    BY DEF LifeInv, TypeOK
<1>2. /\ FlowInv' /\ \A h \in Half : G(h)' = G(h)
      /\ \A h \in Half, p, q \in Peer : Sent(h, p, q)' = Sent(h, p, q)
    BY SameFlow
<1>3. ControlInv'
    <2> SUFFICES ASSUME NEW p \in Peer
                 PROVE  /\ main'[p] \in {"new", "recv", "send"} => round[p] < Rounds
                        /\ main'[p] \in Ended => round[p] = Rounds /\ half[p] = "reduce"
                        /\ main'[p] = "new" => round[p] = 0 /\ half[p] = "reduce" /\ ~listening'[p]
                        /\ todo[p] \subseteq (IF main'[p] = "send" THEN Nexts(G(half[p])', p) ELSE {})
                        /\ stopped'[p] => main'[p] \in {"join", "stopped"}
        BY DEF ControlInv
    <2>1. half[p] \in Half /\ main[p] \in {"new", "recv", "send", "stop", "stop_server", "join", "stopped"}
        BY DEF LifeInv, TypeOK
    <2>2. \/ main[p] \in {"new", "recv", "send"} /\ main[p] \notin Ended
          \/ main[p] \in Ended /\ main[p] \notin {"new", "recv", "send"}
        BY <2>1 DEF Ended
    <2>3. main'[p] \in {"new", "recv", "send"} => main'[p] \notin Ended
        BY DEF Ended
    <2>4. /\ main[p] \in {"new", "recv", "send"} => round[p] < Rounds
          /\ main[p] \in Ended => round[p] = Rounds /\ half[p] = "reduce"
          /\ main[p] = "new" => round[p] = 0 /\ half[p] = "reduce" /\ ~listening[p]
          /\ todo[p] \subseteq (IF main[p] = "send" THEN Nexts(G(half[p]), p) ELSE {})
        BY DEF LifeInv, ControlInv
    <2> QED BY <1>2, <2>1, <2>2, <2>3, <2>4
<1>4. ASSUME NEW e \in Conn PROVE ConnOK(e)'
    <2>1. CASE conn'[e] = conn[e]
        BY <2>1, Untouched
    <2>2. CASE conn[e] = "open" /\ conn'[e] = "closed"
        <3>1. ConnOK(e) /\ e[1] \in Peer /\ e[2] \in Peer
            BY ConnTypes, ConnFacts
        <3> QED BY <2>2, <3>1 DEF ConnOK, Dialling
    <2> QED BY <2>1, <2>2
<1> QED BY <1>1, <1>2, <1>3, <1>4 DEF LifeInv, ConnInv

(* Starting, binding, closing the connections, stopping the server and *)
(* joining its threads keep the invariant.                             *)
LEMMA OwnerSteps ==
    ASSUME LifeInv, NEW p \in Peer,
           Start(p) \/ Bind(p) \/ StopClient(p) \/ StopServer(p) \/ Join(p)
    PROVE  LifeInv'
<1>1. /\ main \in [Peer -> {"new", "recv", "send", "stop", "stop_server", "join", "stopped"}]
      /\ listening \in [Peer -> BOOLEAN] /\ stopped \in [Peer -> BOOLEAN]
      /\ conn \in [Conn -> {"none", "connecting", "backlog", "accepted", "open", "closed"}]
      /\ \A q \in Peer : /\ stopped[q] => main[q] \in {"join", "stopped"}
                         /\ main[q] = "new" => ~listening[q]
    BY DEF LifeInv, TypeOK, ControlInv
<1>2. UNCHANGED <<build, strategy, half, round, todo, got, dialing, wire, hand>>
    BY DEF Start, Bind, StopClient, StopServer, Join, mainVars
<1>3. CASE Start(p)
    <2>1. /\ main[p] = "new" /\ main' = [main EXCEPT ![p] = "recv"]
          /\ listening' = [listening EXCEPT ![p] = (build = "old")]
          /\ stopped' = stopped /\ conn' = conn
        BY <1>3 DEF Start, ListensAtOnce
    <2>2. main' \in [Peer -> {"new", "recv", "send", "stop", "stop_server", "join", "stopped"}]
        BY <1>1, <2>1
    <2>3. listening' \in [Peer -> BOOLEAN]
        BY <1>1, <2>1
    <2>4. \A q \in Peer : /\ main'[q] = "send" <=> main[q] = "send"
                          /\ main'[q] \in Ended <=> main[q] \in Ended
                          /\ main'[q] = "new" => main[q] = "new" /\ listening'[q] = listening[q]
                          /\ listening[q] \/ main[q] = "stopped" => listening'[q] \/ main'[q] = "stopped"
                          /\ stopped'[q] => main'[q] \in {"join", "stopped"}
        BY <1>1, <2>1 DEF Ended
    <2> QED BY <1>1, <1>2, <2>1, <2>2, <2>3, <2>4, OwnerStep
<1>4. CASE Bind(p)
    <2>1. /\ main' = main /\ listening' = [listening EXCEPT ![p] = TRUE]
          /\ stopped' = stopped /\ conn' = conn /\ main[p] # "new"
        BY <1>4 DEF Bind, mainVars
    <2>2. listening' \in [Peer -> BOOLEAN]
        BY <1>1, <2>1
    <2>3. \A q \in Peer : /\ main'[q] = "new" => main[q] = "new" /\ listening'[q] = listening[q]
                          /\ listening[q] \/ main[q] = "stopped" => listening'[q] \/ main'[q] = "stopped"
        BY <1>1, <2>1
    <2> QED BY <1>1, <1>2, <2>1, <2>2, <2>3, OwnerStep
<1>5. CASE StopClient(p)
    <2>1. /\ main[p] = "stop" /\ main' = [main EXCEPT ![p] = "stop_server"]
          /\ listening' = listening /\ stopped' = stopped
          /\ conn' = [e \in Conn |-> IF e[1] = p /\ conn[e] = "open" THEN "closed" ELSE conn[e]]
        BY <1>5 DEF StopClient, CloseAll
    <2>2. main' \in [Peer -> {"new", "recv", "send", "stop", "stop_server", "join", "stopped"}]
        BY <1>1, <2>1
    <2>3. \A q \in Peer : /\ main'[q] = "send" <=> main[q] = "send"
                          /\ main'[q] \in Ended <=> main[q] \in Ended
                          /\ main'[q] = "new" => main[q] = "new" /\ listening'[q] = listening[q]
                          /\ listening[q] \/ main[q] = "stopped" => listening'[q] \/ main'[q] = "stopped"
                          /\ stopped'[q] => main'[q] \in {"join", "stopped"}
        BY <1>1, <2>1 DEF Ended
    <2>4. /\ \A e \in Conn : conn'[e] = conn[e] \/ (conn[e] = "open" /\ conn'[e] = "closed")
          /\ conn' \in [Conn -> {"none", "connecting", "backlog", "accepted", "open", "closed"}]
        BY <1>1, <2>1
    <2> QED BY <1>1, <1>2, <2>1, <2>2, <2>3, <2>4, OwnerStep
<1>6. CASE StopServer(p)
    <2>1. /\ main[p] = "stop_server" /\ main' = [main EXCEPT ![p] = "join"]
          /\ listening' = listening /\ stopped' = [stopped EXCEPT ![p] = TRUE] /\ conn' = conn
        BY <1>6 DEF StopServer
    <2>2. main' \in [Peer -> {"new", "recv", "send", "stop", "stop_server", "join", "stopped"}]
        BY <1>1, <2>1
    <2>3. stopped' \in [Peer -> BOOLEAN]
        BY <1>1, <2>1
    <2>4. \A q \in Peer : /\ main'[q] = "send" <=> main[q] = "send"
                          /\ main'[q] \in Ended <=> main[q] \in Ended
                          /\ main'[q] = "new" => main[q] = "new" /\ listening'[q] = listening[q]
                          /\ listening[q] \/ main[q] = "stopped" => listening'[q] \/ main'[q] = "stopped"
                          /\ stopped'[q] => main'[q] \in {"join", "stopped"}
        BY <1>1, <2>1 DEF Ended
    <2> QED BY <1>1, <1>2, <2>1, <2>2, <2>3, <2>4, OwnerStep
<1>7. CASE Join(p)
    <2>1. /\ main[p] = "join" /\ main' = [main EXCEPT ![p] = "stopped"]
          /\ listening' = [listening EXCEPT ![p] = FALSE] /\ stopped' = stopped /\ conn' = conn
        BY <1>7 DEF Join
    <2>2. main' \in [Peer -> {"new", "recv", "send", "stop", "stop_server", "join", "stopped"}]
        BY <1>1, <2>1
    <2>3. listening' \in [Peer -> BOOLEAN]
        BY <1>1, <2>1
    <2>4. \A q \in Peer : /\ main'[q] = "send" <=> main[q] = "send"
                          /\ main'[q] \in Ended <=> main[q] \in Ended
                          /\ main'[q] = "new" => main[q] = "new" /\ listening'[q] = listening[q]
                          /\ listening[q] \/ main[q] = "stopped" => listening'[q] \/ main'[q] = "stopped"
                          /\ stopped'[q] => main'[q] \in {"join", "stopped"}
        BY <1>1, <2>1 DEF Ended
    <2> QED BY <1>1, <1>2, <2>1, <2>2, <2>3, <2>4, OwnerStep
<1> QED BY <1>3, <1>4, <1>5, <1>6, <1>7

(* The steps of one peer's operation: what it has sent and used changes,    *)
(* and what is in its boxes.                                                *)
LEMMA OthersFlow ==
    ASSUME LifeInv, NEW p \in Peer, strategy' = strategy,
           \A r \in Peer \ {p} : /\ main'[r] = main[r] /\ half'[r] = half[r] /\ round'[r] = round[r]
                                 /\ todo'[r] = todo[r] /\ got'[r] = got[r]
    PROVE  /\ \A h \in Half : G(h)' = G(h)
           /\ \A h \in Half, a, b \in Peer :
                 /\ Edge(h, a, b)' <=> Edge(h, a, b)
                 /\ a # p => Sent(h, a, b)' = Sent(h, a, b)
                 /\ b # p => Used(h, a, b)' = Used(h, a, b) /\ InBox(h, a, b)' = InBox(h, a, b)
<1>1. \A h \in Half : G(h)' = G(h)
    BY DEF G, Pair
<1>2. ASSUME NEW h \in Half, NEW a \in Peer, NEW b \in Peer
      PROVE  /\ Edge(h, a, b)' <=> Edge(h, a, b)
             /\ a # p => Sent(h, a, b)' = Sent(h, a, b)
             /\ b # p => Used(h, a, b)' = Used(h, a, b) /\ InBox(h, a, b)' = InBox(h, a, b)
    <2>1. Edge(h, a, b)' <=> Edge(h, a, b)
        BY <1>1 DEF Edge
    <2>2. a # p => Sent(h, a, b)' = Sent(h, a, b)
        BY <2>1 DEF Sent
    <2>3. b # p => Used(h, a, b)' = Used(h, a, b)
        BY <2>1 DEF Used
    <2>4. b # p => InBox(h, a, b)' = InBox(h, a, b)
        BY DEF InBox
    <2> QED BY <2>1, <2>2, <2>3, <2>4
<1> QED BY <1>1, <1>2

(* A step that sends nothing keeps the count when what a box loses is used. *)
LEMMA FlowKept ==
    ASSUME LifeInv, wire' = wire,
           \A h \in Half, a, b \in Peer :
              /\ Sent(h, a, b)' = Sent(h, a, b)
              /\ InBox(h, a, b)' + Used(h, a, b)' = InBox(h, a, b) + Used(h, a, b)
              /\ InBox(h, a, b)' \in Nat /\ Used(h, a, b)' \in Nat
    PROVE  FlowInv'
<1> SUFFICES ASSUME NEW e \in Conn
             PROVE  (Sent("reduce", e[1], e[2]) + Sent("broadcast", e[1], e[2]) =
                       Len(wire[e]) + InBox("reduce", e[1], e[2]) + InBox("broadcast", e[1], e[2])
                            + Used("reduce", e[1], e[2]) + Used("broadcast", e[1], e[2]))'
    BY DEF FlowInv
<1>1. e[1] \in Peer /\ e[2] \in Peer
    BY ConnFacts
<1>2. "reduce" \in Half /\ "broadcast" \in Half
    BY Constants
<1>3. Len(wire[e]) \in Nat
    BY DEF LifeInv, TypeOK
<1>4. Sent("reduce", e[1], e[2]) + Sent("broadcast", e[1], e[2]) =
          Len(wire[e]) + InBox("reduce", e[1], e[2]) + InBox("broadcast", e[1], e[2])
               + Used("reduce", e[1], e[2]) + Used("broadcast", e[1], e[2])
    BY DEF LifeInv, FlowInv
<1>5. /\ InBox("reduce", e[1], e[2]) \in Nat /\ InBox("broadcast", e[1], e[2]) \in Nat
      /\ Used("reduce", e[1], e[2]) \in Nat /\ Used("broadcast", e[1], e[2]) \in Nat
    BY <1>1, <1>2, FlowTypes DEF LifeInv
<1>6. /\ Sent("reduce", e[1], e[2])' = Sent("reduce", e[1], e[2])
      /\ InBox("reduce", e[1], e[2])' + Used("reduce", e[1], e[2])' =
            InBox("reduce", e[1], e[2]) + Used("reduce", e[1], e[2])
      /\ InBox("reduce", e[1], e[2])' \in Nat /\ Used("reduce", e[1], e[2])' \in Nat
    BY <1>1, <1>2
<1>7. /\ Sent("broadcast", e[1], e[2])' = Sent("broadcast", e[1], e[2])
      /\ InBox("broadcast", e[1], e[2])' + Used("broadcast", e[1], e[2])' =
            InBox("broadcast", e[1], e[2]) + Used("broadcast", e[1], e[2])
      /\ InBox("broadcast", e[1], e[2])' \in Nat /\ Used("broadcast", e[1], e[2])' \in Nat
    BY <1>1, <1>2
<1> DEFINE S == Sent("reduce", e[1], e[2]) + Sent("broadcast", e[1], e[2])
           L == Len(wire[e])
           i == InBox("reduce", e[1], e[2])
           j == InBox("broadcast", e[1], e[2])
           u == Used("reduce", e[1], e[2])
           v == Used("broadcast", e[1], e[2])
           i1 == InBox("reduce", e[1], e[2])'
           j1 == InBox("broadcast", e[1], e[2])'
           u1 == Used("reduce", e[1], e[2])'
           v1 == Used("broadcast", e[1], e[2])'
<1>8. S = L + i1 + j1 + u1 + v1
    <2>1. L \in Nat /\ i \in Nat /\ j \in Nat /\ u \in Nat /\ v \in Nat /\ S = L + i + j + u + v
        BY <1>3, <1>4, <1>5
    <2>2. i1 \in Nat /\ j1 \in Nat /\ u1 \in Nat /\ v1 \in Nat /\ i1 + u1 = i + u /\ j1 + v1 = j + v
        BY <1>6, <1>7
    <2> HIDE DEF S, L, i, j, u, v, i1, j1, u1, v1
    <2> QED BY <2>1, <2>2
<1> QED BY <1>6, <1>7, <1>8

(* Going on from receives to sends keeps the invariant: every message taken *)
(* was in the box.                                                          *)
LEMMA RecvDoneStep ==
    ASSUME LifeInv, NEW p \in Peer, RecvDone(p)
    PROVE  LifeInv'
<1> DEFINE k == half[p]
<1>1. /\ main \in [Peer -> {"new", "recv", "send", "stop", "stop_server", "join", "stopped"}]
      /\ half \in [Peer -> Half] /\ todo \in [Peer -> SUBSET Peer]
      /\ got \in [Peer -> SUBSET (Peer \X Half)] /\ round \in [Peer -> 0 .. Rounds]
    BY DEF LifeInv, TypeOK
<1>2. /\ main[p] = "recv" /\ Awaited(p, k) \subseteq got[p]
      /\ got' = [got EXCEPT ![p] = got[p] \ Awaited(p, k)]
      /\ main' = [main EXCEPT ![p] = "send"]
      /\ todo' = [todo EXCEPT ![p] = Nexts(G(k), p)]
      /\ UNCHANGED <<build, strategy, half, round, listening, stopped, dialing, conn, wire, hand>>
    BY DEF RecvDone
<1>3. k \in Half /\ Nexts(G(k), p) \subseteq Peer
    BY <1>1, NextsArePeers
<1>4. /\ main'[p] = "send" /\ todo'[p] = Nexts(G(k), p) /\ got'[p] = got[p] \ Awaited(p, k)
      /\ \A r \in Peer \ {p} : main'[r] = main[r] /\ todo'[r] = todo[r] /\ got'[r] = got[r]
    BY <1>1, <1>2
<1>5. TypeOK'
    <2>1. main' \in [Peer -> {"new", "recv", "send", "stop", "stop_server", "join", "stopped"}]
        BY <1>1, <1>2
    <2>2. todo' \in [Peer -> SUBSET Peer]
        BY <1>1, <1>2, <1>3
    <2>3. got' \in [Peer -> SUBSET (Peer \X Half)]
        BY <1>1, <1>2
    <2> QED BY <1>2, <2>1, <2>2, <2>3 DEF LifeInv, TypeOK
<1>6. /\ \A h \in Half : G(h)' = G(h)
      /\ \A h \in Half, a, b \in Peer :
            /\ Edge(h, a, b)' <=> Edge(h, a, b)
            /\ a # p => Sent(h, a, b)' = Sent(h, a, b)
            /\ b # p => Used(h, a, b)' = Used(h, a, b) /\ InBox(h, a, b)' = InBox(h, a, b)
    BY <1>2, <1>4, OthersFlow
<1>7. ControlInv'
    <2> SUFFICES ASSUME NEW r \in Peer
                 PROVE  /\ main'[r] \in {"new", "recv", "send"} => round[r] < Rounds
                        /\ main'[r] \in Ended => round[r] = Rounds /\ half[r] = "reduce"
                        /\ main'[r] = "new" => round[r] = 0 /\ half[r] = "reduce" /\ ~listening[r]
                        /\ todo'[r] \subseteq (IF main'[r] = "send" THEN Nexts(G(half[r])', r) ELSE {})
                        /\ stopped[r] => main'[r] \in {"join", "stopped"}
        BY <1>2 DEF ControlInv
    <2>1. /\ main[r] \in {"new", "recv", "send"} => round[r] < Rounds
          /\ main[r] \in Ended => round[r] = Rounds /\ half[r] = "reduce"
          /\ main[r] = "new" => round[r] = 0 /\ half[r] = "reduce" /\ ~listening[r]
          /\ todo[r] \subseteq (IF main[r] = "send" THEN Nexts(G(half[r]), r) ELSE {})
          /\ stopped[r] => main[r] \in {"join", "stopped"}
        BY DEF LifeInv, ControlInv
    <2>2. half[r] \in Half /\ G(half[r])' = G(half[r])
        BY <1>1, <1>2, <1>6
    <2>3. CASE r = p
        <3>1. "send" \notin Ended
            BY DEF Ended
        <3> QED BY <1>2, <1>4, <2>1, <2>2, <2>3, <3>1
    <2>4. CASE r # p
        BY <1>4, <2>1, <2>2, <2>4
    <2> QED BY <2>3, <2>4
<1>8. ASSUME NEW h \in Half, NEW a \in Peer, NEW b \in Peer
      PROVE  /\ Sent(h, a, b)' = Sent(h, a, b)
             /\ InBox(h, a, b)' + Used(h, a, b)' = InBox(h, a, b) + Used(h, a, b)
             /\ InBox(h, a, b)' \in Nat /\ Used(h, a, b)' \in Nat
    <2>0. round[p] \in Nat /\ (Edge(h, a, b)' <=> Edge(h, a, b))
        BY <1>1, <1>6
    <2>1. Sent(h, a, b)' = Sent(h, a, b)
        <3>1. CASE a # p
            BY <1>6, <3>1
        <3>2. CASE a = p
            <4>1. Edge(h, p, b) /\ h = k => b \in todo'[p]
                BY <1>4 DEF Edge
            <4>2. half'[p] = half[p] /\ round'[p] = round[p] /\ main'[p] = "send" /\ main[p] = "recv"
                BY <1>2, <1>4
            <4> QED BY <2>0, <3>2, <4>1, <4>2 DEF Sent, Bit
        <3> QED BY <3>1, <3>2
    <2>2. InBox(h, a, b) \in Nat /\ Used(h, a, b) \in Nat
        BY FlowTypes DEF LifeInv
    <2>3. CASE b # p
        BY <1>6, <2>1, <2>2, <2>3
    <2>4. CASE b = p
        <3>1. half'[p] = half[p] /\ round'[p] = round[p] /\ main'[p] = "send" /\ main[p] = "recv"
            BY <1>2, <1>4
        <3>2. Used(h, a, b)' = Used(h, a, b) + Bit(h = k /\ Edge(h, a, p))
            BY <2>0, <2>4, <3>1 DEF Used, Bit
        <3>3. InBox(h, a, b) = InBox(h, a, b)' + Bit(h = k /\ Edge(h, a, p))
            <4>1. <<a, h>> \in Awaited(p, k) <=> h = k /\ Edge(h, a, p)
                BY NextsPrevs DEF Awaited, Edge
            <4>2. <<a, h>> \in got'[p] <=> <<a, h>> \in got[p] /\ ~(h = k /\ Edge(h, a, p))
                BY <1>4, <4>1
            <4>3. h = k /\ Edge(h, a, p) => <<a, h>> \in got[p]
                BY <1>2, <4>1
            <4> QED BY <2>4, <4>2, <4>3 DEF InBox, Bit
        <3>4. Bit(h = k /\ Edge(h, a, p)) \in Nat /\ InBox(h, a, b)' \in Nat
            BY DEF Bit, InBox
        <3> QED BY <2>1, <2>2, <3>2, <3>3, <3>4
    <2> QED BY <2>3, <2>4
<1>9. FlowInv'
    BY <1>2, <1>8, FlowKept
<1>10. ASSUME NEW d \in Conn PROVE ConnOK(d)'
    <2>0. d[1] \in Peer /\ d[2] \in Peer
        BY ConnFacts
    <2>1. ConnOK(d)
        BY DEF LifeInv, ConnInv
    <2>2. conn'[d] = conn[d] /\ hand'[d] = hand[d] /\ wire'[d] = wire[d] /\ listening' = listening
        BY <1>2
    <2>3. conn[d] \in Dialling => main'[d[1]] = "send" /\ d[2] \in todo'[d[1]]
        BY <1>2, <1>4, <2>0, <2>1 DEF ConnOK
    <2>4. main[d[2]] = "stopped" => main'[d[2]] = "stopped"
        BY <1>2, <1>4, <2>0
    <2>5. \A h \in Half : Sent(h, d[1], d[2])' = Sent(h, d[1], d[2])
        BY <1>8, <2>0
    <2> QED BY <2>1, <2>2, <2>3, <2>4, <2>5 DEF ConnOK
<1> QED BY <1>5, <1>7, <1>9, <1>10 DEF LifeInv, ConnInv

(* Sending a message on an open connection keeps the invariant. *)
LEMMA SendStep ==
    ASSUME LifeInv, NEW e \in Conn, Send(e[1], e[2])
    PROVE  LifeInv'
<1> DEFINE p == e[1]
           q == e[2]
           k == half[p]
<1>0. p \in Peer /\ q \in Peer /\ p # q /\ e = <<p, q>>
    BY ConnFacts
<1>1. /\ main \in [Peer -> {"new", "recv", "send", "stop", "stop_server", "join", "stopped"}]
      /\ half \in [Peer -> Half] /\ todo \in [Peer -> SUBSET Peer]
      /\ wire \in [Conn -> Seq(Half)] /\ round \in [Peer -> 0 .. Rounds]
    BY DEF LifeInv, TypeOK
<1>2. /\ main[p] = "send" /\ q \in todo[p] /\ conn[e] = "open"
      /\ wire' = [wire EXCEPT ![e] = Append(wire[e], k)]
      /\ todo' = [todo EXCEPT ![p] = todo[p] \ {q}]
      /\ UNCHANGED <<build, strategy, main, half, round, got, listening, stopped, dialing, conn, hand>>
    BY <1>0 DEF Send
<1>3. k \in Half /\ wire[e] \in Seq(Half) /\ round[p] \in Nat
    BY <1>0, <1>1
<1>4. /\ todo'[p] = todo[p] \ {q}
      /\ \A r \in Peer \ {p} : todo'[r] = todo[r]
      /\ wire'[e] = Append(wire[e], k)
      /\ \A d \in Conn \ {e} : wire'[d] = wire[d]
    BY <1>0, <1>1, <1>2
<1>5. TypeOK'
    <2>1. todo' \in [Peer -> SUBSET Peer]
        BY <1>0, <1>1, <1>2
    <2>2. wire' \in [Conn -> Seq(Half)]
        BY <1>1, <1>2, <1>3
    <2> QED BY <1>2, <2>1, <2>2 DEF LifeInv, TypeOK
<1>6. /\ \A h \in Half : G(h)' = G(h)
      /\ \A h \in Half, a, b \in Peer :
            /\ Edge(h, a, b)' <=> Edge(h, a, b)
            /\ a # p => Sent(h, a, b)' = Sent(h, a, b)
            /\ b # p => Used(h, a, b)' = Used(h, a, b) /\ InBox(h, a, b)' = InBox(h, a, b)
    BY <1>0, <1>2, <1>4, OthersFlow
<1>7. ControlInv'
    <2>1. \A r \in Peer : half[r] \in Half /\ todo'[r] \subseteq todo[r]
        BY <1>1, <1>4
    <2> QED BY <1>2, <1>6, <2>1 DEF LifeInv, ControlInv
<1>8. ASSUME NEW h \in Half, NEW a \in Peer, NEW b \in Peer
      PROVE  /\ Sent(h, a, b)' = Sent(h, a, b) + Bit(a = p /\ b = q /\ h = k)
             /\ Used(h, a, b)' = Used(h, a, b)
             /\ InBox(h, a, b)' = InBox(h, a, b)
    <2>0. Edge(h, a, b)' <=> Edge(h, a, b)
        BY <1>6
    <2>1. Used(h, a, b)' = Used(h, a, b) /\ InBox(h, a, b)' = InBox(h, a, b)
        BY <1>2, <2>0 DEF Used, InBox
    <2>2. Sent(h, a, b) \in Nat
        BY FlowTypes DEF LifeInv
    <2>3. CASE a # p
        BY <1>6, <2>1, <2>2, <2>3 DEF Bit
    <2>4. CASE a = p
        <3>1. h = k /\ b = q => Edge(h, p, b)
            BY <1>0, <1>2, SentAtMost DEF LifeInv
        <3>2. b \notin todo'[p] <=> b \notin todo[p] \/ b = q
            BY <1>4
        <3>3. half'[p] = half[p] /\ round'[p] = round[p] /\ main'[p] = "send"
            BY <1>2
        <3>4. h = "reduce" /\ half[p] = "broadcast" => h # k
            OBVIOUS
        <3>5. Sent(h, a, b)' = Sent(h, a, b) + Bit(a = p /\ b = q /\ h = k)
            <4>1. CASE ~Edge(h, p, b)
                BY <2>0, <2>4, <3>1, <4>1 DEF Sent, Bit
            <4>2. CASE Edge(h, p, b)
                <5>1. Sent(h, a, b) = round[p] + Bit(\/ h = "reduce" /\ half[p] = "broadcast"
                                                     \/ half[p] = h /\ b \notin todo[p])
                    BY <1>2, <2>4, <4>2 DEF Sent
                <5>2. Sent(h, a, b)' = round[p] + Bit(\/ h = "reduce" /\ half[p] = "broadcast"
                                                      \/ half[p] = h /\ (b \notin todo[p] \/ b = q))
                    BY <2>0, <2>4, <3>2, <3>3, <4>2 DEF Sent
                <5> QED BY <1>2, <1>3, <2>4, <5>1, <5>2 DEF Bit
            <4> QED BY <4>1, <4>2
        <3> QED BY <2>1, <3>5
    <2> QED BY <2>3, <2>4
<1>9. FlowInv'
    <2> SUFFICES ASSUME NEW d \in Conn
                 PROVE  (Sent("reduce", d[1], d[2]) + Sent("broadcast", d[1], d[2]) =
                           Len(wire[d]) + InBox("reduce", d[1], d[2]) + InBox("broadcast", d[1], d[2])
                                + Used("reduce", d[1], d[2]) + Used("broadcast", d[1], d[2]))'
        BY DEF FlowInv
    <2> DEFINE s  == Sent("reduce", d[1], d[2])
               t  == Sent("broadcast", d[1], d[2])
               L  == Len(wire[d])
               i  == InBox("reduce", d[1], d[2])
               j  == InBox("broadcast", d[1], d[2])
               u  == Used("reduce", d[1], d[2])
               v  == Used("broadcast", d[1], d[2])
               s1 == Sent("reduce", d[1], d[2])'
               t1 == Sent("broadcast", d[1], d[2])'
               L1 == Len(wire'[d])
    <2>0. d[1] \in Peer /\ d[2] \in Peer /\ d = <<d[1], d[2]>>
        BY ConnFacts
    <2>1. s + t = L + i + j + u + v
        BY DEF LifeInv, FlowInv
    <2>2. /\ s \in Nat /\ t \in Nat /\ i \in Nat /\ j \in Nat /\ u \in Nat /\ v \in Nat
        BY <2>0, FlowTypes DEF LifeInv
    <2>3. "reduce" \in Half /\ "broadcast" \in Half
        BY Constants
    <2>4. L \in Nat
        BY <1>1
    <2>5. /\ s1 = s + Bit(d[1] = p /\ d[2] = q /\ "reduce" = k)
          /\ t1 = t + Bit(d[1] = p /\ d[2] = q /\ "broadcast" = k)
        BY <1>8, <2>0, <2>3
    <2>6. /\ InBox("reduce", d[1], d[2])' = i /\ InBox("broadcast", d[1], d[2])' = j
          /\ Used("reduce", d[1], d[2])' = u /\ Used("broadcast", d[1], d[2])' = v
        BY <1>8, <2>0, <2>3
    <2>7. s1 + t1 = L1 + i + j + u + v
        <3>1. CASE d # e
            <4>1. L1 = L
                BY <1>4, <3>1
            <4>2. s1 = s /\ t1 = t
                BY <1>0, <2>0, <2>2, <2>5, <3>1 DEF Bit
            <4> QED BY <2>1, <4>1, <4>2
        <3>2. CASE d = e
            <4>1. L1 = L + 1
                BY <1>3, <1>4, <3>2
            <4>2. s1 + t1 = s + t + 1
                <5>1. CASE k = "reduce"
                    BY <2>2, <2>5, <3>2, <5>1 DEF Bit
                <5>2. CASE k = "broadcast"
                    BY <2>2, <2>5, <3>2, <5>2 DEF Bit
                <5> QED BY <1>3, <5>1, <5>2, Constants
            <4> HIDE DEF s, t, L, i, j, u, v, s1, t1, L1
            <4> QED BY <2>1, <2>2, <2>4, <4>1, <4>2
        <3> QED BY <3>1, <3>2
    <2> QED BY <2>6, <2>7
<1>10. ASSUME NEW d \in Conn PROVE ConnOK(d)'
    <2>0. d[1] \in Peer /\ d[2] \in Peer /\ d = <<d[1], d[2]>>
        BY ConnFacts
    <2>1. ConnOK(d)
        BY DEF LifeInv, ConnInv
    <2>2. conn'[d] = conn[d] /\ hand'[d] = hand[d] /\ main' = main /\ listening' = listening
        BY <1>2
    <2>3. CASE d = e
        <3>1. conn[d] \notin Dialling /\ conn[d] = "open"
            BY <1>2, <2>3 DEF Dialling
        <3>2. wire'[d] # <<>>
            BY <1>3, <1>4, <2>3
        <3> QED BY <2>1, <2>2, <3>1, <3>2 DEF ConnOK
    <2>4. CASE d # e
        <3>1. \A h \in Half : Sent(h, d[1], d[2])' = Sent(h, d[1], d[2])
            <4> SUFFICES ASSUME NEW h \in Half PROVE Sent(h, d[1], d[2])' = Sent(h, d[1], d[2])
                OBVIOUS
            <4>1. Sent(h, d[1], d[2]) \in Nat
                BY <2>0, FlowTypes DEF LifeInv
            <4>2. Bit(d[1] = p /\ d[2] = q /\ h = k) = 0
                BY <1>0, <2>0, <2>4 DEF Bit
            <4> QED BY <1>8, <2>0, <4>1, <4>2
        <3>2. wire'[d] = wire[d]
            BY <1>4, <2>4
        <3>3. d[2] \in todo[d[1]] => d[2] \in todo'[d[1]]
            BY <1>0, <1>4, <2>0, <2>4
        <3> QED BY <2>1, <2>2, <3>1, <3>2, <3>3 DEF ConnOK
    <2> QED BY <2>3, <2>4
<1> QED BY <1>5, <1>7, <1>9, <1>10 DEF LifeInv, ConnInv

(* Going on to the next half or round, or to stop(), keeps the invariant. *)
LEMMA SendDoneStep ==
    ASSUME LifeInv, NEW p \in Peer, SendDone(p)
    PROVE  LifeInv'
<1>1. /\ main \in [Peer -> {"new", "recv", "send", "stop", "stop_server", "join", "stopped"}]
      /\ half \in [Peer -> Half] /\ round \in [Peer -> 0 .. Rounds]
    BY DEF LifeInv, TypeOK
<1>2. /\ main[p] = "send" /\ todo[p] = {}
      /\ UNCHANGED <<build, strategy, todo, got, listening, stopped, dialing, conn, wire, hand>>
    BY DEF SendDone
<1>3. half[p] \in {"reduce", "broadcast"} /\ round[p] \in Nat /\ round[p] < Rounds
    BY <1>1, <1>2, Constants DEF LifeInv, ControlInv
<1>4. /\ half[p] = "reduce" =>
            /\ half' = [half EXCEPT ![p] = "broadcast"]
            /\ main' = [main EXCEPT ![p] = "recv"]
            /\ round' = round
      /\ half[p] = "broadcast" =>
            /\ half' = [half EXCEPT ![p] = "reduce"]
            /\ round' = [round EXCEPT ![p] = round[p] + 1]
            /\ main' = [main EXCEPT ![p] = IF round[p] + 1 < Rounds THEN "recv" ELSE "stop"]
    BY DEF SendDone
<1>5. /\ half[p] = "reduce" => half'[p] = "broadcast" /\ main'[p] = "recv" /\ round'[p] = round[p]
      /\ half[p] = "broadcast" =>
            /\ half'[p] = "reduce" /\ round'[p] = round[p] + 1
            /\ main'[p] = IF round[p] + 1 < Rounds THEN "recv" ELSE "stop"
      /\ \A r \in Peer \ {p} : half'[r] = half[r] /\ main'[r] = main[r] /\ round'[r] = round[r]
    BY <1>1, <1>3, <1>4
<1>6. TypeOK'
    <2>1. main' \in [Peer -> {"new", "recv", "send", "stop", "stop_server", "join", "stopped"}]
        BY <1>1, <1>3, <1>4
    <2>2. half' \in [Peer -> Half]
        BY <1>1, <1>3, <1>4, Constants
    <2>3. round' \in [Peer -> 0 .. Rounds]
        <3>1. round[p] + 1 \in 0 .. Rounds
            BY <1>3, Constants
        <3> QED BY <1>1, <1>3, <1>4, <3>1
    <2> QED BY <1>2, <2>1, <2>2, <2>3 DEF LifeInv, TypeOK
<1>7. /\ \A h \in Half : G(h)' = G(h)
      /\ \A h \in Half, a, b \in Peer :
            /\ Edge(h, a, b)' <=> Edge(h, a, b)
            /\ a # p => Sent(h, a, b)' = Sent(h, a, b)
            /\ b # p => Used(h, a, b)' = Used(h, a, b) /\ InBox(h, a, b)' = InBox(h, a, b)
    BY <1>2, <1>5, OthersFlow
<1>8. ControlInv'
    <2> SUFFICES ASSUME NEW r \in Peer
                 PROVE  /\ main'[r] \in {"new", "recv", "send"} => round'[r] < Rounds
                        /\ main'[r] \in Ended => round'[r] = Rounds /\ half'[r] = "reduce"
                        /\ main'[r] = "new" => round'[r] = 0 /\ half'[r] = "reduce" /\ ~listening[r]
                        /\ todo[r] \subseteq (IF main'[r] = "send" THEN Nexts(G(half[r])', r) ELSE {})
                        /\ stopped[r] => main'[r] \in {"join", "stopped"}
        BY <1>2 DEF ControlInv
    <2>1. /\ main[r] \in {"new", "recv", "send"} => round[r] < Rounds
          /\ main[r] \in Ended => round[r] = Rounds /\ half[r] = "reduce"
          /\ main[r] = "new" => round[r] = 0 /\ half[r] = "reduce" /\ ~listening[r]
          /\ todo[r] \subseteq (IF main[r] = "send" THEN Nexts(G(half[r]), r) ELSE {})
          /\ stopped[r] => main[r] \in {"join", "stopped"}
        BY DEF LifeInv, ControlInv
    <2>2. CASE r = p
        <3>1. "recv" \notin Ended /\ "stop" \in Ended
            BY DEF Ended
        <3>2. todo[r] = {} /\ ~stopped[r]
            BY <1>2, <2>1, <2>2
        <3>3. CASE half[p] = "reduce"
            BY <1>3, <1>5, <2>2, <3>1, <3>2, <3>3
        <3>4. CASE half[p] = "broadcast"
            BY <1>3, <1>5, <2>2, <3>1, <3>2, <3>4, Constants
        <3> QED BY <1>3, <3>3, <3>4
    <2>3. CASE r # p
        <3>1. half[r] \in Half /\ half'[r] = half[r]
            BY <1>1, <1>5, <2>3
        <3>2. G(half[r])' = G(half[r])
            BY <1>7, <3>1
        <3> QED BY <1>5, <2>1, <2>3, <3>2
    <2> QED BY <2>2, <2>3
<1>9. ASSUME NEW h \in Half, NEW a \in Peer, NEW b \in Peer
      PROVE  /\ Sent(h, a, b)' = Sent(h, a, b)
             /\ Used(h, a, b)' = Used(h, a, b)
             /\ InBox(h, a, b)' = InBox(h, a, b)
    <2>0. (Edge(h, a, b)' <=> Edge(h, a, b)) /\ h \in {"reduce", "broadcast"}
        BY <1>7, Constants
    <2>1. InBox(h, a, b)' = InBox(h, a, b)
        BY <1>2 DEF InBox
    <2>2. main'[p] # "send"
        BY <1>3, <1>5
    <2>3. Sent(h, a, b)' = Sent(h, a, b)
        <3>1. CASE a # p
            BY <1>7, <3>1
        <3>2. CASE a = p /\ half[p] = "reduce"
            BY <1>2, <1>3, <1>5, <2>0, <2>2, <3>2 DEF Sent, Bit
        <3>3. CASE a = p /\ half[p] = "broadcast"
            BY <1>2, <1>3, <1>5, <2>0, <2>2, <3>3 DEF Sent, Bit
        <3> QED BY <1>3, <3>1, <3>2, <3>3
    <2>4. Used(h, a, b)' = Used(h, a, b)
        <3>1. CASE b # p
            BY <1>7, <3>1
        <3>2. CASE b = p /\ half[p] = "reduce"
            BY <1>2, <1>3, <1>5, <2>0, <2>2, <3>2 DEF Used, Bit
        <3>3. CASE b = p /\ half[p] = "broadcast"
            BY <1>2, <1>3, <1>5, <2>0, <2>2, <3>3 DEF Used, Bit
        <3> QED BY <1>3, <3>1, <3>2, <3>3
    <2> QED BY <2>1, <2>3, <2>4
<1>10. FlowInv'
    <2>1. \A h \in Half, a, b \in Peer : InBox(h, a, b) \in Nat /\ Used(h, a, b) \in Nat
        BY FlowTypes DEF LifeInv
    <2> QED BY <1>2, <1>9, <2>1, FlowKept
<1>11. ASSUME NEW d \in Conn PROVE ConnOK(d)'
    <2>0. d[1] \in Peer /\ d[2] \in Peer
        BY ConnFacts
    <2>1. ConnOK(d)
        BY DEF LifeInv, ConnInv
    <2>2. /\ conn'[d] = conn[d] /\ hand'[d] = hand[d] /\ wire'[d] = wire[d]
          /\ listening' = listening /\ todo' = todo
        BY <1>2
    <2>3. conn[d] \in Dialling => main'[d[1]] = "send" /\ d[2] \in todo[d[1]]
        BY <1>2, <1>5, <2>0, <2>1 DEF ConnOK
    <2>4. main[d[2]] = "stopped" => main'[d[2]] = "stopped"
        BY <1>2, <1>5, <2>0
    <2>5. \A h \in Half : Sent(h, d[1], d[2])' = Sent(h, d[1], d[2])
        BY <1>9, <2>0
    <2> QED BY <2>1, <2>2, <2>3, <2>4, <2>5 DEF ConnOK
<1> QED BY <1>6, <1>8, <1>10, <1>11 DEF LifeInv, ConnInv

(* The invariant survives a step that changes nothing. *)
LEMMA LifeInvStutter ==
    ASSUME LifeInv, UNCHANGED vars
    PROVE  LifeInv'
<1>1. UNCHANGED <<build, strategy, half, round, todo, got, dialing, wire, hand, main, listening, stopped, conn>>
    BY DEF vars, mainVars
<1>2. /\ main \in [Peer -> {"new", "recv", "send", "stop", "stop_server", "join", "stopped"}]
      /\ listening \in [Peer -> BOOLEAN] /\ stopped \in [Peer -> BOOLEAN]
      /\ conn \in [Conn -> {"none", "connecting", "backlog", "accepted", "open", "closed"}]
      /\ \A q \in Peer : stopped[q] => main[q] \in {"join", "stopped"}
    BY DEF LifeInv, TypeOK, ControlInv
<1> QED BY <1>1, <1>2, OwnerStep

----------------------------------------------------------------------------
(* The theorems *)

(* The messages along every connection are accounted for, and the state of  *)
(* each connection, of its handler and of the two peers agree, in every      *)
(* reachable state of every session.                                        *)
THEOREM LifeInvariant == Spec => []LifeInv
<1>1. LifeInv /\ [Next]_vars => LifeInv'
    <2> SUFFICES ASSUME LifeInv, [Next]_vars PROVE LifeInv'
        OBVIOUS
    <2>1. CASE UNCHANGED vars
        BY <2>1, LifeInvStutter
    <2>2. CASE \E p \in Peer : PeerStep(p)
        BY <2>2, OwnerSteps, RecvDoneStep, SendDoneStep DEF PeerStep
    <2>3. CASE \E e \in Conn : ConnStep(e)
        BY <2>3, DialSteps, SendStep DEF ConnStep
    <2>4. CASE \E e \in Conn : ServerStep(e)
        BY <2>4, AcceptStep, HandlerSteps, ReadMessageStep DEF ServerStep
    <2>5. CASE \E p \in Peer : Bind(p)
        BY <2>5, OwnerSteps
    <2> QED BY <2>1, <2>2, <2>3, <2>4, <2>5 DEF Next, Terminated
<1> QED BY <1>1, LifeInvInit, PTL DEF Spec

(* Every variable has its type; no peer runs more than its operations. *)
THEOREM LifeTypeCorrect == Spec => []TypeOK
<1>1. LifeInv => TypeOK
    BY DEF LifeInv
<1> QED BY <1>1, LifeInvariant, PTL

(* Nobody is still in wait_connect or upgrade_to towards a peer that has     *)
(* finished its operations and stops: it has used every message it will      *)
(* ever be sent, so whoever sends to it has its connection.                 *)
THEOREM DialsEndBeforeStop == Spec => []NoDialToStopped
<1>1. LifeInv => NoDialToStopped
    <2> SUFFICES ASSUME LifeInv, NEW e \in Conn, main[e[2]] \in Ended
                 PROVE  conn[e] \in {"none", "open", "closed"}
        BY DEF NoDialToStopped, Ended
    <2>1. conn[e] \in {"none", "connecting", "backlog", "accepted", "open", "closed"}
        BY DEF LifeInv, TypeOK
    <2> QED BY <2>1, Drained DEF Dialling
<1> QED BY <1>1, LifeInvariant, PTL

(* In a session of several peers, a peer that stops its server has no        *)
(* handler in a handshake or in the middle of a message, so none throws out  *)
(* of recv_all, and its acceptor has been opened: it has used a message that *)
(* came in through it.                                                      *)
THEOREM StopIsClean == N > 1 => (Spec => []NoHandlerThrows)
<1> SUFFICES ASSUME N > 1 PROVE Spec => []NoHandlerThrows
    OBVIOUS
<1>1. LifeInv => NoHandlerThrows
    <2> SUFFICES ASSUME LifeInv PROVE NoHandlerThrows
        OBVIOUS
    <2>1. ASSUME NEW e \in Conn
          PROVE  /\ hand[e] # "threw"
                 /\ stopped[e[2]] => hand[e] \notin {"upgrade", "message"}
        <3>1. ConnOK(e) /\ e[2] \in Peer
            BY ConnFacts DEF LifeInv, ConnInv
        <3>2. stopped[e[2]] => main[e[2]] \in Ended
            BY <3>1 DEF LifeInv, ControlInv, Ended
        <3>3. "accepted" \in Dialling
            BY DEF Dialling
        <3> QED BY <3>1, <3>2, <3>3, Drained DEF ConnOK
    <2>2. ASSUME NEW q \in Peer, main[q] \in {"stop_server", "join"}
          PROVE  listening[q]
        <3>1. PICK h \in Half, p \in Peer : <<p, q>> \in Conn /\ Edge(h, p, q)
            BY SomeoneSends
        <3> DEFINE e == <<p, q>>
        <3>2. main[q] \in Ended /\ main[q] # "stopped" /\ TypeOK /\ ControlInv
            BY <2>2 DEF Ended, LifeInv
        <3>3. e \in Conn /\ e[1] = p /\ e[2] = q
            BY <3>1
        <3>4. Used(h, p, q) = Rounds
            BY <3>1, <3>2, UsedAll
        <3>5. \A x \in Half : Used(x, p, q) \in Nat /\ InBox(x, p, q) \in Nat /\ Sent(x, p, q) \in Nat
            BY <3>2, FlowTypes
        <3>6. Sent("reduce", p, q) + Sent("broadcast", p, q) =
                 Len(wire[e]) + InBox("reduce", p, q) + InBox("broadcast", p, q)
                              + Used("reduce", p, q) + Used("broadcast", p, q)
            BY <3>3 DEF LifeInv, FlowInv
        <3>7. Len(wire[e]) \in Nat
            BY <3>2, <3>3 DEF TypeOK
        <3>8. \E x \in Half : Sent(x, p, q) # 0
            <4>1. "reduce" \in Half /\ "broadcast" \in Half /\ (h = "reduce" \/ h = "broadcast")
                BY Constants
            <4>2. /\ Used("reduce", p, q) \in Nat /\ Used("broadcast", p, q) \in Nat
                  /\ InBox("reduce", p, q) \in Nat /\ InBox("broadcast", p, q) \in Nat
                  /\ Sent("reduce", p, q) \in Nat /\ Sent("broadcast", p, q) \in Nat
                BY <3>5, <4>1
            <4>3. Sent("reduce", p, q) # 0 \/ Sent("broadcast", p, q) # 0
                <5>1. Used("reduce", p, q) > 0 \/ Used("broadcast", p, q) > 0
                    BY <3>4, <4>1, Constants
                <5> DEFINE s == Sent("reduce", p, q)
                           t == Sent("broadcast", p, q)
                           l == Len(wire[e])
                           i == InBox("reduce", p, q)
                           j == InBox("broadcast", p, q)
                           u == Used("reduce", p, q)
                           v == Used("broadcast", p, q)
                <5>2. /\ s \in Nat /\ t \in Nat /\ l \in Nat /\ i \in Nat /\ j \in Nat /\ u \in Nat /\ v \in Nat
                      /\ s + t = l + i + j + u + v /\ (u > 0 \/ v > 0)
                    BY <3>6, <3>7, <4>2, <5>1
                <5> HIDE DEF s, t, l, i, j, u, v
                <5>3. s # 0 \/ t # 0
                    BY <5>2
                <5> QED BY <5>3 DEF s, t
            <4> QED BY <4>1, <4>3
        <3>9. ConnOK(e)
            BY <3>3 DEF LifeInv, ConnInv
        <3>10. conn[e] \in {"open", "closed"}
            BY <3>3, <3>8, <3>9 DEF ConnOK
        <3> QED BY <3>2, <3>3, <3>9, <3>10 DEF ConnOK
    <2> QED BY <2>1, <2>2 DEF NoHandlerThrows
<1> QED BY <1>1, LifeInvariant, PTL

============================================================================
