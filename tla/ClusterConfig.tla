--------------------------- MODULE ClusterConfig ---------------------------
(***************************************************************************)
(* address.cpp: lists of peers and the configuration of a cluster.  A peer  *)
(* is its address and port; a configuration is its runners, one per host,    *)
(* and its workers, in the order of their ranks.  Text is the sequence of   *)
(* the numbers written in it.                                               *)
(***************************************************************************)
EXTENDS Integers, Sequences, FiniteSets, SequencesExt

CONSTANTS
    Addr,       \* IPv4 addresses, as numbers
    AddrBits,   \* width of an address (32)
    Port        \* ports of workers

ASSUME AddrAssumption == AddrBits \in {4 * k : k \in 1 .. 8} /\ Addr \subseteq 0 .. 2^AddrBits - 1
ASSUME PortAssumption == Port \subseteq 0 .. 2^16 - 1 /\ Port # {}

PeerId == [ipv4 : Addr, port : 0 .. 2^16 - 1]

(* peer_list::rank: the position of id, or the length of the list. *)
Rank(list, id) ==
    IF \E i \in DOMAIN list : list[i] = id
    THEN (CHOOSE i \in DOMAIN list : /\ list[i] = id
                                     /\ \A j \in 1 .. i - 1 : list[j] # id) - 1
    ELSE Len(list)

(* peer_list::operator- *)
Minus(list, other) == SelectSeq(list, LAMBDA id : ~Contains(other, id))

OctetBits == AddrBits \div 4

(* pack and unpack: an address and its four numbers, most significant first. *)
Pack(o) == FoldLeft(LAMBDA x, a : x * 2^OctetBits + a, 0, o)

Unpack(x) == [i \in 1 .. 4 |-> (x \div 2^(OctetBits * (4 - i))) % 2^OctetBits]

(* peer_id as text: "a.b.c.d:port" *)
ToText(id) == Append(Unpack(id.ipv4), id.port)

(* parse_peer_id: scanf cuts every number to the width of its field.  A     *)
(* parser returns the set of its result, empty for a text it does not take. *)
ParsePeerId(text) ==
    IF Len(text) < 5 THEN {}
    ELSE {[ipv4 |-> Pack([i \in 1 .. 4 |-> text[i] % 2^OctetBits]), port |-> text[5] % 2^16]}

(* parse_peer_list: of the list's texts; all or nothing. *)
ParsePeerList(texts) ==
    IF \E i \in DOMAIN texts : ParsePeerId(texts[i]) = {} THEN {}
    ELSE {[i \in DOMAIN texts |-> CHOOSE id \in ParsePeerId(texts[i]) : TRUE]}

(* peer_list::gen: consecutive ports of the local host. *)
Gen(n, localhost) == [i \in 1 .. n |-> [ipv4 |-> localhost, port |-> 10000 + i - 1]]

(* peer::from_env: the peer and the stage that a process finds in its       *)
(* environment.  What does not parse leaves it on its own.                  *)
Single(localhost) ==
    [self |-> Gen(1, localhost)[1],
     stage |-> [version |-> 0, cluster |-> [runners |-> <<>>, workers |-> Gen(1, localhost)]]]

FromKungfuEnv(env, localhost) ==
    LET self    == ParsePeerId(env.self)
        peers   == ParsePeerList(env.peers)
        runners == ParsePeerList(env.runners)
    IN  IF {} \in {self, peers, runners} THEN Single(localhost)
        ELSE CHOOSE r \in [self : self, stage : [version : {env.version},
                                                 cluster : [runners : runners, workers : peers]]] : TRUE

(* size and rank are the sets of what parse_env_int returns, empty for a    *)
(* variable that is missing or empty.                                       *)
FromOmpiEnv(env, localhost) ==
    IF {} \in {env.size, env.rank} THEN Single(localhost)
    ELSE LET ps == Gen(CHOOSE n \in env.size : TRUE, localhost)
         IN  [self |-> ps[(CHOOSE r \in env.rank : TRUE) + 1],
              stage |-> [version |-> 0, cluster |-> [runners |-> <<>>, workers |-> ps]]]

FromEnv(env, localhost) ==
    CASE env.by = "kungfu" -> FromKungfuEnv(env, localhost)
      [] env.by = "ompi"   -> FromOmpiEnv(env, localhost)
      [] OTHER             -> Single(localhost)

(* The environment in which a runner starts worker w of a stage (external). *)
KungfuEnv(w, s) ==
    [by |-> "kungfu", self |-> ToText(w), version |-> s.version,
     peers |-> [i \in DOMAIN s.cluster.workers |-> ToText(s.cluster.workers[i])],
     runners |-> [i \in DOMAIN s.cluster.runners |-> ToText(s.cluster.runners[i])]]

(* next_unused: the first free port after the least one in use, in 16 bits. *)
(* Of an empty vector, which has no memory, it reads through a null pointer: *)
(* there is no result, the process dies.                                    *)
NextUnused(used) ==
    IF used = {} THEN {}
    ELSE LET least == CHOOSE x \in used : \A y \in used : x <= y
             next(k) == (least + k) % 2^16
         IN  {next(CHOOSE k \in 1 .. Cardinality(used) :
                       next(k) \notin used /\ \A j \in 1 .. k - 1 : next(j) \in used)}

(* used_ports[ipv4] *)
UsedPorts(workers, ipv4) ==
    {workers[i].port : i \in {j \in DOMAIN workers : workers[j].ipv4 = ipv4}}

(* The first of the runners' hosts with the fewest workers. *)
LeastLoaded(runners, workers) ==
    LET load(r) == Cardinality(UsedPorts(workers, r.ipv4))
        i == CHOOSE i \in DOMAIN runners :
                 /\ \A j \in DOMAIN runners : load(runners[i]) <= load(runners[j])
                 /\ \A j \in 1 .. i - 1 : load(runners[i]) < load(runners[j])
    IN  runners[i].ipv4

(* One round of resize's loop: the list of workers it leaves, if it does. *)
AddWorker(runners, workers) ==
    LET ipv4 == LeastLoaded(runners, workers)
    IN  {Append(workers, [ipv4 |-> ipv4, port |-> p]) : p \in NextUnused(UsedPorts(workers, ipv4))}

(* Mutant of Resize: shrinking keeps the last workers. *)
ResizeKeepingLast(c, newSize) ==
    LET old == Len(c.workers)
    IN  IF newSize <= old
        THEN {[c EXCEPT !.workers = SubSeq(@, old - newSize + 1, old)]}
        ELSE {c}

(* cluster_config::resize: a prefix of the workers, or new ones after them; *)
(* without runners it cannot grow.  Empty when the process dies in it.      *)
Resize(c, newSize) ==
    LET old == Len(c.workers)
        grown[k \in Nat] ==
            IF k = 0 THEN {c.workers}
            ELSE UNION {AddWorker(c.runners, ws) : ws \in grown[k - 1]}
    IN  CASE newSize <= old    -> {[c EXCEPT !.workers = SubSeq(@, 1, newSize)]}
          [] newSize > old /\ c.runners = <<>> -> {c}
          [] OTHER             -> {[c EXCEPT !.workers = ws] : ws \in grown[newSize - old]}

(* cluster_config::bytes: two counts of 4 bytes, then the peers, 6 bytes    *)
(* each, runners first.                                                     *)
Bytes(c) == <<Len(c.runners), Len(c.workers)>> \o c.runners \o c.workers

ByteSize(bs) == 2 * 4 + (Len(bs) - 2) * 6

(* cluster_config::from: nothing when the size does not fit the counts. *)
From(bs) ==
    LET c == [runners |-> SubSeq(bs, 3, 2 + bs[1]), workers |-> SubSeq(bs, 3 + bs[1], Len(bs))]
    IN  IF ByteSize(bs) = 2 * 4 + 6 * (bs[1] + bs[2]) THEN c ELSE {}

(* peer_to_json writes an address as an int, which turns the upper half of  *)
(* the addresses negative.                                                  *)
JsonInt(ipv4) == IF ipv4 >= 2^(AddrBits - 1) THEN ipv4 - 2^AddrBits ELSE ipv4

JsonPeer(id) == [IPv4 |-> JsonInt(id.ipv4), Port |-> id.port]

(* cluster_config::json *)
Json(c) ==
    LET list(ids) == [i \in DOMAIN ids |-> JsonPeer(ids[i])]
    IN  [Runners |-> list(c.runners), Workers |-> list(c.workers)]

(* The JSON that runners and operators write has addresses as they are      *)
(* (external).                                                              *)
GoJson(c) ==
    LET list(ids) == [i \in DOMAIN ids |-> [IPv4 |-> ids[i].ipv4, Port |-> ids[i].port]]
    IN  [Runners |-> list(c.runners), Workers |-> list(c.workers)]

(* GoReadConfigServer: the bytes of the configuration, or none: a decoder    *)
(* of unsigned numbers refuses negative ones.                               *)
GoReadConfigServer(js) ==
    LET id(p) == [ipv4 |-> p.IPv4, port |-> p.Port]
        ids(list) == [i \in DOMAIN list |-> id(list[i])]
    IN  IF \E p \in ToSet(js.Runners \o js.Workers) : p.IPv4 < 0 THEN {}
        ELSE {<<Len(js.Runners), Len(js.Workers)>> \o ids(js.Runners) \o ids(js.Workers)}

============================================================================
