----------------------------- MODULE SplitWork -----------------------------
(***************************************************************************)
(* split_work, with which every all_reduce begins on every peer: the data   *)
(* is cut into chunks and each chunk is given a pair of graphs, picked by   *)
(* the hash of its name.  Checked for every session of up to MaxN peers,    *)
(* both strategies, every element type, up to MaxCount elements and every   *)
(* value of the hash up to MaxHash.                                         *)
(***************************************************************************)
EXTENDS Topology, Partition

CONSTANTS
    MaxN,       \* largest session
    MaxHash,    \* largest value of name_based_hash tried
    MaxCount,   \* most elements in a workspace
    ChunkSize,  \* bytes in a chunk (1 << 20 in session::all_reduce)
    Types       \* element types tried

ASSUME BoundsAssumption == {MaxN, ChunkSize} \subseteq Nat \ {0} /\ MaxHash \in Nat /\ MaxCount \in Nat
ASSUME TypesAssumption == Types \subseteq DOMAIN DtypeSize
(* A chunk holds a whole number of elements of every type. *)
ASSUME ChunkAssumption == \A t \in Types : ChunkSize % DtypeSize[t] = 0

VARIABLES
    n,          \* number of peers
    strategy,   \* KUNGFU_ALLREDUCE_STRATEGY
    count,      \* elements of the workspace
    dt,         \* their type
    pc,         \* "split" before w.split, "choose" in the loop, "fpe" or "done"
    ws,         \* the chunks
    pw          \* the graph pairs of the first chunks

vars == <<n, strategy, count, dt, pc, ws, pw>>

Pairs == GraphPairList(strategy, n)

(* w.split(k); even_partition divides by k, which traps when k is 0. *)
SplitStep ==
    LET k == CeilDiv(DataSize(count, dt), ChunkSize)
    IN  /\ pc = "split"
        /\ IF k = 0 THEN pc' = "fpe" /\ UNCHANGED ws
                    ELSE pc' = "choose" /\ ws' = Split(count, dt, k)
        /\ UNCHANGED <<n, strategy, count, dt, pw>>

(* One round of the loop: name_based_hash gives some number, the same on    *)
(* every peer since it depends on the name only.                            *)
ChooseStep ==
    /\ pc = "choose"
    /\ IF Len(pw) < Len(ws)
       THEN /\ \E hash \in 0 .. MaxHash : pw' = Append(pw, Choose(Pairs, hash))
            /\ UNCHANGED pc
       ELSE pc' = "done" /\ UNCHANGED pw
    /\ UNCHANGED <<n, strategy, count, dt, ws>>

Terminated == pc \in {"fpe", "done"} /\ UNCHANGED vars

Init ==
    /\ n \in 1 .. MaxN
    /\ strategy \in {"star", "ring"}
    /\ count \in 0 .. MaxCount
    /\ dt \in Types
    /\ pc = "split"
    /\ ws = <<>>
    /\ pw = <<>>

Next == SplitStep \/ ChooseStep \/ Terminated

Spec == Init /\ [][Next]_vars

----------------------------------------------------------------------------

(* Whatever pair choose() returns for a chunk, its reduce graph is a tree   *)
(* into a root that adds up at every vertex, and its broadcast graph is a   *)
(* tree out of the same root that adds up nowhere: every input reaches the  *)
(* root along one path, every peer is told the result once, and nobody      *)
(* waits in a circle.                                                       *)
PairIsTreePair ==
    \A k \in DOMAIN pw : \E r \in Vertex(n) : IsTreePair(n, pw[k], r)

(* session::broadcast takes the first pair whatever the strategy: its root  *)
(* is rank 0, and the ring has a pair for every root, so that the hash of   *)
(* the name spreads the chunks over all of them.                            *)
RootsAsExpected ==
    pc = "split" =>
        /\ IsOutTree(n, Pairs[1].broadcast_graph, 0)
        /\ strategy = "ring" =>
              \A r \in Vertex(n) : \E k \in 0 .. n - 1 :
                 IsOutTree(n, Choose(Pairs, k).broadcast_graph, r)

(* The chunks lie side by side in the buffers, in bytes, from the first     *)
(* byte to the last, and none of them is empty: every element is reduced    *)
(* once, and no two chunks have the same name, which would share a mailbox. *)
ChunksTile ==
    pc = "done" =>
        /\ ws # <<>>
        /\ ws[1].offset = 0
        /\ \A k \in 1 .. Len(ws) : ws[k].count > 0
        /\ \A k \in 1 .. Len(ws) :
              ws[k].offset + DataSize(ws[k].count, dt) =
                  IF k = Len(ws) THEN DataSize(count, dt) ELSE ws[k + 1].offset
        /\ \A k, l \in 1 .. Len(ws) : k # l => ws[k].name # ws[l].name

(* No chunk is larger than the chunk size, although parts are counted in    *)
(* elements and the number of parts in bytes; and the only workspace that   *)
(* makes even_partition divide by zero is an empty one.                     *)
ChunksFit ==
    /\ \A k \in DOMAIN ws : DataSize(ws[k].count, dt) <= ChunkSize
    /\ pc = "fpe" => count = 0

============================================================================
