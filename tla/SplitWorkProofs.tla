-------------------------- MODULE SplitWorkProofs --------------------------
(***************************************************************************)
(* split_work for every number of elements, every chunk size and every      *)
(* session: the chunks tile the workspace and fit, and the pairs of graphs  *)
(* are trees.                                                               *)
(***************************************************************************)
EXTENDS SplitWork, TopologyProofs

(* Division with a remainder. *)
LEMMA DivMod ==
    ASSUME NEW a \in Nat, NEW b \in Nat, b > 0
    PROVE  /\ a \div b \in Nat
           /\ a % b \in Nat
           /\ a % b < b
           /\ a = b * (a \div b) + (a % b)
<1>1. a \div b \in Nat
    OBVIOUS
<1>2. a % b \in Nat /\ a % b < b
    OBVIOUS
<1>3. a = b * (a \div b) + (a % b)
    OBVIOUS
<1> QED BY <1>1, <1>2, <1>3

(* A product is monotone in a factor. *)
LEMMA TimesMonotone ==
    ASSUME NEW x \in Int, NEW y \in Int, NEW b \in Nat, x <= y
    PROVE  x * b <= y * b
    OBVIOUS

(* ceil_div(a, b) parts of b cover a, and one part less does not. *)
LEMMA CeilDivCovers ==
    ASSUME NEW a \in Nat, NEW b \in Nat, b > 0
    PROVE  /\ CeilDiv(a, b) \in Nat
           /\ a <= CeilDiv(a, b) * b
           /\ a > 0 => CeilDiv(a, b) > 0 /\ (CeilDiv(a, b) - 1) * b < a
           /\ a = 0 => CeilDiv(a, b) = 0
<1> DEFINE q == a \div b
           m == a % b
<1>1. q \in Nat /\ m \in Nat /\ m < b /\ a = b * q + m
    BY DivMod
<1>2. CeilDiv(a, b) = IF m # 0 THEN q + 1 ELSE q
    BY <1>1 DEF CeilDiv
<1> HIDE DEF q, m
<1>3. (q + 1) * b = b * q + b /\ q * b = b * q /\ (q - 1) * b = b * q - b /\ b * q \in Nat
    BY <1>1
<1>4. (q + 1) - 1 = q
    BY <1>1
<1>5. q = 0 => b * q = 0
    BY <1>1
<1>6. a = 0 => q = 0 /\ m = 0
    <2>1. q > 0 => b * q >= b
        BY <1>1
    <2> QED BY <1>1, <1>3, <2>1
<1> QED BY <1>1, <1>2, <1>3, <1>4, <1>5, <1>6

----------------------------------------------------------------------------

(* Where part j of len elements in k parts begins. *)
At(len, k, j) ==
    LET d == Divide(len, k)
    IN  j * d.q + (IF j < d.r THEN j ELSE d.r)

(* Quotient and remainder as even_partition computes them. *)
LEMMA DivideFacts ==
    ASSUME NEW len \in Nat, NEW k \in Nat, k > 0
    PROVE  /\ Divide(len, k).q \in Nat
           /\ Divide(len, k).r \in Nat
           /\ Divide(len, k).r < k
           /\ len = k * Divide(len, k).q + Divide(len, k).r
<1>1. Divide(len, k).q = len \div k /\ Divide(len, k).r = len - k * (len \div k)
    BY DEF Divide
<1> DEFINE q == len \div k
           m == len % k
<1>2. q \in Nat /\ m \in Nat /\ m < k /\ len = k * q + m
    BY DivMod
<1> HIDE DEF q, m
<1>3. k * q \in Nat
    BY <1>2
<1>4. Divide(len, k).q = q /\ Divide(len, k).r = len - k * q
    BY <1>1 DEF q
<1> QED BY <1>2, <1>3, <1>4

(* The parts of even_partition start at At, from 0 to the length, one after *)
(* the other.                                                               *)
LEMMA AtFacts ==
    ASSUME NEW len \in Nat, NEW k \in Nat, k > 0
    PROVE  /\ At(len, k, 0) = 0
           /\ At(len, k, k) = len
           /\ \A j \in 0 .. k : At(len, k, j) \in Nat
           /\ \A j \in 0 .. k - 1 :
                 /\ PartSize(len, k, j) \in Nat
                 /\ At(len, k, j + 1) = At(len, k, j) + PartSize(len, k, j)
<1> DEFINE q == Divide(len, k).q
           r == Divide(len, k).r
<1>1. q \in Nat /\ r \in Nat /\ r < k /\ len = k * q + r
    BY DivideFacts
<1>2. \A j : At(len, k, j) = j * q + (IF j < r THEN j ELSE r)
    BY DEF At
<1>3. \A j : PartSize(len, k, j) = IF j < r THEN q + 1 ELSE q
    BY DEF PartSize
<1> HIDE DEF q, r
<1>4. \A j \in Nat : j * q \in Nat /\ (j + 1) * q = j * q + q
    BY <1>1
<1>5. At(len, k, 0) = 0
    BY <1>1, <1>2
<1>6. At(len, k, k) = len
    BY <1>1, <1>2
<1>7. ASSUME NEW j \in 0 .. k PROVE At(len, k, j) \in Nat
    BY <1>1, <1>2, <1>4
<1>8. ASSUME NEW j \in 0 .. k - 1
      PROVE  /\ PartSize(len, k, j) \in Nat
             /\ At(len, k, j + 1) = At(len, k, j) + PartSize(len, k, j)
    <2>1. j * q \in Nat /\ (j + 1) * q = j * q + q
        BY <1>4
    <2>2. PartSize(len, k, j) = (IF j < r THEN q + 1 ELSE q)
        BY <1>3
    <2>3. At(len, k, j) = j * q + (IF j < r THEN j ELSE r)
        BY <1>2
    <2>4. At(len, k, j + 1) = (j + 1) * q + (IF j + 1 < r THEN j + 1 ELSE r)
        BY <1>2
    <2> QED BY <1>1, <2>1, <2>2, <2>3, <2>4
<1> QED BY <1>5, <1>6, <1>7, <1>8

(* The recursion of even_partition ends up there. *)
LEMMA EvenPartitionAt ==
    ASSUME NEW len \in Nat, NEW k \in Nat, k > 0
    PROVE  EvenPartition(0, len, k) =
               [j \in 1 .. k |-> [begin |-> At(len, k, j - 1), end |-> At(len, k, j)]]
<1> DEFINE size(j) == PartSize(len, k, j)
           Rec(f)  == [j \in 0 .. k |-> IF j = 0 THEN 0 ELSE f[j - 1] + size(j - 1)]
           off     == CHOOSE f : f = Rec(f)
           at      == [j \in 0 .. k |-> At(len, k, j)]
<1>1. \A j \in 1 .. k : j - 1 \in 0 .. k - 1 /\ j - 1 \in 0 .. k /\ (j - 1) + 1 = j
    OBVIOUS
<1>2. \A j \in 1 .. k : At(len, k, j) = At(len, k, j - 1) + size(j - 1)
    BY <1>1, AtFacts
<1>3. at = Rec(at)
    <2>1. ASSUME NEW j \in 0 .. k
          PROVE  at[j] = IF j = 0 THEN 0 ELSE at[j - 1] + size(j - 1)
        <3>1. CASE j = 0
            BY <3>1, AtFacts
        <3>2. CASE j # 0
            <4>1. j \in 1 .. k
                BY <3>2
            <4> HIDE DEF size
            <4> QED BY <1>1, <1>2, <3>2, <4>1
        <3> QED BY <3>1, <3>2
    <2> HIDE DEF size
    <2> QED BY <2>1
<1>4. off = Rec(off)
    <2> HIDE DEF at
    <2> QED BY <1>3
<1>5. \A j \in 0 .. k : off[j] = at[j]
    <2> DEFINE T == {j \in Nat : j \in 0 .. k => off[j] = at[j]}
    <2> HIDE DEF off, size, at
    <2>1. 0 \in T
        <3>1. off[0] = 0
            BY <1>4
        <3>2. at[0] = 0
            BY <1>3
        <3> QED BY <3>1, <3>2
    <2>2. ASSUME NEW j \in Nat, j \in T PROVE j + 1 \in T
        <3> SUFFICES ASSUME j + 1 \in 0 .. k PROVE off[j + 1] = at[j + 1]
            OBVIOUS
        <3>1. j \in 0 .. k /\ (j + 1) - 1 = j /\ j + 1 # 0
            OBVIOUS
        <3>2. off[j + 1] = off[j] + size(j)
            BY <1>4, <3>1
        <3>3. at[j + 1] = at[j] + size(j)
            BY <1>3, <3>1
        <3> QED BY <2>2, <3>1, <3>2, <3>3
    <2> HIDE DEF T
    <2>3. \A j \in Nat : j \in T
        BY <2>1, <2>2, SetInduction
    <2>4. \A j \in 0 .. k : j \in Nat
        OBVIOUS
    <2> QED BY <2>3, <2>4 DEF T
<1>6. EvenPartition(0, len, k) =
          [j \in 1 .. k |-> [begin |-> off[j - 1], end |-> off[j - 1] + size(j - 1)]]
    <2>1. len - 0 = len
        OBVIOUS
    <2> QED BY <2>1 DEF EvenPartition
<1>7. ASSUME NEW j \in 1 .. k
      PROVE  off[j - 1] = At(len, k, j - 1) /\ off[j - 1] + size(j - 1) = At(len, k, j)
    <2> HIDE DEF off, size
    <2> QED BY <1>1, <1>2, <1>5
<1> HIDE DEF off, size
<1> QED BY <1>6, <1>7

----------------------------------------------------------------------------

(* The number of chunks. *)
Parts(c, t) == CeilDiv(DataSize(c, t), ChunkSize)

(* The sizes are positive, and a chunk holds whole elements of every type. *)
LEMMA Constants ==
    /\ ChunkSize \in Nat /\ ChunkSize > 0
    /\ MaxN \in Nat /\ MaxHash \in Nat /\ MaxCount \in Nat
    /\ \A t \in Types : /\ DtypeSize[t] \in Nat
                        /\ DtypeSize[t] > 0
                        /\ \E m \in Nat : m > 0 /\ ChunkSize = m * DtypeSize[t]
<1>1. ChunkSize \in Nat /\ ChunkSize > 0 /\ MaxN \in Nat /\ MaxHash \in Nat /\ MaxCount \in Nat
    BY BoundsAssumption
<1>2. ASSUME NEW t \in Types PROVE DtypeSize[t] \in {1, 2, 4, 8}
    BY TypesAssumption DEF DtypeSize
<1>3. ASSUME NEW t \in Types
      PROVE  \E m \in Nat : m > 0 /\ ChunkSize = m * DtypeSize[t]
    <2> DEFINE s == DtypeSize[t]
    <2>1. s \in {1, 2, 4, 8} /\ ChunkSize % s = 0
        BY <1>2, ChunkAssumption
    <2> HIDE DEF s
    <2>2. ChunkSize \div s \in Nat /\ ChunkSize = s * (ChunkSize \div s) + (ChunkSize % s)
        BY <1>1, <2>1, DivMod
    <2> DEFINE m == ChunkSize \div s
    <2>3. m \in Nat /\ ChunkSize = s * m
        BY <2>1, <2>2
    <2> HIDE DEF m
    <2>4. m > 0 /\ ChunkSize = m * s
        BY <1>1, <2>1, <2>3
    <2> QED BY <2>3, <2>4 DEF s
<1> QED BY <1>1, <1>2, <1>3

(* There are no more chunks than elements, none only when there are no      *)
(* elements, and chunks of the full size would hold them all.               *)
LEMMA PartsFacts ==
    ASSUME NEW c \in Nat, NEW t \in Types, NEW m \in Nat, m > 0,
           ChunkSize = m * DtypeSize[t]
    PROVE  /\ Parts(c, t) \in Nat
           /\ Parts(c, t) = 0 => c = 0
           /\ Parts(c, t) <= c
           /\ c <= Parts(c, t) * m
<1> DEFINE s == DtypeSize[t]
           k == Parts(c, t)
<1>1. s \in Nat /\ s > 0
    BY Constants
<1>2. DataSize(c, t) = c * s
    BY DEF DataSize
<1> HIDE DEF s
<1>3. c * s \in Nat /\ m * s \in Nat /\ m * s > 0
    BY <1>1
<1>4. k = CeilDiv(c * s, m * s)
    BY <1>2 DEF Parts, s
<1>5. /\ k \in Nat
      /\ c * s <= k * (m * s)
      /\ c * s > 0 => k > 0 /\ (k - 1) * (m * s) < c * s
      /\ c * s = 0 => k = 0
    BY <1>3, <1>4, CeilDivCovers
<1> HIDE DEF k
<1>6. c <= k * m
    <2> SUFFICES ASSUME k * m + 1 <= c PROVE FALSE
        BY <1>5
    <2>1. (k * m + 1) * s <= c * s
        BY <1>1, <1>5, TimesMonotone
    <2>2. (k * m + 1) * s = k * (m * s) + s
        BY <1>1, <1>5
    <2>3. k * (m * s) \in Nat
        BY <1>3, <1>5
    <2> QED BY <1>1, <1>3, <1>5, <2>1, <2>2, <2>3
<1>7. k <= c
    <2>1. CASE c = 0
        <3>1. c * s = 0
            BY <1>1, <2>1
        <3> QED BY <1>5, <2>1, <3>1
    <2>2. CASE c > 0
        <3>1. c * s > 0
            BY <1>1, <2>2
        <3> SUFFICES ASSUME c <= k - 1 PROVE FALSE
            BY <1>5
        <3>2. c * (m * s) <= (k - 1) * (m * s)
            BY <1>3, <1>5, TimesMonotone
        <3>3. 1 * (c * s) <= m * (c * s)
            BY <1>3, TimesMonotone
        <3>4. m * (c * s) = c * (m * s) /\ 1 * (c * s) = c * s
            BY <1>1
        <3>5. (k - 1) * (m * s) < c * s
            BY <1>5, <3>1
        <3>6. c * (m * s) \in Nat /\ (k - 1) * (m * s) \in Int
            BY <1>3, <1>5
        <3> QED BY <1>3, <3>2, <3>3, <3>4, <3>5, <3>6
    <2> QED BY <2>1, <2>2
<1>8. k = 0 => c = 0
    BY <1>5, <1>6
<1> QED BY <1>5, <1>6, <1>7, <1>8 DEF k

(* Parts are not empty when there are no more of them than elements, and    *)
(* not longer than m when k of m hold all elements.                         *)
LEMMA PartSizeBounds ==
    ASSUME NEW len \in Nat, NEW k \in Nat, k > 0, NEW m \in Nat,
           NEW j \in 0 .. k - 1, k <= len, len <= k * m
    PROVE  PartSize(len, k, j) > 0 /\ PartSize(len, k, j) <= m
<1> DEFINE q == Divide(len, k).q
           r == Divide(len, k).r
<1>1. q \in Nat /\ r \in Nat /\ r < k /\ len = k * q + r
    BY DivideFacts
<1>2. PartSize(len, k, j) = IF j < r THEN q + 1 ELSE q
    BY DEF PartSize
<1> HIDE DEF q, r
<1>3. q > 0
    <2> SUFFICES ASSUME q = 0 PROVE FALSE
        BY <1>1
    <2>1. k * q = 0
        OBVIOUS
    <2> QED BY <1>1, <2>1
<1>4. q <= m
    <2> SUFFICES ASSUME m + 1 <= q PROVE FALSE
        BY <1>1
    <2>1. (m + 1) * k <= q * k
        BY <1>1, TimesMonotone
    <2>2. (m + 1) * k = k * m + k /\ q * k = k * q /\ k * m \in Nat /\ k * q \in Nat
        BY <1>1
    <2> QED BY <1>1, <2>1, <2>2
<1>5. ASSUME j < r PROVE q + 1 <= m
    <2> SUFFICES ASSUME m <= q PROVE FALSE
        BY <1>1
    <2>1. m * k <= q * k
        BY <1>1, TimesMonotone
    <2>2. m * k = k * m /\ q * k = k * q /\ k * m \in Nat /\ k * q \in Nat
        BY <1>1
    <2> QED BY <1>1, <1>5, <2>1, <2>2
<1> QED BY <1>1, <1>2, <1>3, <1>4, <1>5

(* With no more parts than elements the parts start at different places. *)
LEMMA AtIncreasing ==
    ASSUME NEW len \in Nat, NEW k \in Nat, k > 0, k <= len,
           NEW i \in 0 .. k, NEW j \in 0 .. k, i < j
    PROVE  At(len, k, i) < At(len, k, j)
<1> DEFINE q == Divide(len, k).q
           r == Divide(len, k).r
<1>1. q \in Nat /\ r \in Nat /\ r < k /\ len = k * q + r
    BY DivideFacts
<1>2. /\ At(len, k, i) = i * q + (IF i < r THEN i ELSE r)
      /\ At(len, k, j) = j * q + (IF j < r THEN j ELSE r)
    BY DEF At
<1> HIDE DEF q, r
<1>3. q > 0
    <2> SUFFICES ASSUME q = 0 PROVE FALSE
        BY <1>1
    <2>1. k * q = 0
        OBVIOUS
    <2> QED BY <1>1, <2>1
<1>4. (i + 1) * q <= j * q
    BY <1>1, TimesMonotone
<1>5. (i + 1) * q = i * q + q /\ i * q \in Nat /\ j * q \in Nat
    BY <1>1
<1> QED BY <1>1, <1>2, <1>3, <1>4, <1>5

(* What workspace::split gives. *)
LEMMA SplitIs ==
    ASSUME NEW c \in Nat, NEW t, NEW k \in Nat, k > 0
    PROVE  /\ Split(c, t, k) =
                 [j \in 1 .. k |-> [offset |-> At(c, k, j - 1) * DtypeSize[t],
                                    count  |-> At(c, k, j) - At(c, k, j - 1),
                                    dt     |-> t,
                                    name   |-> <<At(c, k, j - 1), At(c, k, j)>>]]
           /\ Len(Split(c, t, k)) = k
<1> DEFINE ps == [j \in 1 .. k |-> [begin |-> At(c, k, j - 1), end |-> At(c, k, j)]]
           chunk(j) == [offset |-> At(c, k, j - 1) * DtypeSize[t],
                        count  |-> At(c, k, j) - At(c, k, j - 1),
                        dt     |-> t,
                        name   |-> <<At(c, k, j - 1), At(c, k, j)>>]
<1>1. EvenPartition(0, c, k) = ps
    BY EvenPartitionAt
<1>2. ASSUME NEW j \in 1 .. k PROVE Slice(c, t, ps[j]) = chunk(j)
    BY DEF Slice
<1>3. Split(c, t, k) = [j \in 1 .. k |-> Slice(c, t, ps[j])]
    BY <1>1 DEF Split
<1> HIDE DEF ps, chunk
<1>4. Split(c, t, k) = [j \in 1 .. k |-> chunk(j)]
    BY <1>2, <1>3
<1>5. Len(Split(c, t, k)) = k
    BY <1>4
<1> QED BY <1>4, <1>5 DEF chunk

(* The chunks of a workspace that is not empty. *)
THEOREM ChunksOf ==
    ASSUME NEW c \in Nat, NEW t \in Types, Parts(c, t) # 0,
           NEW w, w = Split(c, t, Parts(c, t))
    PROVE  /\ Len(w) = Parts(c, t)
           /\ DOMAIN w = 1 .. Len(w)
           /\ w # <<>>
           /\ w[1].offset = 0
           /\ \A k \in 1 .. Len(w) : w[k].count > 0
           /\ \A k \in 1 .. Len(w) :
                 w[k].offset + DataSize(w[k].count, t) =
                     IF k = Len(w) THEN DataSize(c, t) ELSE w[k + 1].offset
           /\ \A k, l \in 1 .. Len(w) : k # l => w[k].name # w[l].name
           /\ \A k \in 1 .. Len(w) : DataSize(w[k].count, t) <= ChunkSize
<1> DEFINE K == Parts(c, t)
           s == DtypeSize[t]
           at(j) == At(c, K, j)
<1>1. PICK m \in Nat : m > 0 /\ ChunkSize = m * s
    BY Constants
<1>2. s \in Nat /\ s > 0
    BY Constants
<1>3. K \in Nat /\ K > 0 /\ K <= c /\ c <= K * m
    BY <1>1, PartsFacts
<1>4. /\ w = [j \in 1 .. K |-> [offset |-> at(j - 1) * s,
                                count  |-> at(j) - at(j - 1),
                                dt     |-> t,
                                name   |-> <<at(j - 1), at(j)>>]]
      /\ Len(w) = K
    BY <1>3, SplitIs
<1>5. \A j : DataSize(j, t) = j * s
    BY DEF DataSize
<1> HIDE DEF K, s
<1>6. /\ at(0) = 0 /\ at(K) = c
      /\ \A j \in 0 .. K : at(j) \in Nat
      /\ \A j \in 0 .. K - 1 : /\ PartSize(c, K, j) \in Nat
                               /\ at(j + 1) = at(j) + PartSize(c, K, j)
    BY <1>3, AtFacts
<1>7. \A i, j \in 0 .. K : i < j => at(i) < at(j)
    BY <1>3, AtIncreasing
<1>8. \A j \in 0 .. K - 1 : PartSize(c, K, j) > 0 /\ PartSize(c, K, j) <= m
    BY <1>3, PartSizeBounds
<1> HIDE DEF at
<1>9. \A j \in 1 .. K : /\ w[j].offset = at(j - 1) * s
                        /\ w[j].count = at(j) - at(j - 1)
                        /\ w[j].name = <<at(j - 1), at(j)>>
    BY <1>4
<1>10. DOMAIN w = 1 .. Len(w) /\ w # <<>>
    BY <1>3, <1>4
<1>11. w[1].offset = 0
    <2>1. 1 \in 1 .. K /\ 1 - 1 = 0 /\ 0 * s = 0
        BY <1>2, <1>3
    <2> QED BY <1>6, <1>9, <2>1
<1>12. ASSUME NEW k \in 1 .. K
       PROVE  w[k].offset + DataSize(w[k].count, t) = at(k) * s
    <2>1. at(k) \in Nat /\ at(k - 1) \in Nat
        BY <1>3, <1>6
    <2>2. at(k - 1) * s + (at(k) - at(k - 1)) * s = at(k) * s
        BY <1>2, <2>1
    <2> QED BY <1>5, <1>9, <2>2
<1>13. ASSUME NEW k \in 1 .. K
       PROVE  w[k].offset + DataSize(w[k].count, t) =
                  IF k = K THEN DataSize(c, t) ELSE w[k + 1].offset
    <2>1. CASE k = K
        BY <1>5, <1>6, <1>12, <2>1
    <2>2. CASE k # K
        <3>1. k + 1 \in 1 .. K /\ (k + 1) - 1 = k
            BY <1>3, <2>2
        <3> QED BY <1>9, <1>12, <2>2, <3>1
    <2> QED BY <2>1, <2>2
<1>14. ASSUME NEW k \in 1 .. K, NEW l \in 1 .. K, k # l PROVE w[k].name # w[l].name
    <2>1. k - 1 \in 0 .. K /\ l - 1 \in 0 .. K /\ (k - 1 < l - 1 \/ l - 1 < k - 1)
        BY <1>3, <1>14
    <2>2. at(k - 1) # at(l - 1)
        BY <1>6, <1>7, <2>1
    <2> QED BY <1>9, <2>2
<1>15. ASSUME NEW k \in 1 .. K PROVE DataSize(w[k].count, t) <= ChunkSize
    <2> DEFINE p == PartSize(c, K, k - 1)
    <2>1. k - 1 \in 0 .. K - 1 /\ k - 1 \in 0 .. K /\ (k - 1) + 1 = k
        BY <1>3
    <2>2. p \in Nat /\ p <= m /\ at(k) = at(k - 1) + p /\ at(k - 1) \in Nat
        BY <1>6, <1>8, <2>1
    <2> HIDE DEF p
    <2>3. w[k].count = p
        BY <1>9, <2>2
    <2>4. p * s <= m * s
        BY <1>2, <2>2, TimesMonotone
    <2> QED BY <1>1, <1>5, <2>3, <2>4 DEF s
<1>16. ASSUME NEW k \in 1 .. K PROVE w[k].count > 0
    <2>1. k - 1 \in 0 .. K /\ k \in 0 .. K /\ k - 1 < k
        BY <1>3
    <2>2. at(k - 1) \in Nat /\ at(k) \in Nat /\ at(k - 1) < at(k)
        BY <1>6, <1>7, <2>1
    <2> QED BY <1>9, <2>2
<1> QED BY <1>4, <1>10, <1>11, <1>13, <1>14, <1>15, <1>16 DEF K

----------------------------------------------------------------------------

(* The inductive invariant: the chunks are those of the workspace, and      *)
(* every pair was chosen by some hash.                                      *)
SplitInv ==
    /\ n \in Nat /\ n > 0
    /\ count \in Nat
    /\ dt \in Types
    /\ pw \in Seq({Choose(Pairs, hash) : hash \in 0 .. MaxHash})
    /\ pc \in {"split", "fpe"} => ws = <<>>
    /\ pc = "fpe" => Parts(count, dt) = 0
    /\ pc \in {"choose", "done"} =>
          Parts(count, dt) # 0 /\ ws = Split(count, dt, Parts(count, dt))
    /\ pc \in {"split", "fpe", "choose", "done"}

(* In every state the pair is the one choose() gives for the strategy and   *)
(* the hash, and the chunks are those that split() cuts the workspace into. *)
THEOREM SplitInvariant == Spec => []SplitInv
<1>1. Init => SplitInv
    <2> SUFFICES ASSUME Init PROVE SplitInv
        OBVIOUS
    <2>1. n \in Nat /\ n > 0 /\ count \in Nat
        BY Constants DEF Init
    <2> DEFINE C == {Choose(Pairs, hash) : hash \in 0 .. MaxHash}
    <2>2. <<>> \in Seq(C)
        OBVIOUS
    <2> HIDE DEF C
    <2> QED BY <2>1, <2>2 DEF Init, SplitInv, C
<1>2. SplitInv /\ [Next]_vars => SplitInv'
    <2> SUFFICES ASSUME SplitInv, [Next]_vars PROVE SplitInv'
        OBVIOUS
    <2> DEFINE C == {Choose(Pairs, hash) : hash \in 0 .. MaxHash}
    <2>0. pw \in Seq(C)
        BY DEF SplitInv
    <2>1. CASE SplitStep
        <3>1. C' = C /\ pw' = pw /\ <<n, strategy, count, dt>>' = <<n, strategy, count, dt>>
            BY <2>1 DEF SplitStep, Pairs
        <3>2. CASE Parts(count, dt) = 0
            <4>1. pc' = "fpe" /\ ws' = ws /\ pc = "split"
                BY <2>1, <3>2 DEF SplitStep, Parts
            <4> HIDE DEF C
            <4> QED BY <2>0, <3>1, <3>2, <4>1 DEF SplitInv, C, Parts
        <3>3. CASE Parts(count, dt) # 0
            <4>1. pc' = "choose" /\ ws' = Split(count, dt, Parts(count, dt))
                BY <2>1, <3>3 DEF SplitStep, Parts
            <4> HIDE DEF C
            <4> QED BY <2>0, <3>1, <3>3, <4>1 DEF SplitInv, C, Parts
        <3> QED BY <3>2, <3>3
    <2>2. CASE ChooseStep
        <3>1. C' = C /\ <<n, strategy, count, dt, ws>>' = <<n, strategy, count, dt, ws>>
            BY <2>2 DEF ChooseStep, Pairs
        <3>2. pw' \in Seq(C) /\ pc' \in {"choose", "done"} /\ pc = "choose"
            <4>1. CASE Len(pw) < Len(ws)
                <5>1. PICK hash \in 0 .. MaxHash : pw' = Append(pw, Choose(Pairs, hash))
                    BY <2>2, <4>1 DEF ChooseStep
                <5>2. Choose(Pairs, hash) \in C
                    OBVIOUS
                <5> HIDE DEF C
                <5>3. pw' \in Seq(C)
                    BY <2>0, <5>1, <5>2
                <5> QED BY <2>2, <4>1, <5>3 DEF ChooseStep
            <4>2. CASE ~(Len(pw) < Len(ws))
                BY <2>0, <2>2, <4>2 DEF ChooseStep
            <4> QED BY <4>1, <4>2
        <3> HIDE DEF C
        <3> QED BY <3>1, <3>2 DEF SplitInv, C, Parts
    <2>3. CASE UNCHANGED vars
        BY <2>3 DEF SplitInv, vars, Pairs, Parts
    <2> QED BY <2>1, <2>2, <2>3 DEF Next, Terminated
<1> QED BY <1>1, <1>2, PTL DEF Spec

(* Whatever the session's size and the hash, the pair of every chunk is a   *)
(* tree into a root and one out of it.                                      *)
THEOREM ChosenPairs == Spec => []PairIsTreePair
<1>1. SplitInv => PairIsTreePair
    <2> SUFFICES ASSUME SplitInv, NEW k \in DOMAIN pw
                 PROVE  \E r \in Vertex(n) : IsTreePair(n, pw[k], r)
        BY DEF PairIsTreePair
    <2> DEFINE C == {Choose(Pairs, hash) : hash \in 0 .. MaxHash}
    <2>1. pw[k] \in C
        <3>1. pw \in Seq(C)
            BY DEF SplitInv
        <3> HIDE DEF C
        <3> QED BY <3>1
    <2>2. PICK hash \in 0 .. MaxHash : pw[k] = Choose(Pairs, hash)
        BY <2>1
    <2>3. hash \in Nat /\ n \in Nat /\ n > 0
        BY Constants DEF SplitInv
    <2> QED BY <2>2, <2>3, ChosenPairIsTreePair DEF Pairs
<1> QED BY <1>1, SplitInvariant, PTL

(* broadcast's root is rank 0, and on the ring every rank is some chunk's   *)
(* root.                                                                    *)
THEOREM RootsCorrect == Spec => []RootsAsExpected
<1>1. SplitInv => RootsAsExpected
    <2> SUFFICES ASSUME SplitInv
                 PROVE  /\ IsOutTree(n, Pairs[1].broadcast_graph, 0)
                        /\ strategy = "ring" =>
                              \A r \in Vertex(n) : \E k \in 0 .. n - 1 :
                                 IsOutTree(n, Choose(Pairs, k).broadcast_graph, r)
        BY DEF RootsAsExpected
    <2>1. n \in Nat /\ n > 0 /\ 0 \in Nat
        BY DEF SplitInv
    <2>2. IsTreePair(n, Pairs[1], 0)
        BY <2>1, ChosenPairIsTreePair DEF Pairs
    <2>3. ASSUME strategy = "ring", NEW r \in Vertex(n)
          PROVE  r \in 0 .. n - 1 /\ IsTreePair(n, Choose(Pairs, r), r)
        BY <2>1, <2>3, ChosenPairIsTreePair DEF Pairs, Vertex
    <2> QED BY <2>2, <2>3 DEF IsTreePair
<1> QED BY <1>1, SplitInvariant, PTL

(* The chunks lie side by side from the first byte to the last, each with   *)
(* an element at least, under different names, whatever the number of       *)
(* elements and the chunk size.                                             *)
THEOREM ChunksAlwaysTile == Spec => []ChunksTile
<1>1. SplitInv => ChunksTile
    <2> SUFFICES ASSUME SplitInv, pc = "done" PROVE ChunksTile
        BY DEF ChunksTile
    <2>1. count \in Nat /\ dt \in Types /\ Parts(count, dt) # 0 /\ ws = Split(count, dt, Parts(count, dt))
        BY DEF SplitInv
    <2> QED BY <2>1, ChunksOf DEF ChunksTile
<1> QED BY <1>1, SplitInvariant, PTL

(* No chunk is larger than the chunk size, and even_partition divides by    *)
(* zero for an empty workspace only.                                        *)
THEOREM ChunksAlwaysFit == Spec => []ChunksFit
<1>1. SplitInv => ChunksFit
    <2> SUFFICES ASSUME SplitInv PROVE ChunksFit
        OBVIOUS
    <2>1. count \in Nat /\ dt \in Types
        BY DEF SplitInv
    <2>2. CASE pc \in {"split", "fpe"}
        <3>1. ws = <<>> /\ (pc = "fpe" => Parts(count, dt) = 0)
            BY <2>2 DEF SplitInv
        <3>2. Parts(count, dt) = 0 => count = 0
            BY <2>1, Constants, PartsFacts
        <3> QED BY <3>1, <3>2 DEF ChunksFit
    <2>3. CASE pc \in {"choose", "done"}
        <3>1. Parts(count, dt) # 0 /\ ws = Split(count, dt, Parts(count, dt))
            BY <2>3 DEF SplitInv
        <3>2. \A k \in DOMAIN ws : DataSize(ws[k].count, dt) <= ChunkSize
            BY <2>1, <3>1, ChunksOf
        <3> QED BY <2>3, <3>2 DEF ChunksFit
    <2> QED BY <2>2, <2>3 DEF SplitInv
<1> QED BY <1>1, SplitInvariant, PTL

============================================================================
