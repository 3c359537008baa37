----------------------------- MODULE Partition -----------------------------
(***************************************************************************)
(* How an all_reduce is cut into chunks (buffer.hpp, session.cpp).  Indices *)
(* count elements; an interval is [begin, end).                             *)
(***************************************************************************)
EXTENDS Integers, Sequences

(* dtype_size, by the width in the name of the type: i8, u16, f32, ... *)
DtypeSize == [i8 |-> 1, i16 |-> 2, i32 |-> 4, i64 |-> 8,
              u8 |-> 1, u16 |-> 2, u32 |-> 4, u64 |-> 8,
              f32 |-> 4, f64 |-> 8]

DataSize(count, dt) == count * DtypeSize[dt]

(* Mutant of CeilDiv: rounds down. *)
FloorDiv(a, b) == a \div b

CeilDiv(a, b) == (a \div b) + (IF a % b # 0 THEN 1 ELSE 0)

Divide(a, b) == [q |-> a \div b, r |-> a - b * (a \div b)]

(* Mutant of PartSize: the remainder is left out. *)
PartSizeQuotient(len, k, j) == Divide(len, k).q

(* The length of part j: the first r parts take one element more. *)
PartSize(len, k, j) ==
    LET d == Divide(len, k)
    IN  IF j < d.r THEN d.q + 1 ELSE d.q

(* even_partition: k consecutive intervals; `off' is where part j begins. *)
EvenPartition(begin, end, k) ==
    LET off[j \in 0 .. k] ==
            IF j = 0 THEN begin ELSE off[j - 1] + PartSize(end - begin, k, j - 1)
    IN  [j \in 1 .. k |-> [begin |-> off[j - 1],
                           end   |-> off[j - 1] + PartSize(end - begin, k, j - 1)]]

(* workspace::slice: where the part begins in the send and receive buffers  *)
(* in bytes, its element count, and what tells its name from the others'.   *)
Slice(count, dt, iv) ==
    [offset |-> iv.begin * DtypeSize[dt],
     count  |-> iv.end - iv.begin,
     dt     |-> dt,
     name   |-> <<iv.begin, iv.end>>]

(* workspace::split *)
Split(count, dt, k) ==
    LET ps == EvenPartition(0, count, k)
    IN  [j \in 1 .. k |-> Slice(count, dt, ps[j])]

============================================================================
