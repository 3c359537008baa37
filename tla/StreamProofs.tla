---------------------------- MODULE StreamProofs ----------------------------
(***************************************************************************)
(* For every set of senders, messages of any length and sockets of any size *)
(* the handler is given the messages that were sent, whole and in the order *)
(* of the mutex, and a connection that is closed after its sends loses      *)
(* none of them.                                                            *)
(*                                                                         *)
(* The invariant says that there is one stream of bytes, the dialler's      *)
(* header and then one frame per message in the order of the mutex, and     *)
(* that what the server has read, what is under way and what the holder of  *)
(* the mutex has still to write lie side by side in it.                     *)
(***************************************************************************)
EXTENDS Stream, SequenceTheorems, TLAPS

(* The lengths in the header of a message, its data, as much as the header  *)
(* counts, and all its bytes.                                               *)
NameLen(m) == Len(m.name)

DataLen(m) == Cast(Len(m.data))

Body(m) == SubSeq(m.data, 1, DataLen(m))

Total(m) == Frame(m) \o Body(m)

Hello == Encode(Dialler[1]) \o Encode(Dialler[2]) \o Encode(Dialler[3])

(* s is what lies between the positions a and b of the stream T. *)
Slice(T, a, b, s) ==
    /\ b = a + Len(s)
    /\ \A j \in 1 .. Len(s) : s[j] = T[a + j]

(* What the client has begun to send and not yet written. *)
Unwritten ==
    IF mu = Nobody THEN left["dial"]
    ELSE left[mu] \o (IF pc[mu] = "header" THEN Body(msg[mu]) ELSE <<>>)

(* The messages that the senders send. *)
Sent == {m \in Message : Len(m.name) < Limit}

(* What the handler may be given. *)
Delivery == [name : Seq(Nat), flags : Nat, data : Seq(Nat), src : {Dialler}]

TypeInv ==
    /\ msg \in Sends
    /\ client \in {"hello", "ack", "open", "closed", "threw", "killed"}
    /\ server \in {"hello", "ack", "name_len", "header", "body", "ended", "threw", "killed"}
    /\ wire \in [{"up", "down"} -> Seq(Nat)]
    /\ left \in [Thread -> Seq(Nat)]
    /\ need \in [{"dial", "serve"} -> Nat]
    /\ got \in [{"dial", "serve"} -> Seq(Nat)]
    /\ mu \in Sender \cup {Nobody}
    /\ pc \in [Sender -> {"ready", "header", "body", "returned"}]
    /\ order \in Seq(Sent)
    /\ delivered \in Seq(Delivery)

(* Only the holder of the mutex writes, and nobody before the handshake. *)
ClientInv ==
    /\ \A s \in Sender : pc[s] \in {"header", "body"} <=> mu = s
    /\ \A s \in Sender : mu # s => left[s] = <<>>
    /\ client \in {"ack", "open", "closed"} => left["dial"] = <<>>
    /\ client \in {"hello", "ack"} => mu = Nobody
    /\ client = "closed" => mu = Nobody
    /\ mu # Nobody => left["dial"] = <<>>

(* The acknowledgement: a client that has it knows that the server has      *)
(* written it all; and the server's end follows the client's.               *)
AckInv ==
    /\ Len(got["dial"]) + Len(wire["down"]) + Len(left["serve"]) <= Width
    /\ server = "hello" => got["dial"] = <<>> /\ wire["down"] = <<>> /\ left["serve"] = <<>>
    /\ client = "hello" => got["dial"] = <<>> /\ need["dial"] = 0
    /\ client = "ack" => Len(got["dial"]) + need["dial"] = Width
    /\ client \in {"open", "closed"} => Len(got["dial"]) = Width
    /\ server = "threw" => left["serve"] # <<>> \/ client \in {"threw", "killed"}
    /\ server = "ended" => ~ClientIsUp

(* T is the stream and at[i] the position behind its first i messages. *)
Layout(T, at) ==
    /\ T \in Seq(Nat) /\ at \in [0 .. Len(order) -> Nat]
    /\ at[0] = 3 * Width /\ at[Len(order)] = Len(T)
    /\ Slice(T, 0, 3 * Width, Hello)
    /\ \A i \in 0 .. Len(order) : at[i] <= Len(T)
    /\ \A i \in 0 .. Len(order) - 1 : Slice(T, at[i], at[i + 1], Total(order[i + 1]))

(* The server, which has read r bytes, is in message number                  *)
(* Len(delivered) + 1.                                                       *)
ServerAt(T, at, r) ==
    LET k == Len(delivered)
        m == order[k + 1]
        bs == got["serve"]
        end == r + need["serve"]
    IN  /\ server = "hello" => Slice(T, 0, r, bs) /\ end = 3 * Width
        /\ server \in {"hello", "ack"} => delivered = <<>>
        /\ server = "ack" => end = at[k] /\ need["serve"] = 0
        /\ server \in {"ack", "name_len", "header", "body"} => src = Dialler
        /\ server = "name_len" => Slice(T, at[k], r, bs) /\ end = at[k] + Width
        /\ server \in {"header", "body"} => k < Len(order)
        /\ server = "header" =>
              /\ hdr = [name_len |-> NameLen(m)]
              /\ Slice(T, at[k] + Width, r, bs)
              /\ end = at[k] + 3 * Width + NameLen(m)
        /\ server = "body" =>
              /\ hdr = [name |-> m.name, flags |-> m.flags, len |-> DataLen(m)]
              /\ Slice(T, at[k] + 3 * Width + NameLen(m), r, bs)
              /\ end = at[k + 1]

(* r bytes have been read and w written. *)
BytesAt(T, at, r, w) ==
    /\ Layout(T, at)
    /\ Slice(T, r, w, wire["up"])
    /\ Slice(T, w, Len(T), Unwritten)
    /\ ServerAt(T, at, r)

BytesInv == \E T, at : \E r, w \in Nat : BytesAt(T, at, r, w)

StreamInv == TypeInv /\ ClientInv /\ AckInv /\ BytesInv /\ FramesIntact /\ NothingLost

----------------------------------------------------------------------------
(* Slices of a stream *)

(* What lies side by side is one slice. *)
LEMMA SliceConcat ==
    ASSUME NEW T, NEW s \in Seq(Nat), NEW t \in Seq(Nat), NEW a \in Nat, NEW b \in Nat, NEW c \in Nat,
           Slice(T, a, b, s), Slice(T, b, c, t)
    PROVE  Slice(T, a, c, s \o t)
<1>1. Len(s \o t) = Len(s) + Len(t) /\ Len(s) \in Nat /\ Len(t) \in Nat
    BY ConcatProperties
<1>2. b = a + Len(s) /\ c = b + Len(t)
    BY DEF Slice
<1>3. ASSUME NEW j \in 1 .. Len(s \o t) PROVE (s \o t)[j] = T[a + j]
    <2>1. (s \o t)[j] = IF j <= Len(s) THEN s[j] ELSE t[j - Len(s)]
        BY <1>1, <1>3, ConcatProperties
    <2>2. CASE j <= Len(s)
        <3>1. j \in 1 .. Len(s)
            BY <1>1, <1>3, <2>2
        <3> QED BY <2>1, <2>2, <3>1 DEF Slice
    <2>3. CASE ~(j <= Len(s))
        <3>1. j - Len(s) \in 1 .. Len(t) /\ b + (j - Len(s)) = a + j
            BY <1>1, <1>2, <1>3, <2>3
        <3>2. t[j - Len(s)] = T[b + (j - Len(s))]
            BY <3>1 DEF Slice
        <3> QED BY <2>1, <2>3, <3>1, <3>2
    <2> QED BY <2>2, <2>3
<1> QED BY <1>1, <1>2, <1>3 DEF Slice

(* The parts of a slice are slices. *)
LEMMA SliceParts ==
    ASSUME NEW T, NEW s \in Seq(Nat), NEW t \in Seq(Nat), NEW a \in Nat, NEW c \in Nat,
           Slice(T, a, c, s \o t)
    PROVE  /\ Slice(T, a, a + Len(s), s)
           /\ Slice(T, a + Len(s), c, t)
<1>1. Len(s \o t) = Len(s) + Len(t) /\ Len(s) \in Nat /\ Len(t) \in Nat
    BY ConcatProperties
<1>2. c = a + Len(s) + Len(t)
    BY <1>1 DEF Slice
<1>3. ASSUME NEW j \in 1 .. Len(s) PROVE s[j] = T[a + j]
    <2>1. j \in 1 .. Len(s \o t) /\ j <= Len(s) /\ j \in 1 .. Len(s) + Len(t)
        BY <1>1, <1>3
    <2>2. (s \o t)[j] = s[j]
        BY <2>1, ConcatProperties
    <2> QED BY <2>1, <2>2 DEF Slice
<1>4. ASSUME NEW j \in 1 .. Len(t) PROVE t[j] = T[a + Len(s) + j]
    <2>1. /\ Len(s) + j \in 1 .. Len(s \o t) /\ Len(s) + j \in 1 .. Len(s) + Len(t)
          /\ ~(Len(s) + j <= Len(s)) /\ (Len(s) + j) - Len(s) = j
          /\ a + (Len(s) + j) = a + Len(s) + j
        BY <1>1, <1>4
    <2>2. (s \o t)[Len(s) + j] = t[(Len(s) + j) - Len(s)]
        BY <2>1, ConcatProperties
    <2>3. (s \o t)[Len(s) + j] = T[a + (Len(s) + j)]
        BY <2>1 DEF Slice
    <2> QED BY <2>1, <2>2, <2>3
<1> QED BY <1>1, <1>2, <1>3, <1>4 DEF Slice

(* A subsequence of a slice is a slice. *)
LEMMA SliceSub ==
    ASSUME NEW T, NEW s \in Seq(Nat), NEW a \in Nat, NEW b \in Nat, Slice(T, a, b, s),
           NEW i \in Nat, NEW j \in Nat, 1 <= i, i <= j + 1, j <= Len(s)
    PROVE  /\ SubSeq(s, i, j) \in Seq(Nat)
           /\ Slice(T, a + i - 1, a + j, SubSeq(s, i, j))
<1>0. Len(s) \in Nat
    OBVIOUS
<1>1. \A l \in i .. j : s[l] \in Nat
    <2> TAKE l \in i .. j
    <2>1. l \in 1 .. Len(s)
        BY <1>0
    <2> QED BY <2>1, ElementOfSeq
<1>1a. i \in Int /\ j \in Int
    OBVIOUS
<1>2. /\ SubSeq(s, i, j) \in Seq(Nat)
      /\ Len(SubSeq(s, i, j)) = IF i <= j THEN j - i + 1 ELSE 0
      /\ \A l \in 1 .. j - i + 1 : SubSeq(s, i, j)[l] = s[i + l - 1]
    BY <1>1, <1>1a, SubSeqProperties
<1>3. Len(SubSeq(s, i, j)) = j - i + 1
    BY <1>2
<1>4. ASSUME NEW l \in 1 .. j - i + 1 PROVE SubSeq(s, i, j)[l] = T[a + i - 1 + l]
    <2>1. i + l - 1 \in 1 .. Len(s) /\ a + (i + l - 1) = a + i - 1 + l
        BY <1>0, <1>4
    <2>2. s[i + l - 1] = T[a + (i + l - 1)]
        BY <2>1 DEF Slice
    <2> QED BY <1>2, <1>4, <2>1, <2>2
<1> QED BY <1>2, <1>3, <1>4 DEF Slice

(* There is one sequence between two positions. *)
LEMMA SliceUnique ==
    ASSUME NEW T, NEW s \in Seq(Nat), NEW t \in Seq(Nat), NEW a \in Nat, NEW b \in Nat,
           Slice(T, a, b, s), Slice(T, a, b, t)
    PROVE  s = t
<1>1. Len(s) = Len(t)
    BY DEF Slice
<1>2. \A i \in 1 .. Len(s) : s[i] = t[i]
    BY <1>1 DEF Slice
<1> QED BY <1>1, <1>2, SeqEqual

(* A stream that grows keeps its slices, and what is added is a slice. *)
LEMMA SliceGrow ==
    ASSUME NEW T \in Seq(Nat), NEW x \in Seq(Nat)
    PROVE  /\ T \o x \in Seq(Nat) /\ Len(T \o x) = Len(T) + Len(x)
           /\ \A a, b \in Nat : \A s \in Seq(Nat) : Slice(T, a, b, s) /\ b <= Len(T) => Slice(T \o x, a, b, s)
           /\ Slice(T \o x, Len(T), Len(T) + Len(x), x)
<1>1. T \o x \in Seq(Nat) /\ Len(T \o x) = Len(T) + Len(x) /\ Len(T) \in Nat /\ Len(x) \in Nat
    BY ConcatProperties
<1>2. ASSUME NEW a \in Nat, NEW b \in Nat, NEW s \in Seq(Nat), Slice(T, a, b, s), b <= Len(T)
      PROVE  Slice(T \o x, a, b, s)
    <2>1. ASSUME NEW j \in 1 .. Len(s) PROVE s[j] = (T \o x)[a + j]
        <3>1. a + j \in 1 .. Len(T) + Len(x) /\ a + j <= Len(T)
            BY <1>1, <1>2, <2>1 DEF Slice
        <3>2. (T \o x)[a + j] = T[a + j]
            BY <3>1, ConcatProperties
        <3> QED BY <1>2, <2>1, <3>2 DEF Slice
    <2> QED BY <1>2, <2>1 DEF Slice
<1>3. ASSUME NEW j \in 1 .. Len(x) PROVE x[j] = (T \o x)[Len(T) + j]
    <2>1. /\ Len(T) + j \in 1 .. Len(T) + Len(x) /\ ~(Len(T) + j <= Len(T))
          /\ (Len(T) + j) - Len(T) = j
        BY <1>1, <1>3
    <2> QED BY <2>1, ConcatProperties
<1> QED BY <1>1, <1>2, <1>3 DEF Slice

----------------------------------------------------------------------------
(* Headers and messages *)

(* The sizes, and what a cast to the width of a field gives. *)
LEMMA Sizes ==
    /\ Width \in Nat /\ Width > 0
    /\ \A x \in Nat : /\ Cast(x) \in 0 .. Limit - 1 /\ Cast(x) <= x
                      /\ x < Limit => Cast(x) = x
<1>1. Width \in Nat /\ Width > 0
    BY SizesAssumption
<1>2. Limit \in Nat /\ Limit > 0
    BY CodecAssumption
<1>3. ASSUME NEW x \in Nat
      PROVE  x % Limit \in 0 .. Limit - 1 /\ x % Limit <= x /\ (x < Limit => x % Limit = x)
    <2>1. x % Limit \in 0 .. Limit - 1
        BY <1>2
    <2>2. x < Limit => x % Limit = x
        BY <1>2
    <2> QED BY <1>2, <2>1, <2>2
<1> QED BY <1>1, <1>3 DEF Cast

(* The bytes of an integer: as many as its width, and they are read back as *)
(* the integer.                                                             *)
LEMMA Codec ==
    ASSUME NEW x \in 0 .. Limit - 1
    PROVE  Encode(x) \in Seq(Nat) /\ Len(Encode(x)) = Width /\ Decode(Encode(x)) = x
<1>1. Encode(x) \in Seq(Nat) /\ Decode(Encode(x)) = x
    BY CodecAssumption
<1>2. DOMAIN Encode(x) = 1 .. Width
    BY DEF Encode
<1>3. Len(Encode(x)) = Width
    BY <1>1, <1>2, Sizes
<1> QED BY <1>1, <1>3

(* The parts of a message. *)
LEMMA MessageParts ==
    ASSUME NEW m \in Sent
    PROVE  /\ m.name \in Seq(Nat) /\ m.data \in Seq(Nat) /\ m.flags \in Nat
           /\ m.flags \in 0 .. Limit - 1
           /\ NameLen(m) \in Nat /\ NameLen(m) \in 0 .. Limit - 1 /\ Len(m.name) = NameLen(m)
           /\ DataLen(m) \in Nat /\ DataLen(m) \in 0 .. Limit - 1
           /\ Body(m) \in Seq(Nat) /\ Len(Body(m)) = DataLen(m)
           /\ Frame(m) = Encode(NameLen(m)) \o m.name \o Encode(m.flags) \o Encode(DataLen(m))
           /\ Frame(m) \in Seq(Nat) /\ Len(Frame(m)) = 3 * Width + NameLen(m)
           /\ Total(m) \in Seq(Nat) /\ Len(Total(m)) = 3 * Width + NameLen(m) + DataLen(m)
<1>0. Limit \in Nat /\ Width \in Nat
    BY CodecAssumption, SizesAssumption
<1>1. /\ m.name \in Seq(Nat) /\ m.data \in Seq(Nat) /\ m.flags \in 0 .. Limit - 1
      /\ Len(m.name) < Limit
    BY DEF Sent, Message
<1>2. Len(m.name) \in Nat /\ Len(m.data) \in Nat /\ m.flags \in Nat
    BY <1>0, <1>1
<1>3. /\ Len(m.name) = NameLen(m) /\ NameLen(m) \in Nat /\ NameLen(m) \in 0 .. Limit - 1
      /\ Cast(Len(m.name)) = NameLen(m)
    BY <1>0, <1>1, <1>2, Sizes DEF NameLen
<1>4. DataLen(m) \in 0 .. Limit - 1 /\ DataLen(m) <= Len(m.data) /\ DataLen(m) \in Nat
    <2>1. Cast(Len(m.data)) \in 0 .. Limit - 1 /\ Cast(Len(m.data)) <= Len(m.data)
        BY <1>2, Sizes
    <2> QED BY <1>0, <2>1 DEF DataLen
<1>5. Body(m) \in Seq(Nat) /\ Len(Body(m)) = DataLen(m)
    <2> DEFINE n == DataLen(m)
               d == m.data
    <2>1. \A i \in 1 .. n : d[i] \in Nat
        BY <1>1, <1>2, <1>4
    <2>2. 1 \in Int /\ n \in Int /\ n >= 0
        BY <1>4
    <2> HIDE DEF n, d
    <2>3. SubSeq(d, 1, n) \in Seq(Nat) /\ Len(SubSeq(d, 1, n)) = IF 1 <= n THEN n - 1 + 1 ELSE 0
        BY <2>1, <2>2, SubSeqProperties
    <2>4. SubSeq(d, 1, n) \in Seq(Nat) /\ Len(SubSeq(d, 1, n)) = n
        BY <2>2, <2>3
    <2> QED BY <2>4 DEF n, d, Body
<1>6. Frame(m) = Encode(NameLen(m)) \o m.name \o Encode(m.flags) \o Encode(DataLen(m))
    BY <1>3 DEF Frame, DataLen
<1>7. Frame(m) \in Seq(Nat) /\ Len(Frame(m)) = 3 * Width + NameLen(m)
    <2> DEFINE e1 == Encode(NameLen(m))
               e2 == Encode(m.flags)
               e3 == Encode(DataLen(m))
               x == m.name
               f1 == e1 \o x
               f2 == f1 \o e2
    <2>1. /\ e1 \in Seq(Nat) /\ e2 \in Seq(Nat) /\ e3 \in Seq(Nat) /\ x \in Seq(Nat)
          /\ Len(e1) = Width /\ Len(e2) = Width /\ Len(e3) = Width /\ Len(x) = NameLen(m)
        BY <1>1, <1>3, <1>4, Codec
    <2> HIDE DEF e1, e2, e3, x
    <2>2. f1 \in Seq(Nat) /\ Len(f1) = Len(e1) + Len(x)
        BY <2>1, ConcatProperties
    <2> HIDE DEF f1
    <2>3. f2 \in Seq(Nat) /\ Len(f2) = Len(f1) + Len(e2)
        BY <2>1, <2>2, ConcatProperties
    <2> HIDE DEF f2
    <2>4. f2 \o e3 \in Seq(Nat) /\ Len(f2 \o e3) = Len(f2) + Len(e3)
        BY <2>1, <2>3, ConcatProperties
    <2>5. Len(f2 \o e3) = 3 * Width + NameLen(m)
        BY <1>0, <1>3, <2>1, <2>2, <2>3, <2>4
    <2> QED BY <1>6, <2>4, <2>5 DEF e1, e2, e3, x, f1, f2
<1>8. Total(m) \in Seq(Nat) /\ Len(Total(m)) = 3 * Width + NameLen(m) + DataLen(m)
    <2> DEFINE f == Frame(m)
               b == Body(m)
    <2>1. f \in Seq(Nat) /\ b \in Seq(Nat)
        BY <1>5, <1>7
    <2> HIDE DEF f, b
    <2>2. f \o b \in Seq(Nat) /\ Len(f \o b) = Len(f) + Len(b)
        BY <2>1, ConcatProperties
    <2> QED BY <1>5, <1>7, <2>2 DEF f, b, Total
<1> QED BY <1>1, <1>2, <1>3, <1>4, <1>5, <1>6, <1>7, <1>8

(* Where the parts of a message lie in the stream. *)
LEMMA TotalParts ==
    ASSUME NEW T, NEW a \in Nat, NEW b \in Nat, NEW m \in Sent, Slice(T, a, b, Total(m))
    PROVE  /\ Slice(T, a, a + Width, Encode(NameLen(m)))
           /\ Slice(T, a + Width, a + Width + NameLen(m), m.name)
           /\ Slice(T, a + Width + NameLen(m), a + 2 * Width + NameLen(m), Encode(m.flags))
           /\ Slice(T, a + 2 * Width + NameLen(m), a + 3 * Width + NameLen(m), Encode(DataLen(m)))
           /\ Slice(T, a + 3 * Width + NameLen(m), b, Body(m))
           /\ b = a + 3 * Width + NameLen(m) + DataLen(m) /\ DataLen(m) \in Nat
<1> DEFINE e1 == Encode(NameLen(m))
           e2 == Encode(m.flags)
           e3 == Encode(DataLen(m))
           x == m.name
           y == Body(m)
<1>0. Width \in Nat /\ NameLen(m) \in Nat /\ DataLen(m) \in Nat
    BY Sizes, MessageParts
<1>1. /\ e1 \in Seq(Nat) /\ Len(e1) = Width /\ e2 \in Seq(Nat) /\ Len(e2) = Width
      /\ e3 \in Seq(Nat) /\ Len(e3) = Width
      /\ x \in Seq(Nat) /\ Len(x) = NameLen(m) /\ y \in Seq(Nat) /\ Len(y) = DataLen(m)
    BY MessageParts, Codec
<1>2. Total(m) = e1 \o x \o e2 \o e3 \o y
    BY MessageParts DEF Total, Frame
<1> HIDE DEF e1, e2, e3, x, y
<1> DEFINE f1 == e1 \o x
           f2 == f1 \o e2
           f3 == f2 \o e3
<1>3. f1 \in Seq(Nat) /\ Len(f1) = Width + NameLen(m)
    <2>1. f1 \in Seq(Nat) /\ Len(f1) = Len(e1) + Len(x)
        BY <1>1, ConcatProperties
    <2> QED BY <1>1, <2>1
<1>4. f2 \in Seq(Nat) /\ Len(f2) = 2 * Width + NameLen(m)
    <2> HIDE DEF f1
    <2>1. f2 \in Seq(Nat) /\ Len(f2) = Len(f1) + Len(e2)
        BY <1>1, <1>3, ConcatProperties
    <2> QED BY <1>0, <1>1, <1>3, <2>1
<1>5. f3 \in Seq(Nat) /\ Len(f3) = 3 * Width + NameLen(m)
    <2> HIDE DEF f2
    <2>1. f3 \in Seq(Nat) /\ Len(f3) = Len(f2) + Len(e3)
        BY <1>1, <1>4, ConcatProperties
    <2> QED BY <1>0, <1>1, <1>4, <2>1
<1>6. Slice(T, a, a + Len(f3), f3) /\ Slice(T, a + Len(f3), b, y)
    <2> HIDE DEF f3
    <2>1. Slice(T, a, b, f3 \o y)
        BY <1>2 DEF f3, f2, f1
    <2> QED BY <1>1, <1>5, <2>1, SliceParts
<1>7. Slice(T, a, a + 3 * Width + NameLen(m), f3) /\ Slice(T, a + 3 * Width + NameLen(m), b, y)
    <2>1. a + Len(f3) = a + 3 * Width + NameLen(m)
        BY <1>0, <1>5
    <2> QED BY <1>6, <2>1
<1>8. Slice(T, a, a + Len(f2), f2) /\ Slice(T, a + Len(f2), a + 3 * Width + NameLen(m), e3)
    <2> HIDE DEF f2
    <2>1. a + 3 * Width + NameLen(m) \in Nat
        BY <1>0
    <2> QED BY <1>1, <1>4, <1>7, <2>1, SliceParts
<1>9. a + Len(f2) = a + 2 * Width + NameLen(m) /\ a + Len(f2) \in Nat
    BY <1>0, <1>4
<1>10. Slice(T, a, a + Len(f1), f1) /\ Slice(T, a + Len(f1), a + 2 * Width + NameLen(m), e2)
    <2> HIDE DEF f1
    <2>1. a + 2 * Width + NameLen(m) \in Nat /\ Slice(T, a, a + 2 * Width + NameLen(m), f1 \o e2)
        BY <1>8, <1>9
    <2> QED BY <1>1, <1>3, <2>1, SliceParts
<1>11. a + Len(f1) = a + Width + NameLen(m) /\ a + Len(f1) \in Nat
    BY <1>0, <1>3
<1>12. Slice(T, a, a + Len(e1), e1) /\ Slice(T, a + Len(e1), a + Width + NameLen(m), x)
    <2>1. a + Width + NameLen(m) \in Nat /\ Slice(T, a, a + Width + NameLen(m), e1 \o x)
        BY <1>10, <1>11
    <2> QED BY <1>1, <2>1, SliceParts
<1>13. b = a + 3 * Width + NameLen(m) + DataLen(m)
    BY <1>1, <1>7 DEF Slice
<1> HIDE DEF f1, f2, f3
<1>14. Slice(T, a, a + Width, e1) /\ Slice(T, a + Width, a + Width + NameLen(m), x)
    BY <1>1, <1>12
<1>15. Slice(T, a + Width + NameLen(m), a + 2 * Width + NameLen(m), e2)
    BY <1>10, <1>11
<1>16. Slice(T, a + 2 * Width + NameLen(m), a + 3 * Width + NameLen(m), e3)
    BY <1>8, <1>9
<1> QED BY <1>0, <1>7, <1>13, <1>14, <1>15, <1>16 DEF e1, e2, e3, x, y

(* What read_header and the handler make of the parts of a message, between *)
(* the positions p and q: the length of the name, ...                        *)
LEMMA ParseNameLen ==
    ASSUME NEW T, NEW a \in Nat, NEW b \in Nat, NEW m \in Sent, Slice(T, a, b, Total(m)),
           NEW bs \in Seq(Nat), NEW q \in Nat, Slice(T, a, q, bs), q = a + Width
    PROVE  Decode(bs) = NameLen(m)
<1>0. Width \in Nat /\ a + Width \in Nat
    BY Sizes
<1>1. Encode(NameLen(m)) \in Seq(Nat) /\ Decode(Encode(NameLen(m))) = NameLen(m)
    BY MessageParts, Codec
<1>2. Slice(T, a, a + Width, Encode(NameLen(m))) /\ Slice(T, a, a + Width, bs)
    BY TotalParts
<1>3. bs = Encode(NameLen(m))
    BY <1>0, <1>1, <1>2, SliceUnique
<1> QED BY <1>1, <1>3

(* (Where the parts of the rest of a header begin and end: v is the width of *)
(* an integer, n the length of the name.)                                    *)
LEMMA HeaderBounds ==
    ASSUME NEW v \in Nat, NEW n \in Nat, NEW l \in Nat, l = 2 * v + n
    PROVE  /\ 1 \in Nat /\ 1 <= 1 /\ 1 <= n + 1 /\ n <= l
           /\ n + 1 \in Nat /\ n + v \in Nat /\ n + 1 <= n + v + 1 /\ n + v <= l
           /\ n + v + 1 \in Nat /\ n + 2 * v \in Nat /\ 1 <= n + v + 1
           /\ n + v + 1 <= n + 2 * v + 1 /\ n + 2 * v <= l
    OBVIOUS

(* ... the rest of the header ... *)
LEMMA ParseRest ==
    ASSUME NEW T, NEW a \in Nat, NEW b \in Nat, NEW m \in Sent, Slice(T, a, b, Total(m)),
           NEW bs \in Seq(Nat), Slice(T, a + Width, a + 3 * Width + NameLen(m), bs)
    PROVE  ParseHeader(bs, NameLen(m)) = [name |-> m.name, flags |-> m.flags, len |-> DataLen(m)]
<1> DEFINE c == DataLen(m)
<1>0. /\ Width \in Nat /\ a + Width \in Nat /\ a + Width + NameLen(m) \in Nat /\ NameLen(m) \in Nat
      /\ a + 2 * Width + NameLen(m) \in Nat /\ a + 3 * Width + NameLen(m) \in Nat
    <2>1. Width \in Nat /\ NameLen(m) \in Nat
        BY Sizes, MessageParts
    <2> QED BY <2>1
<1>1. /\ Encode(m.flags) \in Seq(Nat) /\ Decode(Encode(m.flags)) = m.flags
      /\ Encode(c) \in Seq(Nat) /\ Decode(Encode(c)) = c
      /\ m.name \in Seq(Nat)
    BY MessageParts, Codec
<1> DEFINE s1 == SubSeq(bs, 1, NameLen(m))
           s2 == SubSeq(bs, NameLen(m) + 1, NameLen(m) + Width)
           s3 == SubSeq(bs, NameLen(m) + Width + 1, NameLen(m) + 2 * Width)
<1>2. Len(bs) \in Nat /\ Len(bs) = 2 * Width + NameLen(m)
    <2>1. Len(bs) \in Nat
        OBVIOUS
    <2>2. a + 3 * Width + NameLen(m) = a + Width + Len(bs)
        BY DEF Slice
    <2> QED BY <1>0, <2>1, <2>2
<1>3. s1 \in Seq(Nat) /\ Slice(T, a + Width + 1 - 1, a + Width + NameLen(m), s1)
    <2>1. 1 \in Nat /\ 1 <= 1 /\ 1 <= NameLen(m) + 1 /\ NameLen(m) <= Len(bs)
        BY <1>0, <1>2, HeaderBounds
    <2> QED BY <1>0, <2>1, SliceSub
<1>4. s2 \in Seq(Nat) /\ Slice(T, a + Width + (NameLen(m) + 1) - 1, a + Width + (NameLen(m) + Width), s2)
    <2>1. NameLen(m) + 1 \in Nat /\ NameLen(m) + Width \in Nat /\ 1 <= NameLen(m) + 1 /\ NameLen(m) + 1 <= NameLen(m) + Width + 1 /\ NameLen(m) + Width <= Len(bs)
        BY <1>0, <1>2, HeaderBounds
    <2> QED BY <1>0, <2>1, SliceSub
<1>5. s3 \in Seq(Nat) /\ Slice(T, a + Width + (NameLen(m) + Width + 1) - 1, a + Width + (NameLen(m) + 2 * Width), s3)
    <2>1. /\ NameLen(m) + Width + 1 \in Nat /\ NameLen(m) + 2 * Width \in Nat /\ 1 <= NameLen(m) + Width + 1
          /\ NameLen(m) + Width + 1 <= NameLen(m) + 2 * Width + 1 /\ NameLen(m) + 2 * Width <= Len(bs)
        BY <1>0, <1>2, HeaderBounds
    <2> QED BY <1>0, <2>1, SliceSub
<1> HIDE DEF s1, s2, s3
<1>6. /\ a + Width + 1 - 1 = a + Width
      /\ a + Width + (NameLen(m) + 1) - 1 = a + Width + NameLen(m) /\ a + Width + (NameLen(m) + Width) = a + 2 * Width + NameLen(m)
      /\ a + Width + (NameLen(m) + Width + 1) - 1 = a + 2 * Width + NameLen(m)
      /\ a + Width + (NameLen(m) + 2 * Width) = a + 3 * Width + NameLen(m)
    BY <1>0
<1>7. s1 = m.name
    <2>1. Slice(T, a + Width, a + Width + NameLen(m), s1)
        BY <1>3, <1>6
    <2> QED BY <1>0, <1>1, <1>3, <2>1, TotalParts, SliceUnique
<1>8. s2 = Encode(m.flags)
    <2>1. Slice(T, a + Width + NameLen(m), a + 2 * Width + NameLen(m), s2)
        BY <1>4, <1>6
    <2>2. Slice(T, a + Width + NameLen(m), a + 2 * Width + NameLen(m), Encode(m.flags))
        BY TotalParts
    <2> QED BY <1>0, <1>1, <1>4, <2>1, <2>2, SliceUnique
<1>9. s3 = Encode(c)
    <2>1. Slice(T, a + 2 * Width + NameLen(m), a + 3 * Width + NameLen(m), s3)
        BY <1>5, <1>6
    <2>2. Slice(T, a + 2 * Width + NameLen(m), a + 3 * Width + NameLen(m), Encode(c))
        BY TotalParts
    <2> HIDE DEF c
    <2> QED BY <1>0, <1>1, <1>5, <2>1, <2>2, SliceUnique
<1>10. ParseHeader(bs, NameLen(m)) = [name |-> s1, flags |-> Decode(s2), len |-> Decode(s3)]
    BY DEF ParseHeader, s1, s2, s3
<1> QED BY <1>1, <1>7, <1>8, <1>9, <1>10

(* ... and the data. *)
LEMMA ParseBody ==
    ASSUME NEW T, NEW a \in Nat, NEW b \in Nat, NEW m \in Sent, Slice(T, a, b, Total(m)),
           NEW bs \in Seq(Nat), NEW p \in Nat, Slice(T, p, b, bs),
           p = a + 3 * Width + NameLen(m)
    PROVE  bs = Body(m)
<1>1. Slice(T, p, b, Body(m))
    BY TotalParts
<1>2. Body(m) \in Seq(Nat)
    BY MessageParts
<1> QED BY <1>1, <1>2, SliceUnique

(* The dialler's header takes three integers. *)
LEMMA HelloParts == Hello \in Seq(Nat) /\ Len(Hello) = 3 * Width
<1> DEFINE e1 == Encode(Dialler[1])
           e2 == Encode(Dialler[2])
           e3 == Encode(Dialler[3])
           f == e1 \o e2
<1>0. Width \in Nat
    BY Sizes
<1>1. /\ Dialler \in [1 .. 3 -> 0 .. Limit - 1]
      /\ Dialler[1] \in 0 .. Limit - 1 /\ Dialler[2] \in 0 .. Limit - 1 /\ Dialler[3] \in 0 .. Limit - 1
    BY MessagesAssumption
<1>2. /\ e1 \in Seq(Nat) /\ Len(e1) = Width /\ e2 \in Seq(Nat) /\ Len(e2) = Width
      /\ e3 \in Seq(Nat) /\ Len(e3) = Width
    BY <1>1, Codec
<1> HIDE DEF e1, e2, e3
<1>3. f \in Seq(Nat) /\ Len(f) = Len(e1) + Len(e2)
    BY <1>2, ConcatProperties
<1> HIDE DEF f
<1>4. f \o e3 \in Seq(Nat) /\ Len(f \o e3) = Len(f) + Len(e3)
    BY <1>2, <1>3, ConcatProperties
<1>5. Len(f \o e3) = 3 * Width
    BY <1>0, <1>2, <1>3, <1>4
<1> QED BY <1>4, <1>5 DEF Hello, e1, e2, e3, f

(* What upgrade_from makes of the dialler's header. *)
LEMMA ParseHello ==
    ASSUME NEW T, Slice(T, 0, 3 * Width, Hello), NEW bs \in Seq(Nat), Slice(T, 0, 3 * Width, bs)
    PROVE  [i \in 1 .. 3 |-> Decode(SubSeq(bs, (i - 1) * Width + 1, i * Width))] = Dialler
<1> DEFINE e1 == Encode(Dialler[1])
           e2 == Encode(Dialler[2])
           e3 == Encode(Dialler[3])
           f == e1 \o e2
<1>0. Width \in Nat /\ 2 * Width \in Nat /\ 3 * Width \in Nat
    <2>1. Width \in Nat
        BY Sizes
    <2> QED BY <2>1
<1>1. /\ Dialler \in [1 .. 3 -> 0 .. Limit - 1]
      /\ Dialler[1] \in 0 .. Limit - 1 /\ Dialler[2] \in 0 .. Limit - 1 /\ Dialler[3] \in 0 .. Limit - 1
    BY MessagesAssumption
<1>2. /\ e1 \in Seq(Nat) /\ Len(e1) = Width /\ Decode(e1) = Dialler[1]
      /\ e2 \in Seq(Nat) /\ Len(e2) = Width /\ Decode(e2) = Dialler[2]
      /\ e3 \in Seq(Nat) /\ Len(e3) = Width /\ Decode(e3) = Dialler[3]
    BY <1>1, Codec
<1>3. Slice(T, 0, 3 * Width, f \o e3)
    BY DEF Hello
<1> HIDE DEF e1, e2, e3
<1>4. f \in Seq(Nat) /\ Len(f) = 2 * Width
    <2>1. f \in Seq(Nat) /\ Len(f) = Len(e1) + Len(e2)
        BY <1>2, ConcatProperties
    <2> QED BY <1>0, <1>2, <2>1
<1>5. Slice(T, 0, 2 * Width, f) /\ Slice(T, 2 * Width, 3 * Width, e3)
    <2> HIDE DEF f
    <2>1. Slice(T, 0, 0 + Len(f), f) /\ Slice(T, 0 + Len(f), 3 * Width, e3)
        BY <1>0, <1>2, <1>3, <1>4, SliceParts
    <2>2. 0 + Len(f) = 2 * Width
        BY <1>0, <1>4
    <2> QED BY <2>1, <2>2
<1>6. Slice(T, 0, Width, e1) /\ Slice(T, Width, 2 * Width, e2)
    <2>1. Slice(T, 0, 0 + Len(e1), e1) /\ Slice(T, 0 + Len(e1), 2 * Width, e2)
        BY <1>0, <1>2, <1>5, SliceParts
    <2>2. 0 + Len(e1) = Width
        BY <1>0, <1>2
    <2> QED BY <2>1, <2>2
<1>7. ASSUME NEW i \in Nat, NEW j \in Nat, i <= j, j <= 3 * Width, NEW e \in Seq(Nat), Slice(T, i, j, e)
      PROVE  SubSeq(bs, i + 1, j) = e
    <2>1. i + 1 \in Nat /\ 1 <= i + 1 /\ i + 1 <= j + 1 /\ j <= Len(bs)
        BY <1>0, <1>7 DEF Slice
    <2>2. SubSeq(bs, i + 1, j) \in Seq(Nat) /\ Slice(T, 0 + (i + 1) - 1, 0 + j, SubSeq(bs, i + 1, j))
        BY <1>0, <2>1, SliceSub
    <2>3. 0 + (i + 1) - 1 = i /\ 0 + j = j
        OBVIOUS
    <2> QED BY <1>7, <2>2, <2>3, SliceUnique
<1>8. SubSeq(bs, 0 + 1, Width) = e1
    <2>1. 0 \in Nat /\ 0 <= Width /\ Width <= 3 * Width
        BY <1>0
    <2> QED BY <1>0, <1>2, <1>6, <1>7, <2>1
<1>9. SubSeq(bs, Width + 1, 2 * Width) = e2
    BY <1>0, <1>2, <1>6, <1>7
<1>10. SubSeq(bs, 2 * Width + 1, 3 * Width) = e3
    BY <1>0, <1>2, <1>5, <1>7
<1> DEFINE g == [i \in 1 .. 3 |-> Decode(SubSeq(bs, (i - 1) * Width + 1, i * Width))]
<1>11. /\ (1 - 1) * Width = 0 /\ 1 * Width = Width
       /\ (2 - 1) * Width = Width /\ (3 - 1) * Width = 2 * Width
    BY <1>0
<1>12. g[1] = Dialler[1] /\ g[2] = Dialler[2] /\ g[3] = Dialler[3]
    <2>1. /\ g[1] = Decode(SubSeq(bs, (1 - 1) * Width + 1, 1 * Width))
          /\ g[2] = Decode(SubSeq(bs, (2 - 1) * Width + 1, 2 * Width))
          /\ g[3] = Decode(SubSeq(bs, (3 - 1) * Width + 1, 3 * Width))
        OBVIOUS
    <2> HIDE DEF g
    <2> QED BY <1>2, <1>8, <1>9, <1>10, <1>11, <2>1
<1>13. \A i \in 1 .. 3 : i = 1 \/ i = 2 \/ i = 3
    OBVIOUS
<1>14. DOMAIN g = 1 .. 3 /\ g = [i \in 1 .. 3 |-> g[i]]
    OBVIOUS
<1> HIDE DEF g
<1>15. \A i \in 1 .. 3 : g[i] = Dialler[i]
    BY <1>12, <1>13
<1>16. g = Dialler
    BY <1>1, <1>14, <1>15
<1> QED BY <1>16 DEF g

----------------------------------------------------------------------------
(* Every step preserves StreamInv *)

(* The names of the threads. *)
LEMMA Threads ==
    /\ "dial" \notin Sender /\ "serve" \notin Sender /\ Nobody \notin Sender
    /\ Thread = Sender \cup {"dial", "serve"}
    BY ThreadsAssumption DEF Thread, Nobody

(* What is sent is a message. *)
LEMMA MessageSent ==
    ASSUME TypeInv, NEW s \in Sender
    PROVE  msg[s] \in Sent
<1>1. msg \in Sends
    BY DEF TypeInv
<1> QED BY <1>1, MessagesAssumption DEF Sent

(* Nothing lies between a position and itself. *)
LEMMA SliceEmpty ==
    ASSUME NEW T, NEW a \in Nat
    PROVE  Slice(T, a, a, <<>>)
    BY DEF Slice

(* The two parts that a call cuts its bytes into. *)
LEMMA Cut ==
    ASSUME NEW s \in Seq(Nat), NEW k \in Nat, 1 <= k, k <= Len(s)
    PROVE  /\ SubSeq(s, 1, k) \in Seq(Nat) /\ Len(SubSeq(s, 1, k)) = k
           /\ SubSeq(s, k + 1, Len(s)) \in Seq(Nat) /\ Len(SubSeq(s, k + 1, Len(s))) = Len(s) - k
<1>1. Slice(s, 0, Len(s), s)
    BY DEF Slice
<1>2. /\ 0 \in Nat /\ 1 \in Nat /\ k + 1 \in Nat /\ Len(s) \in Nat /\ 1 <= 1 /\ 1 <= k + 1
      /\ k + 1 <= Len(s) + 1 /\ Len(s) <= Len(s)
    OBVIOUS
<1>3. SubSeq(s, 1, k) \in Seq(Nat) /\ Slice(s, 0 + 1 - 1, 0 + k, SubSeq(s, 1, k))
    BY <1>1, <1>2, SliceSub
<1>4. SubSeq(s, k + 1, Len(s)) \in Seq(Nat) /\ Slice(s, 0 + (k + 1) - 1, 0 + Len(s), SubSeq(s, k + 1, Len(s)))
    BY <1>1, <1>2, SliceSub
<1> QED BY <1>2, <1>3, <1>4 DEF Slice

(* The bytes that the invariant is about do not change when neither the     *)
(* stream nor the server's place in it does.                                *)
LEMMA BytesKept ==
    ASSUME BytesInv, wire'["up"] = wire["up"], Unwritten' = Unwritten,
           got'["serve"] = got["serve"], need'["serve"] = need["serve"],
           UNCHANGED <<order, delivered, hdr, src>>,
           server' = server \/ server' \in {"ended", "threw", "killed"}
    PROVE  BytesInv'
<1>1. PICK T, at : \E r, w \in Nat : BytesAt(T, at, r, w)
    BY DEF BytesInv
<1>2. PICK r \in Nat, w \in Nat : BytesAt(T, at, r, w)
    BY <1>1
<1>3. Layout(T, at)'
    BY <1>2 DEF BytesAt, Layout
<1>4. ServerAt(T, at, r)'
    BY <1>2 DEF BytesAt, ServerAt
<1>5. BytesAt(T, at, r, w)'
    BY <1>2, <1>3, <1>4 DEF BytesAt
<1> QED BY <1>5 DEF BytesInv

(* A connection that has been closed is at the end of its messages when the *)
(* server waits for bytes that do not come.                                 *)
LEMMA AtEnd ==
    ASSUME StreamInv, client = "closed", wire["up"] = <<>>, need["serve"] > 0,
           server \in {"hello", "ack", "name_len", "header", "body"}
    PROVE  server = "name_len" /\ Len(delivered) = Len(order)
<1>0. Width \in Nat /\ Width > 0
    BY Sizes
<1>1. PICK T, at : \E r, w \in Nat : BytesAt(T, at, r, w)
    BY DEF StreamInv, BytesInv
<1>2. PICK r \in Nat, w \in Nat : BytesAt(T, at, r, w)
    BY <1>1
<1>3. Unwritten = <<>>
    BY DEF StreamInv, ClientInv, Unwritten
<1>4. r = Len(T)
    BY <1>2, <1>3 DEF BytesAt, Slice, Layout
<1> DEFINE k == Len(delivered)
<1>5. k \in Nat /\ Len(order) \in Nat /\ k <= Len(order) /\ order \in Seq(Sent)
    BY DEF StreamInv, TypeInv, FramesIntact
<1>6. server # "hello"
    BY <1>0 DEF StreamInv, AckInv
<1>7. server # "ack"
    BY <1>2 DEF BytesAt, ServerAt
<1>8. ASSUME k < Len(order) PROVE at[k] + 3 * Width + NameLen(order[k + 1]) <= Len(T) /\ at[k + 1] <= Len(T)
                                  /\ at[k] + Width <= Len(T) /\ at[k] \in Nat /\ at[k + 1] \in Nat
    <2>1. k \in 0 .. Len(order) /\ k + 1 \in 0 .. Len(order) /\ k \in 0 .. Len(order) - 1 /\ k + 1 \in 1 .. Len(order)
        BY <1>5, <1>8
    <2>2. at[k] \in Nat /\ at[k + 1] \in Nat /\ at[k + 1] <= Len(T) /\ Slice(T, at[k], at[k + 1], Total(order[k + 1]))
        BY <1>2, <2>1 DEF BytesAt, Layout
    <2>3. order[k + 1] \in Sent
        BY <1>5, <2>1
    <2>4. at[k + 1] = at[k] + 3 * Width + NameLen(order[k + 1]) + DataLen(order[k + 1])
        BY <2>2, <2>3, TotalParts
    <2>5. NameLen(order[k + 1]) \in Nat /\ DataLen(order[k + 1]) \in Nat
        BY <2>3, MessageParts
    <2>6. Len(T) \in Nat
        BY <1>4
    <2> QED BY <1>0, <2>2, <2>4, <2>5, <2>6
<1>9. need["serve"] \in Nat /\ need["serve"] > 0
    BY DEF StreamInv, TypeInv
<1>10. server # "header"
    <2> SUFFICES ASSUME server = "header" PROVE FALSE
        OBVIOUS
    <2>1. k < Len(order) /\ r + need["serve"] = at[k] + 3 * Width + NameLen(order[k + 1])
        BY <1>2 DEF BytesAt, ServerAt
    <2>2. at[k] + 3 * Width + NameLen(order[k + 1]) <= Len(T)
        BY <1>8, <2>1
    <2> QED BY <1>4, <1>9, <2>1, <2>2
<1>11. server # "body"
    <2> SUFFICES ASSUME server = "body" PROVE FALSE
        OBVIOUS
    <2>1. k < Len(order) /\ r + need["serve"] = at[k + 1]
        BY <1>2 DEF BytesAt, ServerAt
    <2>2. at[k + 1] <= Len(T)
        BY <1>8, <2>1
    <2> QED BY <1>4, <1>9, <2>1, <2>2
<1>12. server = "name_len"
    BY <1>6, <1>7, <1>10, <1>11
<1>13. ~(k < Len(order))
    <2> SUFFICES ASSUME k < Len(order) PROVE FALSE
        OBVIOUS
    <2>1. r + need["serve"] = at[k] + Width
        BY <1>2, <1>12 DEF BytesAt, ServerAt
    <2>2. at[k] + Width <= Len(T)
        BY <1>8
    <2> QED BY <1>4, <1>9, <2>1, <2>2
<1> QED BY <1>5, <1>12, <1>13

(* A client that has read the acknowledgement knows that all of it has been *)
(* written.                                                                 *)
LEMMA AckWritten ==
    ASSUME StreamInv, client \in {"open", "closed"}
    PROVE  left["serve"] = <<>>
<1>1. Len(got["dial"]) = Width /\ Len(got["dial"]) + Len(wire["down"]) + Len(left["serve"]) <= Width
    BY DEF StreamInv, AckInv
<1>2. wire["down"] \in Seq(Nat) /\ left["serve"] \in Seq(Nat) /\ got["dial"] \in Seq(Nat)
    BY Threads DEF StreamInv, TypeInv
<1>3. Len(wire["down"]) \in Nat /\ Len(left["serve"]) \in Nat /\ Len(got["dial"]) \in Nat
    BY <1>2
<1>4. Len(left["serve"]) = 0
    <2> DEFINE a == Len(wire["down"])
               b == Len(left["serve"])
               c == Len(got["dial"])
    <2>1. c = Width /\ c + a + b <= Width /\ a \in Nat /\ b \in Nat /\ c \in Nat
        BY <1>1, <1>3
    <2> HIDE DEF a, b, c
    <2>2. b = 0
        BY <2>1
    <2> QED BY <2>2 DEF b
<1> QED BY <1>2, <1>4

(* A step that only moves the client or the server on, or ends one of them. *)
LEMMA StateStep ==
    ASSUME StreamInv, UNCHANGED <<build, msg, callVars, mu, pc, hdr, src, order, delivered>>,
           client' \in {"hello", "ack", "open", "closed", "threw", "killed"},
           server' = server \/ server' \in {"ended", "threw", "killed"},
           ClientInv', AckInv', NothingLost'
    PROVE  StreamInv'
<1>1. UNCHANGED <<wire, left, need, got>>
    BY DEF callVars
<1>2. TypeInv'
    BY <1>1 DEF StreamInv, TypeInv
<1>3. Unwritten' = Unwritten
    BY <1>1 DEF Unwritten
<1>4. BytesInv'
    BY <1>1, <1>3, BytesKept DEF StreamInv
<1>5. FramesIntact'
    BY DEF StreamInv, FramesIntact
<1> QED BY <1>2, <1>4, <1>5 DEF StreamInv

(* An exception or a kill keeps the invariant, and a server that throws has *)
(* not sent its acknowledgement or has lost its client.                     *)
LEMMA DiesStep ==
    ASSUME StreamInv, NEW t \in Thread, ReadFails(t) \/ WriteFails(t) \/ Crash(t)
    PROVE  StreamInv'
<1>0. PICK how \in {"threw", "killed"} : Dies(t, how)
    BY DEF ReadFails, WriteFails, Crash
<1>1. UNCHANGED <<build, msg, callVars, mu, pc, hdr, src, order, delivered>>
    BY <1>0 DEF Dies
<1>2. UNCHANGED <<wire, left, need, got, mu, pc, order, delivered>>
    BY <1>1 DEF callVars
<1>3. CASE t = "serve"
    <2>1. server' = how /\ client' = client
        BY <1>0, <1>3 DEF Dies
    <2>2. ClientInv'
        BY <1>2, <2>1 DEF StreamInv, ClientInv
    <2>3. ASSUME server' = "threw", client \notin {"threw", "killed"}, left["serve"] = <<>> PROVE FALSE
        <3>1. ReadFails(t) \/ WriteFails(t)
            BY <1>3, <2>1, <2>3 DEF Crash, Dies
        <3>2. ReadFails("serve")
            BY <1>3, <2>3, <3>1 DEF WriteFails
        <3>3. /\ server \notin {"ended", "threw", "killed", "name_len"} /\ client = "closed"
              /\ need["serve"] > 0 /\ wire["up"] = <<>>
            BY <2>3, <3>2 DEF ReadFails, EndOfStream, StreamOver, IsUp, OtherIsUp, ServerIsUp, ClientIsUp, In
        <3>4. server \in {"hello", "ack", "header", "body"}
            BY <3>3 DEF StreamInv, TypeInv
        <3> QED BY <3>3, <3>4, AtEnd
    <2>4. AckInv'
        <3>1. ClientIsUp' = ClientIsUp
            BY <2>1 DEF ClientIsUp
        <3>2. server' = "threw" => left'["serve"] # <<>> \/ client' \in {"threw", "killed"}
            BY <1>2, <2>1, <2>3
        <3> QED BY <1>2, <2>1, <3>1, <3>2 DEF StreamInv, AckInv
    <2>5. NothingLost'
        <3>1. ASSUME client' = "closed" PROVE server' # "threw"
            <4>1. left["serve"] = <<>>
                BY <2>1, <3>1, AckWritten
            <4> QED BY <2>1, <2>3, <3>1, <4>1
        <3> QED BY <2>1, <3>1 DEF NothingLost
    <2> QED BY <1>1, <2>1, <2>2, <2>4, <2>5, StateStep DEF StreamInv, TypeInv
<1>4. CASE t # "serve"
    <2>1. client' = how /\ server' = server
        BY <1>0, <1>4 DEF Dies
    <2>2. ClientInv'
        BY <1>2, <2>1 DEF StreamInv, ClientInv
    <2>3. AckInv'
        <3>1. ~ClientIsUp'
            BY <2>1 DEF ClientIsUp
        <3> QED BY <1>2, <2>1, <3>1 DEF StreamInv, AckInv
    <2>4. NothingLost'
        BY <2>1 DEF NothingLost
    <2> QED BY <1>1, <2>1, <2>2, <2>3, <2>4, StateStep
<1> QED BY <1>3, <1>4

(* The end of the connection that the server finds where a message might    *)
(* begin keeps the invariant: if the client has closed, nothing is left.    *)
LEMMA NoMessageStep ==
    ASSUME StreamInv, NoMessage
    PROVE  StreamInv'
<1>1. /\ server = "name_len" /\ server' = "ended" /\ client' = client
      /\ need["serve"] > 0 /\ wire["up"] = <<>> /\ ~ClientIsUp
      /\ UNCHANGED <<build, msg, callVars, mu, pc, hdr, src, order, delivered>>
    BY DEF NoMessage, EndOfStream, StreamOver, In, OtherIsUp
<1>2. UNCHANGED <<wire, left, need, got, mu, pc, order, delivered>>
    BY <1>1 DEF callVars
<1>3. ClientInv'
    BY <1>1, <1>2 DEF StreamInv, ClientInv
<1>4. AckInv'
    <2>1. ~ClientIsUp'
        BY <1>1 DEF ClientIsUp
    <2> QED BY <1>1, <1>2, <2>1 DEF StreamInv, AckInv
<1>5. NothingLost'
    BY <1>1, AtEnd DEF NothingLost
<1> QED BY <1>1, <1>3, <1>4, <1>5, StateStep DEF StreamInv, TypeInv

(* Closing the connection keeps the invariant: the server has not thrown,   *)
(* as it has sent its acknowledgement and the client is up.                 *)
LEMMA CloseStep ==
    ASSUME StreamInv, Close
    PROVE  StreamInv'
<1>1. /\ client = "open" /\ client' = "closed" /\ server' = server
      /\ \A s \in Sender : pc[s] = "returned"
      /\ UNCHANGED <<build, msg, callVars, mu, pc, hdr, src, order, delivered>>
    BY DEF Close
<1>2. UNCHANGED <<wire, left, need, got, mu, pc, order, delivered>>
    BY <1>1 DEF callVars
<1>3. mu = Nobody
    <2>1. mu \in Sender \cup {Nobody}
        BY DEF StreamInv, TypeInv
    <2>2. ASSUME mu \in Sender PROVE FALSE
        <3>1. pc[mu] \in {"header", "body"}
            BY <2>2 DEF StreamInv, ClientInv
        <3> QED BY <1>1, <2>2, <3>1
    <2> QED BY <2>1, <2>2
<1>4. ClientInv'
    BY <1>1, <1>2, <1>3 DEF StreamInv, ClientInv
<1>5. server # "threw" /\ server # "ended"
    <2>1. server # "ended"
        BY <1>1 DEF StreamInv, AckInv, ClientIsUp
    <2>2. server # "threw"
        BY <1>1, AckWritten DEF StreamInv, AckInv
    <2> QED BY <2>1, <2>2
<1>6. AckInv'
    <2>1. ~ClientIsUp'
        BY <1>1 DEF ClientIsUp
    <2> QED BY <1>1, <1>2, <1>5, <2>1 DEF StreamInv, AckInv
<1>7. NothingLost'
    BY <1>1, <1>5 DEF NothingLost
<1> QED BY <1>1, <1>4, <1>6, <1>7, StateStep

(* The client's part of the handshake keeps the invariant. *)
LEMMA HelloSentStep ==
    ASSUME StreamInv, HelloSent
    PROVE  StreamInv'
<1>0. Width \in Nat
    BY Sizes
<1>1. /\ client = "hello" /\ left["dial"] = <<>> /\ client' = "ack"
      /\ need' = [need EXCEPT !["dial"] = Width] /\ got' = [got EXCEPT !["dial"] = <<>>]
      /\ UNCHANGED <<build, msg, server, wire, left, mu, pc, hdr, src, order, delivered>>
    BY DEF HelloSent, Read
<1>2. need \in [{"dial", "serve"} -> Nat] /\ got \in [{"dial", "serve"} -> Seq(Nat)]
    BY DEF StreamInv, TypeInv
<1>3. /\ need' \in [{"dial", "serve"} -> Nat] /\ got' \in [{"dial", "serve"} -> Seq(Nat)]
      /\ need'["serve"] = need["serve"] /\ got'["serve"] = got["serve"]
      /\ need'["dial"] = Width /\ got'["dial"] = <<>>
    BY <1>0, <1>1, <1>2
<1>4. TypeInv'
    BY <1>1, <1>3 DEF StreamInv, TypeInv
<1>5. ClientInv'
    BY <1>1 DEF StreamInv, ClientInv
<1>6. AckInv'
    <2>1. got["dial"] = <<>>
        BY <1>1 DEF StreamInv, AckInv
    <2>2. server # "ended" /\ server' = server
        BY <1>1 DEF StreamInv, AckInv, ClientIsUp
    <2>3. Len(got'["dial"]) + Len(wire'["down"]) + Len(left'["serve"]) <= Width
        BY <1>1, <1>3, <2>1 DEF StreamInv, AckInv
    <2>4. Len(got'["dial"]) + need'["dial"] = Width
        BY <1>0, <1>3
    <2> QED BY <1>1, <1>3, <2>2, <2>3, <2>4 DEF StreamInv, AckInv
<1>7. BytesInv'
    <2>1. Unwritten' = Unwritten
        BY <1>1 DEF Unwritten
    <2> QED BY <1>1, <1>3, <2>1, BytesKept DEF StreamInv
<1>8. FramesIntact' /\ NothingLost'
    BY <1>1 DEF StreamInv, FramesIntact, NothingLost
<1> QED BY <1>4, <1>5, <1>6, <1>7, <1>8 DEF StreamInv

(* So does the end of the handshake. *)
LEMMA AckReadStep ==
    ASSUME StreamInv, AckRead
    PROVE  StreamInv'
<1>1. /\ client = "ack" /\ need["dial"] = 0 /\ client' = "open" /\ server' = server
      /\ UNCHANGED <<build, msg, callVars, mu, pc, hdr, src, order, delivered>>
    BY DEF AckRead
<1>2. UNCHANGED <<wire, left, need, got, mu, pc, order, delivered>>
    BY <1>1 DEF callVars
<1>3. ClientInv'
    BY <1>1, <1>2 DEF StreamInv, ClientInv
<1>4. AckInv'
    <2>1. ClientIsUp' /\ ClientIsUp
        BY <1>1 DEF ClientIsUp
    <2>2. got["dial"] \in Seq(Nat)
        BY DEF StreamInv, TypeInv
    <2>3. Len(got["dial"]) = Width
        BY <1>1, <2>2 DEF StreamInv, AckInv
    <2> QED BY <1>1, <1>2, <2>1, <2>3 DEF StreamInv, AckInv
<1>5. NothingLost'
    BY <1>1 DEF NothingLost
<1> QED BY <1>1, <1>3, <1>4, <1>5, StateStep

(* What the write call of a sender's thread changes. *)
LEMMA WriteCall ==
    ASSUME StreamInv, NEW t \in Thread, NEW bs \in Seq(Nat), left' = [left EXCEPT ![t] = bs]
    PROVE  /\ left' \in [Thread -> Seq(Nat)] /\ left'[t] = bs
           /\ \A u \in Thread : u # t => left'[u] = left[u]
    BY DEF StreamInv, TypeInv

(* Taking the mutex and writing the header keeps the invariant: a frame is  *)
(* added at the end of the stream, all of which had been written.           *)
LEMMA SendBeginStep ==
    ASSUME StreamInv, NEW s \in Sender, SendBegin(s)
    PROVE  StreamInv'
<1> PICK m : m = msg[s]
    OBVIOUS
<1> PICK n : n = Len(order)
    OBVIOUS
<1>0. /\ client = "open" /\ pc[s] = "ready" /\ mu = Nobody /\ mu' = s
      /\ pc' = [pc EXCEPT ![s] = "header"] /\ order' = Append(order, m)
      /\ left' = [left EXCEPT ![s] = Frame(m)]
      /\ UNCHANGED <<build, msg, client, server, wire, need, got, hdr, src, delivered>>
    BY DEF SendBegin, Write
<1>1. m \in Sent
    BY MessageSent DEF StreamInv
<1>2. Frame(m) \in Seq(Nat) /\ Total(m) \in Seq(Nat) /\ Body(m) \in Seq(Nat)
    BY <1>1, MessageParts
<1>3. s \in Thread /\ s # "dial" /\ s # "serve" /\ s # Nobody /\ "dial" \in Thread /\ "serve" \in Thread
    BY Threads
<1>4. /\ left' \in [Thread -> Seq(Nat)] /\ left'[s] = Frame(m)
      /\ \A u \in Thread : u # s => left'[u] = left[u]
    BY <1>0, <1>2, <1>3, WriteCall
<1>5. pc' \in [Sender -> {"ready", "header", "body", "returned"}] /\ pc'[s] = "header"
      /\ \A u \in Sender : u # s => pc'[u] = pc[u]
    BY <1>0 DEF StreamInv, TypeInv
<1>6. /\ order \in Seq(Sent) /\ n \in Nat /\ order' \in Seq(Sent) /\ Len(order') = n + 1
      /\ order'[n + 1] = m /\ \A i \in 1 .. n : order'[i] = order[i]
    <2>1. order \in Seq(Sent)
        BY DEF StreamInv, TypeInv
    <2> QED BY <1>0, <1>1, <2>1, AppendProperties
<1>7. TypeInv'
    BY <1>0, <1>4, <1>5, <1>6 DEF StreamInv, TypeInv
<1>8. left["dial"] = <<>>
    BY <1>0 DEF StreamInv, ClientInv
<1>9. ClientInv'
    <2>1. \A u \in Sender : pc'[u] \in {"header", "body"} <=> mu' = u
        <3> SUFFICES ASSUME NEW u \in Sender PROVE pc'[u] \in {"header", "body"} <=> mu' = u
            OBVIOUS
        <3>1. CASE u = s
            BY <1>0, <1>5, <3>1
        <3>2. CASE u # s
            <4>1. mu # u
                BY <1>0, Threads
            <4>2. pc[u] \notin {"header", "body"}
                BY <4>1 DEF StreamInv, ClientInv
            <4> QED BY <1>0, <1>5, <3>2, <4>2
        <3> QED BY <3>1, <3>2
    <2>2. \A u \in Sender : mu' # u => left'[u] = <<>>
        <3> SUFFICES ASSUME NEW u \in Sender, u # s PROVE left'[u] = <<>>
            BY <1>0
        <3>1. mu # u /\ u \in Thread
            BY <1>0, Threads
        <3> QED BY <1>4, <3>1 DEF StreamInv, ClientInv
    <2>3. left'["dial"] = <<>>
        BY <1>3, <1>4, <1>8
    <2> QED BY <1>0, <2>1, <2>2, <2>3 DEF ClientInv
<1>10. AckInv'
    <2>1. left'["serve"] = left["serve"]
        BY <1>3, <1>4
    <2>2. ClientIsUp' = ClientIsUp
        BY <1>0 DEF ClientIsUp
    <2> QED BY <1>0, <2>1, <2>2 DEF StreamInv, AckInv
<1>11. PICK T, at : \E r, w \in Nat : BytesAt(T, at, r, w)
    BY DEF StreamInv, BytesInv
<1>12. PICK r \in Nat, w \in Nat : BytesAt(T, at, r, w)
    BY <1>11
<1>13. Layout(T, at) /\ T \in Seq(Nat) /\ Len(T) \in Nat
    BY <1>12 DEF BytesAt, Layout
<1>14. w = Len(T)
    <2>1. Unwritten = <<>>
        BY <1>0, <1>8 DEF Unwritten
    <2> QED BY <1>12, <1>13, <2>1 DEF BytesAt, Slice
<1> PICK x : x = Total(m)
    OBVIOUS
<1> PICK U : U = T \o x
    OBVIOUS
<1> PICK L : L = Len(T) + Len(x)
    OBVIOUS
<1> PICK bt : bt = [i \in 0 .. n + 1 |-> IF i = n + 1 THEN L ELSE at[i]]
    OBVIOUS
<1>15. U \in Seq(Nat) /\ Len(U) = L /\ L \in Nat /\ Len(T) <= L
    <2>1. U \in Seq(Nat) /\ Len(U) = L
        BY <1>2, <1>13, SliceGrow
    <2>2. Len(x) \in Nat
        BY <1>2
    <2> QED BY <1>13, <2>1, <2>2
<1>16. \A a, b \in Nat : \A e \in Seq(Nat) : Slice(T, a, b, e) /\ b <= Len(T) => Slice(U, a, b, e)
    BY <1>2, <1>13, SliceGrow
<1>17. Slice(U, Len(T), L, x)
    BY <1>2, <1>13, SliceGrow
<1>18. \A i \in 0 .. n : bt[i] = at[i] /\ at[i] \in Nat /\ at[i] <= Len(T)
    <2> TAKE i \in 0 .. n
    <2>1. i \in 0 .. n + 1 /\ i # n + 1
        BY <1>6
    <2> QED BY <1>13, <2>1 DEF Layout
<1>19. bt[n + 1] = L /\ bt[n] = Len(T) /\ bt[0] = 3 * Width /\ at[n] = Len(T)
    <2>1. 0 \in 0 .. n /\ n \in 0 .. n /\ n + 1 \in 0 .. n + 1
        BY <1>6
    <2>2. at[0] = 3 * Width /\ at[n] = Len(T)
        BY <1>13 DEF Layout
    <2> QED BY <1>18, <2>1, <2>2
<1>20. bt \in [0 .. n + 1 -> Nat]
    <2>1. \A i \in 0 .. n + 1 : i # n + 1 => i \in 0 .. n
        BY <1>6
    <2> QED BY <1>15, <1>18, <2>1
<1>21. 3 * Width \in Nat /\ Hello \in Seq(Nat) /\ Slice(T, 0, 3 * Width, Hello) /\ 3 * Width <= Len(T)
    <2>1. /\ Dialler[1] \in 0 .. Limit - 1 /\ Dialler[2] \in 0 .. Limit - 1 /\ Dialler[3] \in 0 .. Limit - 1
        BY MessagesAssumption
    <2>2. Hello \in Seq(Nat)
        BY <2>1, Codec DEF Hello
    <2>3. 3 * Width <= Len(T)
        <3>1. 0 \in 0 .. n
            BY <1>6
        <3> QED BY <1>18, <1>19, <3>1
    <2> QED BY <1>13, <2>2, <2>3, <1>18, <1>19, <1>6 DEF Layout
<1>22. Layout(U, bt)'
    <2>1. Slice(U, 0, 3 * Width, Hello)
        BY <1>16, <1>21
    <2>2. \A i \in 0 .. n + 1 : bt[i] <= L
        <3> SUFFICES ASSUME NEW i \in 0 .. n + 1 PROVE bt[i] <= L
            OBVIOUS
        <3>1. CASE i = n + 1
            BY <1>15, <1>19, <3>1
        <3>2. CASE i # n + 1
            <4>1. i \in 0 .. n
                BY <1>6, <3>2
            <4>2. bt[i] \in Nat /\ bt[i] <= Len(T)
                BY <1>18, <4>1
            <4> QED BY <1>13, <1>15, <4>2
        <3> QED BY <3>1, <3>2
    <2>3. ASSUME NEW i \in 0 .. n PROVE Slice(U, bt[i], bt[i + 1], Total(order'[i + 1]))
        <3>1. CASE i = n
            BY <1>6, <1>17, <1>19, <3>1
        <3>2. CASE i # n
            <4>1. i \in 0 .. n - 1 /\ i + 1 \in 0 .. n /\ i + 1 \in 1 .. n /\ i \in 0 .. n
                BY <1>6, <2>3, <3>2
            <4>2. Slice(T, at[i], at[i + 1], Total(order[i + 1]))
                BY <1>13, <4>1 DEF Layout
            <4>3. order[i + 1] \in Sent /\ order'[i + 1] = order[i + 1]
                BY <1>6, <4>1
            <4>4. Total(order[i + 1]) \in Seq(Nat)
                BY <4>3, MessageParts
            <4>5. /\ bt[i] = at[i] /\ at[i] \in Nat /\ bt[i + 1] = at[i + 1]
                  /\ at[i + 1] \in Nat /\ at[i + 1] <= Len(T)
                BY <1>18, <4>1
            <4>6. Slice(U, at[i], at[i + 1], Total(order[i + 1]))
                BY <1>16, <4>2, <4>4, <4>5
            <4> QED BY <4>3, <4>5, <4>6
        <3> QED BY <3>1, <3>2
    <2>4. n + 1 - 1 = n
        BY <1>6
    <2>5. /\ at \in [0 .. n -> Nat]
        BY <1>13 DEF Layout
    <2>6. \A i \in 0 .. Len(order') - 1 : Slice(U, bt[i], bt[i + 1], Total(order'[i + 1]))
        <3>1. Len(order') - 1 = n
            BY <1>6, <2>4
        <3> QED BY <2>3, <3>1
    <2>7. \A i \in 0 .. Len(order') : bt[i] <= Len(U)
        BY <1>6, <1>15, <2>2
    <2>8. bt \in [0 .. Len(order') -> Nat] /\ bt[Len(order')] = Len(U)
        BY <1>6, <1>15, <1>19, <1>20
    <2> QED BY <1>15, <1>19, <2>1, <2>6, <2>7, <2>8 DEF Layout
<1>23. Slice(U, r, w, wire["up"])
    <2>1. Slice(T, r, w, wire["up"]) /\ wire["up"] \in Seq(Nat)
        BY <1>12 DEF BytesAt, StreamInv, TypeInv
    <2>2. w <= Len(T)
        BY <1>14
    <2> QED BY <1>16, <2>1, <2>2
<1>24. Slice(U, w, Len(U), Unwritten')
    <2>1. Unwritten' = left'[s] \o Body(m)
        BY <1>0, <1>1, <1>3, <1>5 DEF Unwritten, Body, DataLen, Cast
    <2>2. Unwritten' = x
        BY <1>4, <2>1 DEF Total
    <2> QED BY <1>14, <1>15, <1>17, <2>2
<1>25. ServerAt(U, bt, r)'
    <2> PICK k : k = Len(delivered)
        OBVIOUS
    <2>0. k \in 0 .. n /\ k' = k /\ got["serve"] \in Seq(Nat) /\ Len(delivered') = k
        BY <1>0, <1>6 DEF StreamInv, TypeInv, FramesIntact
    <2>1. ServerAt(T, at, r) /\ r <= Len(T)
        BY <1>12, <1>14 DEF BytesAt, Slice, StreamInv, TypeInv
    <2>2. bt[k] = at[k] /\ at[k] \in Nat
        BY <1>18, <2>0
    <2>3. ASSUME k < n PROVE order'[k + 1] = order[k + 1] /\ bt[k + 1] = at[k + 1] /\ NameLen(order[k + 1]) \in Nat
        <3>1. k + 1 \in 1 .. n /\ k + 1 \in 0 .. n
            BY <1>6, <2>0, <2>3
        <3>2. order[k + 1] \in Sent
            BY <1>6, <3>1
        <3> QED BY <1>6, <1>18, <3>1, <3>2, MessageParts
    <2>4. Width \in Nat
        BY Sizes
    <2>5. ASSUME NEW a \in Nat, Slice(T, a, r, got["serve"]) PROVE Slice(U, a, r, got["serve"])
        BY <1>16, <2>0, <2>1, <2>5
    <2>6. server = "hello" => Slice(U, 0, r, got["serve"])
        BY <2>1, <2>5 DEF ServerAt
    <2>7. server = "name_len" => Slice(U, at[k], r, got["serve"])
        BY <2>1, <2>2, <2>5 DEF ServerAt
    <2>8. server \in {"header", "body"} => k < n
        BY <2>1 DEF ServerAt
    <2>9. server = "header" => Slice(U, at[k] + Width, r, got["serve"])
        <3>1. at[k] + Width \in Nat
            BY <2>2, <2>4
        <3> QED BY <2>1, <2>5, <3>1 DEF ServerAt
    <2>10. server = "body" => Slice(U, at[k] + 3 * Width + NameLen(order[k + 1]), r, got["serve"])
        <3> SUFFICES ASSUME server = "body" PROVE Slice(U, at[k] + 3 * Width + NameLen(order[k + 1]), r, got["serve"])
            OBVIOUS
        <3>1. NameLen(order[k + 1]) \in Nat
            BY <2>3, <2>8
        <3>2. at[k] + 3 * Width + NameLen(order[k + 1]) \in Nat
            BY <2>2, <2>4, <3>1
        <3> QED BY <2>1, <2>5, <3>2 DEF ServerAt
    <2>11. k < Len(order')  \/ ~(k < n)
        BY <1>6, <2>0
    <2> QED BY <1>0, <2>0, <2>1, <2>2, <2>3, <2>6, <2>7, <2>8, <2>9, <2>10, <2>11 DEF ServerAt
<1>26. BytesInv'
    <2>1. BytesAt(U, bt, r, w)'
        BY <1>0, <1>22, <1>23, <1>24, <1>25 DEF BytesAt
    <2> QED BY <2>1 DEF BytesInv
<1>27. FramesIntact'
    <2>1. \A i \in DOMAIN delivered : i \in 1 .. n
        BY <1>6 DEF StreamInv, TypeInv, FramesIntact
    <2>2. Len(delivered) \in Nat
        BY DEF StreamInv, TypeInv
    <2> QED BY <1>0, <1>6, <2>1, <2>2 DEF StreamInv, FramesIntact
<1>28. NothingLost'
    BY <1>0 DEF NothingLost
<1> QED BY <1>7, <1>9, <1>10, <1>26, <1>27, <1>28 DEF StreamInv

(* Going on from the header to the data keeps the invariant: the data was    *)
(* what was left to write of the frame.                                      *)
LEMMA SendBodyStep ==
    ASSUME StreamInv, NEW s \in Sender, SendBody(s)
    PROVE  StreamInv'
<1> PICK m : m = msg[s]
    OBVIOUS
<1>0. /\ client = "open" /\ pc[s] = "header" /\ left[s] = <<>>
      /\ pc' = [pc EXCEPT ![s] = "body"] /\ left' = [left EXCEPT ![s] = Body(m)]
      /\ UNCHANGED <<build, msg, client, server, wire, need, got, mu, hdr, src, order, delivered>>
    BY DEF SendBody, Write, Body, DataLen
<1>1. m \in Sent
    BY MessageSent DEF StreamInv
<1>2. Body(m) \in Seq(Nat)
    BY <1>1, MessageParts
<1>3. s \in Thread /\ s # "dial" /\ s # "serve" /\ s # Nobody /\ "dial" \in Thread /\ "serve" \in Thread
    BY Threads
<1>4. /\ left' \in [Thread -> Seq(Nat)] /\ left'[s] = Body(m)
      /\ \A u \in Thread : u # s => left'[u] = left[u]
    BY <1>0, <1>2, <1>3, WriteCall
<1>5. pc' \in [Sender -> {"ready", "header", "body", "returned"}] /\ pc'[s] = "body"
      /\ \A u \in Sender : u # s => pc'[u] = pc[u]
    BY <1>0 DEF StreamInv, TypeInv
<1>6. mu = s /\ mu' = s
    BY <1>0 DEF StreamInv, ClientInv
<1>7. TypeInv'
    BY <1>0, <1>4, <1>5 DEF StreamInv, TypeInv
<1>8. ClientInv'
    <2>1. \A u \in Sender : pc'[u] \in {"header", "body"} <=> mu' = u
        BY <1>0, <1>5, <1>6 DEF StreamInv, ClientInv
    <2>2. \A u \in Sender : mu' # u => left'[u] = <<>>
        BY <1>4, <1>6, Threads DEF StreamInv, ClientInv
    <2>3. left'["dial"] = left["dial"]
        BY <1>3, <1>4
    <2> QED BY <1>0, <2>1, <2>2, <2>3 DEF StreamInv, ClientInv
<1>9. AckInv'
    <2>1. left'["serve"] = left["serve"]
        BY <1>3, <1>4
    <2>2. ClientIsUp' = ClientIsUp
        BY <1>0 DEF ClientIsUp
    <2> QED BY <1>0, <2>1, <2>2 DEF StreamInv, AckInv
<1>10. BytesInv'
    <2>1. Unwritten = <<>> \o Body(m)
        BY <1>0, <1>3, <1>6 DEF Unwritten
    <2>2. Unwritten' = Body(m) \o <<>>
        BY <1>0, <1>3, <1>4, <1>5, <1>6 DEF Unwritten
    <2>3. <<>> \o Body(m) = Body(m) /\ Body(m) \o <<>> = Body(m)
        BY <1>2, ConcatEmptySeq
    <2> QED BY <1>0, <2>1, <2>2, <2>3, BytesKept DEF StreamInv
<1>11. FramesIntact' /\ NothingLost'
    BY <1>0 DEF StreamInv, FramesIntact, NothingLost
<1> QED BY <1>7, <1>8, <1>9, <1>10, <1>11 DEF StreamInv

(* Giving the mutex back keeps the invariant: all has been written. *)
LEMMA SendEndStep ==
    ASSUME StreamInv, NEW s \in Sender, SendEnd(s)
    PROVE  StreamInv'
<1>0. /\ client = "open" /\ pc[s] = "body" /\ left[s] = <<>>
      /\ pc' = [pc EXCEPT ![s] = "returned"] /\ mu' = Nobody
      /\ UNCHANGED <<build, msg, client, server, wire, left, need, got, hdr, src, order, delivered>>
    BY DEF SendEnd, callVars
<1>1. mu = s /\ s # Nobody
    BY <1>0, Threads DEF StreamInv, ClientInv
<1>2. pc' \in [Sender -> {"ready", "header", "body", "returned"}] /\ pc'[s] = "returned"
      /\ \A u \in Sender : u # s => pc'[u] = pc[u]
    BY <1>0 DEF StreamInv, TypeInv
<1>3. TypeInv'
    BY <1>0, <1>2 DEF StreamInv, TypeInv
<1>4. ClientInv'
    <2>1. \A u \in Sender : pc'[u] \notin {"header", "body"} /\ mu' # u
        BY <1>0, <1>1, <1>2, Threads DEF StreamInv, ClientInv
    <2>2. \A u \in Sender : left'[u] = <<>>
        BY <1>0, <1>1 DEF StreamInv, ClientInv
    <2> QED BY <1>0, <2>1, <2>2 DEF StreamInv, ClientInv
<1>5. AckInv'
    <2>1. ClientIsUp' = ClientIsUp
        BY <1>0 DEF ClientIsUp
    <2> QED BY <1>0, <2>1 DEF StreamInv, AckInv
<1>6. BytesInv'
    <2>1. Unwritten = <<>> \o <<>>
        BY <1>0, <1>1 DEF Unwritten
    <2>2. Unwritten' = <<>>
        BY <1>0 DEF Unwritten, StreamInv, ClientInv
    <2>3. <<>> \o <<>> = <<>>
        OBVIOUS
    <2> QED BY <1>0, <2>1, <2>2, <2>3, BytesKept DEF StreamInv
<1>7. FramesIntact' /\ NothingLost'
    BY <1>0 DEF StreamInv, FramesIntact, NothingLost
<1> QED BY <1>3, <1>4, <1>5, <1>6, <1>7 DEF StreamInv

(* A write of some of the bytes of a call keeps the invariant: they move    *)
(* from the front of what is unwritten to the end of what is under way.     *)
LEMMA WriteSomeStep ==
    ASSUME StreamInv, NEW t \in Thread, WriteSome(t)
    PROVE  StreamInv'
<1>1. PICK k \in 1 .. Least(Len(left[t]), Room - Len(wire[Out(t)])) :
          /\ wire' = [wire EXCEPT ![Out(t)] = wire[Out(t)] \o SubSeq(left[t], 1, k)]
          /\ left' = [left EXCEPT ![t] = SubSeq(left[t], k + 1, Len(left[t]))]
    BY DEF WriteSome
<1>2. UNCHANGED <<build, msg, client, server, need, got, mu, pc, hdr, src, order, delivered>>
    BY DEF WriteSome
<1>3. left[t] \in Seq(Nat) /\ wire \in [{"up", "down"} -> Seq(Nat)] /\ Out(t) \in {"up", "down"}
    BY DEF StreamInv, TypeInv, Out
<1> PICK l : l = left[t]
    OBVIOUS
<1>4. k \in Nat /\ 1 <= k /\ k <= Len(l) /\ l \in Seq(Nat)
    <2>1. Room \in Nat /\ Len(left[t]) \in Nat /\ Len(wire[Out(t)]) \in Nat
        BY <1>3, SizesAssumption
    <2>2. Least(Len(left[t]), Room - Len(wire[Out(t)])) \in Int /\ Least(Len(left[t]), Room - Len(wire[Out(t)])) <= Len(left[t])
        BY <2>1 DEF Least
    <2> QED BY <1>3, <2>1, <2>2
<1> PICK p, q : p = SubSeq(l, 1, k) /\ q = SubSeq(l, k + 1, Len(l))
    OBVIOUS
<1>5. p \in Seq(Nat) /\ Len(p) = k /\ q \in Seq(Nat) /\ Len(q) = Len(l) - k
    BY <1>4, Cut
<1>6. /\ left' \in [Thread -> Seq(Nat)] /\ left'[t] = q
      /\ \A u \in Thread : u # t => left'[u] = left[u]
    BY <1>1, <1>5, WriteCall
<1>7. /\ wire' \in [{"up", "down"} -> Seq(Nat)] /\ wire'[Out(t)] = wire[Out(t)] \o p
      /\ \A d \in {"up", "down"} : d # Out(t) => wire'[d] = wire[d]
    <2>1. wire[Out(t)] \o p \in Seq(Nat)
        BY <1>3, <1>5, ConcatProperties
    <2> QED BY <1>1, <1>3, <2>1
<1>8. l # <<>>
    BY <1>4
<1>9. TypeInv'
    BY <1>2, <1>6, <1>7 DEF StreamInv, TypeInv
<1>10. FramesIntact' /\ NothingLost'
    BY <1>2 DEF StreamInv, FramesIntact, NothingLost
<1>11. ClientIsUp' = ClientIsUp
    BY <1>2 DEF ClientIsUp
<1>12. "dial" \in Thread /\ "serve" \in Thread /\ Sender \subseteq Thread /\ "dial" \notin Sender /\ "serve" \notin Sender /\ Nobody \notin Sender
    BY Threads
<1>13. CASE t = "serve"
    <2>0. Out(t) = "down"
        BY <1>13 DEF Out
    <2>1. wire'["up"] = wire["up"] /\ wire'["down"] = wire["down"] \o p
        BY <1>7, <2>0
    <2>2. left'["dial"] = left["dial"] /\ \A s \in Sender : left'[s] = left[s]
        BY <1>6, <1>12, <1>13
    <2>3. ClientInv'
        BY <1>2, <2>2 DEF StreamInv, ClientInv
    <2>4. AckInv'
        <3>1. Len(wire'["down"]) = Len(wire["down"]) + k /\ Len(left'["serve"]) = Len(left["serve"]) - k
            <4>1. wire["down"] \in Seq(Nat)
                BY <1>3
            <4>2. Len(wire["down"] \o p) = Len(wire["down"]) + Len(p)
                BY <1>5, <4>1, ConcatProperties
            <4> QED BY <1>5, <1>6, <1>13, <2>1, <4>2
        <3>2. got["dial"] \in Seq(Nat) /\ wire["down"] \in Seq(Nat) /\ left["serve"] \in Seq(Nat)
            BY <1>12 DEF StreamInv, TypeInv
        <3>3. Len(got'["dial"]) + Len(wire'["down"]) + Len(left'["serve"]) <= Width
            <4> DEFINE a == Len(got["dial"])
                       b == Len(wire["down"])
                       c == Len(left["serve"])
            <4>1. a \in Nat /\ b \in Nat /\ c \in Nat
                BY <3>2
            <4>2. a + b + c <= Width /\ Width \in Nat
                BY Sizes DEF StreamInv, AckInv
            <4> HIDE DEF a, b, c
            <4>3. a + (b + k) + (c - k) <= Width
                BY <1>4, <4>1, <4>2
            <4> QED BY <1>2, <3>1, <4>3 DEF a, b, c
        <3>4. server # "hello" /\ server # "threw"
            <4>1. server # "hello"
                BY <1>8, <1>13 DEF StreamInv, AckInv
            <4>2. ServerIsUp
                BY <1>13 DEF WriteSome, IsUp
            <4> QED BY <4>1, <4>2 DEF ServerIsUp
        <3> QED BY <1>2, <1>11, <3>3, <3>4 DEF StreamInv, AckInv
    <2>5. BytesInv'
        <3>1. Unwritten' = Unwritten
            <4>1. mu \in Sender \cup {Nobody}
                BY DEF StreamInv, TypeInv
            <4> QED BY <1>2, <2>2, <4>1 DEF Unwritten
        <3> QED BY <1>2, <2>1, <3>1, BytesKept DEF StreamInv
    <2> QED BY <1>9, <1>10, <2>3, <2>4, <2>5 DEF StreamInv
<1>14. CASE t # "serve"
    <2>0. Out(t) = "up"
        BY <1>14 DEF Out
    <2>1. wire'["up"] = wire["up"] \o p /\ wire'["down"] = wire["down"]
        BY <1>7, <2>0
    <2>2. left'["serve"] = left["serve"]
        BY <1>6, <1>12, <1>14
    <2>3. AckInv'
        BY <1>2, <1>11, <2>1, <2>2 DEF StreamInv, AckInv
    <2>4. \/ t = "dial" /\ mu = Nobody
          \/ t \in Sender /\ mu = t
        <3>1. t = "dial" \/ t \in Sender
            BY <1>14, Threads
        <3>2. t \in Sender => mu = t
            BY <1>8 DEF StreamInv, ClientInv
        <3>3. t = "dial" => mu = Nobody
            BY <1>8 DEF StreamInv, ClientInv
        <3> QED BY <3>1, <3>2, <3>3
    <2>5. ClientInv'
        <3>1. \A s \in Sender : mu' # s => left'[s] = <<>>
            BY <1>2, <1>6, <1>12, <2>4 DEF StreamInv, ClientInv
        <3>2. CASE t = "dial"
            <4>1. client \notin {"ack", "open", "closed"}
                BY <1>8, <3>2 DEF StreamInv, ClientInv
            <4>2. mu' = Nobody
                BY <1>2, <1>12, <2>4, <3>2
            <4> QED BY <1>2, <3>1, <4>1, <4>2 DEF StreamInv, ClientInv
        <3>3. CASE t # "dial"
            <4>1. left'["dial"] = left["dial"]
                BY <1>6, <1>12, <3>3
            <4> QED BY <1>2, <3>1, <4>1 DEF StreamInv, ClientInv
        <3> QED BY <3>2, <3>3
    <2>6. \E x \in Seq(Nat) : Unwritten = l \o x /\ Unwritten' = q \o x
        <3>1. CASE t = "dial"
            <4>1. Unwritten = l /\ Unwritten' = q
                BY <1>2, <1>6, <1>12, <2>4, <3>1 DEF Unwritten
            <4>2. l \o <<>> = l /\ q \o <<>> = q /\ <<>> \in Seq(Nat)
                BY <1>4, <1>5, ConcatEmptySeq
            <4> QED BY <4>1, <4>2
        <3>2. CASE t # "dial"
            <4> PICK m : m = msg[t]
                OBVIOUS
            <4>1. t \in Sender /\ mu = t /\ mu # Nobody /\ m \in Sent
                BY <1>12, <2>4, <3>2, MessageSent DEF StreamInv
            <4> PICK x : x = IF pc[t] = "header" THEN Body(m) ELSE <<>>
                OBVIOUS
            <4>2. x \in Seq(Nat)
                <5>1. Body(m) \in Seq(Nat)
                    BY <4>1, MessageParts
                <5>2. <<>> \in Seq(Nat)
                    OBVIOUS
                <5> QED BY <5>1, <5>2
            <4>3. Unwritten = l \o x
                BY <4>1 DEF Unwritten
            <4>4. Unwritten' = q \o x
                BY <1>2, <1>6, <4>1 DEF Unwritten
            <4> QED BY <4>2, <4>3, <4>4
        <3> QED BY <3>1, <3>2
    <2>7. BytesInv'
        <3>1. PICK T, at : \E r, w \in Nat : BytesAt(T, at, r, w)
            BY DEF StreamInv, BytesInv
        <3>2. PICK r \in Nat, w \in Nat : BytesAt(T, at, r, w)
            BY <3>1
        <3>3. PICK x \in Seq(Nat) : Unwritten = l \o x /\ Unwritten' = q \o x
            BY <2>6
        <3>4. Len(T) \in Nat /\ w + Len(l) \in Nat /\ w + k \in Nat
            BY <1>4, <3>2 DEF BytesAt, Layout
        <3>5. Slice(T, w, w + Len(l), l) /\ Slice(T, w + Len(l), Len(T), x)
            <4>1. Slice(T, w, Len(T), l \o x)
                BY <3>2, <3>3 DEF BytesAt
            <4> QED BY <1>4, <3>3, <3>4, <4>1, SliceParts
        <3>6. Slice(T, w, w + k, p)
            <4>1. 1 \in Nat /\ 1 <= 1 /\ 1 <= k + 1 /\ k <= Len(l)
                BY <1>4
            <4>2. Slice(T, w + 1 - 1, w + k, p)
                BY <1>4, <3>4, <3>5, <4>1, SliceSub
            <4>3. w + 1 - 1 = w
                OBVIOUS
            <4> QED BY <4>2, <4>3
        <3>7. Slice(T, w + k, w + Len(l), q)
            <4>1. k + 1 \in Nat /\ Len(l) \in Nat /\ 1 <= k + 1 /\ k + 1 <= Len(l) + 1 /\ Len(l) <= Len(l)
                BY <1>4
            <4>2. Slice(T, w + (k + 1) - 1, w + Len(l), q)
                BY <1>4, <3>4, <3>5, <4>1, SliceSub
            <4>3. w + (k + 1) - 1 = w + k
                BY <1>4
            <4> QED BY <4>2, <4>3
        <3>8. Slice(T, w + k, Len(T), q \o x)
            BY <1>5, <3>3, <3>4, <3>5, <3>7, SliceConcat
        <3>9. Slice(T, r, w + k, wire["up"] \o p)
            <4>1. Slice(T, r, w, wire["up"]) /\ wire["up"] \in Seq(Nat)
                BY <1>3, <3>2 DEF BytesAt
            <4> QED BY <1>5, <3>4, <3>6, <4>1, SliceConcat
        <3>10. Layout(T, at)' /\ ServerAt(T, at, r)'
            BY <1>2, <3>2 DEF BytesAt, Layout, ServerAt
        <3>11. BytesAt(T, at, r, w + k)'
            BY <2>1, <3>3, <3>8, <3>9, <3>10 DEF BytesAt
        <3> QED BY <3>4, <3>11 DEF BytesInv
    <2> QED BY <1>9, <1>10, <2>3, <2>5, <2>7 DEF StreamInv
<1> QED BY <1>13, <1>14

(* A read of some of the bytes of a call keeps the invariant: they move from *)
(* the front of what is under way to the end of what the call has read.      *)
LEMMA ReadSomeStep ==
    ASSUME StreamInv, NEW t \in {"dial", "serve"}, ReadSome(t)
    PROVE  StreamInv'
<1>1. PICK k \in 1 .. Least(need[t], Len(wire[In(t)])) :
          /\ got' = [got EXCEPT ![t] = got[t] \o SubSeq(wire[In(t)], 1, k)]
          /\ need' = [need EXCEPT ![t] = need[t] - k]
          /\ wire' = [wire EXCEPT ![In(t)] = SubSeq(wire[In(t)], k + 1, Len(wire[In(t)]))]
    BY DEF ReadSome
<1>2. UNCHANGED <<build, msg, client, server, left, mu, pc, hdr, src, order, delivered>>
    BY DEF ReadSome
<1>3. /\ wire \in [{"up", "down"} -> Seq(Nat)] /\ In(t) \in {"up", "down"} /\ wire[In(t)] \in Seq(Nat)
      /\ need \in [{"dial", "serve"} -> Nat] /\ got \in [{"dial", "serve"} -> Seq(Nat)]
    BY DEF StreamInv, TypeInv, In
<1> PICK l : l = wire[In(t)]
    OBVIOUS
<1>4. k \in Nat /\ 1 <= k /\ k <= Len(l) /\ l \in Seq(Nat) /\ k <= need[t]
    <2>1. need[t] \in Nat /\ Len(wire[In(t)]) \in Nat
        BY <1>3
    <2>2. /\ Least(need[t], Len(wire[In(t)])) \in Nat
          /\ Least(need[t], Len(wire[In(t)])) <= need[t]
          /\ Least(need[t], Len(wire[In(t)])) <= Len(wire[In(t)])
        BY <2>1 DEF Least
    <2> QED BY <1>3, <2>1, <2>2
<1> PICK p, q : p = SubSeq(l, 1, k) /\ q = SubSeq(l, k + 1, Len(l))
    OBVIOUS
<1>5. p \in Seq(Nat) /\ Len(p) = k /\ q \in Seq(Nat) /\ Len(q) = Len(l) - k
    BY <1>4, Cut
<1>6. got[t] \o p \in Seq(Nat) /\ Len(got[t] \o p) = Len(got[t]) + k /\ got[t] \in Seq(Nat)
    <2>1. got[t] \in Seq(Nat)
        BY <1>3
    <2>2. got[t] \o p \in Seq(Nat) /\ Len(got[t] \o p) = Len(got[t]) + Len(p)
        BY <1>5, <2>1, ConcatProperties
    <2> QED BY <1>5, <2>1, <2>2
<1>7. /\ got' \in [{"dial", "serve"} -> Seq(Nat)] /\ got'[t] = got[t] \o p
      /\ need' \in [{"dial", "serve"} -> Nat] /\ need'[t] = need[t] - k
      /\ \A u \in {"dial", "serve"} : u # t => got'[u] = got[u] /\ need'[u] = need[u]
    <2>1. need[t] - k \in Nat
        BY <1>3, <1>4
    <2> QED BY <1>1, <1>3, <1>6, <2>1
<1>8. /\ wire' \in [{"up", "down"} -> Seq(Nat)] /\ wire'[In(t)] = q
      /\ \A d \in {"up", "down"} : d # In(t) => wire'[d] = wire[d]
    BY <1>1, <1>3, <1>5
<1>9. TypeInv'
    BY <1>2, <1>7, <1>8 DEF StreamInv, TypeInv
<1>10. FramesIntact' /\ NothingLost' /\ ClientInv'
    BY <1>2 DEF StreamInv, FramesIntact, NothingLost, ClientInv
<1>11. ClientIsUp' = ClientIsUp /\ Unwritten' = Unwritten
    BY <1>2 DEF ClientIsUp, Unwritten
<1>12. CASE t = "dial"
    <2>1. In(t) = "down"
        BY <1>12 DEF In
    <2>2. /\ wire'["up"] = wire["up"] /\ wire'["down"] = q /\ l = wire["down"]
          /\ got'["serve"] = got["serve"] /\ need'["serve"] = need["serve"]
          /\ got'["dial"] = got["dial"] \o p /\ need'["dial"] = need["dial"] - k
        BY <1>7, <1>8, <1>12, <2>1
    <2>3. BytesInv'
        BY <1>2, <1>11, <2>2, BytesKept DEF StreamInv
    <2>4. AckInv'
        <3> DEFINE a == Len(got["dial"])
                   b == Len(wire["down"])
                   c == Len(left["serve"])
                   e == need["dial"]
        <3>0. got["dial"] \in Seq(Nat) /\ wire["down"] \in Seq(Nat) /\ left["serve"] \in Seq(Nat) /\ need["dial"] \in Nat
            BY Threads DEF StreamInv, TypeInv
        <3>1. a \in Nat /\ b \in Nat /\ c \in Nat /\ e \in Nat
            BY <3>0
        <3>2. a + b + c <= Width /\ Width \in Nat
            BY Sizes DEF StreamInv, AckInv
        <3>3. Len(got'["dial"]) = a + k /\ Len(wire'["down"]) = b - k /\ Len(left'["serve"]) = c
            BY <1>2, <1>5, <1>6, <1>12, <2>2
        <3>4. k <= b /\ k <= e /\ need'["dial"] = e - k
            BY <1>4, <1>12, <2>2
        <3>5. client = "ack" => a + e = Width
            BY DEF StreamInv, AckInv
        <3>6. client # "hello"
            BY <1>4, <1>12 DEF StreamInv, AckInv
        <3>7. client \in {"open", "closed"} => a = Width
            BY DEF StreamInv, AckInv
        <3>8. server # "hello"
            <4>1. wire["down"] # <<>>
                BY <1>4, <2>2
            <4> QED BY <4>1 DEF StreamInv, AckInv
        <3> HIDE DEF a, b, c, e
        <3>9. (a + k) + (b - k) + c <= Width
            BY <1>4, <3>1, <3>2
        <3>10. client = "ack" => (a + k) + (e - k) = Width
            BY <1>4, <3>1, <3>2, <3>5
        <3>11. client \notin {"open", "closed"}
            BY <1>4, <3>1, <3>2, <3>4, <3>7
        <3> QED BY <1>2, <1>11, <3>3, <3>4, <3>6, <3>8, <3>9, <3>10, <3>11 DEF StreamInv, AckInv
    <2> QED BY <1>9, <1>10, <2>3, <2>4 DEF StreamInv
<1>13. CASE t = "serve"
    <2>1. In(t) = "up"
        BY <1>13 DEF In
    <2>2. /\ wire'["down"] = wire["down"] /\ wire'["up"] = q /\ l = wire["up"]
          /\ got'["dial"] = got["dial"] /\ need'["dial"] = need["dial"]
          /\ got'["serve"] = got["serve"] \o p /\ need'["serve"] = need["serve"] - k
        BY <1>7, <1>8, <1>13, <2>1
    <2>3. AckInv'
        BY <1>2, <1>11, <2>2 DEF StreamInv, AckInv
    <2>4. PICK T, at : \E r, w \in Nat : BytesAt(T, at, r, w)
        BY DEF StreamInv, BytesInv
    <2>5. PICK r \in Nat, w \in Nat : BytesAt(T, at, r, w)
        BY <2>4
    <2>6. r + k \in Nat
        BY <1>4
    <2>7. Slice(T, r, r + k, p) /\ Slice(T, r + k, w, q)
        <3>0. Slice(T, r, w, l) /\ w = r + Len(l)
            BY <2>2, <2>5 DEF BytesAt, Slice
        <3>1. 1 \in Nat /\ 1 <= 1 /\ 1 <= k + 1 /\ k <= Len(l)
            BY <1>4
        <3>2. Slice(T, r + 1 - 1, r + k, p)
            BY <1>4, <3>0, <3>1, SliceSub
        <3>3. k + 1 \in Nat /\ Len(l) \in Nat /\ 1 <= k + 1 /\ k + 1 <= Len(l) + 1 /\ Len(l) <= Len(l)
            BY <1>4
        <3>4. Slice(T, r + (k + 1) - 1, r + Len(l), q)
            BY <1>4, <3>0, <3>3, SliceSub
        <3>5. r + 1 - 1 = r /\ r + (k + 1) - 1 = r + k
            BY <1>4
        <3> QED BY <3>0, <3>2, <3>4, <3>5
    <2>8. ASSUME NEW a \in Nat, Slice(T, a, r, got["serve"]) PROVE Slice(T, a, r + k, got'["serve"])
        BY <1>5, <1>6, <1>13, <2>2, <2>6, <2>7, <2>8, SliceConcat
    <2>9. r + k + need'["serve"] = r + need["serve"]
        <3>1. need["serve"] \in Nat
            BY <1>3
        <3> QED BY <1>4, <2>2, <3>1
    <2>10. Layout(T, at)'
        BY <1>2, <2>5 DEF BytesAt, Layout
    <2>11. ServerAt(T, at, r + k)'
        <3> PICK d : d = Len(delivered)
            OBVIOUS
        <3>0. d \in 0 .. Len(order) /\ order \in Seq(Sent) /\ Len(order) \in Nat /\ Len(delivered') = d /\ Width \in Nat
            BY <1>2, Sizes DEF StreamInv, TypeInv, FramesIntact
        <3>1. ServerAt(T, at, r)
            BY <2>5 DEF BytesAt
        <3>2. at[d] \in Nat
            BY <2>5, <3>0 DEF BytesAt, Layout
        <3>3. server # "ack"
            BY <1>4, <1>13, <3>1 DEF ServerAt
        <3>4. server = "hello" => Slice(T, 0, r + k, got'["serve"])
            BY <2>8, <3>1 DEF ServerAt
        <3>5. server = "name_len" => Slice(T, at[d], r + k, got'["serve"])
            BY <2>8, <3>1, <3>2 DEF ServerAt
        <3>6. server = "header" => Slice(T, at[d] + Width, r + k, got'["serve"])
            <4>1. at[d] + Width \in Nat
                BY <3>0, <3>2
            <4> QED BY <2>8, <3>1, <4>1 DEF ServerAt
        <3>7. server = "body" => Slice(T, at[d] + 3 * Width + NameLen(order[d + 1]), r + k, got'["serve"])
            <4> SUFFICES ASSUME server = "body"
                         PROVE  Slice(T, at[d] + 3 * Width + NameLen(order[d + 1]), r + k, got'["serve"])
                OBVIOUS
            <4>1. d < Len(order)
                BY <3>1 DEF ServerAt
            <4>2. d + 1 \in 1 .. Len(order)
                BY <3>0, <4>1
            <4>3. order[d + 1] \in Sent
                BY <3>0, <4>2
            <4>4. NameLen(order[d + 1]) \in Nat
                BY <4>3, MessageParts
            <4>5. at[d] + 3 * Width + NameLen(order[d + 1]) \in Nat
                BY <3>0, <3>2, <4>4
            <4> QED BY <2>8, <3>1, <4>5 DEF ServerAt
        <3> QED BY <1>2, <2>9, <3>0, <3>1, <3>3, <3>4, <3>5, <3>6, <3>7 DEF ServerAt
    <2>12. BytesAt(T, at, r + k, w)'
        BY <1>11, <2>2, <2>5, <2>7, <2>10, <2>11 DEF BytesAt
    <2>13. BytesInv'
        BY <2>6, <2>12 DEF BytesInv
    <2> QED BY <1>9, <1>10, <2>3, <2>13 DEF StreamInv
<1> QED BY <1>12, <1>13

(* What is not yet written is a sequence of bytes. *)
LEMMA UnwrittenSeq ==
    ASSUME StreamInv
    PROVE  Unwritten \in Seq(Nat)
<1>1. mu \in Sender \cup {Nobody} /\ left \in [Thread -> Seq(Nat)]
    BY DEF StreamInv, TypeInv
<1>2. CASE mu = Nobody
    <2>1. left["dial"] \in Seq(Nat)
        BY <1>1, Threads
    <2> QED BY <1>2, <2>1 DEF Unwritten
<1>3. CASE mu # Nobody
    <2> PICK l, b : l = left[mu] /\ b = IF pc[mu] = "header" THEN Body(msg[mu]) ELSE <<>>
        OBVIOUS
    <2>1. mu \in Sender /\ l \in Seq(Nat)
        BY <1>1, <1>3, Threads
    <2>2. Body(msg[mu]) \in Seq(Nat)
        BY <2>1, MessageSent, MessageParts DEF StreamInv
    <2>3. b \in Seq(Nat)
        BY <2>2
    <2>4. l \o b \in Seq(Nat)
        BY <2>1, <2>3, ConcatProperties
    <2> QED BY <1>3, <2>4 DEF Unwritten
<1> QED BY <1>2, <1>3

(* The message that the server is in. *)
LEMMA InMessage ==
    ASSUME StreamInv, NEW T, NEW at, NEW r \in Nat, NEW w \in Nat, BytesAt(T, at, r, w),
           NEW k, k = Len(delivered), k < Len(order)
    PROVE  /\ k \in Nat /\ k + 1 \in 1 .. Len(order) /\ at[k] \in Nat /\ at[k + 1] \in Nat
           /\ order[k + 1] \in Sent /\ Slice(T, at[k], at[k + 1], Total(order[k + 1]))
           /\ order \in Seq(Sent)
<1>1. k \in Nat /\ Len(order) \in Nat /\ order \in Seq(Sent)
    BY DEF StreamInv, TypeInv
<1>2. k \in 0 .. Len(order) /\ k + 1 \in 0 .. Len(order) /\ k \in 0 .. Len(order) - 1 /\ k + 1 \in 1 .. Len(order)
    BY <1>1
<1>3. at[k] \in Nat /\ at[k + 1] \in Nat /\ Slice(T, at[k], at[k + 1], Total(order[k + 1]))
    BY <1>2 DEF BytesAt, Layout
<1>4. order[k + 1] \in Sent
    BY <1>1, <1>2
<1> QED BY <1>1, <1>2, <1>3, <1>4

(* A step of the server that goes on to its next read keeps the invariant   *)
(* if it keeps the server's place in the stream.                            *)
LEMMA ServerReads ==
    ASSUME StreamInv, NEW T, NEW at, NEW r \in Nat, NEW w \in Nat, BytesAt(T, at, r, w),
           NEW n \in Nat, Read("serve", n),
           UNCHANGED <<build, msg, client, wire, left, mu, pc, order>>,
           server' \in {"name_len", "header", "body"},
           delivered' \in Seq(Delivery), FramesIntact', ServerAt(T, at, r)'
    PROVE  StreamInv'
<1>1. need \in [{"dial", "serve"} -> Nat] /\ got \in [{"dial", "serve"} -> Seq(Nat)]
    BY DEF StreamInv, TypeInv
<1>2. /\ need' \in [{"dial", "serve"} -> Nat] /\ got' \in [{"dial", "serve"} -> Seq(Nat)]
      /\ need'["dial"] = need["dial"] /\ got'["dial"] = got["dial"]
    BY <1>1 DEF Read
<1>3. TypeInv'
    BY <1>2 DEF StreamInv, TypeInv
<1>4. ClientInv'
    BY DEF StreamInv, ClientInv
<1>5. AckInv'
    BY <1>2 DEF StreamInv, AckInv
<1>6. NothingLost'
    BY DEF NothingLost
<1>7. Unwritten' = Unwritten
    BY DEF Unwritten
<1>8. Layout(T, at)'
    BY DEF BytesAt, Layout
<1>9. BytesAt(T, at, r, w)'
    BY <1>7, <1>8 DEF BytesAt
<1>10. BytesInv'
    BY <1>9 DEF BytesInv
<1> QED BY <1>3, <1>4, <1>5, <1>6, <1>10 DEF StreamInv

(* What the next read of the server has to wait for. *)
LEMMA ReadCall ==
    ASSUME StreamInv, NEW n \in Nat, Read("serve", n)
    PROVE  need'["serve"] = n /\ got'["serve"] = <<>>
    BY DEF StreamInv, TypeInv, Read

(* The server's part of the handshake keeps the invariant: it learns who    *)
(* dials ...                                                                *)
LEMMA UpgradeStep ==
    ASSUME StreamInv, Upgrade
    PROVE  StreamInv'
<1>0. Width \in Nat /\ 0 \in 0 .. Limit - 1
    BY Sizes, CodecAssumption
<1>1. /\ server = "hello" /\ need["serve"] = 0 /\ server' = "ack"
      /\ src' = [i \in 1 .. 3 |-> Decode(SubSeq(got["serve"], (i - 1) * Width + 1, i * Width))]
      /\ left' = [left EXCEPT !["serve"] = Encode(0)]
      /\ UNCHANGED <<build, msg, client, wire, need, got, mu, pc, hdr, order, delivered>>
    BY DEF Upgrade, Write
<1>2. Encode(0) \in Seq(Nat) /\ Len(Encode(0)) = Width
    BY <1>0, Codec
<1>3. "serve" \in Thread /\ "dial" \in Thread /\ Sender \subseteq Thread /\ "serve" \notin Sender
    BY Threads
<1>4. /\ left' \in [Thread -> Seq(Nat)] /\ left'["serve"] = Encode(0) /\ left'["dial"] = left["dial"]
      /\ \A s \in Sender : left'[s] = left[s]
    BY <1>1, <1>2, <1>3, WriteCall
<1>5. PICK T, at : \E r, w \in Nat : BytesAt(T, at, r, w)
    BY DEF StreamInv, BytesInv
<1>6. PICK r \in Nat, w \in Nat : BytesAt(T, at, r, w)
    BY <1>5
<1>7. Slice(T, 0, r, got["serve"]) /\ r = 3 * Width /\ delivered = <<>>
    <2>1. ServerAt(T, at, r)
        BY <1>6 DEF BytesAt
    <2> QED BY <1>1, <2>1 DEF ServerAt
<1>8. src' = Dialler
    <2>1. Slice(T, 0, 3 * Width, got["serve"]) /\ Slice(T, 0, 3 * Width, Hello)
        BY <1>6, <1>7 DEF BytesAt, Layout
    <2>2. got["serve"] \in Seq(Nat)
        BY DEF StreamInv, TypeInv
    <2> QED BY <1>1, <2>1, <2>2, ParseHello
<1>9. TypeInv'
    BY <1>1, <1>4 DEF StreamInv, TypeInv
<1>10. ClientInv'
    BY <1>1, <1>4 DEF StreamInv, ClientInv
<1>11. AckInv'
    <2>1. got["dial"] = <<>> /\ wire["down"] = <<>>
        BY <1>1 DEF StreamInv, AckInv
    <2>2. Len(got'["dial"]) + Len(wire'["down"]) + Len(left'["serve"]) <= Width
        BY <1>0, <1>1, <1>2, <1>4, <2>1
    <2> QED BY <1>1, <2>2 DEF StreamInv, AckInv
<1>12. FramesIntact' /\ NothingLost'
    BY <1>1 DEF StreamInv, FramesIntact, NothingLost
<1>13. BytesInv'
    <2>1. mu \in Sender \cup {Nobody}
        BY DEF StreamInv, TypeInv
    <2>2. Unwritten' = Unwritten
        BY <1>1, <1>4, <2>1 DEF Unwritten
    <2>3. Layout(T, at)'
        BY <1>1, <1>6 DEF BytesAt, Layout
    <2>4. at[0] = 3 * Width
        BY <1>6 DEF BytesAt, Layout
    <2>5. ServerAt(T, at, r)'
        <3>1. Len(delivered') = 0 /\ r + need'["serve"] = at[0]
            BY <1>1, <1>7, <2>4
        <3> QED BY <1>1, <1>7, <1>8, <3>1 DEF ServerAt
    <2>6. BytesAt(T, at, r, w)'
        BY <1>1, <1>6, <2>2, <2>3, <2>5 DEF BytesAt
    <2> QED BY <2>6 DEF BytesInv
<1> QED BY <1>9, <1>10, <1>11, <1>12, <1>13 DEF StreamInv

(* ... and waits for the first message. *)
LEMMA AckSentStep ==
    ASSUME StreamInv, AckSent
    PROVE  StreamInv'
<1>0. Width \in Nat
    BY Sizes
<1>1. /\ server = "ack" /\ server' = "name_len" /\ Read("serve", Width)
      /\ UNCHANGED <<build, msg, client, wire, left, mu, pc, hdr, src, order, delivered>>
    BY DEF AckSent
<1>2. PICK T, at : \E r, w \in Nat : BytesAt(T, at, r, w)
    BY DEF StreamInv, BytesInv
<1>3. PICK r \in Nat, w \in Nat : BytesAt(T, at, r, w)
    BY <1>2
<1>4. need'["serve"] = Width /\ got'["serve"] = <<>>
    BY <1>0, <1>1, ReadCall
<1>5. ServerAt(T, at, r)'
    <2> PICK k : k = Len(delivered)
        OBVIOUS
    <2>1. r = at[k] /\ src = Dialler
        <3>1. ServerAt(T, at, r) /\ need["serve"] \in Nat
            BY <1>3 DEF BytesAt, StreamInv, TypeInv
        <3> QED BY <1>1, <3>1 DEF ServerAt
    <2>2. Slice(T, r, r, got'["serve"])
        BY <1>4, SliceEmpty
    <2> QED BY <1>1, <1>4, <2>1, <2>2 DEF ServerAt
<1>6. delivered' \in Seq(Delivery) /\ FramesIntact'
    BY <1>1 DEF StreamInv, TypeInv, FramesIntact
<1> QED BY <1>0, <1>1, <1>3, <1>5, <1>6, ServerReads

(* Reading the length of a name keeps the invariant: a message has begun    *)
(* there, as bytes have been read beyond the end of the one before.         *)
LEMMA ReadNameLenStep ==
    ASSUME StreamInv, ReadNameLen
    PROVE  StreamInv'
<1>0. Width \in Nat /\ Width > 0
    BY Sizes
<1>1. /\ server = "name_len" /\ need["serve"] = 0 /\ server' = "header"
      /\ hdr' = [name_len |-> Decode(got["serve"])]
      /\ Read("serve", Decode(got["serve"]) + 2 * Width)
      /\ UNCHANGED <<build, msg, client, wire, left, mu, pc, src, order, delivered>>
    BY DEF ReadNameLen
<1>2. PICK T, at : \E r, w \in Nat : BytesAt(T, at, r, w)
    BY DEF StreamInv, BytesInv
<1>3. PICK r \in Nat, w \in Nat : BytesAt(T, at, r, w)
    BY <1>2
<1> PICK k : k = Len(delivered)
    OBVIOUS
<1>4. Slice(T, at[k], r, got["serve"]) /\ r = at[k] + Width /\ src = Dialler /\ got["serve"] \in Seq(Nat)
    <2>1. ServerAt(T, at, r)
        BY <1>3 DEF BytesAt
    <2>2. got["serve"] \in Seq(Nat)
        BY DEF StreamInv, TypeInv
    <2> QED BY <1>1, <2>1, <2>2 DEF ServerAt
<1>5. k < Len(order)
    <2>1. r <= Len(T) /\ Len(T) \in Nat
        <3>1. wire["up"] \in Seq(Nat) /\ T \in Seq(Nat) /\ Len(T) \in Nat
            BY <1>3 DEF StreamInv, TypeInv, BytesAt, Layout
        <3>2. w = r + Len(wire["up"])
            BY <1>3 DEF BytesAt, Slice
        <3>3. PICK u : u = Unwritten
            OBVIOUS
        <3>4. u \in Seq(Nat)
            BY <3>3, UnwrittenSeq
        <3>5. Len(T) = w + Len(u)
            BY <1>3, <3>3 DEF BytesAt, Slice
        <3>6. Len(wire["up"]) \in Nat /\ Len(u) \in Nat
            BY <3>1, <3>4
        <3> QED BY <3>1, <3>2, <3>5, <3>6
    <2>2. at[Len(order)] = Len(T)
        BY <1>3 DEF BytesAt, Layout
    <2>3. k \in Nat /\ Len(order) \in Nat /\ k <= Len(order)
        BY DEF StreamInv, TypeInv, FramesIntact
    <2>4. k # Len(order)
        <3> SUFFICES ASSUME k = Len(order) PROVE FALSE
            OBVIOUS
        <3>1. at[k] = Len(T)
            BY <2>2
        <3> QED BY <1>0, <1>4, <2>1, <3>1
    <2> QED BY <2>3, <2>4
<1> PICK m : m = order[k + 1]
    OBVIOUS
<1>6. /\ k \in Nat /\ at[k] \in Nat /\ at[k + 1] \in Nat /\ m \in Sent
      /\ Slice(T, at[k], at[k + 1], Total(m))
    BY <1>3, <1>5, InMessage
<1>7. Decode(got["serve"]) = NameLen(m) /\ NameLen(m) \in Nat
    <2>2. NameLen(m) \in Nat
        BY <1>6, MessageParts
    <2>0. PICK a, b, bs, x : a = at[k] /\ b = at[k + 1] /\ bs = got["serve"] /\ x = m
        OBVIOUS
    <2>3. /\ a \in Nat /\ b \in Nat /\ bs \in Seq(Nat) /\ x \in Sent
          /\ Slice(T, a, b, Total(x)) /\ Slice(T, a, r, bs) /\ r = a + Width
        BY <1>4, <1>6, <2>0
    <2>4. Decode(bs) = NameLen(x)
        BY <2>3, ParseNameLen
    <2> QED BY <2>0, <2>2, <2>4
<1>8. NameLen(m) + 2 * Width \in Nat /\ Read("serve", NameLen(m) + 2 * Width)
    BY <1>0, <1>1, <1>7
<1>9. need'["serve"] = NameLen(m) + 2 * Width /\ got'["serve"] = <<>>
    BY <1>8, ReadCall
<1>10. ServerAt(T, at, r)'
    <2>1. Slice(T, at[k] + Width, r, got'["serve"])
        BY <1>4, <1>9, SliceEmpty
    <2>2. r + need'["serve"] = at[k] + 3 * Width + NameLen(m)
        BY <1>0, <1>4, <1>6, <1>7, <1>9
    <2>3. Len(delivered') = k /\ order'[k + 1] = m /\ k < Len(order') /\ hdr' = [name_len |-> NameLen(m)]
        BY <1>1, <1>5, <1>7
    <2> QED BY <1>1, <1>4, <2>1, <2>2, <2>3 DEF ServerAt
<1>11. delivered' \in Seq(Delivery) /\ FramesIntact'
    BY <1>1 DEF StreamInv, TypeInv, FramesIntact
<1> QED BY <1>1, <1>3, <1>8, <1>10, <1>11, ServerReads

(* Reading the rest of a header keeps the invariant: it is the header that  *)
(* send() made for this message.                                            *)
LEMMA ReadHeaderStep ==
    ASSUME StreamInv, ReadHeader
    PROVE  StreamInv'
<1>0. Width \in Nat
    BY Sizes
<1>1. /\ server = "header" /\ need["serve"] = 0 /\ server' = "body"
      /\ hdr' = ParseHeader(got["serve"], hdr.name_len)
      /\ Read("serve", hdr'.len)
      /\ UNCHANGED <<build, msg, client, wire, left, mu, pc, src, order, delivered>>
    BY DEF ReadHeader
<1>2. PICK T, at : \E r, w \in Nat : BytesAt(T, at, r, w)
    BY DEF StreamInv, BytesInv
<1>3. PICK r \in Nat, w \in Nat : BytesAt(T, at, r, w)
    BY <1>2
<1> PICK k : k = Len(delivered)
    OBVIOUS
<1> PICK m : m = order[k + 1]
    OBVIOUS
<1>4. /\ Slice(T, at[k] + Width, r, got["serve"]) /\ r = at[k] + 3 * Width + NameLen(m)
      /\ src = Dialler /\ got["serve"] \in Seq(Nat) /\ k < Len(order) /\ hdr = [name_len |-> NameLen(m)]
    <2>1. ServerAt(T, at, r)
        BY <1>3 DEF BytesAt
    <2>2. got["serve"] \in Seq(Nat)
        BY DEF StreamInv, TypeInv
    <2> QED BY <1>1, <2>1, <2>2 DEF ServerAt
<1>5. /\ k \in Nat /\ at[k] \in Nat /\ at[k + 1] \in Nat /\ m \in Sent
      /\ Slice(T, at[k], at[k + 1], Total(m))
    BY <1>3, <1>4, InMessage
<1>6. hdr' = [name |-> m.name, flags |-> m.flags, len |-> DataLen(m)]
    <2>1. PICK a, b, bs, x : a = at[k] /\ b = at[k + 1] /\ bs = got["serve"] /\ x = m
        OBVIOUS
    <2>2. /\ a \in Nat /\ b \in Nat /\ bs \in Seq(Nat) /\ x \in Sent
          /\ Slice(T, a, b, Total(x))
        BY <1>5, <1>4, <2>1
    <2>3. Slice(T, a + Width, a + 3 * Width + NameLen(x), bs)
        BY <1>4, <2>1
    <2>4. ParseHeader(bs, NameLen(x)) = [name |-> x.name, flags |-> x.flags, len |-> DataLen(x)]
        BY <2>2, <2>3, ParseRest
    <2>5. hdr.name_len = NameLen(m)
        BY <1>4
    <2> QED BY <1>1, <2>1, <2>4, <2>5
<1>7. DataLen(m) \in Nat /\ NameLen(m) \in Nat /\ Read("serve", DataLen(m))
    <2>1. DataLen(m) \in Nat /\ NameLen(m) \in Nat
        BY <1>5, MessageParts
    <2>2. hdr'.len = DataLen(m)
        BY <1>6
    <2> QED BY <1>1, <2>1, <2>2
<1>8. need'["serve"] = DataLen(m) /\ got'["serve"] = <<>>
    BY <1>7, ReadCall
<1>9. ServerAt(T, at, r)'
    <2>1. Slice(T, at[k] + 3 * Width + NameLen(m), r, got'["serve"])
        BY <1>4, <1>8, SliceEmpty
    <2>2. r + need'["serve"] = at[k + 1]
        <3>1. at[k + 1] = at[k] + 3 * Width + NameLen(m) + DataLen(m)
            BY <1>5, TotalParts
        <3> QED BY <1>4, <1>8, <3>1
    <2>3. Len(delivered') = k /\ order'[k + 1] = m /\ k < Len(order')
        BY <1>1, <1>4
    <2> QED BY <1>1, <1>4, <1>6, <2>1, <2>2, <2>3 DEF ServerAt
<1>10. delivered' \in Seq(Delivery) /\ FramesIntact'
    BY <1>1 DEF StreamInv, TypeInv, FramesIntact
<1> QED BY <1>1, <1>3, <1>7, <1>9, <1>10, ServerReads

(* Reading the data keeps the invariant: the handler is given the message,  *)
(* and the server goes on behind it.                                        *)
LEMMA ReadBodyStep ==
    ASSUME StreamInv, ReadBody
    PROVE  StreamInv'
<1>0. Width \in Nat
    BY Sizes
<1> PICK d : d = [name |-> hdr.name, flags |-> hdr.flags, data |-> got["serve"], src |-> src]
    OBVIOUS
<1>1. /\ server = "body" /\ need["serve"] = 0 /\ server' = "name_len"
      /\ delivered' = Append(delivered, d)
      /\ Read("serve", Width)
      /\ UNCHANGED <<build, msg, client, wire, left, mu, pc, hdr, src, order>>
    BY DEF ReadBody
<1>2. PICK T, at : \E r, w \in Nat : BytesAt(T, at, r, w)
    BY DEF StreamInv, BytesInv
<1>3. PICK r \in Nat, w \in Nat : BytesAt(T, at, r, w)
    BY <1>2
<1> PICK k : k = Len(delivered)
    OBVIOUS
<1> PICK m : m = order[k + 1]
    OBVIOUS
<1>4. /\ Slice(T, at[k] + 3 * Width + NameLen(m), r, got["serve"]) /\ r = at[k + 1]
      /\ src = Dialler /\ got["serve"] \in Seq(Nat) /\ k < Len(order)
      /\ hdr = [name |-> m.name, flags |-> m.flags, len |-> DataLen(m)]
    <2>1. ServerAt(T, at, r)
        BY <1>3 DEF BytesAt
    <2>2. got["serve"] \in Seq(Nat)
        BY DEF StreamInv, TypeInv
    <2> QED BY <1>1, <2>1, <2>2 DEF ServerAt
<1>5. /\ k \in Nat /\ at[k] \in Nat /\ at[k + 1] \in Nat /\ m \in Sent
      /\ Slice(T, at[k], at[k + 1], Total(m)) /\ order \in Seq(Sent) /\ k + 1 \in 1 .. Len(order)
    BY <1>3, <1>4, InMessage
<1>6. got["serve"] = Body(m)
    <2>1. PICK a, b, bs, x, p : /\ a = at[k] /\ b = at[k + 1] /\ bs = got["serve"] /\ x = m
                                /\ p = at[k] + 3 * Width + NameLen(m)
        OBVIOUS
    <2>2. NameLen(m) \in Nat
        BY <1>5, MessageParts
    <2>3. /\ a \in Nat /\ b \in Nat /\ bs \in Seq(Nat) /\ x \in Sent /\ p \in Nat
          /\ Slice(T, a, b, Total(x)) /\ Slice(T, p, b, bs) /\ p = a + 3 * Width + NameLen(x)
        BY <1>0, <1>4, <1>5, <2>1, <2>2
    <2>4. bs = Body(x)
        BY <2>3, ParseBody
    <2> QED BY <2>1, <2>4
<1>7. d = Expected(m) /\ d \in Delivery
    <2>1. d = [name |-> m.name, flags |-> m.flags, data |-> Body(m), src |-> Dialler]
        BY <1>4, <1>6
    <2>2. m.name \in Seq(Nat) /\ m.flags \in Nat /\ Body(m) \in Seq(Nat)
        BY <1>5, MessageParts
    <2>3. Expected(m) = [name |-> m.name, flags |-> m.flags, data |-> Body(m), src |-> Dialler]
        BY DEF Expected, Body, DataLen
    <2>4. d \in Delivery
        BY <2>1, <2>2 DEF Delivery
    <2> QED BY <2>1, <2>3, <2>4
<1>8. /\ delivered \in Seq(Delivery) /\ delivered' \in Seq(Delivery) /\ Len(delivered') = k + 1
      /\ delivered'[k + 1] = d /\ \A i \in 1 .. k : delivered'[i] = delivered[i]
    <2>1. delivered \in Seq(Delivery)
        BY DEF StreamInv, TypeInv
    <2> QED BY <1>1, <1>7, <2>1, AppendProperties
<1>9. FramesIntact'
    <2>1. Len(delivered') <= Len(order')
        BY <1>1, <1>5, <1>8
    <2>2. ASSUME NEW i \in DOMAIN delivered' PROVE delivered'[i] = Expected(order'[i])
        <3>1. i \in 1 .. k + 1
            BY <1>8, <2>2
        <3>2. CASE i = k + 1
            BY <1>1, <1>7, <1>8, <3>2
        <3>3. CASE i # k + 1
            <4>1. i \in 1 .. k
                BY <1>5, <3>1, <3>3
            <4>2. i \in DOMAIN delivered
                BY <1>8, <4>1
            <4> QED BY <1>1, <1>8, <4>1, <4>2 DEF StreamInv, FramesIntact
        <3> QED BY <3>2, <3>3
    <2> QED BY <2>1, <2>2 DEF FramesIntact, Expected
<1>10. need'["serve"] = Width /\ got'["serve"] = <<>>
    BY <1>0, <1>1, ReadCall
<1>11. ServerAt(T, at, r)'
    <2>1. Slice(T, at[k + 1], r, got'["serve"]) /\ r + need'["serve"] = at[k + 1] + Width
        BY <1>4, <1>10, SliceEmpty
    <2> QED BY <1>1, <1>4, <1>8, <2>1 DEF ServerAt
<1> QED BY <1>0, <1>1, <1>3, <1>8, <1>9, <1>11, ServerReads

(* Initially the dialler's header is all of the stream, and none of it has  *)
(* been written.                                                            *)
LEMMA StreamInvInit == Init => StreamInv
<1> SUFFICES ASSUME Init PROVE StreamInv
    OBVIOUS
<1>0. Width \in Nat /\ 3 * Width \in Nat
    <2>1. Width \in Nat
        BY Sizes
    <2> QED BY <2>1
<1>1. Hello \in Seq(Nat) /\ Len(Hello) = 3 * Width
    BY HelloParts
<1>2. /\ "dial" \in Thread /\ "serve" \in Thread /\ Sender \subseteq Thread
      /\ "dial" \notin Sender /\ "serve" \notin Sender /\ Nobody \notin Sender
    BY Threads
<1>3. left = [t \in Thread |-> IF t = "dial" THEN Hello ELSE <<>>]
    BY DEF Init, Hello
<1>4. /\ left \in [Thread -> Seq(Nat)] /\ left["dial"] = Hello /\ left["serve"] = <<>>
      /\ \A s \in Sender : left[s] = <<>>
    BY <1>1, <1>2, <1>3
<1>5. /\ need \in [{"dial", "serve"} -> Nat] /\ need["serve"] = 3 * Width /\ need["dial"] = 0
      /\ got \in [{"dial", "serve"} -> Seq(Nat)] /\ got["serve"] = <<>> /\ got["dial"] = <<>>
      /\ wire \in [{"up", "down"} -> Seq(Nat)] /\ wire["up"] = <<>> /\ wire["down"] = <<>>
    BY <1>0 DEF Init
<1>6. /\ msg \in Sends /\ client = "hello" /\ server = "hello" /\ mu = Nobody
      /\ pc = [s \in Sender |-> "ready"] /\ order = <<>> /\ delivered = <<>>
    BY DEF Init
<1>7. TypeInv
    <2>1. order \in Seq(Sent) /\ delivered \in Seq(Delivery)
        BY <1>6
    <2> QED BY <1>4, <1>5, <1>6, <2>1 DEF TypeInv
<1>8. ClientInv
    BY <1>2, <1>4, <1>6 DEF ClientInv
<1>9. AckInv
    BY <1>0, <1>4, <1>5, <1>6 DEF AckInv
<1>10. FramesIntact /\ NothingLost
    BY <1>6 DEF FramesIntact, NothingLost
<1>11. BytesInv
    <2> PICK T : T = Hello
        OBVIOUS
    <2> PICK at : at = [i \in 0 .. 0 |-> 3 * Width]
        OBVIOUS
    <2>1. Slice(T, 0, 3 * Width, Hello)
        BY <1>0, <1>1 DEF Slice
    <2>2. Layout(T, at)
        <3>1. Len(order) = 0 /\ \A i \in 0 .. 0 : i = 0
            BY <1>6
        <3>2. at \in [0 .. 0 -> Nat] /\ at[0] = 3 * Width /\ \A i \in 0 .. 0 : at[i] = 3 * Width
            BY <1>0
        <3>3. \A i \in 0 .. 0 - 1 : FALSE
            OBVIOUS
        <3>4. T \in Seq(Nat) /\ Len(T) = 3 * Width /\ 3 * Width <= Len(T)
            BY <1>0, <1>1
        <3> QED BY <2>1, <3>1, <3>2, <3>3, <3>4 DEF Layout
    <2>3. Unwritten = Hello
        BY <1>4, <1>6 DEF Unwritten
    <2>4. Slice(T, 0, 0, wire["up"]) /\ Slice(T, 0, 0, got["serve"])
        BY <1>5, SliceEmpty
    <2>5. Slice(T, 0, Len(T), Unwritten)
        BY <1>1, <2>1, <2>3
    <2>6. ServerAt(T, at, 0)
        BY <1>0, <1>5, <1>6, <2>4 DEF ServerAt
    <2>7. BytesAt(T, at, 0, 0) /\ 0 \in Nat
        BY <2>2, <2>4, <2>5, <2>6 DEF BytesAt
    <2> QED BY <2>7 DEF BytesInv
<1> QED BY <1>7, <1>8, <1>9, <1>10, <1>11 DEF StreamInv

(* A step that changes errno only, or nothing. *)
LEMMA ErrnoStep ==
    ASSUME StreamInv, UNCHANGED <<build, msg, client, server, callVars, mu, pc, hdr, src, order, delivered>>
    PROVE  StreamInv'
<1>1. UNCHANGED <<build, msg, client, server, wire, left, need, got, mu, pc, hdr, src, order, delivered>>
    BY DEF callVars
<1>2. UNCHANGED <<build, msg, callVars, mu, pc, hdr, src, order, delivered>>
    BY <1>1 DEF callVars
<1>3. ClientInv' /\ NothingLost'
    BY <1>1 DEF StreamInv, ClientInv, NothingLost
<1>4. AckInv'
    BY <1>1 DEF StreamInv, AckInv, ClientIsUp
<1>5. client' \in {"hello", "ack", "open", "closed", "threw", "killed"}
    BY <1>1 DEF StreamInv, TypeInv
<1> QED BY <1>1, <1>2, <1>3, <1>4, <1>5, StateStep

(* StreamInv is inductive. *)
LEMMA StreamInvNext == StreamInv /\ [Next]_vars => StreamInv'
<1> SUFFICES ASSUME StreamInv, [Next]_vars PROVE StreamInv'
    OBVIOUS
<1>1. CASE UNCHANGED vars
    BY <1>1, ErrnoStep DEF vars
<1>2. CASE Call
    <2>1. ASSUME NEW t \in Thread, WriteSome(t) PROVE StreamInv'
        BY <2>1, WriteSomeStep
    <2>2. ASSUME NEW t \in {"dial", "serve"}, ReadSome(t) PROVE StreamInv'
        BY <2>2, ReadSomeStep
    <2>3. ASSUME NEW t \in {"dial", "serve"}, ReadFails(t) PROVE StreamInv'
        <3>1. t \in Thread
            BY <2>3, Threads
        <3> QED BY <2>3, <3>1, DiesStep
    <2>4. CASE WouldBlock
        BY <2>4, ErrnoStep DEF WouldBlock
    <2> QED BY <1>2, <2>1, <2>2, <2>3, <2>4 DEF Call
<1>3. CASE ClientStep
    <2>1. ASSUME NEW s \in Sender, SendBegin(s) PROVE StreamInv'
        BY <2>1, SendBeginStep
    <2>2. ASSUME NEW s \in Sender, SendBody(s) PROVE StreamInv'
        BY <2>2, SendBodyStep
    <2>3. ASSUME NEW s \in Sender, SendEnd(s) PROVE StreamInv'
        BY <2>3, SendEndStep
    <2> QED BY <1>3, <2>1, <2>2, <2>3, HelloSentStep, AckReadStep, CloseStep DEF ClientStep
<1>4. CASE ServerStep
    BY <1>4, UpgradeStep, AckSentStep, ReadNameLenStep, NoMessageStep, ReadHeaderStep, ReadBodyStep
       DEF ServerStep
<1>5. CASE Fails
    <2>1. ASSUME NEW t \in Thread, WriteFails(t) \/ Crash(t) PROVE StreamInv'
        BY <2>1, DiesStep
    <2>2. CASE Reset
        BY <2>2, ErrnoStep DEF Reset
    <2> QED BY <1>5, <2>1, <2>2 DEF Fails
<1>6. CASE Terminated
    BY <1>1, <1>6 DEF Terminated
<1> QED BY <1>1, <1>2, <1>3, <1>4, <1>5, <1>6 DEF Next

(* The bytes that the server has read, those under way and those that the   *)
(* holder of mu_ has still to write always lie side by side in one stream   *)
(* of frames, whatever the calls move at a time and whoever fails.          *)
THEOREM StreamInvariant == Spec => []StreamInv
<1>1. Init => StreamInv
    BY StreamInvInit
<1>2. StreamInv /\ [Next]_vars => StreamInv'
    BY StreamInvNext
<1> QED BY <1>1, <1>2, PTL DEF Spec

(* The handler is given what connection_impl::send was called with, whole,  *)
(* in the order of the mutex, cut to what the 32-bit length can count.      *)
THEOREM FramesAlwaysIntact == Spec => []FramesIntact
<1>1. StreamInv => FramesIntact
    BY DEF StreamInv
<1> QED BY <1>1, StreamInvariant, PTL

(* A connection closed after its sends returned loses no message, and its   *)
(* end is no error in the server.                                           *)
THEOREM NothingIsLost == Spec => []NothingLost
<1>1. StreamInv => NothingLost
    BY DEF StreamInv
<1> QED BY <1>1, StreamInvariant, PTL

============================================================================
