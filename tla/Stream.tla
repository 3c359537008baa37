------------------------------- MODULE Stream -------------------------------
(***************************************************************************)
(* A connection, byte by byte: the handshake, the frames that connection_   *)
(* impl::send writes under its mutex, and the reader that takes them apart, *)
(* over sockets that move some of the bytes of a call at a time and whose   *)
(* other end may go at any moment (net/old and net/c++20).                   *)
(*                                                                         *)
(* An exception ends the process whose thread lets it out ("threw"); any     *)
(* process may be killed.                                                   *)
(***************************************************************************)
EXTENDS Integers, Sequences, SequencesExt

CONSTANTS
    Base,       \* a byte is a number below Base (256)
    Width,      \* bytes of an integer in a header (4)
    Room,       \* bytes that a connection holds in one direction
    Sender,     \* threads that send on the connection
    Sends,      \* what they may send: functions from Sender to messages
    Dialler     \* the conn_header's type, port and address

ASSUME SizesAssumption == Base \in Nat \ {0, 1} /\ {Width, Room} \subseteq Nat \ {0}
ASSUME ThreadsAssumption == {"dial", "serve", "nobody"} \cap Sender = {}

VARIABLES
    build,      \* "old" (net/old on Linux), "bsd" (net/old on macOS) or "c++20"
    again,      \* errno of the server's thread is 35
    msg,        \* msg[s]: the name, flags and data that s sends
    client,     \* "hello", "ack", "open", "closed", "threw" or "killed"
    server,     \* "hello", "ack", "name_len", "header", "body", "ended", "threw" or "killed"
    wire,       \* bytes under way, "up" to the server and "down" to the client
    left,       \* left[t]: bytes that the write call of thread t has still to send
    need,       \* need[t]: bytes that the read call of thread t still waits for
    got,        \* got[t]: bytes it has read
    mu,         \* connection_impl::mu_: who holds it
    pc,         \* control state of the senders
    hdr,        \* the header the server has read
    src,        \* the server's type_ and src_
    order,      \* history: the messages in the order in which mu_ was taken
    delivered   \* what the handler was given

callVars == <<wire, left, need, got>>
vars == <<build, again, msg, client, server, callVars, mu, pc, hdr, src, order, delivered>>

Nobody == "nobody"
Thread == Sender \cup {"dial", "serve"}

Out(t)  == IF t = "serve" THEN "down" ELSE "up"
In(t)   == IF t = "serve" THEN "up" ELSE "down"
ClientIsUp == client \notin {"closed", "threw", "killed"}
ServerIsUp == server \notin {"ended", "threw", "killed"}
IsUp(t)    == IF t = "serve" THEN ServerIsUp ELSE ClientIsUp
OtherIsUp(t) == IF t = "serve" THEN ClientIsUp ELSE ServerIsUp

----------------------------------------------------------------------------
(* Bytes *)

(* An integer in memory, least significant byte first, cut to its width. *)
Encode(x) == [i \in 1 .. Width |-> (x \div Base^(i - 1)) % Base]

Decode(bs) == FoldRight(LAMBDA b, x : b + Base * x, bs, 0)

(* static_cast<uint32_t> *)
Limit == Base^Width

Cast(x) == x % Limit

(* The bytes of an integer are its own: memory is copied into the stream    *)
(* and out of it.                                                           *)
ASSUME CodecAssumption ==
    /\ Limit \in Nat \ {0}
    /\ \A x \in 0 .. Limit - 1 : /\ Encode(x) \in Seq(Nat)
                                     /\ Decode(Encode(x)) = x

(* A name is a C string and flags a uint32_t; data may be longer than the   *)
(* length field counts.                                                     *)
Message ==
    [name : Seq(Nat), flags : 0 .. Limit - 1, data : Seq(Nat)]

ASSUME MessagesAssumption ==
    /\ \A f \in Sends : \A s \in Sender : f[s] \in Message /\ Len(f[s].name) < Limit
    /\ Dialler \in [1 .. 3 -> 0 .. Limit - 1]

(* What send() writes before the data, through byte_buffer. *)
Frame(m) ==
    Encode(Cast(Len(m.name))) \o m.name \o Encode(m.flags) \o Encode(Cast(Len(m.data)))

(* The bytes after the name length. *)
ParseHeader(bs, nameLen) ==
    [name  |-> SubSeq(bs, 1, nameLen),
     flags |-> Decode(SubSeq(bs, nameLen + 1, nameLen + Width)),
     len   |-> Decode(SubSeq(bs, nameLen + Width + 1, nameLen + 2 * Width))]

----------------------------------------------------------------------------
(* Calls that move all of some bytes, in as many steps as it takes *)

Least(a, b) == IF a < b THEN a ELSE b

(* write: one round of io_exact, or a part of what a blocking ::send takes. *)
WriteSome(t) ==
    /\ IsUp(t) /\ OtherIsUp(t)
    /\ \E k \in 1 .. Least(Len(left[t]), Room - Len(wire[Out(t)])) :
          /\ wire' = [wire EXCEPT ![Out(t)] = @ \o SubSeq(left[t], 1, k)]
          /\ left' = [left EXCEPT ![t] = SubSeq(@, k + 1, Len(@))]
    /\ UNCHANGED <<build, again, msg, client, server, need, got, mu, pc, hdr, src, order, delivered>>

(* read: one round of io_exact or of recv_all. *)
ReadSome(t) ==
    /\ IsUp(t)
    /\ \E k \in 1 .. Least(need[t], Len(wire[In(t)])) :
          /\ got' = [got EXCEPT ![t] = @ \o SubSeq(wire[In(t)], 1, k)]
          /\ need' = [need EXCEPT ![t] = @ - k]
          /\ wire' = [wire EXCEPT ![In(t)] = SubSeq(@, k + 1, Len(@))]
    /\ UNCHANGED <<build, again, msg, client, server, left, mu, pc, hdr, src, order, delivered>>

(* The end of the stream: nothing under way, and nothing to come. *)
StreamOver(t) == need[t] > 0 /\ wire[In(t)] = <<>> /\ ~OtherIsUp(t)

(* Mutant of EndOfStream: recv_all tries again after every 0 bytes. *)
EndTriedAgain(t) == StreamOver(t) /\ (t = "serve" => build = "c++20")

(* The read call reports the end.  recv_all does not when errno is 35: a     *)
(* recv of 0 bytes leaves errno as it was, so that recv_all calls it again   *)
(* and again until the server is stopped (Lifecycle).                        *)
EndOfStream(t) == StreamOver(t) /\ ~(t = "serve" /\ again)

Spinning == ServerIsUp /\ StreamOver("serve") /\ again

(* On macOS 35 is EAGAIN, and an accepted socket inherits the listening one's *)
(* O_NONBLOCK: recv finds nothing and recv_all tries again.  On Linux 35 is   *)
(* EDEADLK, which recv does not return, and an accepted socket blocks.        *)
WouldBlock ==
    /\ build = "bsd" /\ ~again
    /\ ServerIsUp /\ ClientIsUp
    /\ need["serve"] > 0 /\ wire["up"] = <<>>
    /\ again' = TRUE
    /\ UNCHANGED <<build, msg, client, server, callVars, mu, pc, hdr, src, order, delivered>>

(* The end of a client that died may also reach recv as an error. *)
Reset ==
    /\ Spinning /\ client # "closed"
    /\ again' = FALSE
    /\ UNCHANGED <<build, msg, client, server, callVars, mu, pc, hdr, src, order, delivered>>

Dies(t, how) ==
    /\ IF t = "serve" THEN server' = how /\ UNCHANGED client
                      ELSE client' = how /\ UNCHANGED server
    /\ UNCHANGED <<build, again, msg, callVars, mu, pc, hdr, src, order, delivered>>

(* A write to a connection whose other end is gone throws; so does, in the  *)
(* old build, a ::send that has sent a part of its bytes only.              *)
WriteFails(t) ==
    /\ IsUp(t) /\ left[t] # <<>>
    /\ ~OtherIsUp(t) \/ build # "c++20"
    /\ Dies(t, "threw")

(* A read that is not told to report the end throws: of the acknowledgement, *)
(* the handshake's header or the rest of a message.                          *)
ReadFails(t) ==
    /\ IsUp(t)
    /\ t = "serve" => server # "name_len"
    /\ EndOfStream(t)
    /\ Dies(t, "threw")

(* A process is killed (external). *)
Crash(t) == t \in {"dial", "serve"} /\ IsUp(t) /\ Dies(t, "killed")

Write(t, bs) == left' = [left EXCEPT ![t] = bs]

Read(t, n) == need' = [need EXCEPT ![t] = n] /\ got' = [got EXCEPT ![t] = <<>>]

----------------------------------------------------------------------------
(* The client *)

(* upgrade_to has written its header (see Init) and reads the               *)
(* acknowledgement, which it does not check.                                *)
HelloSent ==
    /\ client = "hello" /\ left["dial"] = <<>>
    /\ client' = "ack"
    /\ Read("dial", Width)
    /\ UNCHANGED <<build, again, msg, server, wire, left, mu, pc, hdr, src, order, delivered>>

AckRead ==
    /\ client = "ack" /\ need["dial"] = 0
    /\ client' = "open"
    /\ UNCHANGED <<build, again, msg, server, callVars, mu, pc, hdr, src, order, delivered>>

(* Mutant of SendBegin: no mutex. *)
SendUnlocked(s) ==
    /\ client = "open" /\ pc[s] = "ready"
    /\ mu' = s
    /\ pc' = [pc EXCEPT ![s] = "header"]
    /\ order' = Append(order, msg[s])
    /\ Write(s, Frame(msg[s]))
    /\ UNCHANGED <<build, again, msg, client, server, wire, need, got, hdr, src, delivered>>

(* connection_impl::send takes the mutex and writes the header ... *)
SendBegin(s) ==
    /\ client = "open" /\ pc[s] = "ready"
    /\ mu = Nobody
    /\ mu' = s
    /\ pc' = [pc EXCEPT ![s] = "header"]
    /\ order' = Append(order, msg[s])
    /\ Write(s, Frame(msg[s]))
    /\ UNCHANGED <<build, again, msg, client, server, wire, need, got, hdr, src, delivered>>

(* ... then the data, as many bytes as the header says ... *)
SendBody(s) ==
    /\ client = "open" /\ pc[s] = "header" /\ left[s] = <<>>
    /\ pc' = [pc EXCEPT ![s] = "body"]
    /\ Write(s, SubSeq(msg[s].data, 1, Cast(Len(msg[s].data))))
    /\ UNCHANGED <<build, again, msg, client, server, wire, need, got, mu, hdr, src, order, delivered>>

(* ... and gives the mutex back. *)
SendEnd(s) ==
    /\ client = "open" /\ pc[s] = "body" /\ left[s] = <<>>
    /\ pc' = [pc EXCEPT ![s] = "returned"]
    /\ mu' = Nobody
    /\ UNCHANGED <<build, again, msg, client, server, callVars, hdr, src, order, delivered>>

(* Mutant of Close: a send that has begun counts as over. *)
CloseInSend ==
    /\ client = "open"
    /\ \A s \in Sender : pc[s] # "ready"
    /\ client' = "closed"
    /\ UNCHANGED <<build, again, msg, server, callVars, mu, pc, hdr, src, order, delivered>>

(* The destructor closes the socket when no operation uses it any more. *)
Close ==
    /\ client = "open"
    /\ \A s \in Sender : pc[s] = "returned"
    /\ client' = "closed"
    /\ UNCHANGED <<build, again, msg, server, callVars, mu, pc, hdr, src, order, delivered>>

----------------------------------------------------------------------------
(* The server's thread for this connection *)

(* upgrade_from: read the dialler's header and acknowledge it. *)
Upgrade ==
    /\ server = "hello" /\ need["serve"] = 0
    /\ src' = [i \in 1 .. 3 |-> Decode(SubSeq(got["serve"], (i - 1) * Width + 1, i * Width))]
    /\ server' = "ack"
    /\ Write("serve", Encode(0))
    /\ UNCHANGED <<build, again, msg, client, wire, need, got, mu, pc, hdr, order, delivered>>

AckSent ==
    /\ server = "ack" /\ left["serve"] = <<>>
    /\ server' = "name_len"
    /\ Read("serve", Width)
    /\ UNCHANGED <<build, again, msg, client, wire, left, mu, pc, hdr, src, order, delivered>>

(* read_header, first the length of the name ... *)
ReadNameLen ==
    /\ server = "name_len" /\ need["serve"] = 0
    /\ server' = "header"
    /\ hdr' = [name_len |-> Decode(got["serve"])]
    /\ Read("serve", Decode(got["serve"]) + 2 * Width)
    /\ UNCHANGED <<build, again, msg, client, wire, left, mu, pc, src, order, delivered>>

(* ... whose absence, also in the middle of it, is the end of the connection. *)
NoMessage ==
    /\ server = "name_len"
    /\ EndOfStream("serve")
    /\ server' = "ended"
    /\ UNCHANGED <<build, again, msg, client, callVars, mu, pc, hdr, src, order, delivered>>

(* The rest of the header; the handler then reads the body. *)
ReadHeader ==
    /\ server = "header" /\ need["serve"] = 0
    /\ server' = "body"
    /\ hdr' = ParseHeader(got["serve"], hdr.name_len)
    /\ Read("serve", hdr'.len)
    /\ UNCHANGED <<build, again, msg, client, wire, left, mu, pc, src, order, delivered>>

ReadBody ==
    /\ server = "body" /\ need["serve"] = 0
    /\ delivered' = Append(delivered, [name |-> hdr.name, flags |-> hdr.flags,
                                       data |-> got["serve"], src |-> src])
    /\ server' = "name_len"
    /\ Read("serve", Width)
    /\ UNCHANGED <<build, again, msg, client, wire, left, mu, pc, hdr, src, order>>

----------------------------------------------------------------------------

(* Connected: the client writes its header, the server reads it. *)
Init ==
    /\ build \in {"old", "bsd", "c++20"} /\ again = FALSE
    /\ msg \in Sends
    /\ client = "hello" /\ server = "hello"
    /\ wire = [d \in {"up", "down"} |-> <<>>]
    /\ left = [t \in Thread |-> IF t = "dial"
                                THEN Encode(Dialler[1]) \o Encode(Dialler[2]) \o Encode(Dialler[3])
                                ELSE <<>>]
    /\ need = [t \in {"dial", "serve"} |-> IF t = "serve" THEN 3 * Width ELSE 0]
    /\ got = [t \in {"dial", "serve"} |-> <<>>]
    /\ mu = Nobody
    /\ pc = [s \in Sender |-> "ready"]
    /\ hdr = <<>> /\ src = <<>>
    /\ order = <<>> /\ delivered = <<>>

Call ==
    \/ \E t \in Thread : WriteSome(t)
    \/ \E t \in {"dial", "serve"} : ReadSome(t)
    \/ \E t \in {"dial", "serve"} : ReadFails(t)
    \/ WouldBlock

ClientStep == HelloSent \/ AckRead \/ Close \/ \E s \in Sender : SendBegin(s) \/ SendBody(s) \/ SendEnd(s)

ServerStep == Upgrade \/ AckSent \/ ReadNameLen \/ NoMessage \/ ReadHeader \/ ReadBody

Fails == Reset \/ \E t \in Thread : WriteFails(t) \/ Crash(t)

(* Nothing is left to do but for a thread that spins. *)
Over == ~ClientIsUp /\ (~ServerIsUp \/ Spinning)

Terminated == Over /\ UNCHANGED vars

Next == Call \/ ClientStep \/ ServerStep \/ Fails \/ Terminated

(* Threads run and bytes under way arrive; nothing has to fail, but a write  *)
(* to an end that is gone does.                                              *)
Fairness ==
    /\ WF_vars(Call) /\ WF_vars(ClientStep) /\ WF_vars(ServerStep)
    /\ \A t \in Thread : WF_vars(~OtherIsUp(t) /\ WriteFails(t))

Spec == Init /\ [][Next]_vars

FairSpec == Spec /\ Fairness

----------------------------------------------------------------------------

(* A message as the handler must see it: from the dialler, with the name    *)
(* and flags it was sent with, and as much of the data as the length in the *)
(* header counts.                                                           *)
Expected(m) ==
    [name |-> m.name, flags |-> m.flags,
     data |-> SubSeq(m.data, 1, Cast(Len(m.data))), src |-> Dialler]

(* The handler is given what was sent, in the order of the mutex, and       *)
(* nothing else: however the bytes are cut, whoever fails, and even when a   *)
(* message is too long for its length field.                                *)
FramesIntact ==
    /\ Len(delivered) <= Len(order)
    /\ \A i \in DOMAIN delivered : delivered[i] = Expected(order[i])

(* When the client has closed the connection after its sends returned,      *)
(* nothing throws in the server, and the end that the server sees there is  *)
(* after the last message.                                                  *)
NothingLost ==
    client = "closed" =>
        /\ server # "threw"
        /\ server = "ended" => Len(delivered) = Len(order)

(* Both ends finish, also when one of them goes in the middle of a message, *)
(* except that the server's thread of the old library on macOS may spin in   *)
(* recv_all; on Linux it never does.                                         *)
ConnectionEnds ==
    /\ <>Over
    /\ build # "bsd" => <>(~ClientIsUp /\ ~ServerIsUp)

============================================================================
