------------------------------- MODULE Streams -------------------------------
(***************************************************************************)
(* Packets of six formats (Codecs) on byte streams, behind the FramedRead  *)
(* and FramedWrite and over the TcpStream of the WASI port                 *)
(* (src/wasi/crates/wasi-async/src).  A peer sends packets and then        *)
(* perhaps something that is no packet, in pieces of any size; each packet *)
(* that is read is sent back.                                              *)
(*                                                                         *)
(* Pest control and the ciphers read through the FramedRead of tokio_util, *)
(* the speed daemon's port for tokio through its BufReader: of these only  *)
(* the order of bytes is modelled.  What such a read has of a packet that  *)
(* is not over is in the buffer of the model.                              *)
(***************************************************************************)
EXTENDS Codecs

CONSTANTS
    Exchanges,  \* what peers send: records of a format, a cipher spec, packets, and a tail
    MaxLost     \* bound: once so many bytes are lost, no more are

\* No decoder takes a tail, or what has come of it, for a packet or a cipher spec.
IsExchange(x) ==
    /\ x.format \in {"lines", "chunks", "wire", "tokio", "pest", "cipher"}
    /\ x.packets \in Seq({x.packets[i] : i \in 1..Len(x.packets)})
    /\ \A i \in 1..Len(x.packets) : IsPacket(x.format, x.packets[i])
    /\ x.tail \in Seq(Byte)
    /\ x.format = "cipher" =>
          \/ x.spec \in Seq(Operation) \ {<<>>} /\ IsValid(x.spec) /\ x.tail = <<>>
          \/ /\ x.spec = <<>> /\ x.packets = <<>>
             /\ \A n \in 0..Len(x.tail) :
                   ReadSpec(NoSpec, SubSeq(x.tail, 1, n)).is # "complete"
    /\ x.format # "cipher" =>
          \A n \in 0..Len(x.tail) :
              Decode(x.format, SubSeq(x.tail, 1, n), 0, NoSpec).is # "packet"

ASSUME ExchangesAssumption == \A x \in Exchanges : IsExchange(x)
ASSUME MaxLostAssumption == MaxLost \in Nat

VARIABLES
    exchange,  \* the one that takes place
    arrived,   \* how many bytes have come from the peer
    closed,    \* the peer sends no more
    taken,     \* how many bytes were read from the host
    lost,      \* how many of them were dropped
    reader,    \* FramedRead and its decoder: buffer, from, codec, eof, and what it does
    items,     \* what it gave out
    out,       \* the buffer of FramedWrite
    written    \* what was written to the host

streamVars == <<exchange, arrived, closed, taken, lost, reader, items, out, written>>

-----------------------------------------------------------------------------
(* What is sent *)

\* The packets of a cipher are bytes, each at its position.
EncodeNth(x, i) ==
    IF x.format = "cipher" THEN <<EncodeByte(x.spec, i - 1, x.packets[i][1])>>
                           ELSE Encode(x.format, x.packets[i])

\* All that is sent in an exchange.
Encoded(x) ==
    (IF x.format = "cipher" /\ x.spec # <<>> THEN SpecBytes(x.spec) ELSE <<>>)
        \o FlattenSeq([i \in 1..Len(x.packets) |-> EncodeNth(x, i)])

-----------------------------------------------------------------------------
(* A connection *)

\* What the peer sends, all in all.
Sent == exchange.sent

Doings == {"poll", "read", "subscribe", "again", "waiting", "sending",
           "spins", "ended", "failed", "broken"}
Over == {"ended", "failed", "broken"}

\* Nothing but bytes is in a buffer, and the decoder of lines has not looked further
\* than it reaches (it would skip what comes next: codec.rs, from_index).
StreamsTypeOK ==
    /\ arrived \in 0..Len(Sent) /\ taken \in 0..arrived /\ lost \in 0..taken
    /\ closed \in BOOLEAN
    /\ reader.does \in Doings /\ reader.eof \in BOOLEAN
    /\ reader.buffer \in Seq(Byte) /\ reader.from \in 0..Len(reader.buffer)
    /\ out \in Seq(Byte) /\ written \in Seq(Byte)

StreamsInit ==
    /\ \E x \in Exchanges :
          exchange = [format |-> x.format, spec |-> x.spec, packets |-> x.packets,
                      tail |-> x.tail, sent |-> Encoded(x) \o x.tail]
    /\ arrived = 0 /\ closed = FALSE /\ taken = 0 /\ lost = 0
    /\ reader = [does |-> "poll", buffer |-> <<>>, from |-> 0, codec |-> NoSpec, eof |-> FALSE]
    /\ items = <<>> /\ out = <<>> /\ written = <<>>

\* A byte comes from the peer: any number of them between two steps of the handler.
BytesArrive ==
    /\ arrived < Len(Sent)
    /\ arrived' = arrived + 1
    /\ UNCHANGED <<exchange, closed, taken, lost, reader, items, out, written>>

PeerCloses ==
    /\ ~closed /\ arrived = Len(Sent)
    /\ closed' = TRUE
    /\ UNCHANGED <<exchange, arrived, taken, lost, reader, items, out, written>>

Does(what) == reader' = [reader EXCEPT !.does = what]

IsCipher == exchange.format = "cipher"

\* What the decoder makes of the buffer.
Decoded == {Decode(exchange.format, reader.buffer, reader.from, reader.codec)}

CodecAfter(result) == IF IsCipher THEN result.codec ELSE reader.codec

\* The decoder has a packet: FramedRead gives it out and FramedWrite encodes it.
Gives(result) ==
    LET codec == CodecAfter(result) IN
    /\ reader' = [reader EXCEPT !.does = "sending", !.buffer = result.rest, !.from = result.from,
                      !.codec = [codec EXCEPT !.downstream = @ + (IF IsCipher THEN 1 ELSE 0)]]
    /\ items' = Append(items, result.packet)
    /\ out' = out \o
          IF IsCipher THEN <<EncodeByte(codec.spec, codec.downstream, result.packet[1])>>
                      ELSE Encode(exchange.format, result.packet)

\* poll_next looks into the buffer first.  A cipher's codec that wants more has taken
\* all there was.
PollNext ==
    /\ reader.does = "poll" /\ ~reader.eof
    /\ \E result \in Decoded :
       \/ result.is = "packet" /\ Gives(result)
       \/ /\ result.is \in {"more", "spins"}
          /\ reader' = [reader EXCEPT !.does = IF result.is = "more" THEN "read" ELSE "spins",
                            !.buffer = IF IsCipher /\ result.is = "more" THEN <<>> ELSE @,
                            !.from = result.from, !.codec = CodecAfter(result)]
          /\ UNCHANGED <<items, out>>
       \/ result.is = "bad" /\ Does("failed") /\ UNCHANGED <<items, out>>
    /\ UNCHANGED <<exchange, arrived, closed, taken, lost, written>>

\* A bug: the end of the stream is taken for that of its last packet.
EofEnds ==
    /\ reader.does = "poll" /\ reader.eof
    /\ Does("ended")
    /\ UNCHANGED <<exchange, arrived, closed, taken, lost, items, out, written>>

\* What is left in the buffer at the end of the stream may still be packets.  The
\* read_u8 of the port for tokio takes the end of the stream for an error.
HandleEof ==
    /\ reader.does = "poll" /\ reader.eof
    /\ \E result \in Decoded :
       \/ /\ reader.buffer = <<>> /\ exchange.format # "tokio"
          /\ Does("ended") /\ UNCHANGED <<items, out>>
       \/ reader.buffer # <<>> /\ result.is = "packet" /\ Gives(result)
       \/ /\ reader.buffer # <<>> \/ exchange.format = "tokio"
          /\ result.is # "packet"
          /\ Does("failed") /\ UNCHANGED <<items, out>>
    /\ UNCHANGED <<exchange, arrived, closed, taken, lost, written>>

Readable == taken < arrived \/ closed

\* Reads n bytes of those that have arrived; the host may have room for fewer.
Takes(n) == taken' = taken + n

EndsTheStream == reader' = [reader EXCEPT !.does = "poll", !.eof = TRUE]

\* ReadHalf::read
Read ==
    /\ reader.does = "read"
    /\ \/ \E n \in 1..(arrived - taken) :
             /\ Takes(n)
             /\ reader' = [reader EXCEPT !.does = "poll",
                              !.buffer = @ \o SubSeq(Sent, taken + 1, taken + n)]
       \/ Readable /\ taken = arrived /\ EndsTheStream /\ UNCHANGED taken
       \* the read of tokio waits by itself
       \/ /\ ~Readable
          /\ Does(IF exchange.format \in {"tokio", "pest", "cipher"} THEN "waiting" ELSE "subscribe")
          /\ UNCHANGED taken
    /\ UNCHANGED <<exchange, arrived, closed, lost, items, out, written>>

\* wait_for, polled in the poll that found nothing: what came meanwhile lets the
\* same future go on.  Otherwise poll_next drops it.
Subscribe ==
    /\ reader.does = "subscribe"
    /\ IF Readable /\ lost < MaxLost THEN Does("again") ELSE Does("waiting")
    /\ UNCHANGED <<exchange, arrived, closed, taken, lost, items, out, written>>

\* The second read in ReadHalf::read: its data are not returned.
ReadAgain ==
    /\ reader.does = "again"
    /\ \/ \E n \in 1..(arrived - taken) : Takes(n) /\ lost' = lost + n /\ Does("read")
       \/ taken = arrived /\ EndsTheStream /\ UNCHANGED <<taken, lost>>
    /\ UNCHANGED <<exchange, arrived, closed, items, out, written>>

\* A bug: the end of the stream does not wake the task.
WakeForData ==
    /\ reader.does = "waiting" /\ taken < arrived
    /\ Does("poll")
    /\ UNCHANGED <<exchange, arrived, closed, taken, lost, items, out, written>>

\* The task is woken, and poll_next called again.
Wake ==
    /\ reader.does = "waiting" /\ Readable
    /\ Does("poll")
    /\ UNCHANGED <<exchange, arrived, closed, taken, lost, items, out, written>>

\* A bug: the whole buffer is dropped, whatever part of it was written.
WriteOnce ==
    /\ reader.does = "sending"
    /\ \E n \in 1..Len(out) :
          /\ written' = written \o SubSeq(out, 1, n)
          /\ out' = <<>>
    /\ UNCHANGED <<exchange, arrived, closed, taken, lost, reader, items>>

\* FramedWrite::poll_flush: check_write says how much the host takes.
Write ==
    /\ reader.does = "sending"
    /\ \E n \in 1..Len(out) :
          /\ written' = written \o SubSeq(out, 1, n)
          /\ out' = After(out, n)
    /\ UNCHANGED <<exchange, arrived, closed, taken, lost, reader, items>>

\* All is written: the flush of the host is not waited for.
Flushed ==
    /\ reader.does = "sending" /\ out = <<>>
    /\ Does("poll")
    /\ UNCHANGED <<exchange, arrived, closed, taken, lost, items, out, written>>

\* A read or a write fails, and so does what handles the connection.
Breaks ==
    /\ reader.does \in {"read", "again", "sending"}
    /\ Does("broken")
    /\ UNCHANGED <<exchange, arrived, closed, taken, lost, items, out, written>>

\* What the task of the connection does when it is polled.
Handler ==
    \/ PollNext \/ HandleEof \/ Read \/ Subscribe \/ ReadAgain \/ Wake
    \/ Write \/ Flushed

StreamsNext == BytesArrive \/ PeerCloses \/ Handler \/ Breaks

\* The reactor polls a task whose pollable is ready, and the peer takes what is
\* written to it.
StreamsFairness == WF_streamVars(Handler)

StreamsSpec == StreamsInit /\ [][StreamsNext]_streamVars /\ StreamsFairness

-----------------------------------------------------------------------------
(* Properties *)

\* No read of TcpStream was dropped, and no cipher spec was cut into pieces.
Undisturbed == lost = 0 /\ ~reader.codec.cut

\* However the bytes of packets are cut into pieces, the decoders give out these
\* packets in their order.
ItemsInOrder == Undisturbed => IsPrefix(items, exchange.packets)

\* A stream ends without an error after its last packet only, and fails only because
\* of what follows that packet and is none (handle_eof, InvalidMessage, InvalidPacket,
\* InvalidChecksum).
EndsAtTheEnd ==
    Undisturbed =>
        /\ reader.does = "ended" => items = exchange.packets /\ exchange.tail = <<>>
        /\ reader.does = "failed" =>
              /\ items = exchange.packets
              /\ exchange.tail # <<>> \/ exchange.format = "tokio"

\* The bytes of every packet that is sent on are those that were received, once each,
\* whatever part of them a write takes: what was written, what waits to be, what is
\* not decoded and what is not read make up what the peer sent after its cipher spec.
BytesAreKept ==
    Undisturbed =>
        (IF reader.codec.complete THEN SpecBytes(exchange.spec) ELSE <<>>)
            \o written \o out \o reader.buffer \o After(Sent, taken) = Sent

\* When the peer has closed its side, the handler of the connection comes to an end.
HandlerEnds == closed ~> reader.does \in Over \/ reader.codec.cut

\* What a test of the repository says of the stream (src/wasi/problems/p00-smoke-test/
\* tests/main.rs:30-32): what was sent is what is read.
NothingIsLost == lost = 0

\* What the protocol says of a cipher (src/rust/p08-insecure-sockets-layer/src/lib.rs:45-48):
\* the request is decoded by the inverse of its spec, in whatever pieces that arrives.
SpecIsFollowed ==
    IsCipher => reader.does # "spins" /\ IsPrefix(items, exchange.packets)
=============================================================================
