-------------------------------- MODULE Codecs -------------------------------
(***************************************************************************)
(* How packets become bytes and bytes packets: those of the speed daemon   *)
(* (its WASI port, src/wasi/problems/p06-speed-daemon/src/wire.rs, "wire", *)
(* and its port for tokio, src/rust/p06-speed-daemon/src/wire.rs, "tokio"),*)
(* those of pest control (src/rust/p11-pest-control/src/codec), lines and  *)
(* chunks (src/wasi/crates/wasi-async/src/codec.rs), and obfuscated bytes  *)
(* (Ciphers).                                                              *)
(***************************************************************************)
EXTENDS Ciphers

CONSTANT Size  \* SIZE of the ChunksDecoder

ASSUME SizeAssumption == Size \in Nat \ {0}

-----------------------------------------------------------------------------
(* Packets *)

\* Numbers are big endian.
U8(n) == <<n>>
U16(n) == <<n \div 256, n % 256>>
U32(n) == U16(n \div 65536) \o U16(n % 65536)
Num(bytes) ==
    CASE Len(bytes) = 1 -> bytes[1]
      [] Len(bytes) = 2 -> 256 * bytes[1] + bytes[2]
      [] Len(bytes) = 4 -> 16777216 * bytes[1] + 65536 * bytes[2] + 256 * bytes[3] + bytes[4]

SumOf(bytes) ==
    LET sum[i \in 0..Len(bytes)] == IF i = 0 THEN 0 ELSE (sum[i - 1] + bytes[i]) % 256
    IN sum[Len(bytes)]
Sum(bytes) == Once({SumOf(b) : b \in {bytes}})

\* The fields of the packets of the speed daemon.  Text is ASCII.
WireError == <<"str">>
Plate == <<"str", "u32">>
Ticket == <<"str", "u16", "u16", "u32", "u16", "u32", "u16">>
WantHeartbeat == <<"u32">>
Heartbeat == <<>>
IAmCamera == <<"u16", "u16", "u16">>
IAmDispatcher == <<"roads">>

\* Those of pest control.
Hello == <<"str", "u32">>
PestError == <<"str">>
Okay == <<>>
DialAuthority == <<"u32">>
TargetPopulations == <<"u32", "targets">>
CreatePolicy == <<"str", "action">>
DeletePolicy == <<"u32">>
PolicyResult == <<"u32">>
SiteVisit == <<"u32", "visits">>

\* The port for tokio has the packets of the other one.
Tags(format) == IF format = "pest" THEN 80..88 ELSE {16, 32, 33, 64, 65, 128, 129}

Fields(tag) ==
    CASE tag = 16  -> WireError         [] tag = 80 -> Hello
      [] tag = 32  -> Plate             [] tag = 81 -> PestError
      [] tag = 33  -> Ticket            [] tag = 82 -> Okay
      [] tag = 64  -> WantHeartbeat     [] tag = 83 -> DialAuthority
      [] tag = 65  -> Heartbeat         [] tag = 84 -> TargetPopulations
      [] tag = 128 -> IAmCamera         [] tag = 85 -> CreatePolicy
      [] tag = 129 -> IAmDispatcher     [] tag = 86 -> DeletePolicy
      [] tag = 87  -> PolicyResult      [] tag = 88 -> SiteVisit

\* An array is the last field.
Arrays == {"roads", "targets", "visits"}
HasArray(tag) == Fields(tag) # <<>> /\ Last(Fields(tag)) \in Arrays

\* The fields of its elements.
Element(array) ==
    CASE array = "roads"   -> <<"u16">>
      [] array = "targets" -> <<"str", "u32", "u32">>
      [] array = "visits"  -> <<"str", "u32">>

Elements(tag, n) ==
    LET kinds == Element(Last(Fields(tag)))
    IN [i \in 1..(n * Len(kinds)) |-> kinds[((i - 1) % Len(kinds)) + 1]]

Width(format, kind) ==
    CASE kind = "action" -> 1
      [] kind = "u16" -> 2
      [] kind = "u32" -> 4
      \* the number before a text or an array
      [] kind \in {"str"} \cup Arrays -> IF format = "pest" THEN 4 ELSE 1

\* A packet is its tag and the values of its fields; an array is the number of
\* its elements and their values; a line or a chunk is a packet of one value.
Bytes(format, kind, v) ==
    LET number(n) == CASE Width(format, kind) = 1 -> U8(n)
                       [] Width(format, kind) = 2 -> U16(n)
                       [] Width(format, kind) = 4 -> U32(n)
    IN IF kind = "str" THEN number(Len(v)) \o v ELSE number(v)

\* The kinds of the values of a packet.
Kinds(packet) ==
    LET fields == Fields(packet[1])
    IN IF HasArray(packet[1]) THEN fields \o Elements(packet[1], packet[Len(fields) + 1])
                              ELSE fields

\* Writer::finalize fills in the length, which counts the checksum too.
Summed(bytes) == Append(bytes, (256 - Sum(bytes)) % 256)
Finalize(tag, payload) ==
    Once({Summed(bytes) : bytes \in {<<tag>> \o U32(Len(payload) + 6) \o payload}})

Fieldwise(format, packet) ==
    LET kinds == Kinds(packet)
    IN [i \in DOMAIN kinds |-> Bytes(format, kinds[i], packet[i + 1])]

Encode(format, packet) ==
    CASE format = "lines"  -> Append(packet[1], 10)
      [] format = "chunks" -> packet[1]
      [] format = "pest"   -> Finalize(packet[1], FlattenSeq(Fieldwise(format, packet)))
      [] format \in {"wire", "tokio"} -> <<packet[1]>> \o FlattenSeq(Fieldwise(format, packet))

\* The values that the types of the fields have; a text is as long as the number
\* before it can say (assert in put_str_d).
Fits(n, width) ==
    /\ n \in Nat
    /\ CASE width = 1 -> n < 256
         [] width = 2 -> n < 65536
         [] width = 4 -> n \div 65536 < 65536

IsValue(format, kind, v) ==
    CASE kind = "str"    -> v \in Seq(0..127) /\ Fits(Len(v), Width(format, kind))
      [] kind = "action" -> v \in {144, 160}
      [] kind \in {"u16", "u32"} \cup Arrays -> Fits(v, Width(format, kind))

\* What can be sent.
IsFieldwise(format, packet) ==
    LET fields == Fields(packet[1])
        kinds == Kinds(packet)
    IN
    /\ packet[1] \in Tags(format)
    /\ \A i \in DOMAIN fields : IsValue(format, fields[i], packet[i + 1])
    /\ packet = [i \in 1..(Len(kinds) + 1) |-> packet[i]]
    /\ \A i \in DOMAIN kinds : IsValue(format, kinds[i], packet[i + 1])
    /\ format = "pest" => Fits(Len(FlattenSeq(Fieldwise(format, packet))) + 6, 4)

IsPacket(format, packet) ==
    CASE format = "lines"  -> packet = <<packet[1]>> /\ packet[1] \in Seq(Byte \ {10})
      [] format = "chunks" -> packet = <<packet[1]>> /\ packet[1] \in [1..Size -> Byte]
      [] format = "cipher" -> packet = <<packet[1]>> /\ packet[1] \in Byte
      [] format \in {"wire", "tokio", "pest"} -> IsFieldwise(format, packet)

-----------------------------------------------------------------------------
(* Decoders *)

More(from) == [is |-> "more", from |-> from]
Bad == [is |-> "bad", from |-> 0]
Packet(values, rest) == [is |-> "packet", packet |-> values, rest |-> rest, from |-> 0]

After(buffer, n) == SubSeq(buffer, n + 1, Len(buffer))

\* The first end of a line after the first from bytes.
LineEnds(buffer, from) == {i \in (from + 1)..Len(buffer) : buffer[i] = 10}
FirstEnd(buffer, from) ==
    CHOOSE i \in LineEnds(buffer, from) : \A j \in LineEnds(buffer, from) : i <= j

\* A bug: after a line the search for the next one does not start over.
LinesKeepFrom(buffer, from) ==
    IF LineEnds(buffer, from) = {} THEN More(Len(buffer))
    ELSE LET n == FirstEnd(buffer, from)
         IN [Packet(<<SubSeq(buffer, 1, n - 1)>>, After(buffer, n)) EXCEPT !.from = n]

\* LinesDecoder: from is how much of the buffer has no end of line.
Lines(buffer, from) ==
    IF LineEnds(buffer, from) = {} THEN More(Len(buffer))
    ELSE LET n == FirstEnd(buffer, from)
         IN Packet(<<SubSeq(buffer, 1, n - 1)>>, After(buffer, n))

\* ChunksDecoder
Chunks(buffer) ==
    IF Len(buffer) < Size THEN More(0)
    ELSE Packet(<<SubSeq(buffer, 1, Size)>>, After(buffer, Size))

\* A scan which found values, has the rest of the buffer before it, and left so many
\* bytes of a packet that says how long it is.
Scan(rest, values, left) == [is |-> "ok", rest |-> rest, values |-> values, left |-> left]

\* w bytes are next: the packet is not over, and they are here.  The Validator wants
\* more than the bytes of a number or a text, which the checksum provides.
Take(format, scan, w, more) ==
    IF format = "pest" /\ w > scan.left THEN [scan EXCEPT !.is = "bad"]
    ELSE IF Len(scan.rest) < w + more THEN [scan EXCEPT !.is = "more"]
    ELSE Scan(After(scan.rest, w), Append(scan.values, SubSeq(scan.rest, 1, w)), scan.left - w)

\* A field of an elementary kind.
Value(format, scan, kind) ==
    LET w == Width(format, kind)
        more == IF format = "pest" THEN 1 ELSE 0
        read == Take(format, scan, w, IF w = 1 THEN 0 ELSE more)
        v == Num(Last(read.values))
    IN
    IF read.is # "ok" THEN read
    ELSE IF kind = "str" THEN Take(format, [read EXCEPT !.values = scan.values], v, more)
    ELSE IF kind = "action" /\ v \notin {144, 160} THEN [read EXCEPT !.is = "bad"]
    ELSE [read EXCEPT !.values = Append(scan.values, v)]

Scanned(format, scan, kind) == IF scan.is = "ok" THEN Value(format, scan, kind) ELSE scan

Values(format, start, kinds) ==
    LET after[i \in 0..Len(kinds)] ==
            IF i = 0 THEN start
            ELSE Once({Scanned(format, scan, kinds[i]) : scan \in {after[i - 1]}})
    IN after[Len(kinds)]

\* The elements of the array of a packet, and its fields before, of which start has
\* the tag.
WithElements(format, tag, scan) ==
    IF scan.is = "ok" /\ HasArray(tag)
    THEN Values(format, scan, Elements(tag, Last(scan.values)))
    ELSE scan

Payload(format, tag, start) ==
    Once({WithElements(format, tag, scan) : scan \in {Values(format, start, Fields(tag))}})

\* Of a scan: what the decoder returns.
Result(scan) ==
    CASE scan.is = "more" -> More(0)
      [] scan.is = "bad"  -> Bad
      [] scan.is = "ok"   -> Packet(scan.values, scan.rest)

\* PacketCodec of the speed daemon
Wire(buffer) ==
    IF buffer = <<>> THEN More(0)
    ELSE IF buffer[1] \notin Tags("wire") THEN Bad
    ELSE Once({Result(scan) :
                  scan \in {Payload("wire", buffer[1], Scan(After(buffer, 1), <<buffer[1]>>, 0))}})

\* Validator::validate_checksum and raw_packet: the bytes of the packet sum up to
\* 0, and it is as long as it says.
Checked(buffer, length, scan) ==
    LET all == Take("pest", scan, 1, 0) IN
    IF scan.is # "ok" THEN scan
    ELSE IF all.is # "ok" THEN all
    ELSE IF \/ Sum(SubSeq(buffer, 1, IF length > Len(buffer) THEN Len(buffer) ELSE length)) # 0
            \/ all.left # 0
    THEN [all EXCEPT !.is = "bad"]
    ELSE [all EXCEPT !.values = scan.values]

\* PacketCodec of pest control
Pest(buffer) ==
    IF buffer = <<>> THEN More(0)
    ELSE IF buffer[1] \notin Tags("pest") THEN Bad
    ELSE IF Len(buffer) < 6 THEN More(0)
    ELSE LET length == Num(SubSeq(buffer, 2, 5))
             start == Scan(After(buffer, 5), <<buffer[1]>>, length - 5)
         IN Once({Result(Checked(buffer, length, scan)) :
                     scan \in {Payload("pest", buffer[1], start)}})

\* Codec of the ciphers, which has its spec: the next byte.
Deciphered(buffer, codec) ==
    IF buffer = <<>> THEN [is |-> "more", from |-> 0, codec |-> codec]
    ELSE [is |-> "packet", from |-> 0, rest |-> Tail(buffer),
          packet |-> <<DecodeByte(codec.spec, codec.upstream, Head(buffer))>>,
          codec |-> [codec EXCEPT !.upstream = @ + 1]]

Cipher(buffer, codec) ==
    LET read == ReadSpec(codec, buffer) IN
    IF codec.complete THEN Deciphered(buffer, codec)
    ELSE IF read.is = "complete" THEN Deciphered(read.rest, read.codec)
    ELSE [is |-> read.is, from |-> 0, codec |-> read.codec]

Decode(format, buffer, from, codec) ==
    CASE format = "lines"  -> Lines(buffer, from)
      [] format = "chunks" -> Chunks(buffer)
      [] format = "pest"   -> Pest(buffer)
      [] format = "cipher" -> Cipher(buffer, codec)
      [] format \in {"wire", "tokio"} -> Wire(buffer)
=============================================================================
