-------------------------- MODULE LrcpServerProofs --------------------------
(***************************************************************************)
(* Proofs about LrcpServer: whatever the client does with its stream and   *)
(* with the payloads it is sent, and whatever becomes of the packets, what *)
(* the application reads is what the client sent, and what it writes is    *)
(* kept until the client has it, for streams of any length.                *)
(***************************************************************************)
EXTENDS LrcpServer, TLAPS

-----------------------------------------------------------------------------
(* The inductive invariant *)

H == handler["server"]
U == upstream["server"]
D == downstream["server"]

\* What is known of a packet, however long it is in flight.
PacketInv(p) ==
    /\ p.from = "server" /\ p.type = "data" => p.first = p.pos /\ p.pos + p.len <= U.written
    /\ p.from = "server" /\ p.type = "ack" => p.length <= H.receiver_position
    /\ p.from = "client" /\ p.type = "data" => p.first = p.pos /\ p.pos + p.len <= peer.sent
    /\ p.from = "client" /\ p.type = "ack" => p.length <= peer.received

\* A packet that is to be sent, or sent again.
HeldInv(p) == p = NoPacket \/ (p.from = "server" /\ PacketInv(p))

\* The position up to which bytes were received.
ReceiverInv ==
    /\ D.data = Bytes(0, H.receiver_position)
    /\ H.receiver_position <= peer.sent

\* What was dropped from the buffer, what the payload under way ends with, and
\* what the client has.
SenderInv ==
    /\ H.sender_offset = U.drained
    /\ U.drained <= H.sender_length /\ H.sender_length <= U.written
    /\ ~ H.need_ack => H.sender_length = H.sender_offset
    /\ U.drained <= peer.received /\ peer.received <= U.written

FlushInv == app["server"] = "flushed" /\ ~ U.closed => U.drained = U.written

Inv ==
    /\ TypeOK /\ ReceiverInv /\ SenderInv /\ FlushInv
    /\ HeldInv(H.send_packet) /\ HeldInv(H.last_packet_sent)
    /\ \A p \in net : PacketInv(p)

-----------------------------------------------------------------------------
(* What the types give *)

USE ServerOnly

LEMMA FieldTypes ==
    ASSUME TypeOK
    PROVE  /\ H \in HandlerState /\ U \in UpstreamState /\ D \in DownstreamState
           /\ H.receiver_position \in Nat /\ H.sender_offset \in Nat /\ H.sender_length \in Nat
           /\ H.need_ack \in BOOLEAN /\ H.closing \in BOOLEAN
           /\ H.send_packet \in Packet \cup {NoPacket}
           /\ H.last_packet_sent \in Packet \cup {NoPacket}
           /\ U.written \in Nat /\ U.drained \in Nat /\ U.closed \in BOOLEAN
           /\ D.data \in Seq(Nat) /\ D.read \in Nat
           /\ app["server"] \in AppState
           /\ peer.sent \in Nat /\ peer.received \in Nat /\ peer.acked \in Nat
BY DEF TypeOK, H, U, D, HandlerState, UpstreamState, DownstreamState, PeerState

LEMMA PacketTypes ==
    /\ \A e \in Party : Connect(e) \in Packet /\ Close(e) \in Packet
    /\ \A e \in Party : \A n \in Nat : Ack(e, n) \in Packet
    /\ \A e \in Party : \A m, n, k \in Nat : Data(e, m, n, k) \in Packet
    /\ NoPacket \notin Packet
    /\ \A p \in Packet : p.type = "data" => p.pos \in Nat /\ p.first \in Nat /\ p.len \in Nat
    /\ \A p \in Packet : p.type = "ack" => p.length \in Nat
BY DEF Packet, Party, Connect, Close, Ack, Data, NoPacket

\* Consecutive ranges of a stream join into one.
LEMMA BytesAppend ==
    ASSUME NEW n \in Nat, NEW k \in Nat
    PROVE  /\ Bytes(0, n) \o Bytes(n, k) = Bytes(0, n + k)
           /\ Len(Bytes(0, n)) = n
           /\ Bytes(n, k) \in Seq(Nat)
BY DEF Bytes

\* One field after another of the only end there is.
LEMMA HandlerIs ==
    ASSUME TypeOK, NEW h \in HandlerState, handler' = [handler EXCEPT !["server"] = h]
    PROVE  handler' \in [Ends -> HandlerState] /\ H' = h
BY DEF TypeOK, H

LEMMA UpstreamIs ==
    ASSUME TypeOK, NEW u \in UpstreamState, upstream' = [upstream EXCEPT !["server"] = u]
    PROVE  upstream' \in [Ends -> UpstreamState] /\ U' = u
BY DEF TypeOK, U

LEMMA DownstreamIs ==
    ASSUME TypeOK, NEW d \in DownstreamState, downstream' = [downstream EXCEPT !["server"] = d]
    PROVE  downstream' \in [Ends -> DownstreamState] /\ D' = d
BY DEF TypeOK, D

LEMMA AppIs ==
    ASSUME TypeOK, NEW a \in AppState, app' = [app EXCEPT !["server"] = a]
    PROVE  app' \in [Ends -> AppState] /\ app'["server"] = a
BY DEF TypeOK

-----------------------------------------------------------------------------
(* What keeps the invariant *)

\* The positions only grow.
Grows ==
    /\ U'.written >= U.written /\ H'.receiver_position >= H.receiver_position
    /\ peer'.sent >= peer.sent /\ peer'.received >= peer.received

LEMMA PacketKept ==
    ASSUME TypeOK, TypeOK', Grows, NEW p \in Packet, PacketInv(p)
    PROVE  PacketInv(p)'
<1>1. /\ U.written \in Nat /\ H.receiver_position \in Nat /\ peer.sent \in Nat
      /\ peer.received \in Nat
  BY FieldTypes
<1>2. /\ U'.written \in Nat /\ H'.receiver_position \in Nat /\ peer'.sent \in Nat
      /\ peer'.received \in Nat
  BY DEF TypeOK, H, U, HandlerState, UpstreamState, PeerState
<1>3. /\ p.type = "data" => p.pos + p.len \in Nat
      /\ p.type = "ack" => p.length \in Nat
  BY PacketTypes
<1> QED
  BY <1>1, <1>2, <1>3 DEF PacketInv, Grows

LEMMA Kept ==
    ASSUME Inv, TypeOK', Grows, ReceiverInv', SenderInv', FlushInv',
           \A p \in {H'.send_packet, H'.last_packet_sent} :
              p \in {H.send_packet, H.last_packet_sent} \/ HeldInv(p)',
           \A p \in net' : p \in net \/ p = H.send_packet \/ PacketInv(p)'
    PROVE  Inv'
<1>1. TypeOK
  BY DEF Inv
<1>2. ASSUME NEW p \in net' PROVE PacketInv(p)'
  <2>1. CASE p \in net
    BY <1>1, <2>1, PacketKept DEF Inv, TypeOK
  <2>2. CASE p = H.send_packet
    <3>1. p \in Packet /\ p # NoPacket
      BY PacketTypes DEF TypeOK
    <3> QED
      BY <1>1, <2>2, <3>1, PacketKept DEF Inv, HeldInv
  <2> QED
    BY <2>1, <2>2
<1>3. ASSUME NEW p \in {H.send_packet, H.last_packet_sent} PROVE HeldInv(p)'
  <2>1. HeldInv(p) /\ p \in Packet \cup {NoPacket}
    BY <1>1, FieldTypes DEF Inv
  <2> QED
    BY <1>1, <2>1, PacketKept DEF HeldInv
<1>4. HeldInv(H.send_packet)' /\ HeldInv(H.last_packet_sent)'
  BY <1>3
<1> QED
  BY <1>2, <1>4 DEF Inv

\* A step that moves no byte.
Still ==
    /\ H'.receiver_position = H.receiver_position
    /\ H'.sender_offset = H.sender_offset /\ H'.sender_length = H.sender_length
    /\ H'.need_ack = H.need_ack
    /\ U'.written = U.written /\ U'.drained = U.drained
    /\ D'.data = D.data
    /\ peer'.sent = peer.sent /\ peer'.received = peer.received

LEMMA StillKept ==
    ASSUME Inv, TypeOK', Still, FlushInv',
           \A p \in {H'.send_packet, H'.last_packet_sent} :
              p \in {H.send_packet, H.last_packet_sent} \/ HeldInv(p)',
           \A p \in net' : p \in net \/ p = H.send_packet \/ PacketInv(p)'
    PROVE  Inv'
<1>1. Grows
  BY FieldTypes DEF Still, Grows, Inv
<1>2. ReceiverInv' /\ SenderInv'
  BY DEF Still, ReceiverInv, SenderInv, Inv
<1> QED
  BY <1>1, <1>2, Kept

\* The packets that say nothing of positions.
LEMMA Plain ==
    /\ \A e \in Party : PacketInv(Close(e))' /\ PacketInv(Connect(e))'
    /\ HeldInv(NoPacket)' /\ HeldInv(Close("server"))'
BY DEF Party, PacketInv, HeldInv, Close, Connect

-----------------------------------------------------------------------------
(* The application's steps *)

LEMMA WriteStep ==
    ASSUME Inv, UNCHANGED peer, PollWrite("server")
    PROVE  Inv'
<1>0. TypeOK
  BY DEF Inv
<1>1. PICK n \in 1 .. MaxBytes["server"] - U.written :
         upstream' = [upstream EXCEPT !["server"].written = @ + n]
  BY DEF PollWrite, U
<1>2. /\ app' = [app EXCEPT !["server"] = "idle"] /\ UNCHANGED <<handler, downstream, net>>
  BY DEF PollWrite
<1>3. U.written \in Nat /\ n \in Nat
  <2>1. U.written \in Nat /\ MaxBytes["server"] \in Nat
    BY <1>0, FieldTypes, BytesAssumption DEF Party
  <2> QED
    BY <2>1
<1>4. PICK m \in Nat : m = U.written + n
  BY <1>3
<1>5. PICK u : u = [U EXCEPT !.written = m]
  OBVIOUS
<1>6. /\ u \in UpstreamState /\ u.written = U.written + n
      /\ u.drained = U.drained /\ u.closed = U.closed
  <2>1. U \in UpstreamState
    BY <1>0, FieldTypes
  <2> QED
    BY <1>4, <1>5, <2>1 DEF UpstreamState
<1>7. upstream' = [upstream EXCEPT !["server"] = u]
  BY <1>1, <1>4, <1>5 DEF U
<1>8. upstream' \in [Ends -> UpstreamState] /\ U' = u
  BY <1>0, <1>6, <1>7, UpstreamIs
<1>9. app' \in [Ends -> AppState] /\ app'["server"] = "idle"
  BY <1>0, <1>2, AppIs DEF AppState
<1>10. TypeOK'
  BY <1>0, <1>2, <1>8, <1>9 DEF TypeOK
<1>11. H' = H /\ D' = D
  BY <1>2 DEF H, D
<1>12. Grows /\ ReceiverInv' /\ SenderInv' /\ FlushInv'
  BY <1>0, <1>3, <1>6, <1>8, <1>9, <1>11, FieldTypes
     DEF Grows, Inv, ReceiverInv, SenderInv, FlushInv
<1> QED
  BY <1>2, <1>10, <1>11, <1>12, Kept

\* The polls that do no more than register a waker.
LEMMA PollStep ==
    ASSUME Inv, UNCHANGED <<handler, downstream, net, peer>>,
           NEW u \in UpstreamState, upstream' = [upstream EXCEPT !["server"] = u],
           u.written = U.written, u.drained = U.drained, u.closed = U.closed,
           NEW a \in AppState, app' = [app EXCEPT !["server"] = a],
           a = "flushed" => U.closed \/ U.drained = U.written
    PROVE  Inv'
<1>0. TypeOK
  BY DEF Inv
<1>1. upstream' \in [Ends -> UpstreamState] /\ U' = u
  BY <1>0, UpstreamIs
<1>2. app' \in [Ends -> AppState] /\ app'["server"] = a
  BY <1>0, AppIs
<1>3. TypeOK' /\ H' = H /\ D' = D
  BY <1>0, <1>1, <1>2 DEF TypeOK, H, D
<1>4. Still /\ FlushInv'
  BY <1>1, <1>2, <1>3 DEF Still, FlushInv
<1> QED
  BY <1>3, <1>4, StillKept

LEMMA SameUpstream ==
    ASSUME TypeOK
    PROVE  /\ U \in UpstreamState /\ upstream = [upstream EXCEPT !["server"] = U]
           /\ app["server"] \in AppState
BY FieldTypes DEF TypeOK, U

LEMMA FlushStep ==
    ASSUME Inv, UNCHANGED peer, PollFlush("server")
    PROVE  Inv'
<1>0. TypeOK
  BY DEF Inv
<1>1. PICK a : a = IF Buffered("server") = 0 THEN "flushed" ELSE "registering"
  OBVIOUS
<1>2. app' = [app EXCEPT !["server"] = a] /\ UNCHANGED <<handler, upstream, downstream, net>>
  BY <1>1 DEF PollFlush
<1>3. a \in AppState /\ (a = "flushed" => Buffered("server") = 0)
  BY <1>1 DEF AppState
<1>4. a = "flushed" => U.drained = U.written
  <2>1. U.drained \in Nat /\ U.written \in Nat /\ Buffered("server") = U.written - U.drained
    BY <1>0, FieldTypes DEF Buffered, U
  <2> QED
    BY <1>3, <2>1
<1>5. U \in UpstreamState /\ upstream' = [upstream EXCEPT !["server"] = U]
  BY <1>0, <1>2, SameUpstream
<1> QED
  BY <1>2, <1>3, <1>4, <1>5, PollStep

LEMMA RegisterStep ==
    ASSUME Inv, UNCHANGED peer, RegisterFlush("server")
    PROVE  Inv'
<1>0. TypeOK /\ UNCHANGED <<handler, downstream, net>> /\ U \in UpstreamState
  BY FieldTypes DEF Inv, RegisterFlush
<1>1. CASE U.closed /\ app' = [app EXCEPT !["server"] = "flushed"] /\ UNCHANGED upstream
  <2>1. upstream' = [upstream EXCEPT !["server"] = U] /\ "flushed" \in AppState
    BY <1>0, <1>1, SameUpstream DEF AppState
  <2> QED
    BY <1>0, <1>1, <2>1, PollStep
<1>2. CASE /\ app' = [app EXCEPT !["server"] = "flushing"]
           /\ upstream' = [upstream EXCEPT !["server"].waker = TRUE,
                                           !["server"].notified = TRUE]
  <2>1. PICK u : u = [U EXCEPT !.waker = TRUE, !.notified = TRUE]
    OBVIOUS
  <2>2. /\ u \in UpstreamState
        /\ u.written = U.written /\ u.drained = U.drained /\ u.closed = U.closed
    BY <1>0, <2>1 DEF UpstreamState
  <2>3. upstream' = [upstream EXCEPT !["server"] = u]
    BY <1>0, <1>2, <2>1 DEF U, TypeOK
  <2>4. "flushing" \in AppState /\ "flushing" # "flushed"
    BY DEF AppState
  <2> QED
    BY <1>0, <1>2, <2>2, <2>3, <2>4, PollStep
<1> QED
  BY <1>1, <1>2 DEF RegisterFlush, U

LEMMA ShutdownStep ==
    ASSUME Inv, UNCHANGED peer, PollShutdown("server")
    PROVE  Inv'
<1>0. TypeOK /\ UNCHANGED <<handler, downstream, net>> /\ U \in UpstreamState
  BY FieldTypes DEF Inv, PollShutdown
<1>1. CASE app' = [app EXCEPT !["server"] = "shut"] /\ UNCHANGED upstream
  <2>1. upstream' = [upstream EXCEPT !["server"] = U] /\ "shut" \in AppState /\ "shut" # "flushed"
    BY <1>0, <1>1, SameUpstream DEF AppState
  <2> QED
    BY <1>0, <1>1, <2>1, PollStep
<1>2. CASE /\ app' = [app EXCEPT !["server"] = "shutting"]
           /\ upstream' = [upstream EXCEPT !["server"].shutdown_waker = TRUE,
                                           !["server"].shutdown_notified = TRUE]
  <2>1. PICK u : u = [U EXCEPT !.shutdown_waker = TRUE, !.shutdown_notified = TRUE]
    OBVIOUS
  <2>2. /\ u \in UpstreamState
        /\ u.written = U.written /\ u.drained = U.drained /\ u.closed = U.closed
    BY <1>0, <2>1 DEF UpstreamState
  <2>3. upstream' = [upstream EXCEPT !["server"] = u]
    BY <1>0, <1>2, <2>1 DEF U, TypeOK
  <2>4. "shutting" \in AppState /\ "shutting" # "flushed"
    BY DEF AppState
  <2> QED
    BY <1>0, <1>2, <2>2, <2>3, <2>4, PollStep
<1> QED
  BY <1>1, <1>2 DEF PollShutdown

LEMMA ReadStep ==
    ASSUME Inv, UNCHANGED peer, PollRead("server")
    PROVE  Inv'
<1>0. TypeOK /\ UNCHANGED <<handler, upstream, app, net>>
  BY DEF Inv, PollRead
<1>1. \E d \in DownstreamState :
         d.data = D.data /\ downstream' = [downstream EXCEPT !["server"] = d]
  <2>1. D \in DownstreamState /\ D.read \in Nat
    BY <1>0, FieldTypes
  <2>2. ASSUME NEW n \in 1 .. Unread("server"),
               downstream' = [downstream EXCEPT !["server"].read = @ + n]
        PROVE  \E d \in DownstreamState :
                  d.data = D.data /\ downstream' = [downstream EXCEPT !["server"] = d]
    <3>1. n \in Nat
      BY <1>0, FieldTypes DEF Unread, D
    <3>2. PICK d : d = [D EXCEPT !.read = @ + n]
      OBVIOUS
    <3>3. d \in DownstreamState /\ d.data = D.data
      BY <2>1, <3>1, <3>2 DEF DownstreamState
    <3>4. downstream' = [downstream EXCEPT !["server"] = d]
      BY <1>0, <2>2, <3>2 DEF D, TypeOK
    <3> QED
      BY <3>3, <3>4
  <2>3. CASE downstream' = [downstream EXCEPT !["server"].waker = TRUE]
    <3>1. PICK d : d = [D EXCEPT !.waker = TRUE]
      OBVIOUS
    <3>2. d \in DownstreamState /\ d.data = D.data
      BY <2>1, <3>1 DEF DownstreamState
    <3>3. downstream' = [downstream EXCEPT !["server"] = d]
      BY <1>0, <2>3, <3>1 DEF D, TypeOK
    <3> QED
      BY <3>2, <3>3
  <2> QED
    BY <2>2, <2>3 DEF PollRead
<1>2. PICK d \in DownstreamState :
         d.data = D.data /\ downstream' = [downstream EXCEPT !["server"] = d]
  BY <1>1
<1>3. downstream' \in [Ends -> DownstreamState] /\ D' = d
  BY <1>0, <1>2, DownstreamIs
<1>4. TypeOK' /\ H' = H /\ U' = U
  BY <1>0, <1>3 DEF TypeOK, H, U
<1>5. Still /\ FlushInv'
  BY <1>0, <1>2, <1>3, <1>4 DEF Still, FlushInv, Inv
<1> QED
  BY <1>0, <1>4, <1>5, StillKept

LEMMA DropStep ==
    ASSUME Inv, UNCHANGED peer, DropStream("server")
    PROVE  Inv'
<1>0. TypeOK
  BY DEF Inv
<1>1. /\ U \in UpstreamState /\ upstream' = [upstream EXCEPT !["server"] = U]
      /\ "dropped" \in AppState /\ "dropped" # "flushed"
  BY <1>0, SameUpstream DEF AppState, DropStream
<1> QED
  BY <1>1, PollStep DEF DropStream

LEMMA AppStep ==
    ASSUME Inv, UNCHANGED peer, AppNext("server")
    PROVE  Inv'
BY WriteStep, FlushStep, RegisterStep, ShutdownStep, ReadStep, DropStep DEF AppNext

-----------------------------------------------------------------------------
(* The handler's steps that move no byte *)

\* h and u are the locals and the buffer of the server after it.
LEMMA ControlStep ==
    ASSUME Inv, UNCHANGED <<downstream, app, peer>>,
           NEW h \in HandlerState, handler' = [handler EXCEPT !["server"] = h],
           h.receiver_position = H.receiver_position, h.need_ack = H.need_ack,
           h.sender_offset = H.sender_offset, h.sender_length = H.sender_length,
           \A p \in {h.send_packet, h.last_packet_sent} :
              p \in {H.send_packet, H.last_packet_sent, NoPacket, Close("server")},
           NEW u \in UpstreamState, upstream' = [upstream EXCEPT !["server"] = u],
           u.written = U.written, u.drained = U.drained, U.closed => u.closed,
           net' \subseteq Packet, \A p \in net' : p \in net \/ p = H.send_packet \/ PacketInv(p)'
    PROVE  Inv'
<1>0. TypeOK
  BY DEF Inv
<1>1. handler' \in [Ends -> HandlerState] /\ H' = h
  BY <1>0, HandlerIs
<1>2. upstream' \in [Ends -> UpstreamState] /\ U' = u
  BY <1>0, UpstreamIs
<1>3. TypeOK' /\ D' = D
  BY <1>0, <1>1, <1>2 DEF TypeOK, D
<1>4. Still /\ FlushInv'
  BY <1>1, <1>2, <1>3 DEF Still, FlushInv, Inv
<1>5. \A p \in {H'.send_packet, H'.last_packet_sent} :
         p \in {H.send_packet, H.last_packet_sent} \/ HeldInv(p)'
  BY <1>1, Plain
<1> QED
  BY <1>3, <1>4, <1>5, StillKept

\* A step that sets only flags of the handler.
FlagsOnly ==
    \E pc \in {"absent", "select", "tail", "done"}, closing, closed \in BOOLEAN :
        handler' = [handler EXCEPT !["server"] =
                       [H EXCEPT !.pc = pc, !.closing = closing, !.closed = closed]]

LEMMA FlagsStep ==
    ASSUME Inv, UNCHANGED <<downstream, app, peer>>, FlagsOnly,
           NEW u \in UpstreamState, upstream' = [upstream EXCEPT !["server"] = u],
           u.written = U.written, u.drained = U.drained, U.closed => u.closed,
           net' \subseteq Packet, \A p \in net' : p \in net \/ PacketInv(p)'
    PROVE  Inv'
<1>1. PICK pc \in {"absent", "select", "tail", "done"}, closing \in BOOLEAN, closed \in BOOLEAN :
         handler' = [handler EXCEPT !["server"] =
                        [H EXCEPT !.pc = pc, !.closing = closing, !.closed = closed]]
  BY DEF FlagsOnly
<1>2. PICK h : h = [H EXCEPT !.pc = pc, !.closing = closing, !.closed = closed]
  OBVIOUS
<1>3. /\ h \in HandlerState
      /\ h.receiver_position = H.receiver_position /\ h.need_ack = H.need_ack
      /\ h.sender_offset = H.sender_offset /\ h.sender_length = H.sender_length
      /\ h.send_packet = H.send_packet /\ h.last_packet_sent = H.last_packet_sent
  <2>1. H \in HandlerState
    BY FieldTypes DEF Inv
  <2> QED
    BY <1>2, <2>1 DEF HandlerState
<1>4. handler' = [handler EXCEPT !["server"] = h]
  BY <1>1, <1>2
<1> QED
  BY <1>3, <1>4, ControlStep

\* What sets the flags of the handler.
LEMMA SetsFlags ==
    ASSUME TypeOK
    PROVE  /\ \A pc \in {"absent", "select", "tail", "done"} :
                 handler' = [handler EXCEPT !["server"].pc = pc] => FlagsOnly
           /\ handler' = [handler EXCEPT !["server"].pc = "tail", !["server"].closing = TRUE]
                 => FlagsOnly
           /\ handler' = [handler EXCEPT !["server"].pc = "tail", !["server"].closed = TRUE]
                 => FlagsOnly
<1>1. H \in HandlerState /\ H.closing \in BOOLEAN /\ H.closed \in BOOLEAN
  BY FieldTypes DEF HandlerState
<1>2. ASSUME NEW pc \in {"absent", "select", "tail", "done"},
             handler' = [handler EXCEPT !["server"].pc = pc]
      PROVE  FlagsOnly
  <2>1. [H EXCEPT !.pc = pc] = [H EXCEPT !.pc = pc, !.closing = H.closing, !.closed = H.closed]
    BY <1>1 DEF HandlerState
  <2>2. handler' = [handler EXCEPT !["server"] = [H EXCEPT !.pc = pc]]
    BY <1>2 DEF H
  <2> QED
    BY <1>1, <2>1, <2>2 DEF FlagsOnly
<1>3. ASSUME handler' = [handler EXCEPT !["server"].pc = "tail", !["server"].closing = TRUE]
      PROVE  FlagsOnly
  <2>1. [H EXCEPT !.pc = "tail", !.closing = TRUE]
           = [H EXCEPT !.pc = "tail", !.closing = TRUE, !.closed = H.closed]
    BY <1>1 DEF HandlerState
  <2>2. handler' = [handler EXCEPT !["server"] = [H EXCEPT !.pc = "tail", !.closing = TRUE]]
    BY <1>3 DEF H, TypeOK
  <2> QED
    BY <1>1, <2>1, <2>2 DEF FlagsOnly
<1>4. ASSUME handler' = [handler EXCEPT !["server"].pc = "tail", !["server"].closed = TRUE]
      PROVE  FlagsOnly
  <2>1. [H EXCEPT !.pc = "tail", !.closed = TRUE]
           = [H EXCEPT !.pc = "tail", !.closing = H.closing, !.closed = TRUE]
    BY <1>1 DEF HandlerState
  <2>2. handler' = [handler EXCEPT !["server"] = [H EXCEPT !.pc = "tail", !.closed = TRUE]]
    BY <1>4 DEF H, TypeOK
  <2> QED
    BY <1>1, <2>1, <2>2 DEF FlagsOnly
<1> QED
  BY <1>2, <1>3, <1>4

\* The buffer is left as it is, or closed.
LEMMA SetsUpstream ==
    ASSUME TypeOK, UNCHANGED upstream \/ upstream' = ClosedUpstream("server")
                   \/ upstream' = [upstream EXCEPT !["server"].notified = FALSE]
                   \/ upstream' = [upstream EXCEPT !["server"].shutdown_notified = FALSE]
                   \/ upstream' = [upstream EXCEPT !["server"].waker = FALSE]
    PROVE  \E u \in UpstreamState :
              /\ upstream' = [upstream EXCEPT !["server"] = u]
              /\ u.written = U.written /\ u.drained = U.drained /\ (U.closed => u.closed)
<1>1. U \in UpstreamState
  BY FieldTypes
<1>2. CASE UNCHANGED upstream
  BY <1>1, <1>2, SameUpstream
<1>3. CASE upstream' = ClosedUpstream("server")
  <2>1. PICK u : u = [U EXCEPT !.closed = TRUE, !.waker = FALSE, !.shutdown_waker = FALSE]
    OBVIOUS
  <2>2. /\ u \in UpstreamState
        /\ u.written = U.written /\ u.drained = U.drained /\ u.closed = TRUE
    BY <1>1, <2>1 DEF UpstreamState
  <2>3. upstream' = [upstream EXCEPT !["server"] = u]
    BY <1>3, <2>1 DEF U, TypeOK, ClosedUpstream
  <2> QED
    BY <2>2, <2>3
<1>4. CASE upstream' = [upstream EXCEPT !["server"].notified = FALSE]
  <2>1. PICK u : u = [U EXCEPT !.notified = FALSE]
    OBVIOUS
  <2>2. /\ u \in UpstreamState
        /\ u.written = U.written /\ u.drained = U.drained /\ u.closed = U.closed
    BY <1>1, <2>1 DEF UpstreamState
  <2>3. upstream' = [upstream EXCEPT !["server"] = u]
    BY <1>4, <2>1 DEF U
  <2> QED
    BY <2>2, <2>3
<1>5. CASE upstream' = [upstream EXCEPT !["server"].shutdown_notified = FALSE]
  <2>1. PICK u : u = [U EXCEPT !.shutdown_notified = FALSE]
    OBVIOUS
  <2>2. /\ u \in UpstreamState
        /\ u.written = U.written /\ u.drained = U.drained /\ u.closed = U.closed
    BY <1>1, <2>1 DEF UpstreamState
  <2>3. upstream' = [upstream EXCEPT !["server"] = u]
    BY <1>5, <2>1 DEF U
  <2> QED
    BY <2>2, <2>3
<1>6. CASE upstream' = [upstream EXCEPT !["server"].waker = FALSE]
  <2>1. PICK u : u = [U EXCEPT !.waker = FALSE]
    OBVIOUS
  <2>2. /\ u \in UpstreamState
        /\ u.written = U.written /\ u.drained = U.drained /\ u.closed = U.closed
    BY <1>1, <2>1 DEF UpstreamState
  <2>3. upstream' = [upstream EXCEPT !["server"] = u]
    BY <1>6, <2>1 DEF U
  <2> QED
    BY <2>2, <2>3
<1> QED
  BY <1>2, <1>3, <1>4, <1>5, <1>6

\* Of the packets sent, those that say nothing of positions.
LEMMA PlainSent ==
    ASSUME Inv, NEW sent, sent \subseteq {Close("server"), Close("client"), Connect("client")},
           net' \subseteq net \cup sent
    PROVE  net' \subseteq Packet /\ \A p \in net' : p \in net \/ PacketInv(p)'
BY Plain, PacketTypes DEF Inv, TypeOK, Party

\* The control steps of the handler: what they send, they say nothing of positions.
LEMMA QuietStep ==
    ASSUME Inv, UNCHANGED <<downstream, app, peer>>, FlagsOnly,
           UNCHANGED upstream \/ upstream' = ClosedUpstream("server")
                   \/ upstream' = [upstream EXCEPT !["server"].notified = FALSE]
                   \/ upstream' = [upstream EXCEPT !["server"].shutdown_notified = FALSE]
                   \/ upstream' = [upstream EXCEPT !["server"].waker = FALSE],
           net' \subseteq net \cup {Close("server")}
    PROVE  Inv'
<1>1. PICK u \in UpstreamState :
              /\ upstream' = [upstream EXCEPT !["server"] = u]
              /\ u.written = U.written /\ u.drained = U.drained /\ (U.closed => u.closed)
  BY SetsUpstream DEF Inv
<1>2. net' \subseteq Packet /\ \A p \in net' : p \in net \/ PacketInv(p)'
  BY PlainSent
<1> QED
  BY <1>1, <1>2, FlagsStep

LEMMA SendStep ==
    ASSUME Inv, UNCHANGED peer, SendPacket("server")
    PROVE  Inv'
<1>0. TypeOK /\ H \in HandlerState /\ H.closing \in BOOLEAN
  BY FieldTypes DEF Inv
<1>1. PICK h : h = [H EXCEPT !.pc = "tail", !.last_packet_sent = H.send_packet,
                             !.send_packet = NoPacket, !.closed = H.closing]
  OBVIOUS
<1>2. handler' = [handler EXCEPT !["server"] = h]
  BY <1>0, <1>1 DEF SendPacket, H, TypeOK
<1>3. H.send_packet \in Packet
  BY <1>0, FieldTypes DEF SendPacket, Sending, H
<1>4. /\ h \in HandlerState
      /\ h.receiver_position = H.receiver_position /\ h.need_ack = H.need_ack
      /\ h.sender_offset = H.sender_offset /\ h.sender_length = H.sender_length
      /\ h.send_packet = NoPacket /\ h.last_packet_sent = H.send_packet
  BY <1>0, <1>1, <1>3 DEF HandlerState
<1>5. net' = net \cup {H.send_packet} /\ UNCHANGED <<upstream, downstream, app>>
  BY DEF SendPacket, Send, H
<1>6. net' \subseteq Packet
  BY <1>0, <1>3, <1>5 DEF TypeOK
<1>7. U \in UpstreamState /\ upstream' = [upstream EXCEPT !["server"] = U]
  BY <1>0, <1>5, SameUpstream
<1> QED
  BY <1>2, <1>4, <1>5, <1>6, <1>7, ControlStep

LEMMA RetransmitStep ==
    ASSUME Inv, UNCHANGED peer, Retransmit("server")
    PROVE  Inv'
<1>0. TypeOK /\ H \in HandlerState
  BY FieldTypes DEF Inv
<1>1. PICK q : q = IF H.last_packet_sent = NoPacket THEN H.send_packet ELSE H.last_packet_sent
  OBVIOUS
<1>2. PICK h : h = [H EXCEPT !.pc = "tail", !.send_packet = q, !.last_packet_sent = NoPacket]
  OBVIOUS
<1>3. q \in Packet \cup {NoPacket} /\ q \in {H.send_packet, H.last_packet_sent}
  BY <1>0, <1>1, FieldTypes
<1>4. handler' = [handler EXCEPT !["server"] = h] /\ UNCHANGED <<upstream, downstream, app, net>>
  BY <1>0, <1>1, <1>2 DEF Retransmit, H, TypeOK
<1>5. /\ h \in HandlerState
      /\ h.receiver_position = H.receiver_position /\ h.need_ack = H.need_ack
      /\ h.sender_offset = H.sender_offset /\ h.sender_length = H.sender_length
      /\ h.send_packet = q /\ h.last_packet_sent = NoPacket
  BY <1>0, <1>2, <1>3 DEF HandlerState
<1>6. net' \subseteq Packet
  BY <1>0, <1>4 DEF TypeOK
<1>7. U \in UpstreamState /\ upstream' = [upstream EXCEPT !["server"] = U]
  BY <1>0, <1>4, SameUpstream
<1> QED
  BY <1>3, <1>4, <1>5, <1>6, <1>7, ControlStep

\* What is left in flight when a packet is received.
LEMMA RestIs ==
    ASSUME NEW p, NEW q
    PROVE  /\ NoReply(p) => net' \subseteq net
           /\ Reply(p, q) => net' \subseteq net \cup {q}
BY DEF NoReply, Reply, Rest

LEMMA ConnectStep ==
    ASSUME Inv, UNCHANGED peer, NEW p, ReceiveConnect("server", p)
    PROVE  Inv'
<1>0. TypeOK /\ H \in HandlerState
  BY FieldTypes DEF Inv
<1>1. handler' = [handler EXCEPT !["server"].pc = "tail"] /\ UNCHANGED <<upstream, downstream, app>>
  BY DEF ReceiveConnect, ToTail
<1>2. net' \subseteq net \cup {Ack("server", 0)}
  BY RestIs DEF ReceiveConnect
<1>3. H'.receiver_position = H.receiver_position
  BY <1>0, <1>1 DEF H, TypeOK, HandlerState
<1>4. PacketInv(Ack("server", 0))'
  BY <1>0, <1>3, FieldTypes DEF PacketInv, Ack
<1>5. net' \subseteq Packet
  BY <1>0, <1>2, PacketTypes DEF TypeOK, Party
<1>6. U \in UpstreamState /\ upstream' = [upstream EXCEPT !["server"] = U]
  BY <1>0, <1>1, SameUpstream
<1>7. FlagsOnly
  BY <1>0, <1>1, SetsFlags
<1> QED
  BY <1>1, <1>2, <1>4, <1>5, <1>6, <1>7, FlagsStep

LEMMA CloseStep ==
    ASSUME Inv, UNCHANGED peer, NEW p, ReceiveClose("server", p)
    PROVE  Inv'
<1>1. TypeOK /\ UNCHANGED <<downstream, app>>
  BY DEF Inv, ReceiveClose
<1>2. FlagsOnly
  BY <1>1, SetsFlags DEF ReceiveClose, ToTail
<1>3. net' \subseteq net \cup {Close("server")}
  BY RestIs DEF ReceiveClose
<1>4. UNCHANGED upstream \/ upstream' = ClosedUpstream("server")
  BY DEF ReceiveClose
<1> QED
  BY <1>1, <1>2, <1>3, <1>4, QuietStep

-----------------------------------------------------------------------------
(* The steps that move bytes *)

\* Data that is not ahead of what was received: what is new of it is appended.
LEMMA AppendStep ==
    ASSUME Inv, UNCHANGED <<upstream, app, peer>>, NEW p \in net, p.from = "client",
           p.type = "data", p.pos <= H.receiver_position, AppendData("server", p)
    PROVE  Inv'
<1> DEFINE new == NewBytes("server", p)
           n == H.receiver_position
<1>0. TypeOK /\ H \in HandlerState /\ D \in DownstreamState /\ n \in Nat /\ peer.sent \in Nat
  BY FieldTypes DEF Inv
<1>1. /\ p \in Packet /\ p.pos \in Nat /\ p.len \in Nat /\ p.first = p.pos
      /\ p.pos + p.len <= peer.sent
  BY <1>0, PacketTypes DEF Inv, TypeOK, PacketInv
<1>2. new \in Nat /\ n + new <= peer.sent
  <2>1. new = IF p.pos + p.len > n THEN p.pos + p.len - n ELSE 0
    BY DEF NewBytes, H
  <2>2. n <= peer.sent
    BY DEF Inv, ReceiverInv
  <2> QED
    BY <1>0, <1>1, <2>1, <2>2
<1>3. p.first + (n - p.pos) = n
  BY <1>0, <1>1
<1> HIDE DEF new
<1>4. /\ handler' = [handler EXCEPT !["server"].pc = "tail",
                                    !["server"].receiver_position = @ + new]
      /\ downstream' = [downstream EXCEPT
                           !["server"].data = @ \o Bytes(n, new),
                           !["server"].waker = @ /\ new = 0]
      /\ Reply(p, Ack("server", n + new))
  BY <1>3 DEF AppendData, H, new
<1>5. PICK m \in Nat : m = n + new
  BY <1>0, <1>2
<1>6. PICK h : h = [H EXCEPT !.pc = "tail", !.receiver_position = m]
  OBVIOUS
<1>7. /\ h \in HandlerState /\ h.receiver_position = m
      /\ h.need_ack = H.need_ack
      /\ h.sender_offset = H.sender_offset /\ h.sender_length = H.sender_length
      /\ h.send_packet = H.send_packet /\ h.last_packet_sent = H.last_packet_sent
  BY <1>0, <1>6 DEF HandlerState
<1>8. handler' = [handler EXCEPT !["server"] = h]
  BY <1>0, <1>4, <1>5, <1>6 DEF H, TypeOK
<1>9. handler' \in [Ends -> HandlerState] /\ H' = h
  BY <1>0, <1>7, <1>8, HandlerIs
<1>10. PICK data : data = D.data \o Bytes(n, new)
  OBVIOUS
<1>11. data \in Seq(Nat) /\ data = Bytes(0, m)
  <2>1. D.data = Bytes(0, n) /\ D.data \in Seq(Nat)
    BY <1>0, FieldTypes DEF Inv, ReceiverInv
  <2>2. /\ Bytes(0, n) \o Bytes(n, new) = Bytes(0, n + new)
        /\ Bytes(n, new) \in Seq(Nat)
    BY <1>0, <1>2, BytesAppend
  <2> QED
    BY <1>5, <1>10, <2>1, <2>2
<1>12. PICK waker \in BOOLEAN : waker = (D.waker /\ new = 0)
  OBVIOUS
<1>13. PICK d : d = [D EXCEPT !.data = data, !.waker = waker]
  OBVIOUS
<1>14. d \in DownstreamState /\ d.data = data
  BY <1>0, <1>11, <1>13 DEF DownstreamState
<1>15. downstream' = [downstream EXCEPT !["server"] = d]
  BY <1>0, <1>4, <1>10, <1>12, <1>13 DEF D, TypeOK
<1>16. downstream' \in [Ends -> DownstreamState] /\ D' = d
  BY <1>0, <1>14, <1>15, DownstreamIs
<1>17. net' \subseteq net \cup {Ack("server", m)}
  BY <1>4, <1>5, RestIs
<1>18. TypeOK' /\ U' = U
  BY <1>0, <1>5, <1>9, <1>16, <1>17, PacketTypes DEF TypeOK, Party, U
<1>19. Grows
  BY <1>0, <1>2, <1>5, <1>7, <1>9, <1>18, FieldTypes DEF Grows
<1>20. ReceiverInv'
  BY <1>2, <1>5, <1>7, <1>9, <1>11, <1>14, <1>16 DEF ReceiverInv
<1>21. SenderInv' /\ FlushInv'
  BY <1>7, <1>9, <1>18 DEF SenderInv, FlushInv, Inv
<1>22. PacketInv(Ack("server", m))'
  BY <1>5, <1>7, <1>9 DEF PacketInv, Ack
<1> QED
  BY <1>7, <1>9, <1>17, <1>18, <1>19, <1>20, <1>21, <1>22, Kept

LEMMA DataStep ==
    ASSUME Inv, UNCHANGED peer, NEW p \in Incoming("server"), ReceiveData("server", p)
    PROVE  Inv'
<1>1. p \in net /\ p.from = "client" /\ p.type = "data" /\ TypeOK /\ UNCHANGED <<upstream, app>>
  BY DEF Incoming, Peer, ReceiveData, Inv
<1>2. CASE p.pos <= H.receiver_position /\ AppendData("server", p)
  BY <1>1, <1>2, AppendStep
<1>3. CASE ToTail("server") /\ UNCHANGED downstream /\ (Reply(p, Close("server")) \/ NoReply(p))
  <2>1. FlagsOnly
    BY <1>1, <1>3, SetsFlags DEF ToTail
  <2>2. net' \subseteq net \cup {Close("server")}
    BY <1>3, RestIs
  <2> QED
    BY <1>1, <1>3, <2>1, <2>2, QuietStep
<1> QED
  BY <1>2, <1>3 DEF ReceiveData, H

\* An ack of the payload under way, or of a part of it.
LEMMA AcknowledgeStep ==
    ASSUME Inv, UNCHANGED <<downstream, app, peer>>, NEW p \in net, p.from = "client",
           p.type = "ack", NoReply(p), Acknowledge("server", p.length),
           p.length = H.sender_length
              \/ (p.length < H.sender_length /\ p.length > H.sender_offset)
    PROVE  Inv'
<1> DEFINE l == p.length
<1>0. /\ TypeOK /\ H \in HandlerState /\ U \in UpstreamState
      /\ H.sender_offset \in Nat /\ H.sender_length \in Nat
      /\ U.written \in Nat /\ U.drained \in Nat /\ peer.received \in Nat
  BY FieldTypes DEF Inv
<1>1. l \in Nat /\ l <= peer.received
  BY <1>0, PacketTypes DEF Inv, TypeOK, PacketInv
<1>2. /\ H.sender_offset = U.drained /\ U.drained <= H.sender_length
      /\ H.sender_length <= U.written /\ peer.received <= U.written
  BY DEF Inv, SenderInv
<1>3. U.drained <= l /\ l <= U.written
  BY <1>0, <1>1, <1>2
<1>4. PICK h : h = [H EXCEPT !.pc = "tail", !.sender_offset = l, !.sender_length = l,
                             !.need_ack = FALSE]
  OBVIOUS
<1>5. /\ h \in HandlerState /\ h.receiver_position = H.receiver_position
      /\ h.need_ack = FALSE /\ h.sender_offset = l /\ h.sender_length = l
      /\ h.send_packet = H.send_packet /\ h.last_packet_sent = H.last_packet_sent
  BY <1>0, <1>1, <1>4 DEF HandlerState
<1>6. handler' = [handler EXCEPT !["server"] = h]
  BY <1>0, <1>4 DEF Acknowledge, H, TypeOK
<1>7. handler' \in [Ends -> HandlerState] /\ H' = h
  BY <1>0, <1>5, <1>6, HandlerIs
<1>8. PICK u : u = [U EXCEPT !.drained = l]
  OBVIOUS
<1>9. /\ u \in UpstreamState /\ u.drained = l /\ u.written = U.written /\ u.closed = U.closed
  BY <1>0, <1>1, <1>8 DEF UpstreamState
<1>10. upstream' = [upstream EXCEPT !["server"] = u]
  <2>1. ~ (l - U.drained > U.written - U.drained) /\ U.drained + (l - U.drained) = l
    BY <1>0, <1>1, <1>3
  <2>2. upstream' = [upstream EXCEPT !["server"].drained = l]
    BY <1>2, <2>1 DEF Acknowledge, Drained, Buffered, U, H
  <2> QED
    BY <1>8, <2>2 DEF U
<1>11. upstream' \in [Ends -> UpstreamState] /\ U' = u
  BY <1>0, <1>9, <1>10, UpstreamIs
<1>12. net' \subseteq net
  BY RestIs
<1>13. TypeOK' /\ D' = D
  BY <1>0, <1>7, <1>11, <1>12 DEF TypeOK, D
<1>14. Grows /\ ReceiverInv'
  BY <1>0, <1>5, <1>7, <1>9, <1>11, <1>13, FieldTypes DEF Grows, ReceiverInv, Inv
<1>15. SenderInv'
  BY <1>0, <1>1, <1>2, <1>3, <1>5, <1>7, <1>9, <1>11 DEF SenderInv
<1>16. FlushInv'
  BY <1>0, <1>1, <1>2, <1>3, <1>9, <1>11 DEF FlushInv, Inv
<1> QED
  BY <1>5, <1>7, <1>12, <1>13, <1>14, <1>15, <1>16, Kept

LEMMA AckStep ==
    ASSUME Inv, UNCHANGED peer, NEW p \in Incoming("server"), ReceiveAck("server", p)
    PROVE  Inv'
<1>1. /\ p \in net /\ p.from = "client" /\ p.type = "ack" /\ TypeOK
      /\ UNCHANGED <<downstream, app>>
  BY DEF Incoming, Peer, ReceiveAck, Inv
<1>2. CASE /\ p.length = H.sender_length
                 \/ (p.length < H.sender_length /\ p.length > H.sender_offset)
           /\ Acknowledge("server", p.length) /\ NoReply(p)
  BY <1>1, <1>2, AcknowledgeStep
<1>3. CASE /\ \/ ToTail("server")
              \/ handler' = [handler EXCEPT !["server"].pc = "tail", !["server"].closing = TRUE]
           /\ UNCHANGED upstream /\ (Reply(p, Close("server")) \/ NoReply(p))
  <2>1. FlagsOnly
    BY <1>1, <1>3, SetsFlags DEF ToTail
  <2>2. net' \subseteq net \cup {Close("server")}
    BY <1>3, RestIs
  <2> QED
    BY <1>1, <1>3, <2>1, <2>2, QuietStep
<1> QED
  BY <1>2, <1>3 DEF ReceiveAck, H

\* The next payload starts where the last one that was acknowledged ended.
LEMMA PayloadStep ==
    ASSUME Inv, UNCHANGED <<upstream, downstream, app, peer, net>>, ~ H.need_ack,
           NextPayload("server")
    PROVE  Inv'
<1>0. /\ TypeOK /\ H \in HandlerState /\ U \in UpstreamState
      /\ H.sender_offset \in Nat /\ H.sender_length \in Nat
      /\ U.written \in Nat /\ U.drained \in Nat
  BY FieldTypes DEF Inv
<1>1. H.sender_offset = U.drained /\ H.sender_length = U.drained /\ U.drained <= U.written
  BY DEF Inv, SenderInv
<1>2. PICK n \in PayloadSizes("server") :
         handler' = [handler EXCEPT
                       !["server"].pc = "select",
                       !["server"].send_packet = Data("server", U.drained, U.drained, n),
                       !["server"].sender_length = @ + n,
                       !["server"].need_ack = TRUE]
  BY <1>1 DEF NextPayload, H, U
<1>3. n \in Nat /\ U.drained + n <= U.written
  <2>1. n \in 1 .. U.written - U.drained
    BY DEF PayloadSizes, Buffered, U
  <2> QED
    BY <1>0, <2>1
<1>4. PICK m \in Nat : m = U.drained + n
  BY <1>0, <1>3
<1>5. PICK q : q = Data("server", U.drained, U.drained, n)
  OBVIOUS
<1>6. q \in Packet
  BY <1>0, <1>3, <1>5, PacketTypes DEF Party
<1>7. PICK h : h = [H EXCEPT !.pc = "select", !.send_packet = q, !.sender_length = m,
                             !.need_ack = TRUE]
  OBVIOUS
<1>8. /\ h \in HandlerState /\ h.receiver_position = H.receiver_position
      /\ h.need_ack = TRUE /\ h.sender_offset = U.drained /\ h.sender_length = m
      /\ h.send_packet = q /\ h.last_packet_sent = H.last_packet_sent
  BY <1>0, <1>1, <1>4, <1>6, <1>7 DEF HandlerState
<1>9. handler' = [handler EXCEPT !["server"] = h]
  BY <1>0, <1>1, <1>2, <1>4, <1>5, <1>7 DEF H, TypeOK
<1>10. handler' \in [Ends -> HandlerState] /\ H' = h
  BY <1>0, <1>8, <1>9, HandlerIs
<1>11. TypeOK' /\ U' = U /\ D' = D
  BY <1>0, <1>10 DEF TypeOK, U, D
<1>12. Grows /\ ReceiverInv'
  BY <1>0, <1>8, <1>10, <1>11, FieldTypes DEF Grows, ReceiverInv, Inv
<1>13. SenderInv' /\ FlushInv'
  BY <1>0, <1>1, <1>3, <1>4, <1>8, <1>10, <1>11 DEF SenderInv, FlushInv, Inv
<1>14. HeldInv(q)'
  BY <1>3, <1>5, <1>11 DEF HeldInv, PacketInv, Data
<1> QED
  BY <1>8, <1>10, <1>11, <1>12, <1>13, <1>14, Kept

LEMMA AfterSelectStep ==
    ASSUME Inv, UNCHANGED peer, AfterSelect("server")
    PROVE  Inv'
<1>0. TypeOK /\ UNCHANGED <<downstream, app, net>> /\ H \in HandlerState
  BY FieldTypes DEF Inv, AfterSelect
<1>1. CASE /\ handler' = [handler EXCEPT !["server"].pc = "select"]
           /\ \/ UNCHANGED upstream \/ upstream' = ClosedUpstream("server")
              \/ upstream' = [upstream EXCEPT !["server"].waker = FALSE]
  <2>1. FlagsOnly
    BY <1>0, <1>1, SetsFlags
  <2> QED
    BY <1>0, <1>1, <2>1, QuietStep
<1>2. CASE /\ UNCHANGED upstream
           /\ handler' = [handler EXCEPT !["server"].pc = "select",
                                         !["server"].send_packet = Close("server")]
  <2>1. PICK h : h = [H EXCEPT !.pc = "select", !.send_packet = Close("server")]
    OBVIOUS
  <2>2. /\ h \in HandlerState /\ h.receiver_position = H.receiver_position
        /\ h.need_ack = H.need_ack
        /\ h.sender_offset = H.sender_offset /\ h.sender_length = H.sender_length
        /\ h.send_packet = Close("server") /\ h.last_packet_sent = H.last_packet_sent
    BY <1>0, <2>1, PacketTypes DEF HandlerState, Party
  <2>3. handler' = [handler EXCEPT !["server"] = h]
    BY <1>0, <1>2, <2>1 DEF H, TypeOK
  <2>4. U \in UpstreamState /\ upstream' = [upstream EXCEPT !["server"] = U]
    BY <1>0, <1>2, SameUpstream
  <2>5. net' \subseteq Packet
    BY <1>0 DEF TypeOK
  <2> QED
    BY <1>0, <2>2, <2>3, <2>4, <2>5, ControlStep
<1>3. CASE ~ H.need_ack /\ NextPayload("server") /\ UNCHANGED upstream
  BY <1>0, <1>3, PayloadStep
<1> QED
  BY <1>1, <1>2, <1>3 DEF AfterSelect, H

LEMMA HandlerStep ==
    ASSUME Inv, UNCHANGED peer, HandlerNext("server")
    PROVE  Inv'
<1>0. TypeOK
  BY DEF Inv
<1>1. CASE \/ Accept("server") \/ Exit("server") \/ UpstreamNotified("server")
           \/ ShutdownNotified("server") \/ Expire("server")
  <2>1. FlagsOnly
    BY <1>0, <1>1, SetsFlags DEF Accept, Exit, UpstreamNotified, ShutdownNotified, Expire, ToTail
  <2>2. net' \subseteq net \cup {Close("server")} /\ UNCHANGED <<downstream, app>>
    BY <1>1 DEF Accept, Exit, UpstreamNotified, ShutdownNotified, Expire, Send
  <2>3. \/ UNCHANGED upstream \/ upstream' = ClosedUpstream("server")
        \/ upstream' = [upstream EXCEPT !["server"].notified = FALSE]
        \/ upstream' = [upstream EXCEPT !["server"].shutdown_notified = FALSE]
    BY <1>1 DEF Accept, Exit, UpstreamNotified, ShutdownNotified, Expire
  <2> QED
    BY <2>1, <2>2, <2>3, QuietStep
<1>2. ASSUME NEW p \in Incoming("server"), Receive("server", p)
      PROVE  Inv'
  BY <1>2, DataStep, AckStep, CloseStep, ConnectStep DEF Receive
<1> QED
  BY <1>1, <1>2, SendStep, RetransmitStep, AfterSelectStep DEF HandlerNext

-----------------------------------------------------------------------------
(* The client's steps *)

\* What a step of the client must keep.
LEMMA ClientStep ==
    ASSUME Inv, UNCHANGED <<handler, upstream, downstream, app>>,
           peer' \in PeerState, peer'.sent >= peer.sent, peer'.received >= peer.received,
           peer'.received <= U.written,
           net' \subseteq Packet, \A p \in net' : p \in net \/ PacketInv(p)'
    PROVE  Inv'
<1>0. TypeOK
  BY DEF Inv
<1>1. TypeOK' /\ H' = H /\ U' = U /\ D' = D
  BY <1>0 DEF TypeOK, H, U, D
<1>2. /\ peer.sent \in Nat /\ peer.received \in Nat /\ peer'.sent \in Nat /\ peer'.received \in Nat
      /\ H.receiver_position \in Nat /\ U.written \in Nat /\ U.drained \in Nat
  BY <1>0, FieldTypes DEF PeerState
<1>3. Grows
  BY <1>1, <1>2 DEF Grows
<1>4. ReceiverInv' /\ SenderInv' /\ FlushInv'
  BY <1>1, <1>2 DEF ReceiverInv, SenderInv, FlushInv, Inv
<1> QED
  BY <1>1, <1>3, <1>4, Kept

LEMMA ClientReceives ==
    ASSUME Inv, PeerReceiveData
    PROVE  Inv'
<1>0. TypeOK /\ peer \in PeerState /\ peer.received \in Nat /\ peer.sent \in Nat /\ U.written \in Nat
  BY FieldTypes DEF Inv, TypeOK
<1>1. PICK p \in net :
         /\ p.from = "server" /\ p.type = "data"
         /\ \/ /\ p.pos <= peer.received
               /\ \E n \in peer.received .. p.pos + p.len :
                     /\ peer' = [peer EXCEPT !.received = n]
                     /\ Reply(p, Ack("client", n))
            \/ /\ Reply(p, Ack("client", peer.received))
               /\ UNCHANGED peer
         /\ UNCHANGED <<handler, upstream, downstream, app>>
  BY DEF PeerReceiveData
<1>2. p \in Packet /\ p.pos \in Nat /\ p.len \in Nat /\ p.pos + p.len <= U.written
  BY <1>0, <1>1, PacketTypes DEF Inv, TypeOK, PacketInv
<1>3. PICK n : /\ n \in Nat /\ n >= peer.received /\ n <= U.written
               /\ peer' = [peer EXCEPT !.received = n]
               /\ Reply(p, Ack("client", n))
  <2>1. CASE /\ Reply(p, Ack("client", peer.received))
             /\ UNCHANGED peer
    <3>1. peer = [peer EXCEPT !.received = peer.received]
      BY <1>0 DEF PeerState
    <3>2. peer.received <= U.written
      BY DEF Inv, SenderInv
    <3> QED
      BY <1>0, <2>1, <3>1, <3>2
  <2>2. ASSUME NEW n \in peer.received .. p.pos + p.len,
               peer' = [peer EXCEPT !.received = n], Reply(p, Ack("client", n))
        PROVE  /\ n \in Nat /\ n >= peer.received /\ n <= U.written
               /\ peer' = [peer EXCEPT !.received = n]
               /\ Reply(p, Ack("client", n))
    BY <1>0, <1>2, <2>2
  <2> QED
    BY <1>1, <2>1, <2>2
<1>4. peer' \in PeerState /\ peer'.sent = peer.sent /\ peer'.received = n
  BY <1>0, <1>3 DEF PeerState
<1>5. net' \subseteq net \cup {Ack("client", n)}
  BY <1>3, RestIs
<1>6. net' \subseteq Packet
  BY <1>0, <1>3, <1>5, PacketTypes DEF TypeOK, Party
<1>7. PacketInv(Ack("client", n))'
  BY <1>3, <1>4 DEF PacketInv, Ack
<1> QED
  BY <1>0, <1>1, <1>3, <1>4, <1>5, <1>6, <1>7, ClientStep

LEMMA ClientSends ==
    ASSUME Inv, PeerSendData
    PROVE  Inv'
<1>0. /\ TypeOK /\ peer \in PeerState /\ peer.received \in Nat /\ peer.sent \in Nat
      /\ peer.acked \in Nat /\ MaxBytes["client"] \in Nat
      /\ UNCHANGED <<handler, upstream, downstream, app>>
      /\ peer.received <= U.written
  BY FieldTypes, BytesAssumption DEF Inv, TypeOK, SenderInv, Party, PeerSendData
<1>9. PICK pos \in peer.acked .. peer.sent : \E len \in 1 .. MaxBytes["client"] - pos :
         /\ net' = net \cup {Data("client", pos, pos, len)}
         /\ peer' = [peer EXCEPT !.sent = IF pos + len > @ THEN pos + len ELSE @]
  BY DEF PeerSendData, Send
<1>1. PICK len \in 1 .. MaxBytes["client"] - pos :
         /\ net' = net \cup {Data("client", pos, pos, len)}
         /\ peer' = [peer EXCEPT !.sent = IF pos + len > @ THEN pos + len ELSE @]
  BY <1>9
<1>2. pos \in Nat /\ len \in Nat
  BY <1>0
<1>3. PICK m \in Nat : m = IF pos + len > peer.sent THEN pos + len ELSE peer.sent
  BY <1>0, <1>2
<1>4. m >= peer.sent /\ pos + len <= m
  BY <1>0, <1>2, <1>3
<1>5. peer' = [peer EXCEPT !.sent = m]
  BY <1>1, <1>3
<1>6. peer' \in PeerState /\ peer'.sent = m /\ peer'.received = peer.received
  BY <1>0, <1>5 DEF PeerState
<1>7. net' \subseteq Packet
  BY <1>0, <1>1, <1>2, PacketTypes DEF TypeOK, Party
<1>8. PacketInv(Data("client", pos, pos, len))'
  BY <1>4, <1>6 DEF PacketInv, Data
<1> QED
  BY <1>0, <1>1, <1>4, <1>6, <1>7, <1>8, ClientStep

LEMMA PeerStep ==
    ASSUME Inv, PeerNext
    PROVE  Inv'
<1>0. /\ TypeOK /\ peer \in PeerState /\ peer.received \in Nat /\ peer.sent \in Nat
      /\ peer.received <= U.written
  BY FieldTypes DEF Inv, TypeOK, SenderInv
<1>1. CASE PeerConnect \/ PeerReceiveAck \/ PeerClose \/ PeerReceiveClose
  <2>1. net' \subseteq net \cup {Close("client"), Connect("client")}
    BY <1>1, RestIs DEF PeerConnect, PeerReceiveAck, PeerClose, PeerReceiveClose, Send
  <2>2. UNCHANGED <<handler, upstream, downstream, app>>
    BY <1>1 DEF PeerConnect, PeerReceiveAck, PeerClose, PeerReceiveClose
  <2>3. peer' \in PeerState /\ peer'.sent = peer.sent /\ peer'.received = peer.received
    <3>1. CASE PeerConnect
      BY <1>0, <3>1 DEF PeerConnect
    <3>2. CASE PeerReceiveAck
      <4>1. PICK p \in net :
              /\ p.type = "ack"
              /\ peer' = [peer EXCEPT !.connected = TRUE,
                                      !.acked = IF p.length > @ THEN p.length ELSE @]
        BY <3>2 DEF PeerReceiveAck
      <4>2. PICK l \in Nat : l = IF p.length > peer.acked THEN p.length ELSE peer.acked
        BY <1>0, <4>1, PacketTypes, FieldTypes DEF TypeOK
      <4>3. peer' = [peer EXCEPT !.connected = TRUE, !.acked = l]
        BY <4>1, <4>2
      <4> QED
        BY <1>0, <4>3 DEF PeerState
    <3>3. CASE PeerClose \/ PeerReceiveClose
      BY <1>0, <3>3 DEF PeerClose, PeerReceiveClose, PeerState
    <3> QED
      BY <1>1, <3>1, <3>2, <3>3
  <2>4. net' \subseteq Packet /\ \A p \in net' : p \in net \/ PacketInv(p)'
    BY <2>1, PlainSent
  <2> QED
    BY <1>0, <2>2, <2>3, <2>4, ClientStep
<1> QED
  BY <1>1, ClientReceives, ClientSends DEF PeerNext

-----------------------------------------------------------------------------
(* The theorems *)

LEMMA InitInv == Init => Inv
<1> SUFFICES ASSUME Init PROVE Inv
  OBVIOUS
<1>1. /\ handler = [e \in Ends |-> InitHandler(e)]
      /\ upstream = [e \in Ends |-> InitUpstream]
      /\ downstream = [e \in Ends |-> [data |-> <<>>, read |-> 0, waker |-> FALSE]]
      /\ app = [e \in Ends |-> "idle"]
      /\ net = {}
      /\ peer = [connected |-> Restarted, sent |-> 0, acked |-> 0, received |-> 0,
                 closing |-> FALSE, answered |-> FALSE]
  BY DEF Init, EndpointInit
<1>2. /\ H = [pc |-> "absent", closing |-> FALSE, closed |-> FALSE, need_ack |-> FALSE,
              receiver_position |-> 0, sender_offset |-> 0, sender_length |-> 0,
              send_packet |-> NoPacket, last_packet_sent |-> NoPacket]
      /\ U = InitUpstream /\ D = [data |-> <<>>, read |-> 0, waker |-> FALSE]
  BY <1>1 DEF InitHandler, H, U, D
<1>3. H \in HandlerState /\ U \in UpstreamState /\ D \in DownstreamState /\ peer \in PeerState
  BY <1>1, <1>2, RestartedAssumption
     DEF HandlerState, UpstreamState, DownstreamState, PeerState, InitUpstream
<1>4. TypeOK
  BY <1>1, <1>3 DEF TypeOK, H, U, D, AppState
<1>5. ReceiverInv
  <2>1. Bytes(0, 0) = << >>
    BY DEF Bytes
  <2> QED
    BY <1>1, <1>2, <2>1 DEF ReceiverInv
<1>6. SenderInv /\ FlushInv
  BY <1>1, <1>2 DEF SenderInv, FlushInv, InitUpstream
<1> QED
  BY <1>1, <1>2, <1>4, <1>5, <1>6 DEF Inv, HeldInv

LEMMA NextInv == Inv /\ [Next]_peerVars => Inv'
<1> SUFFICES ASSUME Inv, [Next]_peerVars PROVE Inv'
  OBVIOUS
<1>1. CASE UNCHANGED peerVars
  BY <1>1 DEF peerVars, vars, Inv, TypeOK, ReceiverInv, SenderInv, FlushInv, HeldInv,
              PacketInv, H, U, D
<1> QED
  BY <1>1, HandlerStep, AppStep, PeerStep DEF Next

\* The positions of both streams agree at the two ends, in every packet in flight
\* and in those the handler may send again.
THEOREM Invariance == Spec => []Inv
BY InitInv, NextInv, PTL DEF Spec

\* What the client sent is read in order, none missing and none twice, and is
\* acknowledged only when it is there to be read (protocol.rs:291-316), however
\* the client cuts its stream and whatever the network does.
THEOREM ReceivesInOrder == Spec => []ReceivesReliably
<1>1. Inv => ReceivesReliably
  <2> SUFFICES ASSUME Inv PROVE ReceivesReliably
    OBVIOUS
  <2>1. TypeOK /\ H.receiver_position \in Nat
    BY FieldTypes DEF Inv
  <2>2. D.data = Bytes(0, H.receiver_position) /\ H.receiver_position <= peer.sent
    BY DEF Inv, ReceiverInv
  <2>3. Len(D.data) = H.receiver_position
    BY <2>1, <2>2, BytesAppend
  <2>4. ReceivedInOrder
    BY <2>2, <2>3 DEF ReceivedInOrder, D
  <2>5. AcksAreTrue
    BY <2>3 DEF AcksAreTrue, Inv, PacketInv, D
  <2> QED
    BY <2>1, <2>4, <2>5 DEF ReceivesReliably
<1> QED
  BY <1>1, Invariance, PTL

\* No byte is dropped from the buffer before the client has it, a payload starts
\* at the position it is labelled with however often it is sent again, and flush
\* waits for the client (protocol.rs:119-145, 322-372).
THEOREM SendsUntilReceived == Spec => []SendsReliably
<1>1. Inv => SendsReliably
  <2> SUFFICES ASSUME Inv PROVE SendsReliably
    OBVIOUS
  <2>1. U.drained \in Nat /\ U.written \in Nat /\ peer.received \in Nat
    BY FieldTypes DEF Inv
  <2>2. U.drained <= peer.received /\ peer.received <= U.written
    BY DEF Inv, SenderInv
  <2>3. KeptUntilReceived
    BY <2>2 DEF KeptUntilReceived, Inv, PacketInv, U
  <2>4. FlushedIsReceived
    BY <2>1, <2>2 DEF FlushedIsReceived, Inv, FlushInv, U
  <2> QED
    BY <2>3, <2>4 DEF SendsReliably
<1> QED
  BY <1>1, Invariance, PTL
=============================================================================
