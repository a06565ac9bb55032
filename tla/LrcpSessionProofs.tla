-------------------------- MODULE LrcpSessionProofs -------------------------
(* Proofs of the safety of an LRCP session, for streams of any length. *)
EXTENDS LrcpSession, TLAPS

USE BothEnds DEF Party

-----------------------------------------------------------------------------
(* Types of what is taken apart most often *)

\* The fields of a typed end.
LEMMA FieldTypes ==
    ASSUME TypeOK, NEW e \in Ends
    PROVE  /\ handler[e].closing \in BOOLEAN /\ handler[e].closed \in BOOLEAN
           /\ handler[e].need_ack \in BOOLEAN
           /\ handler[e].receiver_position \in Nat
           /\ handler[e].sender_offset \in Nat /\ handler[e].sender_length \in Nat
           /\ handler[e].send_packet \in Packet \cup {NoPacket}
           /\ handler[e].last_packet_sent \in Packet \cup {NoPacket}
           /\ upstream[e].written \in Nat /\ upstream[e].drained \in Nat
           /\ downstream[e].data \in Seq(Nat) /\ downstream[e].read \in Nat
           /\ Peer(e) \in Ends /\ Peer(Peer(e)) = e /\ Peer(e) # e
  BY DEF TypeOK, HandlerState, UpstreamState, DownstreamState, Peer

\* What a data packet carries.
LEMMA DataPacketType ==
    ASSUME NEW p \in Packet, p.type = "data"
    PROVE  p.pos \in Nat /\ p.first \in Nat /\ p.len \in Nat
  BY DEF Packet

\* What an ack packet carries.
LEMMA AckPacketType ==
    ASSUME NEW p \in Packet, p.type = "ack"
    PROVE  p.length \in Nat
  BY DEF Packet

\* The packets the handlers build are packets, and none is the absent one.
LEMMA PacketTypes ==
    ASSUME NEW e \in Ends
    PROVE  /\ Connect(e) \in Packet /\ Close(e) \in Packet
           /\ \A n \in Nat : Ack(e, n) \in Packet
           /\ \A m, n, k \in Nat : Data(e, m, n, k) \in Packet
           /\ NoPacket \notin Packet
  BY DEF Packet, Connect, Close, Ack, Data, NoPacket

-----------------------------------------------------------------------------
(* Sequences of consecutive bytes *)

\* Consecutive ranges of a stream join into one.
LEMMA BytesAppend ==
    ASSUME NEW n \in Nat, NEW k \in Nat
    PROVE  /\ Bytes(0, n) \o Bytes(n, k) = Bytes(0, n + k)
           /\ Len(Bytes(0, n)) = n
           /\ Bytes(n, k) \in Seq(Nat)
  BY DEF Bytes

-----------------------------------------------------------------------------
(* The steps that move no data preserve DataInv. *)

DataFrame ==
    /\ \A e \in Ends :
          /\ handler'[e].sender_offset = handler[e].sender_offset
          /\ handler'[e].sender_length = handler[e].sender_length
          /\ handler'[e].need_ack = handler[e].need_ack
          /\ handler'[e].receiver_position = handler[e].receiver_position
          /\ HeldInv(e, handler'[e].send_packet)
          /\ HeldInv(e, handler'[e].last_packet_sent)
          /\ upstream'[e].drained = upstream[e].drained
          /\ upstream'[e].written \in Nat
          /\ upstream'[e].written >= upstream[e].written
          /\ downstream'[e].data = downstream[e].data
    /\ \A p \in net' : PacketInv(p.from, p)

\* A step that moves no byte and sends no packet keeps what is said of the data.
LEMMA DataFramed ==
    ASSUME Inv, TypeOK', DataFrame
    PROVE  DataInv'
<1>1. ASSUME NEW e \in Ends, NEW p
      PROVE  PacketInv(e, p) <=> PacketInv(e, p)'
  BY FieldTypes DEF DataFrame, PacketInv, Inv
<1>2. ASSUME NEW e \in Ends
      PROVE  SenderInv(e)'
  <2>1. SenderInv(e)
    BY DEF Inv, DataInv
  <2>2. upstream[e].written \in Nat /\ upstream'[e].written \in Nat
           /\ handler[e].sender_length \in Nat
    BY FieldTypes DEF Inv, DataFrame
  <2> QED BY <2>1, <2>2 DEF DataFrame, SenderInv
<1>3. ASSUME NEW e \in Ends
      PROVE  ReceiverInv(e)'
  BY FieldTypes DEF DataFrame, ReceiverInv, Inv, DataInv
<1>4. ASSUME NEW e \in Ends
      PROVE  HeldInv(e, handler[e].send_packet)' /\ HeldInv(e, handler[e].last_packet_sent)'
  BY <1>1 DEF DataFrame, HeldInv
<1>5. ASSUME NEW p \in net'
      PROVE  PacketInv(p.from, p)'
  <2>1. p.from \in Ends
    BY DEF TypeOK, Packet
  <2> QED BY <1>1, <2>1 DEF DataFrame
<1> QED BY <1>2, <1>3, <1>4, <1>5 DEF DataInv

-----------------------------------------------------------------------------
(* The application's steps *)

\* The application may write more, and touches nothing else of the data.
LEMMA AppData ==
    ASSUME Inv, TypeOK', UNCHANGED <<handler, net>>,
           \A e \in Ends : /\ upstream'[e].drained = upstream[e].drained
                          /\ upstream'[e].written >= upstream[e].written
                          /\ downstream'[e].data = downstream[e].data
    PROVE  DataInv'
<1>1. DataFrame
  <2>1. \A e \in Ends : upstream'[e].written \in Nat
    BY DEF TypeOK, UpstreamState
  <2> QED BY <2>1 DEF DataFrame, Inv, DataInv
<1> QED BY <1>1, DataFramed

\* poll_write adds to the buffer the handler has yet to drain.
LEMMA WriteStep ==
    ASSUME Inv, NEW e \in Ends, PollWrite(e)
    PROVE  Inv'
<1>1. PICK n \in 1 .. MaxBytes[e] - upstream[e].written :
         upstream' = [upstream EXCEPT ![e].written = @ + n]
  BY DEF PollWrite
<1>2. n \in Nat
  BY FieldTypes, BytesAssumption DEF Inv
<1>3. TypeOK'
  BY <1>1, <1>2 DEF PollWrite, Inv, TypeOK, UpstreamState, AppState
<1>4. \A f \in Ends : /\ upstream'[f].drained = upstream[f].drained
                      /\ upstream'[f].closed = upstream[f].closed
                      /\ upstream'[f].waker = upstream[f].waker
                      /\ upstream'[f].shutdown_waker = upstream[f].shutdown_waker
                      /\ upstream'[f].shutdown_notified = upstream[f].shutdown_notified
                      /\ f # e => upstream'[f] = upstream[f]
  BY <1>1 DEF Inv, TypeOK, UpstreamState
<1>5. upstream'[e].written = upstream[e].written + n
  BY <1>1 DEF Inv, TypeOK, UpstreamState
<1>6. \A f \in Ends : upstream'[f].written >= upstream[f].written
  <2>1. \A f \in Ends : upstream[f].written \in Nat
    BY FieldTypes DEF Inv
  <2> QED BY <2>1, <1>2, <1>4, <1>5
<1>7. DataInv'
  BY <1>3, <1>4, <1>6, AppData, FieldTypes DEF PollWrite, Inv
<1>8. ASSUME NEW f \in Ends
      PROVE  AppInv(f)'
  BY <1>4 DEF PollWrite, Inv, AppInv, Free, Buffered, Unread, TypeOK, AppState
<1> QED BY <1>3, <1>7, <1>8 DEF Inv

\* poll_flush only moves the application on.
LEMMA FlushStep ==
    ASSUME Inv, NEW e \in Ends, PollFlush(e)
    PROVE  Inv'
<1>1. TypeOK'
  BY DEF PollFlush, Inv, TypeOK, AppState
<1>2. DataInv'
  BY <1>1, AppData, FieldTypes DEF PollFlush, Inv
<1>3. ASSUME NEW f \in Ends
      PROVE  AppInv(f)'
  BY DEF PollFlush, Inv, AppInv, Free, Buffered, Unread, TypeOK, AppState
<1> QED BY <1>1, <1>2, <1>3 DEF Inv

\* A flush that has to wait leaves its waker, or finds the stream closed.
LEMMA RegisterStep ==
    ASSUME Inv, NEW e \in Ends, RegisterFlush(e)
    PROVE  Inv'
<1>1. CASE upstream[e].closed
  <2>1. TypeOK'
    BY <1>1 DEF RegisterFlush, Inv, TypeOK, AppState
  <2>2. DataInv'
    BY <1>1, <2>1, AppData, FieldTypes DEF RegisterFlush, Inv
  <2>3. ASSUME NEW f \in Ends
        PROVE  AppInv(f)'
    BY <1>1 DEF RegisterFlush, Inv, AppInv, Buffered, Unread, TypeOK, AppState
  <2> QED BY <2>1, <2>2, <2>3 DEF Inv
<1>2. CASE ~upstream[e].closed
  <2>1. upstream' = [upstream EXCEPT ![e].waker = TRUE, ![e].notified = TRUE]
    BY <1>2 DEF RegisterFlush
  <2>2. upstream' \in [Ends -> UpstreamState]
    <3> DEFINE u == [upstream[e] EXCEPT !.waker = TRUE, !.notified = TRUE]
    <3>1. upstream \in [Ends -> UpstreamState]
      BY DEF Inv, TypeOK
    <3>2. u \in UpstreamState
      BY <3>1 DEF UpstreamState
    <3>3. upstream' = [upstream EXCEPT ![e] = u]
      BY <2>1, <3>1
    <3> HIDE DEF u
    <3> QED BY <3>1, <3>2, <3>3
  <2>3. TypeOK'
    BY <1>2, <2>2 DEF RegisterFlush, Inv, TypeOK, AppState
  <2>4. \A f \in Ends : /\ upstream'[f].drained = upstream[f].drained
                        /\ upstream'[f].written = upstream[f].written
                        /\ upstream'[f].closed = upstream[f].closed
                        /\ upstream'[f].shutdown_waker = upstream[f].shutdown_waker
                        /\ upstream'[f].shutdown_notified = upstream[f].shutdown_notified
                        /\ f # e => upstream'[f] = upstream[f]
    BY <2>1 DEF Inv, TypeOK, UpstreamState
  <2>5. DataInv'
    BY <1>2, <2>3, <2>4, AppData, FieldTypes DEF RegisterFlush, Inv
  <2>6. ASSUME NEW f \in Ends
        PROVE  AppInv(f)'
    BY <1>2, <2>4 DEF RegisterFlush, Inv, AppInv, Buffered, Unread, TypeOK, AppState
  <2> QED BY <2>3, <2>5, <2>6 DEF Inv
<1> QED BY <1>1, <1>2

\* poll_shutdown asks the handler to close, and moves no byte.
LEMMA ShutdownStep ==
    ASSUME Inv, NEW e \in Ends, PollShutdown(e)
    PROVE  Inv'
<1>1. CASE upstream[e].closed
  <2>1. TypeOK'
    BY <1>1 DEF PollShutdown, Inv, TypeOK, AppState
  <2>2. DataInv'
    BY <1>1, <2>1, AppData, FieldTypes DEF PollShutdown, Inv
  <2>3. ASSUME NEW f \in Ends
        PROVE  AppInv(f)'
    BY <1>1 DEF PollShutdown, Inv, AppInv, Free, Buffered, Unread, TypeOK, AppState
  <2> QED BY <2>1, <2>2, <2>3 DEF Inv
<1>2. CASE ~upstream[e].closed
  <2>1. upstream' = [upstream EXCEPT ![e].shutdown_waker = TRUE,
                                     ![e].shutdown_notified = TRUE]
    BY <1>2 DEF PollShutdown
  <2>2. upstream' \in [Ends -> UpstreamState]
    <3> DEFINE u == [upstream[e] EXCEPT !.shutdown_waker = TRUE,
                                        !.shutdown_notified = TRUE]
    <3>1. upstream \in [Ends -> UpstreamState]
      BY DEF Inv, TypeOK
    <3>2. u \in UpstreamState
      BY <3>1 DEF UpstreamState
    <3>3. upstream' = [upstream EXCEPT ![e] = u]
      BY <2>1, <3>1
    <3> HIDE DEF u
    <3> QED BY <3>1, <3>2, <3>3
  <2>3. TypeOK'
    BY <1>2, <2>2 DEF PollShutdown, Inv, TypeOK, AppState
  <2>4. \A f \in Ends : /\ upstream'[f].drained = upstream[f].drained
                        /\ upstream'[f].written = upstream[f].written
                        /\ upstream'[f].closed = upstream[f].closed
                        /\ upstream'[f].waker = upstream[f].waker
                        /\ f # e => upstream'[f] = upstream[f]
    BY <2>1 DEF Inv, TypeOK, UpstreamState
  <2>5. DataInv'
    BY <1>2, <2>3, <2>4, AppData, FieldTypes DEF PollShutdown, Inv
  <2>6. ASSUME NEW f \in Ends
        PROVE  AppInv(f)'
    BY <1>2, <2>4 DEF PollShutdown, Inv, AppInv, Free, Buffered, Unread, TypeOK, AppState
  <2> QED BY <2>3, <2>5, <2>6 DEF Inv
<1> QED BY <1>1, <1>2

\* poll_read advances within what has arrived.
LEMMA ReadStep ==
    ASSUME Inv, NEW e \in Ends, PollRead(e)
    PROVE  Inv'
<1>1. CASE \E n \in 1 .. Unread(e) : downstream' = [downstream EXCEPT ![e].read = @ + n]
  <2>1. PICK n \in 1 .. Unread(e) : downstream' = [downstream EXCEPT ![e].read = @ + n]
    BY <1>1
  <2>2. downstream[e].data \in Seq(Nat) /\ downstream[e].read \in Nat
    BY FieldTypes DEF Inv
  <2>3. n \in Nat
    <3>1. Len(downstream[e].data) \in Nat
      BY <2>2
    <3>2. Unread(e) \in Int
      BY <2>2, <3>1 DEF Unread
    <3> QED BY <2>1, <3>2
  <2>4. downstream' \in [Ends -> DownstreamState]
    <3> DEFINE r == downstream[e].read + n
    <3>1. r \in Nat
      BY <2>2, <2>3
    <3>2. downstream' = [downstream EXCEPT ![e].read = r]
      BY <2>1
    <3> HIDE DEF r
    <3> QED BY <3>1, <3>2 DEF Inv, TypeOK, DownstreamState
  <2>5. TypeOK'
    BY <2>4 DEF PollRead, Inv, TypeOK
  <2>6. \A f \in Ends : /\ downstream'[f].data = downstream[f].data
                        /\ downstream'[f].waker = downstream[f].waker
                        /\ f # e => downstream'[f] = downstream[f]
    <3>1. downstream \in [Ends -> DownstreamState]
      BY DEF Inv, TypeOK
    <3>2. \A f \in Ends : f # e => downstream'[f] = downstream[f]
      BY <2>1, <3>1
    <3>3. downstream'[e].data = downstream[e].data /\ downstream'[e].waker = downstream[e].waker
      BY <2>1, <3>1 DEF DownstreamState
    <3> QED BY <3>2, <3>3
  <2>7. DataInv'
    <3>1. \A f \in Ends : upstream'[f].written >= upstream[f].written
      BY FieldTypes DEF PollRead, Inv
    <3> QED BY <2>5, <2>6, <3>1, AppData DEF PollRead
  <2>8. ASSUME NEW f \in Ends
        PROVE  AppInv(f)'
    BY <2>6 DEF PollRead, Inv, AppInv, Buffered, Unread
  <2> QED BY <2>5, <2>7, <2>8 DEF Inv
<1>2. CASE Unread(e) = 0 /\ downstream' = [downstream EXCEPT ![e].waker = TRUE]
  <2>1. downstream' \in [Ends -> DownstreamState]
    BY <1>2 DEF Inv, TypeOK, DownstreamState
  <2>2. TypeOK'
    BY <2>1 DEF PollRead, Inv, TypeOK
  <2>3. \A f \in Ends : /\ downstream'[f].data = downstream[f].data
                        /\ downstream'[f].read = downstream[f].read
                        /\ f # e => downstream'[f] = downstream[f]
    BY <1>2 DEF Inv, TypeOK, DownstreamState
  <2>4. DataInv'
    BY <2>2, <2>3, AppData, FieldTypes DEF PollRead, Inv
  <2>5. ASSUME NEW f \in Ends
        PROVE  AppInv(f)'
    BY <1>2, <2>3 DEF PollRead, Inv, AppInv, Buffered, Unread
  <2> QED BY <2>2, <2>4, <2>5 DEF Inv
<1> QED BY <1>1, <1>2 DEF PollRead

\* Dropping the stream is seen by the handler later, and moves no byte.
LEMMA DropStep ==
    ASSUME Inv, NEW e \in Ends, DropStream(e)
    PROVE  Inv'
<1>1. TypeOK'
  BY DEF DropStream, Inv, TypeOK, AppState
<1>2. DataInv'
  BY <1>1, AppData, FieldTypes DEF DropStream, Inv
<1>3. ASSUME NEW f \in Ends
      PROVE  AppInv(f)'
  BY DEF DropStream, Free, Inv, AppInv, Buffered, Unread, TypeOK, AppState
<1> QED BY <1>1, <1>2, <1>3 DEF Inv

\* Every step of the application.
LEMMA AppStep ==
    ASSUME Inv, NEW e \in Ends, AppNext(e)
    PROVE  Inv'
  BY WriteStep, FlushStep, RegisterStep, ShutdownStep, ReadStep, DropStep DEF AppNext

-----------------------------------------------------------------------------
(* The handler's steps that move no data *)

\* A lost datagram takes nothing away but itself.
LEMMA LoseStep ==
    ASSUME Inv, NEW p \in net, Lose(p)
    PROVE  Inv'
<1>1. TypeOK'
  BY DEF Lose, Inv, TypeOK
<1>2. DataFrame
  <2>1. \A f \in Ends : upstream[f].written \in Nat
    BY FieldTypes DEF Inv
  <2>2. \A q \in net' : PacketInv(q.from, q)
    BY DEF Lose, Inv, DataInv
  <2>3. \A f \in Ends : /\ HeldInv(f, handler[f].send_packet)
                        /\ HeldInv(f, handler[f].last_packet_sent)
    BY DEF Inv, DataInv
  <2> QED BY <2>1, <2>2, <2>3 DEF DataFrame, Lose
<1>3. \A e \in Ends : AppInv(e)'
  BY DEF Lose, Inv, AppInv, Buffered, Unread
<1> QED BY <1>1, <1>2, <1>3, DataFramed DEF Inv

\* What a step of the handler of e that only moves its control leaves alone.
ControlOnly(e) ==
    /\ \A f \in Ends : f # e => handler'[f] = handler[f]
    /\ handler'[e].sender_offset = handler[e].sender_offset
    /\ handler'[e].sender_length = handler[e].sender_length
    /\ handler'[e].need_ack = handler[e].need_ack
    /\ handler'[e].receiver_position = handler[e].receiver_position
    /\ handler'[e].send_packet = handler[e].send_packet
    /\ handler'[e].last_packet_sent = handler[e].last_packet_sent
    /\ \A f \in Ends : /\ upstream'[f].drained = upstream[f].drained
                       /\ upstream'[f].written = upstream[f].written
                       /\ downstream'[f] = downstream[f]
    /\ \A p \in net' : p \in net \/ p = Close(e) \/ p = Ack(e, 0)

\* A step that sends at most a close or Ack 0 keeps what is said of the data.
LEMMA ControlData ==
    ASSUME Inv, TypeOK', NEW e \in Ends, ControlOnly(e)
    PROVE  DataInv'
<1>1. ASSUME NEW p \in net'
      PROVE  PacketInv(p.from, p)
  <2>1. CASE p \in net
    BY <2>1 DEF Inv, DataInv
  <2>2. CASE p = Close(e)
    BY <2>2 DEF PacketInv, Close
  <2>3. CASE p = Ack(e, 0)
    BY <2>3, FieldTypes DEF PacketInv, Ack, Inv
  <2> QED BY <2>1, <2>2, <2>3 DEF ControlOnly
<1>2. ASSUME NEW f \in Ends
      PROVE  /\ handler'[f].sender_offset = handler[f].sender_offset
             /\ handler'[f].sender_length = handler[f].sender_length
             /\ handler'[f].need_ack = handler[f].need_ack
             /\ handler'[f].receiver_position = handler[f].receiver_position
             /\ handler'[f].send_packet = handler[f].send_packet
             /\ handler'[f].last_packet_sent = handler[f].last_packet_sent
  BY DEF ControlOnly
<1>3. \A f \in Ends : /\ HeldInv(f, handler'[f].send_packet)
                      /\ HeldInv(f, handler'[f].last_packet_sent)
  BY <1>2 DEF Inv, DataInv
<1>4. \A f \in Ends : upstream[f].written \in Nat
  BY FieldTypes DEF Inv
<1>5. DataFrame
  BY <1>1, <1>2, <1>3, <1>4 DEF DataFrame, ControlOnly
<1> QED BY <1>5, DataFramed

\* Moving pc, with or without a change of closing or closed.
LEMMA PcUpdate ==
    ASSUME TypeOK, NEW e \in Ends, NEW pc \in {"absent", "select", "tail", "done"},
           handler' = [handler EXCEPT ![e].pc = pc]
    PROVE  /\ handler' \in [Ends -> HandlerState]
           /\ \A f \in Ends : f # e => handler'[f] = handler[f]
           /\ handler'[e].sender_offset = handler[e].sender_offset
           /\ handler'[e].sender_length = handler[e].sender_length
           /\ handler'[e].need_ack = handler[e].need_ack
           /\ handler'[e].receiver_position = handler[e].receiver_position
           /\ handler'[e].send_packet = handler[e].send_packet
           /\ handler'[e].last_packet_sent = handler[e].last_packet_sent
           /\ handler'[e].closing = handler[e].closing
           /\ handler'[e].closed = handler[e].closed
           /\ handler'[e].pc = pc
  BY DEF TypeOK, HandlerState

\* An end that begins to close.
LEMMA ClosingUpdate ==
    ASSUME TypeOK, NEW e \in Ends,
           handler' = [handler EXCEPT ![e].pc = "tail", ![e].closing = TRUE]
    PROVE  /\ handler' \in [Ends -> HandlerState]
           /\ \A f \in Ends : f # e => handler'[f] = handler[f]
           /\ handler'[e].sender_offset = handler[e].sender_offset
           /\ handler'[e].sender_length = handler[e].sender_length
           /\ handler'[e].need_ack = handler[e].need_ack
           /\ handler'[e].receiver_position = handler[e].receiver_position
           /\ handler'[e].send_packet = handler[e].send_packet
           /\ handler'[e].last_packet_sent = handler[e].last_packet_sent
           /\ handler'[e].closed = handler[e].closed
           /\ handler'[e].closing = TRUE
           /\ handler'[e].pc = "tail"
<1>1. handler \in [Ends -> HandlerState]
  BY DEF TypeOK
<1>2. handler' \in [Ends -> HandlerState]
  <2> DEFINE h == [handler[e] EXCEPT !.pc = "tail", !.closing = TRUE]
  <2>1. h \in HandlerState
    BY <1>1, ZenonT(60) DEF HandlerState
  <2>2. handler' = [handler EXCEPT ![e] = h]
    BY <1>1, ZenonT(60)
  <2> HIDE DEF h
  <2> QED BY <1>1, <2>1, <2>2
<1>3. \A f \in Ends : f # e => handler'[f] = handler[f]
  BY <1>1
<1>4. /\ handler'[e].sender_offset = handler[e].sender_offset
      /\ handler'[e].sender_length = handler[e].sender_length
      /\ handler'[e].need_ack = handler[e].need_ack
      /\ handler'[e].receiver_position = handler[e].receiver_position
      /\ handler'[e].send_packet = handler[e].send_packet
      /\ handler'[e].last_packet_sent = handler[e].last_packet_sent
      /\ handler'[e].closed = handler[e].closed
  BY <1>1 DEF HandlerState
<1>5. handler'[e].closing = TRUE /\ handler'[e].pc = "tail"
  BY <1>1 DEF HandlerState
<1> QED BY <1>2, <1>3, <1>4, <1>5

\* An end that is closed.
LEMMA ClosedUpdate ==
    ASSUME TypeOK, NEW e \in Ends,
           handler' = [handler EXCEPT ![e].pc = "tail", ![e].closed = TRUE]
    PROVE  /\ handler' \in [Ends -> HandlerState]
           /\ \A f \in Ends : f # e => handler'[f] = handler[f]
           /\ handler'[e].sender_offset = handler[e].sender_offset
           /\ handler'[e].sender_length = handler[e].sender_length
           /\ handler'[e].need_ack = handler[e].need_ack
           /\ handler'[e].receiver_position = handler[e].receiver_position
           /\ handler'[e].send_packet = handler[e].send_packet
           /\ handler'[e].last_packet_sent = handler[e].last_packet_sent
           /\ handler'[e].closing = handler[e].closing
           /\ handler'[e].closed = TRUE
           /\ handler'[e].pc = "tail"
<1>1. handler \in [Ends -> HandlerState]
  BY DEF TypeOK
<1>2. handler' \in [Ends -> HandlerState]
  <2> DEFINE h == [handler[e] EXCEPT !.pc = "tail", !.closed = TRUE]
  <2>1. h \in HandlerState
    BY <1>1, ZenonT(60) DEF HandlerState
  <2>2. handler' = [handler EXCEPT ![e] = h]
    BY <1>1, ZenonT(60)
  <2> HIDE DEF h
  <2> QED BY <1>1, <2>1, <2>2
<1>3. \A f \in Ends : f # e => handler'[f] = handler[f]
  BY <1>1
<1>4. /\ handler'[e].sender_offset = handler[e].sender_offset
      /\ handler'[e].sender_length = handler[e].sender_length
      /\ handler'[e].need_ack = handler[e].need_ack
      /\ handler'[e].receiver_position = handler[e].receiver_position
      /\ handler'[e].send_packet = handler[e].send_packet
      /\ handler'[e].last_packet_sent = handler[e].last_packet_sent
      /\ handler'[e].closing = handler[e].closing
  BY <1>1 DEF HandlerState
<1>5. handler'[e].closed = TRUE /\ handler'[e].pc = "tail"
  BY <1>1 DEF HandlerState
<1> QED BY <1>2, <1>3, <1>4, <1>5

\* Closing the upstream half and waking its sleepers.
LEMMA UpstreamClosed ==
    ASSUME TypeOK, NEW e \in Ends, upstream' = ClosedUpstream(e)
    PROVE  /\ upstream' \in [Ends -> UpstreamState]
           /\ \A f \in Ends : /\ upstream'[f].drained = upstream[f].drained
                              /\ upstream'[f].written = upstream[f].written
                              /\ upstream'[f].shutdown_notified
                                   = upstream[f].shutdown_notified
                              /\ f # e => upstream'[f] = upstream[f]
           /\ upstream'[e].closed = TRUE /\ upstream'[e].waker = FALSE
           /\ upstream'[e].shutdown_waker = FALSE
<1>1. upstream \in [Ends -> UpstreamState]
  BY DEF TypeOK
<1>2. upstream' = [upstream EXCEPT ![e].closed = TRUE, ![e].waker = FALSE,
                                   ![e].shutdown_waker = FALSE]
  BY DEF ClosedUpstream
<1>3. upstream' \in [Ends -> UpstreamState]
  <2> DEFINE u == [upstream[e] EXCEPT !.closed = TRUE, !.waker = FALSE,
                                      !.shutdown_waker = FALSE]
  <2>1. u \in UpstreamState
    BY <1>1 DEF UpstreamState
  <2>2. upstream' = [upstream EXCEPT ![e] = u]
    BY <1>1, <1>2
  <2> HIDE DEF u
  <2> QED BY <1>1, <2>1, <2>2
<1>4. \A f \in Ends : f # e => upstream'[f] = upstream[f]
  BY <1>1, <1>2
<1>5. /\ upstream'[e].drained = upstream[e].drained
      /\ upstream'[e].written = upstream[e].written
      /\ upstream'[e].shutdown_notified = upstream[e].shutdown_notified
  BY <1>1, <1>2 DEF UpstreamState
<1>6. /\ upstream'[e].closed = TRUE /\ upstream'[e].waker = FALSE
      /\ upstream'[e].shutdown_waker = FALSE
  BY <1>1, <1>2 DEF UpstreamState
<1>7. \A f \in Ends : /\ upstream'[f].drained = upstream[f].drained
                      /\ upstream'[f].written = upstream[f].written
                      /\ upstream'[f].shutdown_notified = upstream[f].shutdown_notified
  BY <1>4, <1>5
<1> QED BY <1>3, <1>4, <1>6, <1>7

\* An end that does not move keeps its part of the invariant.
LEMMA AppFramed ==
    ASSUME Inv, NEW f \in Ends, app'[f] = app[f], handler'[f] = handler[f],
           upstream'[f] = upstream[f], downstream'[f] = downstream[f]
    PROVE  AppInv(f)'
  BY DEF Inv, AppInv, Buffered, Unread

\* A handler that starts to serve its session has sent and received nothing.
LEMMA AcceptStep ==
    ASSUME Inv, NEW e \in Ends, Accept(e)
    PROVE  Inv'
<1>1. handler' = [handler EXCEPT ![e].pc = "select"]
  BY DEF Accept
<1>2. TypeOK'
  BY <1>1, PcUpdate DEF Accept, Inv, TypeOK
<1>3. ControlOnly(e)
  BY <1>1, PcUpdate DEF Accept, Inv, ControlOnly
<1>4. ASSUME NEW f \in Ends
      PROVE  AppInv(f)'
  BY <1>1, PcUpdate DEF Accept, Inv, AppInv, Buffered, Unread
<1> QED BY <1>2, <1>3, <1>4, ControlData DEF Inv

\* A handler that leaves its loop moves no byte.
LEMMA ExitStep ==
    ASSUME Inv, NEW e \in Ends, Exit(e)
    PROVE  Inv'
<1>1. handler' = [handler EXCEPT ![e].pc = "done"]
  BY DEF Exit
<1>2. TypeOK'
  BY <1>1, PcUpdate DEF Exit, Inv, TypeOK
<1>3. ControlOnly(e)
  BY <1>1, PcUpdate DEF Exit, Inv, ControlOnly
<1>4. ASSUME NEW f \in Ends
      PROVE  AppInv(f)'
  BY <1>1, PcUpdate DEF Exit, Inv, AppInv, Buffered, Unread
<1> QED BY <1>2, <1>3, <1>4, ControlData DEF Inv

\* The wake of a write or a flush only sends the handler to its tail.
LEMMA NotifiedStep ==
    ASSUME Inv, NEW e \in Ends, UpstreamNotified(e)
    PROVE  Inv'
<1>1. handler' = [handler EXCEPT ![e].pc = "tail"]
  BY DEF UpstreamNotified, ToTail
<1>2. /\ upstream' \in [Ends -> UpstreamState]
      /\ \A f \in Ends : /\ upstream'[f].drained = upstream[f].drained
                         /\ upstream'[f].written = upstream[f].written
                         /\ upstream'[f].closed = upstream[f].closed
                         /\ upstream'[f].waker = upstream[f].waker
                         /\ upstream'[f].shutdown_waker = upstream[f].shutdown_waker
                         /\ upstream'[f].shutdown_notified = upstream[f].shutdown_notified
  BY DEF UpstreamNotified, Inv, TypeOK, UpstreamState
<1>3. TypeOK'
  BY <1>1, <1>2, PcUpdate DEF UpstreamNotified, Inv, TypeOK
<1>4. ControlOnly(e)
  BY <1>1, <1>2, PcUpdate DEF UpstreamNotified, Inv, ControlOnly
<1>5. ASSUME NEW f \in Ends
      PROVE  AppInv(f)'
  BY <1>1, <1>2, PcUpdate DEF UpstreamNotified, Inv, AppInv, Buffered, Unread
<1> QED BY <1>3, <1>4, <1>5, ControlData DEF Inv

\* The wake of a shutdown sets closing.
LEMMA ShutdownNotifiedStep ==
    ASSUME Inv, NEW e \in Ends, ShutdownNotified(e)
    PROVE  Inv'
<1>1. handler' = [handler EXCEPT ![e].pc = "tail", ![e].closing = TRUE]
  BY DEF ShutdownNotified
<1>2. /\ upstream' \in [Ends -> UpstreamState]
      /\ \A f \in Ends : /\ upstream'[f].drained = upstream[f].drained
                         /\ upstream'[f].written = upstream[f].written
                         /\ upstream'[f].closed = upstream[f].closed
                         /\ upstream'[f].waker = upstream[f].waker
                         /\ upstream'[f].shutdown_waker = upstream[f].shutdown_waker
                         /\ f # e => upstream'[f] = upstream[f]
  BY ZenonT(60) DEF ShutdownNotified, Inv, TypeOK, UpstreamState
<1>3. TypeOK'
  BY <1>1, <1>2, ClosingUpdate DEF ShutdownNotified, Inv, TypeOK
<1>4. ControlOnly(e)
  BY <1>1, <1>2, ClosingUpdate DEF ShutdownNotified, Inv, ControlOnly
<1>5. ASSUME NEW f \in Ends, f # e
      PROVE  AppInv(f)'
  <2>1. handler'[f] = handler[f] /\ upstream'[f] = upstream[f]
    BY <1>1, <1>2, <1>5, ClosingUpdate DEF Inv
  <2> QED BY <2>1, AppFramed DEF ShutdownNotified
<1>6. AppInv(e)'
  <2>1. AppInv(e)
    BY DEF Inv
  <2>2. app[e] \in {"shutting", "shut", "dropped"}
    BY <2>1 DEF AppInv, ShutdownNotified
  <2>3. /\ handler'[e].closing = TRUE /\ handler'[e].closed = handler[e].closed
        /\ handler'[e].pc = "tail"
    BY <1>1, ClosingUpdate DEF Inv
  <2> QED BY <1>2, <2>1, <2>2, <2>3 DEF ShutdownNotified, AppInv, Buffered, Unread
<1> QED BY <1>3, <1>4, <1>5, <1>6, ControlData DEF Inv

\* A handler that replaces its locals.
LEMMA HandlerUpdate ==
    ASSUME TypeOK, NEW e \in Ends, NEW h \in HandlerState,
           handler' = [handler EXCEPT ![e] = h]
    PROVE  /\ handler' \in [Ends -> HandlerState]
           /\ \A f \in Ends : f # e => handler'[f] = handler[f]
           /\ handler'[e] = h
  BY DEF TypeOK

\* The packets left once one is received.
LEMMA RestTypes ==
    ASSUME TypeOK, NEW p \in net
    PROVE  /\ Rest(p) \subseteq net
           /\ \A q \in Packet : Rest(p) \cup {q} \subseteq Packet
           /\ Rest(p) \subseteq Packet
  BY DEF Rest, TypeOK

\* The session timeout closes the stream and sends one close.
LEMMA ExpireStep ==
    ASSUME Inv, NEW e \in Ends, Expire(e)
    PROVE  Inv'
<1>1. handler' = [handler EXCEPT ![e].pc = "done"] /\ upstream' = ClosedUpstream(e)
  BY DEF Expire
<1>2. net' = net \cup {Close(e)} /\ Close(e) \in Packet
  BY PacketTypes DEF Expire, Send
<1>3. TypeOK'
  BY <1>1, <1>2, PcUpdate, UpstreamClosed DEF Expire, Inv, TypeOK
<1>4. ControlOnly(e)
  BY <1>1, <1>2, PcUpdate, UpstreamClosed DEF Expire, Inv, ControlOnly
<1>5. ASSUME NEW f \in Ends, f # e
      PROVE  AppInv(f)'
  <2>1. handler'[f] = handler[f]
    BY <1>1, <1>5, PcUpdate DEF Inv
  <2>2. upstream'[f] = upstream[f]
    BY <1>1, <1>5, UpstreamClosed DEF Inv
  <2> QED BY <2>1, <2>2, AppFramed DEF Expire
<1>6. AppInv(e)'
  BY <1>1, PcUpdate, UpstreamClosed DEF Expire, Inv, AppInv, Buffered, Unread
<1> QED BY <1>3, <1>4, <1>5, <1>6, ControlData DEF Inv

\* The packet held goes out, and becomes the last one sent.
LEMMA SendStep ==
    ASSUME Inv, NEW e \in Ends, SendPacket(e)
    PROVE  Inv'
<1> DEFINE p == handler[e].send_packet
           h == [handler[e] EXCEPT !.pc = "tail", !.last_packet_sent = p,
                                   !.send_packet = NoPacket,
                                   !.closed = handler[e].closing]
<1>1. p # NoPacket /\ p \in Packet
  BY FieldTypes DEF SendPacket, Sending, Inv
<1>2. HeldInv(e, p) /\ p.from = e /\ PacketInv(e, p)
  BY <1>1 DEF Inv, DataInv, HeldInv
<1>3. handler[e] \in HandlerState
  BY DEF Inv, TypeOK
<1>4. h \in HandlerState
  BY <1>1, <1>3 DEF HandlerState
<1>5. handler' = [handler EXCEPT ![e] = h]
  BY DEF SendPacket, Inv, TypeOK
<1>6. /\ h.sender_offset = handler[e].sender_offset
      /\ h.sender_length = handler[e].sender_length
      /\ h.need_ack = handler[e].need_ack
      /\ h.receiver_position = handler[e].receiver_position
      /\ h.closing = handler[e].closing /\ h.closed = handler[e].closing
      /\ h.pc = "tail" /\ h.send_packet = NoPacket /\ h.last_packet_sent = p
  BY <1>3 DEF HandlerState
<1>7. net' = net \cup {p}
  BY DEF SendPacket, Send
<1> HIDE DEF p, h
<1>8. /\ handler' \in [Ends -> HandlerState] /\ handler'[e] = h
      /\ \A f \in Ends : f # e => handler'[f] = handler[f]
  BY <1>4, <1>5, HandlerUpdate DEF Inv
<1>9. TypeOK'
  BY <1>1, <1>7, <1>8 DEF SendPacket, Inv, TypeOK
<1>10. DataFrame
  <2>1. ASSUME NEW f \in Ends
        PROVE  /\ handler'[f].sender_offset = handler[f].sender_offset
               /\ handler'[f].sender_length = handler[f].sender_length
               /\ handler'[f].need_ack = handler[f].need_ack
               /\ handler'[f].receiver_position = handler[f].receiver_position
    BY <1>6, <1>8
  <2>2. ASSUME NEW f \in Ends
        PROVE  HeldInv(f, handler'[f].send_packet) /\ HeldInv(f, handler'[f].last_packet_sent)
    <3>1. CASE f = e
      BY <3>1, <1>2, <1>6, <1>8 DEF HeldInv
    <3>2. CASE f # e
      BY <3>2, <1>8 DEF Inv, DataInv
    <3> QED BY <3>1, <3>2
  <2>3. \A q \in net' : PacketInv(q.from, q)
    BY <1>2, <1>7 DEF Inv, DataInv
  <2>4. \A f \in Ends : upstream[f].written \in Nat
    BY FieldTypes DEF Inv
  <2>5. UNCHANGED <<upstream, downstream>>
    BY DEF SendPacket
  <2> QED BY <2>1, <2>2, <2>3, <2>4, <2>5 DEF DataFrame
<1>11. ASSUME NEW f \in Ends, f # e
       PROVE  AppInv(f)'
  BY <1>8, <1>11, AppFramed DEF SendPacket
<1>12. AppInv(e)'
  BY <1>6, <1>8 DEF SendPacket, Inv, AppInv, Buffered, Unread
<1> QED BY <1>9, <1>10, <1>11, <1>12, DataFramed DEF Inv

\* The retransmission timer puts the last packet sent back to be sent.
LEMMA RetransmitStep ==
    ASSUME Inv, NEW e \in Ends, Retransmit(e)
    PROVE  Inv'
<1> DEFINE p == IF handler[e].last_packet_sent = NoPacket
                  THEN handler[e].send_packet ELSE handler[e].last_packet_sent
           h == [handler[e] EXCEPT !.pc = "tail", !.send_packet = p,
                                   !.last_packet_sent = NoPacket]
<1>1. p \in Packet \cup {NoPacket} /\ HeldInv(e, p)
  BY FieldTypes DEF Inv, DataInv
<1>2. handler[e] \in HandlerState
  BY DEF Inv, TypeOK
<1>3. h \in HandlerState
  BY <1>1, <1>2 DEF HandlerState
<1>4. handler' = [handler EXCEPT ![e] = h]
  BY DEF Retransmit, Inv, TypeOK
<1>5. /\ h.sender_offset = handler[e].sender_offset
      /\ h.sender_length = handler[e].sender_length
      /\ h.need_ack = handler[e].need_ack
      /\ h.receiver_position = handler[e].receiver_position
      /\ h.closing = handler[e].closing /\ h.closed = handler[e].closed
      /\ h.pc = "tail" /\ h.send_packet = p /\ h.last_packet_sent = NoPacket
  BY <1>2 DEF HandlerState
<1> HIDE DEF p, h
<1>6. /\ handler' \in [Ends -> HandlerState] /\ handler'[e] = h
      /\ \A f \in Ends : f # e => handler'[f] = handler[f]
  BY <1>3, <1>4, HandlerUpdate DEF Inv
<1>7. TypeOK'
  BY <1>6 DEF Retransmit, Inv, TypeOK
<1>8. DataFrame
  <2>1. ASSUME NEW f \in Ends
        PROVE  /\ handler'[f].sender_offset = handler[f].sender_offset
               /\ handler'[f].sender_length = handler[f].sender_length
               /\ handler'[f].need_ack = handler[f].need_ack
               /\ handler'[f].receiver_position = handler[f].receiver_position
    BY <1>5, <1>6
  <2>2. ASSUME NEW f \in Ends
        PROVE  HeldInv(f, handler'[f].send_packet) /\ HeldInv(f, handler'[f].last_packet_sent)
    <3>1. CASE f = e
      BY <3>1, <1>1, <1>5, <1>6 DEF HeldInv
    <3>2. CASE f # e
      BY <3>2, <1>6 DEF Inv, DataInv
    <3> QED BY <3>1, <3>2
  <2>3. \A q \in net' : PacketInv(q.from, q)
    BY DEF Inv, DataInv, Retransmit
  <2>4. \A f \in Ends : upstream[f].written \in Nat
    BY FieldTypes DEF Inv
  <2>5. UNCHANGED <<upstream, downstream>>
    BY DEF Retransmit
  <2> QED BY <2>1, <2>2, <2>3, <2>4, <2>5 DEF DataFrame
<1>9. ASSUME NEW f \in Ends, f # e
      PROVE  AppInv(f)'
  BY <1>6, <1>9, AppFramed DEF Retransmit
<1>10. AppInv(e)'
  BY <1>5, <1>6 DEF Retransmit, Inv, AppInv, Buffered, Unread
<1> QED BY <1>7, <1>8, <1>9, <1>10, DataFramed DEF Inv

\* A connect is answered by Ack 0 or by nothing.
LEMMA ConnectStep ==
    ASSUME Inv, NEW e \in Ends, NEW p \in net, ReceiveConnect(e, p)
    PROVE  Inv'
<1>1. handler' = [handler EXCEPT ![e].pc = "tail"]
  BY DEF ReceiveConnect, ToTail
<1>2. net' = Rest(p) \/ net' = Rest(p) \cup {Ack(e, 0)}
  BY DEF ReceiveConnect, Reply, NoReply
<1>3. net' \subseteq Packet /\ \A q \in net' : q \in net \/ q = Ack(e, 0)
  BY <1>2, RestTypes, PacketTypes DEF Inv
<1>4. TypeOK'
  BY <1>1, <1>3, PcUpdate DEF ReceiveConnect, Inv, TypeOK
<1>5. ControlOnly(e)
  BY <1>1, <1>3, PcUpdate DEF ReceiveConnect, Inv, ControlOnly
<1>6. ASSUME NEW f \in Ends
      PROVE  AppInv(f)'
  BY <1>1, PcUpdate DEF ReceiveConnect, Inv, AppInv, Buffered, Unread
<1> QED BY <1>4, <1>5, <1>6, ControlData DEF Inv

\* A packet that is refused, or too old to matter.
LEMMA IgnoredStep ==
    ASSUME Inv, NEW e \in Ends, NEW p \in net, handler[e].pc = "select",
           ToTail(e), Reply(p, Close(e)) \/ NoReply(p),
           UNCHANGED <<upstream, downstream, app>>
    PROVE  Inv'
<1>1. handler' = [handler EXCEPT ![e].pc = "tail"]
  BY DEF ToTail
<1>2. net' \subseteq Packet /\ \A q \in net' : q \in net \/ q = Close(e)
  BY RestTypes, PacketTypes DEF Inv, Reply, NoReply
<1>3. TypeOK'
  BY <1>1, <1>2, PcUpdate DEF Inv, TypeOK
<1>4. ControlOnly(e)
  BY <1>1, <1>2, PcUpdate DEF Inv, ControlOnly
<1>5. ASSUME NEW f \in Ends
      PROVE  AppInv(f)'
  BY <1>1, PcUpdate DEF Inv, AppInv, Buffered, Unread
<1> QED BY <1>3, <1>4, <1>5, ControlData DEF Inv

\* A close from the peer closes the stream, and moves no byte.
LEMMA CloseStep ==
    ASSUME Inv, NEW e \in Ends, NEW p \in net, ReceiveClose(e, p)
    PROVE  Inv'
<1>1. CASE handler[e].closing /\ handler[e].closed
  BY <1>1, IgnoredStep DEF ReceiveClose
<1>2. CASE handler[e].closing /\ ~handler[e].closed
  <2>1. handler' = [handler EXCEPT ![e].pc = "tail", ![e].closed = TRUE]
    BY <1>2 DEF ReceiveClose
  <2>2. net' \subseteq Packet /\ \A q \in net' : q \in net \/ q = Close(e)
    BY <1>2, RestTypes, PacketTypes DEF Inv, Reply, ReceiveClose
  <2>3. UNCHANGED <<upstream, downstream, app>>
    BY <1>2 DEF ReceiveClose
  <2>4. TypeOK'
    BY <2>1, <2>2, <2>3, ClosedUpdate DEF Inv, TypeOK
  <2>5. ControlOnly(e)
    BY <2>1, <2>2, <2>3, ClosedUpdate DEF Inv, ControlOnly
  <2>6. ASSUME NEW f \in Ends, f # e
        PROVE  AppInv(f)'
    BY <2>1, <2>3, <2>6, ClosedUpdate, AppFramed DEF Inv
  <2>7. AppInv(e)'
    <3>1. AppInv(e) /\ handler[e].closing
      BY <1>2 DEF Inv
    <3>2. /\ handler'[e].closed = TRUE /\ handler'[e].closing = handler[e].closing
          /\ handler'[e].pc = "tail"
      BY <2>1, ClosedUpdate DEF Inv
    <3> QED BY <2>3, <3>1, <3>2 DEF AppInv, Buffered, Unread
  <2> QED BY <2>4, <2>5, <2>6, <2>7, ControlData DEF Inv
<1>3. CASE ~handler[e].closing
  <2>1. handler' = [handler EXCEPT ![e].pc = "done"] /\ upstream' = ClosedUpstream(e)
    BY <1>3 DEF ReceiveClose
  <2>2. net' \subseteq Packet /\ \A q \in net' : q \in net \/ q = Close(e)
    BY <1>3, RestTypes, PacketTypes DEF Inv, Reply, ReceiveClose
  <2>3. UNCHANGED <<downstream, app>>
    BY DEF ReceiveClose
  <2>4. TypeOK'
    BY <2>1, <2>2, <2>3, PcUpdate, UpstreamClosed DEF Inv, TypeOK
  <2>5. ControlOnly(e)
    <3>1. TypeOK
      BY DEF Inv
    <3>2. /\ \A f \in Ends : f # e => handler'[f] = handler[f]
          /\ handler'[e].sender_offset = handler[e].sender_offset
          /\ handler'[e].sender_length = handler[e].sender_length
          /\ handler'[e].need_ack = handler[e].need_ack
          /\ handler'[e].receiver_position = handler[e].receiver_position
          /\ handler'[e].send_packet = handler[e].send_packet
          /\ handler'[e].last_packet_sent = handler[e].last_packet_sent
      BY <2>1, <3>1, PcUpdate
    <3>3. \A f \in Ends : /\ upstream'[f].drained = upstream[f].drained
                          /\ upstream'[f].written = upstream[f].written
      BY <2>1, <3>1, UpstreamClosed
    <3> QED BY <2>2, <2>3, <3>2, <3>3 DEF ControlOnly
  <2>6. ASSUME NEW f \in Ends, f # e
        PROVE  AppInv(f)'
    <3>1. handler'[f] = handler[f]
      BY <2>1, <2>6, PcUpdate DEF Inv
    <3>2. upstream'[f] = upstream[f]
      BY <2>1, <2>6, UpstreamClosed DEF Inv
    <3> QED BY <2>3, <3>1, <3>2, AppFramed
  <2>7. AppInv(e)'
    <3>1. /\ handler'[e].closed = handler[e].closed
          /\ handler'[e].closing = handler[e].closing
      BY <2>1, PcUpdate DEF Inv
    <3>2. /\ upstream'[e].closed = TRUE /\ upstream'[e].waker = FALSE
          /\ upstream'[e].shutdown_waker = FALSE
          /\ upstream'[e].shutdown_notified = upstream[e].shutdown_notified
      BY <2>1, UpstreamClosed DEF Inv
    <3> QED BY <2>3, <3>1, <3>2 DEF Inv, AppInv, Buffered, Unread
  <2> QED BY <2>4, <2>5, <2>6, <2>7, ControlData DEF Inv
<1> QED BY <1>1, <1>2, <1>3 DEF ReceiveClose

-----------------------------------------------------------------------------
(* The handler's steps that move data *)

\* A packet that was acknowledged stays so, and so does the payload under
\* way unless the step acknowledges it.
PacketsKept ==
    \A f \in Ends : \A p \in Packet : PacketInv(f, p) => PacketInv(f, p)'

\* A packet held stays good while the positions it was built from stand.
LEMMA HeldKept ==
    ASSUME TypeOK, PacketsKept, NEW f \in Ends, NEW p \in Packet \cup {NoPacket},
           HeldInv(f, p)
    PROVE  HeldInv(f, p)'
  BY DEF PacketsKept, HeldInv

\* What the payload under way can be, when it arrives.
LEMMA ArrivingData ==
    ASSUME Inv, NEW e \in Ends, NEW p \in Incoming(e), p.type = "data",
           p.pos <= handler[e].receiver_position
    PROVE  /\ NewBytes(e, p) \in Nat
           /\ p.first = p.pos /\ p.pos \in Nat
           /\ handler[e].receiver_position + NewBytes(e, p)
                \in {handler[Peer(e)].sender_offset, handler[Peer(e)].sender_length}
<1>1. p \in Packet /\ p.from = Peer(e) /\ Peer(e) \in Ends /\ PacketInv(Peer(e), p)
  BY FieldTypes DEF Incoming, Inv, TypeOK, DataInv
<1>2. p.pos \in Nat /\ p.len \in Nat /\ p.first = p.pos
  BY <1>1, DataPacketType DEF PacketInv
<1>3. /\ handler[e].receiver_position \in Nat
      /\ handler[Peer(e)].sender_offset \in Nat
      /\ handler[Peer(e)].sender_length \in Nat
  BY <1>1, FieldTypes DEF Inv
<1>4. /\ handler[e].receiver_position
           \in {handler[Peer(e)].sender_offset, handler[Peer(e)].sender_length}
      /\ handler[Peer(e)].sender_offset <= handler[Peer(e)].sender_length
  BY <1>1 DEF Inv, DataInv, ReceiverInv, SenderInv
<1>5. \/ p.pos + p.len <= handler[Peer(e)].sender_offset
      \/ p.pos + p.len = handler[Peer(e)].sender_length
  BY <1>1 DEF PacketInv
<1> QED BY <1>2, <1>3, <1>4, <1>5 DEF NewBytes

\* The bytes of a payload that are new are the next ones of the peer's stream.
LEMMA AppendStep ==
    ASSUME Inv, NEW e \in Ends, NEW p \in Incoming(e), p.type = "data",
           p.pos <= handler[e].receiver_position, handler[e].pc = "select",
           AppendData(e, p), UNCHANGED <<upstream, app>>
    PROVE  Inv'
<1> DEFINE new == NewBytes(e, p)
           rp == handler[e].receiver_position
           h == [handler[e] EXCEPT !.pc = "tail", !.receiver_position = rp + new]
           d == [downstream[e] EXCEPT !.data = Bytes(0, rp + new),
                                      !.waker = downstream[e].waker /\ new = 0]
<1>1. /\ p \in net /\ rp \in Nat /\ new \in Nat /\ p.first = p.pos /\ p.pos \in Nat
      /\ rp + new \in {handler[Peer(e)].sender_offset, handler[Peer(e)].sender_length}
  BY ArrivingData, FieldTypes DEF Incoming, Inv
<1>2. handler[e] \in HandlerState /\ downstream[e] \in DownstreamState
  BY DEF Inv, TypeOK
<1>3. downstream[e].data = Bytes(0, rp)
  BY DEF Inv, DataInv, ReceiverInv
<1>4. downstream[e].data \o Bytes(p.first + (rp - p.pos), new) = Bytes(0, rp + new)
  <2>1. p.first + (rp - p.pos) = rp
    BY <1>1
  <2> QED BY <1>1, <1>3, <2>1, BytesAppend
<1>5. /\ handler' = [handler EXCEPT ![e] = h]
      /\ downstream' = [downstream EXCEPT ![e] = d]
      /\ net' = Rest(p) \cup {Ack(e, rp + new)}
  BY <1>4 DEF AppendData, Reply, Inv, TypeOK
<1> HIDE DEF new
<1>6. rp + new \in Nat
  BY <1>1
<1>7. h \in HandlerState
  BY <1>2, <1>6 DEF HandlerState
<1>8. d \in DownstreamState
  <2>1. Bytes(0, rp + new) \in Seq(Nat)
    BY <1>6, BytesAppend
  <2>2. (downstream[e].waker /\ new = 0) \in BOOLEAN
    OBVIOUS
  <2> QED BY <1>2, <2>1, <2>2 DEF DownstreamState
<1>9. /\ h.sender_offset = handler[e].sender_offset
      /\ h.sender_length = handler[e].sender_length
      /\ h.need_ack = handler[e].need_ack
      /\ h.receiver_position = rp + new
      /\ h.closing = handler[e].closing /\ h.closed = handler[e].closed
      /\ h.pc = "tail" /\ h.send_packet = handler[e].send_packet
      /\ h.last_packet_sent = handler[e].last_packet_sent
  BY <1>2 DEF HandlerState
<1>10. /\ d.data = Bytes(0, rp + new) /\ d.read = downstream[e].read
       /\ d.waker <=> downstream[e].waker /\ new = 0
  BY <1>2 DEF DownstreamState
<1> HIDE DEF h, d
<1>11. /\ handler' \in [Ends -> HandlerState] /\ handler'[e] = h
       /\ \A f \in Ends : f # e => handler'[f] = handler[f]
  BY <1>5, <1>7, HandlerUpdate DEF Inv
<1>12. /\ downstream' \in [Ends -> DownstreamState] /\ downstream'[e] = d
       /\ \A f \in Ends : f # e => downstream'[f] = downstream[f]
  BY <1>5, <1>8 DEF Inv, TypeOK
<1>13. TypeOK'
  <2>1. net' \subseteq Packet
    BY <1>1, <1>5, <1>6, RestTypes, PacketTypes DEF Inv
  <2> QED BY <1>11, <1>12, <2>1 DEF Inv, TypeOK
<1>14. ASSUME NEW f \in Ends
       PROVE  /\ handler'[f].sender_offset = handler[f].sender_offset
              /\ handler'[f].sender_length = handler[f].sender_length
              /\ handler'[f].need_ack = handler[f].need_ack
              /\ handler'[f].send_packet = handler[f].send_packet
              /\ handler'[f].last_packet_sent = handler[f].last_packet_sent
              /\ handler[f].receiver_position <= handler'[f].receiver_position
              /\ handler[f].receiver_position \in Nat
              /\ handler'[f].receiver_position \in Nat
              /\ Peer(f) \in Ends
  <2>1. Peer(f) \in Ends /\ handler[f].receiver_position \in Nat
    BY FieldTypes DEF Inv
  <2>2. CASE f = e
    BY <2>1, <2>2, <1>1, <1>6, <1>9, <1>11
  <2>3. CASE f # e
    BY <2>1, <2>3, <1>11
  <2> QED BY <2>2, <2>3
<1>15. PacketsKept
  <2> SUFFICES ASSUME NEW f \in Ends, NEW q \in Packet, PacketInv(f, q)
               PROVE  PacketInv(f, q)'
    BY DEF PacketsKept
  <2>1. q.type = "ack" => q.length \in Nat
    BY AckPacketType
  <2> QED BY <1>14, <2>1 DEF PacketInv
<1>16. DataInv'
  <2>1. ASSUME NEW f \in Ends
        PROVE  SenderInv(f)'
    BY <1>14 DEF Inv, DataInv, SenderInv
  <2>2. ASSUME NEW f \in Ends
        PROVE  ReceiverInv(f)'
    <3>1. CASE f = e
      BY <3>1, <1>1, <1>9, <1>10, <1>11, <1>12, <1>14 DEF ReceiverInv
    <3>2. CASE f # e
      BY <3>2, <1>11, <1>12, <1>14 DEF ReceiverInv, Inv, DataInv
    <3> QED BY <3>1, <3>2
  <2>3. ASSUME NEW f \in Ends
        PROVE  HeldInv(f, handler[f].send_packet)' /\ HeldInv(f, handler[f].last_packet_sent)'
    BY <1>14, <1>15, HeldKept, FieldTypes DEF Inv, DataInv
  <2>4. ASSUME NEW q, q = Ack(e, rp + new)
        PROVE  PacketInv(q.from, q)'
    <3>1. q.from = e /\ q.type = "ack" /\ q.length = rp + new
      BY <2>4 DEF Ack
    <3>2. /\ handler'[e].receiver_position = rp + new
          /\ rp + new \in {handler'[Peer(e)].sender_offset, handler'[Peer(e)].sender_length}
          /\ handler'[Peer(e)].sender_offset \in Nat
      BY <1>1, <1>9, <1>11, <1>14, FieldTypes DEF Inv
    <3> QED BY <3>1, <3>2, <1>6 DEF PacketInv
  <2>5. ASSUME NEW q \in net'
        PROVE  PacketInv(q.from, q)'
    <3>1. CASE q \in net
      <4>1. q \in Packet /\ q.from \in Ends /\ PacketInv(q.from, q)
        BY <3>1 DEF Inv, DataInv, TypeOK, Packet
      <4> QED BY <1>15, <4>1 DEF PacketsKept
    <3>2. CASE q = Ack(e, rp + new)
      BY <2>4, <3>2
    <3> QED BY <1>1, <1>5, <3>1, <3>2, RestTypes DEF Inv
  <2> QED BY <2>1, <2>2, <2>3, <2>5 DEF DataInv
<1>17. ASSUME NEW f \in Ends, f # e
       PROVE  AppInv(f)'
  BY <1>11, <1>12, <1>17, AppFramed
<1>18. AppInv(e)'
  <2>1. AppInv(e)
    BY DEF Inv
  <2>2. new = 0 => Len(Bytes(0, rp + new)) = Len(downstream[e].data)
    BY <1>1, <1>3, <1>6, BytesAppend
  <2> QED BY <1>9, <1>10, <1>11, <1>12, <2>1, <2>2 DEF AppInv, Buffered, Unread
<1> QED BY <1>13, <1>16, <1>17, <1>18 DEF Inv

\* Every outcome of a data packet: appended, refused with a close, or ignored.
LEMMA DataStep ==
    ASSUME Inv, NEW e \in Ends, NEW p \in Incoming(e), ReceiveData(e, p)
    PROVE  Inv'
<1>1. p \in net
  BY DEF Incoming
<1>2. CASE ~Refusing(e) /\ p.pos <= handler[e].receiver_position /\ AppendData(e, p)
  BY <1>2, AppendStep DEF ReceiveData
<1>3. CASE ToTail(e) /\ UNCHANGED downstream /\ (Reply(p, Close(e)) \/ NoReply(p))
  BY <1>1, <1>3, IgnoredStep DEF ReceiveData
<1> QED BY <1>2, <1>3 DEF ReceiveData

\* The only acknowledgement that is not too old is that of the payload
\* under way, which the peer then has.
LEMMA ArrivingAck ==
    ASSUME Inv, NEW e \in Ends, NEW p \in Incoming(e), p.type = "ack"
    PROVE  \/ p.length = handler[e].sender_length
           \/ /\ p.length < handler[e].sender_length
              /\ p.length <= handler[e].sender_offset
<1>1. /\ p \in Packet /\ p.from = Peer(e) /\ Peer(e) \in Ends /\ Peer(Peer(e)) = e
      /\ PacketInv(Peer(e), p)
  BY FieldTypes DEF Incoming, Inv, TypeOK, DataInv
<1>2. /\ p.length \in Nat /\ handler[e].sender_offset \in Nat
      /\ handler[e].sender_length \in Nat
  BY <1>1, AckPacketType, FieldTypes DEF Inv
<1>3. handler[e].sender_offset <= handler[e].sender_length
  BY DEF Inv, DataInv, SenderInv
<1> QED BY <1>1, <1>2, <1>3 DEF PacketInv

\* An ack of all that was sent drains exactly those bytes.
LEMMA AcknowledgeStep ==
    ASSUME Inv, NEW e \in Ends, NEW p \in Incoming(e), p.type = "ack",
           handler[e].pc = "select", p.length = handler[e].sender_length,
           Acknowledge(e, p.length), NoReply(p), UNCHANGED <<downstream, app>>
    PROVE  Inv'
<1> DEFINE n == handler[e].sender_length
           h == [handler[e] EXCEPT !.pc = "tail", !.sender_offset = n,
                                   !.sender_length = n, !.need_ack = FALSE]
           u == [upstream[e] EXCEPT !.drained = n]
<1>1. /\ n \in Nat /\ handler[e].sender_offset \in Nat
      /\ upstream[e].written \in Nat /\ upstream[e].drained \in Nat
      /\ Peer(e) \in Ends /\ Peer(Peer(e)) = e /\ Peer(e) # e
  BY FieldTypes DEF Inv
<1>2. /\ handler[e].sender_offset = upstream[e].drained
      /\ handler[e].sender_offset <= n /\ n <= upstream[e].written
  BY DEF Inv, DataInv, SenderInv
<1>3. handler[e] \in HandlerState /\ upstream[e] \in UpstreamState
  BY DEF Inv, TypeOK
<1>4. handler' = [handler EXCEPT ![e] = h]
  BY DEF Acknowledge, Inv, TypeOK
<1>5. upstream' = [upstream EXCEPT ![e] = u]
  <2>1. ~(n - handler[e].sender_offset > Buffered(e))
    BY <1>1, <1>2 DEF Buffered
  <2>2. upstream[e].drained + (n - handler[e].sender_offset) = n
    BY <1>1, <1>2
  <2> QED BY <2>1, <2>2 DEF Acknowledge, Drained, Inv, TypeOK
<1>6. h \in HandlerState /\ u \in UpstreamState
  <2> HIDE DEF n
  <2> QED BY <1>1, <1>3 DEF HandlerState, UpstreamState
<1>7. /\ h.sender_offset = n /\ h.sender_length = n
      /\ h.need_ack = FALSE
      /\ h.receiver_position = handler[e].receiver_position
      /\ h.closing = handler[e].closing /\ h.closed = handler[e].closed
      /\ h.pc = "tail" /\ h.send_packet = handler[e].send_packet
      /\ h.last_packet_sent = handler[e].last_packet_sent
  BY <1>3 DEF HandlerState
<1>8. /\ u.drained = n /\ u.written = upstream[e].written
      /\ u.closed = upstream[e].closed /\ u.waker = upstream[e].waker
      /\ u.shutdown_waker = upstream[e].shutdown_waker
      /\ u.shutdown_notified = upstream[e].shutdown_notified
  BY <1>3 DEF UpstreamState
<1> HIDE DEF h, u
<1>9. /\ handler' \in [Ends -> HandlerState] /\ handler'[e] = h
      /\ \A f \in Ends : f # e => handler'[f] = handler[f]
  BY <1>4, <1>6, HandlerUpdate DEF Inv
<1>10. /\ upstream' \in [Ends -> UpstreamState] /\ upstream'[e] = u
       /\ \A f \in Ends : f # e => upstream'[f] = upstream[f]
  BY <1>5, <1>6 DEF Inv, TypeOK
<1>11. net' \subseteq net
  BY RestTypes DEF Incoming, NoReply, Inv
<1>12. TypeOK'
  BY <1>9, <1>10, <1>11 DEF Inv, TypeOK
<1>13. ASSUME NEW f \in Ends
       PROVE  /\ handler'[f].receiver_position = handler[f].receiver_position
              /\ handler'[f].send_packet = handler[f].send_packet
              /\ handler'[f].last_packet_sent = handler[f].last_packet_sent
              /\ Peer(f) \in Ends
  BY <1>7, <1>9, FieldTypes DEF Inv
<1>14. PacketsKept
  <2> SUFFICES ASSUME NEW f \in Ends, NEW q \in Packet, PacketInv(f, q)
               PROVE  PacketInv(f, q)'
    BY DEF PacketsKept
  <2>1. CASE q.type = "data"
    <3>1. q.pos \in Nat /\ q.len \in Nat
      BY <2>1, DataPacketType
    <3>2. CASE f = e
      BY <2>1, <3>1, <3>2, <1>1, <1>2, <1>7, <1>9 DEF PacketInv
    <3>3. CASE f # e
      BY <2>1, <3>3, <1>9 DEF PacketInv
    <3> QED BY <3>2, <3>3
  <2>2. CASE q.type = "ack"
    <3>1. q.length \in Nat
      BY <2>2, AckPacketType
    <3>2. CASE Peer(f) = e
      BY <2>2, <3>1, <3>2, <1>1, <1>2, <1>7, <1>9, <1>13 DEF PacketInv
    <3>3. CASE Peer(f) # e
      BY <2>2, <3>3, <1>9, <1>13 DEF PacketInv
    <3> QED BY <3>2, <3>3
  <2>3. CASE q.type # "data" /\ q.type # "ack"
    BY <2>3 DEF PacketInv
  <2> QED BY <2>1, <2>2, <2>3
<1>15. DataInv'
  <2>1. ASSUME NEW f \in Ends
        PROVE  SenderInv(f)'
    <3>1. CASE f = e
      BY <3>1, <1>1, <1>2, <1>7, <1>8, <1>9, <1>10 DEF SenderInv
    <3>2. CASE f # e
      BY <3>2, <1>9, <1>10 DEF SenderInv, Inv, DataInv
    <3> QED BY <3>1, <3>2
  <2>2. ASSUME NEW f \in Ends
        PROVE  ReceiverInv(f)'
    <3>1. ReceiverInv(f)
      BY DEF Inv, DataInv
    <3>2. CASE f = Peer(e)
      <4>1. p \in Packet /\ p.from = Peer(e) /\ PacketInv(Peer(e), p)
        BY DEF Incoming, Inv, DataInv, TypeOK
      <4>2. n <= handler[f].receiver_position
        BY <3>2, <4>1 DEF PacketInv
      <4>3. handler[f].receiver_position = n
        BY <1>1, <1>2, <3>1, <3>2, <4>2 DEF ReceiverInv
      <4> QED BY <1>1, <1>7, <1>9, <1>13, <3>1, <3>2, <4>3 DEF ReceiverInv
    <3>3. CASE f # Peer(e)
      <4>1. Peer(f) # e
        BY <3>3 DEF Peer
      <4> QED BY <1>9, <1>13, <3>1, <4>1 DEF ReceiverInv
    <3> QED BY <3>2, <3>3
  <2>3. ASSUME NEW f \in Ends
        PROVE  HeldInv(f, handler[f].send_packet)' /\ HeldInv(f, handler[f].last_packet_sent)'
    BY <1>13, <1>14, HeldKept, FieldTypes DEF Inv, DataInv
  <2>4. ASSUME NEW q \in net'
        PROVE  PacketInv(q.from, q)'
    <3>1. q \in Packet /\ q.from \in Ends /\ PacketInv(q.from, q)
      BY <1>11 DEF Inv, DataInv, TypeOK, Packet
    <3> QED BY <1>14, <3>1 DEF PacketsKept
  <2> QED BY <2>1, <2>2, <2>3, <2>4 DEF DataInv
<1>16. ASSUME NEW f \in Ends, f # e
       PROVE  AppInv(f)'
  BY <1>9, <1>10, <1>16, AppFramed
<1>17. AppInv(e)'
  <2>1. AppInv(e)
    BY DEF Inv
  <2>2. Buffered(e) = 0 => n = upstream[e].written
    BY <1>1, <1>2 DEF Buffered
  <2> QED BY <1>1, <1>7, <1>8, <1>9, <1>10, <2>1, <2>2 DEF AppInv, Buffered, Unread
<1> QED BY <1>12, <1>15, <1>16, <1>17 DEF Inv

\* Every outcome of an ack: progress, a duplicate, or an illegal length.
LEMMA AckStep ==
    ASSUME Inv, NEW e \in Ends, NEW p \in Incoming(e), ReceiveAck(e, p)
    PROVE  Inv'
<1>1. /\ p \in net /\ p.type = "ack" /\ handler[e].pc = "select"
      /\ UNCHANGED <<downstream, app>>
  BY DEF Incoming, ReceiveAck
<1>2. /\ p.length \in Nat /\ handler[e].sender_offset \in Nat
      /\ handler[e].sender_length \in Nat
  BY <1>1, AckPacketType, FieldTypes DEF Inv, TypeOK
<1>3. CASE ToTail(e) /\ UNCHANGED upstream /\ (Reply(p, Close(e)) \/ NoReply(p))
  BY <1>1, <1>3, IgnoredStep
<1>4. CASE p.length = handler[e].sender_length /\ Acknowledge(e, p.length) /\ NoReply(p)
  BY <1>1, <1>4, AcknowledgeStep
<1> QED BY <1>1, <1>2, <1>3, <1>4, ArrivingAck DEF ReceiveAck

\* Taking the next payload off the buffer: nothing else is under way.
LEMMA PayloadStep ==
    ASSUME Inv, NEW e \in Ends, handler[e].pc = "tail", ~handler[e].need_ack,
           ~handler[e].closing, NextPayload(e), UNCHANGED <<upstream, downstream, app, net>>
    PROVE  Inv'
<1> PICK n \in PayloadSizes(e) :
         handler' = [handler EXCEPT
                       ![e].pc = "select",
                       ![e].send_packet = Data(e, handler[e].sender_offset,
                                               upstream[e].drained, n),
                       ![e].sender_length = @ + n,
                       ![e].need_ack = TRUE]
  BY DEF NextPayload
<1> DEFINE s == handler[e].sender_offset
           len == handler[e].sender_length + n
           p == Data(e, s, upstream[e].drained, n)
           h == [handler[e] EXCEPT !.pc = "select", !.send_packet = p,
                                   !.sender_length = len, !.need_ack = TRUE]
<1>1. /\ s \in Nat /\ handler[e].sender_length \in Nat
      /\ upstream[e].written \in Nat /\ upstream[e].drained \in Nat
      /\ Peer(e) \in Ends /\ Peer(Peer(e)) = e /\ Peer(e) # e
  BY FieldTypes DEF Inv
<1>2. s = upstream[e].drained /\ s = handler[e].sender_length
  BY DEF Inv, DataInv, SenderInv
<1>3. n \in Nat /\ n > 0 /\ len = s + n /\ len <= upstream[e].written /\ len \in Nat
  BY <1>1, <1>2 DEF PayloadSizes, Buffered
<1>4. p \in Packet /\ p # NoPacket
  BY <1>1, <1>3, PacketTypes
<1>5. handler[e] \in HandlerState
  BY DEF Inv, TypeOK
<1>6. handler' = [handler EXCEPT ![e] = h]
  BY DEF Inv, TypeOK
<1>7. /\ p.from = e /\ p.type = "data" /\ p.pos = s /\ p.first = s /\ p.len = n
  BY <1>2 DEF Data
<1> HIDE DEF len, p
<1>8. h \in HandlerState
  BY <1>3, <1>4, <1>5 DEF HandlerState
<1>9. /\ h.sender_offset = s /\ h.sender_length = len
      /\ h.need_ack = TRUE
      /\ h.receiver_position = handler[e].receiver_position
      /\ h.closing = handler[e].closing /\ h.closed = handler[e].closed
      /\ h.pc = "select" /\ h.send_packet = p
      /\ h.last_packet_sent = handler[e].last_packet_sent
  BY <1>5 DEF HandlerState
<1> HIDE DEF h
<1>10. /\ handler' \in [Ends -> HandlerState] /\ handler'[e] = h
       /\ \A f \in Ends : f # e => handler'[f] = handler[f]
  BY <1>6, <1>8, HandlerUpdate DEF Inv
<1>11. TypeOK'
  BY <1>10 DEF Inv, TypeOK
<1>12. ASSUME NEW f \in Ends
       PROVE  /\ handler'[f].receiver_position = handler[f].receiver_position
              /\ handler'[f].last_packet_sent = handler[f].last_packet_sent
              /\ handler'[f].sender_offset = handler[f].sender_offset
              /\ Peer(f) \in Ends
  BY <1>9, <1>10, FieldTypes DEF Inv
<1>13. PacketsKept
  <2> SUFFICES ASSUME NEW f \in Ends, NEW q \in Packet, PacketInv(f, q)
               PROVE  PacketInv(f, q)'
    BY DEF PacketsKept
  <2>1. CASE q.type = "data"
    <3>1. q.pos \in Nat /\ q.len \in Nat
      BY <2>1, DataPacketType
    <3>2. CASE f = e
      BY <2>1, <3>1, <3>2, <1>1, <1>2, <1>9, <1>10 DEF PacketInv
    <3>3. CASE f # e
      BY <2>1, <3>3, <1>10 DEF PacketInv
    <3> QED BY <3>2, <3>3
  <2>2. CASE q.type = "ack"
    <3>1. q.length \in Nat
      BY <2>2, AckPacketType
    <3>2. CASE Peer(f) = e
      BY <2>2, <3>1, <3>2, <1>1, <1>2, <1>9, <1>10, <1>12 DEF PacketInv
    <3>3. CASE Peer(f) # e
      BY <2>2, <3>3, <1>10, <1>12 DEF PacketInv
    <3> QED BY <3>2, <3>3
  <2>3. CASE q.type # "data" /\ q.type # "ack"
    BY <2>3 DEF PacketInv
  <2> QED BY <2>1, <2>2, <2>3
<1>14. DataInv'
  <2>1. ASSUME NEW f \in Ends
        PROVE  SenderInv(f)'
    <3>1. CASE f = e
      BY <3>1, <1>1, <1>2, <1>3, <1>9, <1>10 DEF SenderInv
    <3>2. CASE f # e
      BY <3>2, <1>10 DEF SenderInv, Inv, DataInv
    <3> QED BY <3>1, <3>2
  <2>2. ASSUME NEW f \in Ends
        PROVE  ReceiverInv(f)'
    <3>1. ReceiverInv(f)
      BY DEF Inv, DataInv
    <3>2. CASE Peer(f) = e
      BY <1>2, <1>9, <1>10, <1>12, <3>1, <3>2, SMTT(30) DEF ReceiverInv
    <3>3. CASE Peer(f) # e
      BY <1>10, <1>12, <3>1, <3>3 DEF ReceiverInv
    <3> QED BY <3>2, <3>3
  <2>3. ASSUME NEW f \in Ends
        PROVE  HeldInv(f, handler[f].last_packet_sent)'
    BY <1>12, <1>13, HeldKept, FieldTypes DEF Inv, DataInv
  <2>4. ASSUME NEW f \in Ends
        PROVE  HeldInv(f, handler[f].send_packet)'
    <3>1. CASE f = e
      <4>1. handler'[e].sender_offset = s /\ handler'[e].sender_length = len
        BY <1>9, <1>10
      <4>2. PacketInv(e, p)'
        BY <4>1, <1>3, <1>7 DEF PacketInv, p
      <4> QED BY <3>1, <4>2, <1>7, <1>9, <1>10 DEF HeldInv, p
    <3>2. CASE f # e
      BY <3>2, <1>10, <1>13, HeldKept, FieldTypes DEF Inv, DataInv
    <3> QED BY <3>1, <3>2
  <2>5. ASSUME NEW q \in net'
        PROVE  PacketInv(q.from, q)'
    <3>1. q \in Packet /\ q.from \in Ends /\ PacketInv(q.from, q)
      BY DEF Inv, DataInv, TypeOK, Packet
    <3> QED BY <1>13, <3>1 DEF PacketsKept
  <2> QED BY <2>1, <2>2, <2>3, <2>4, <2>5 DEF DataInv
<1>15. ASSUME NEW f \in Ends, f # e
       PROVE  AppInv(f)'
  BY <1>10, <1>15, AppFramed
<1>16. AppInv(e)'
  BY <1>9, <1>10 DEF Inv, AppInv, Buffered, Unread
<1> QED BY <1>11, <1>14, <1>15, <1>16 DEF Inv

\* The close of a handler that has nothing left to send.
LEMMA SendCloseStep ==
    ASSUME Inv, NEW e \in Ends,
           handler' = [handler EXCEPT ![e].pc = "select", ![e].send_packet = Close(e)],
           UNCHANGED <<upstream, downstream, app, net>>
    PROVE  Inv'
<1> DEFINE h == [handler[e] EXCEPT !.pc = "select", !.send_packet = Close(e)]
<1>1. Close(e) \in Packet /\ HeldInv(e, Close(e))
  BY PacketTypes DEF HeldInv, PacketInv, Close
<1>2. handler[e] \in HandlerState
  BY DEF Inv, TypeOK
<1>3. h \in HandlerState
  BY <1>1, <1>2 DEF HandlerState
<1>4. handler' = [handler EXCEPT ![e] = h]
  BY DEF Inv, TypeOK
<1>5. /\ h.sender_offset = handler[e].sender_offset
      /\ h.sender_length = handler[e].sender_length
      /\ h.need_ack = handler[e].need_ack
      /\ h.receiver_position = handler[e].receiver_position
      /\ h.closing = handler[e].closing /\ h.closed = handler[e].closed
      /\ h.pc = "select" /\ h.send_packet = Close(e)
      /\ h.last_packet_sent = handler[e].last_packet_sent
  BY <1>2 DEF HandlerState
<1> HIDE DEF h
<1>6. /\ handler' \in [Ends -> HandlerState] /\ handler'[e] = h
      /\ \A f \in Ends : f # e => handler'[f] = handler[f]
  BY <1>3, <1>4, HandlerUpdate DEF Inv
<1>7. TypeOK'
  BY <1>6 DEF Inv, TypeOK
<1>8. DataFrame
  <2>1. ASSUME NEW f \in Ends
        PROVE  /\ handler'[f].sender_offset = handler[f].sender_offset
               /\ handler'[f].sender_length = handler[f].sender_length
               /\ handler'[f].need_ack = handler[f].need_ack
               /\ handler'[f].receiver_position = handler[f].receiver_position
    BY <1>5, <1>6
  <2>2. ASSUME NEW f \in Ends
        PROVE  HeldInv(f, handler'[f].send_packet) /\ HeldInv(f, handler'[f].last_packet_sent)
    <3>1. CASE f = e
      BY <3>1, <1>1, <1>5, <1>6 DEF Inv, DataInv
    <3>2. CASE f # e
      BY <3>2, <1>6 DEF Inv, DataInv
    <3> QED BY <3>1, <3>2
  <2>3. \A q \in net' : PacketInv(q.from, q)
    BY DEF Inv, DataInv
  <2>4. \A f \in Ends : upstream[f].written \in Nat
    BY FieldTypes DEF Inv
  <2> QED BY <2>1, <2>2, <2>3, <2>4 DEF DataFrame
<1>9. ASSUME NEW f \in Ends, f # e
      PROVE  AppInv(f)'
  BY <1>6, <1>9, AppFramed
<1>10. AppInv(e)'
  BY <1>5, <1>6 DEF Inv, AppInv, Buffered, Unread
<1> QED BY <1>7, <1>8, <1>9, <1>10, DataFramed DEF Inv

\* The code after the select! that only wakes sleepers.
LEMMA WakeStep ==
    ASSUME Inv, NEW e \in Ends, handler' = [handler EXCEPT ![e].pc = "select"],
           \/ upstream' = upstream
           \/ upstream' = ClosedUpstream(e)
           \/ upstream' = [upstream EXCEPT ![e].waker = FALSE],
           UNCHANGED <<downstream, app, net>>
    PROVE  Inv'
<1>1. /\ upstream' \in [Ends -> UpstreamState]
      /\ \A f \in Ends : /\ upstream'[f].drained = upstream[f].drained
                         /\ upstream'[f].written = upstream[f].written
                         /\ upstream'[f].shutdown_notified = upstream[f].shutdown_notified
                         /\ f # e => upstream'[f] = upstream[f]
      /\ \/ /\ upstream'[e].closed = TRUE /\ upstream'[e].waker = FALSE
            /\ upstream'[e].shutdown_waker = FALSE
         \/ /\ upstream'[e].closed = upstream[e].closed
            /\ upstream'[e].waker = FALSE \/ upstream'[e].waker = upstream[e].waker
            /\ upstream'[e].shutdown_waker = upstream[e].shutdown_waker
  <2>1. upstream \in [Ends -> UpstreamState]
    BY DEF Inv, TypeOK
  <2>2. CASE upstream' = upstream
    BY <2>1, <2>2
  <2>3. CASE upstream' = ClosedUpstream(e)
    BY <2>3, UpstreamClosed DEF Inv
  <2>4. CASE upstream' = [upstream EXCEPT ![e].waker = FALSE]
    <3>1. upstream' \in [Ends -> UpstreamState]
      BY <2>1, <2>4 DEF UpstreamState
    <3>2. \A f \in Ends : f # e => upstream'[f] = upstream[f]
      BY <2>1, <2>4
    <3>3. /\ upstream'[e].drained = upstream[e].drained
          /\ upstream'[e].written = upstream[e].written
          /\ upstream'[e].shutdown_notified = upstream[e].shutdown_notified
          /\ upstream'[e].closed = upstream[e].closed
          /\ upstream'[e].shutdown_waker = upstream[e].shutdown_waker
          /\ upstream'[e].waker = FALSE
      BY <2>1, <2>4 DEF UpstreamState
    <3> QED BY <3>1, <3>2, <3>3
  <2> QED BY <2>2, <2>3, <2>4
<1>2. TypeOK'
  BY <1>1, PcUpdate DEF Inv, TypeOK
<1>3. ControlOnly(e)
  BY <1>1, PcUpdate DEF Inv, ControlOnly
<1>4. ASSUME NEW f \in Ends, f # e
      PROVE  AppInv(f)'
  <2>1. handler'[f] = handler[f]
    BY <1>4, PcUpdate DEF Inv
  <2> QED BY <1>1, <1>4, <2>1, AppFramed
<1>5. AppInv(e)'
  <2>1. /\ handler'[e].closed = handler[e].closed
        /\ handler'[e].closing = handler[e].closing /\ handler'[e].pc = "select"
    BY PcUpdate DEF Inv
  <2>2. AppInv(e)
    BY DEF Inv
  <2> QED BY <1>1, <2>1, <2>2 DEF AppInv, Buffered, Unread
<1> QED BY <1>2, <1>3, <1>4, <1>5, ControlData DEF Inv

\* The tail of the handler's loop, in each of its outcomes.
LEMMA AfterSelectStep ==
    ASSUME Inv, NEW e \in Ends, AfterSelect(e)
    PROVE  Inv'
<1>1. UNCHANGED <<downstream, app, net>> /\ handler[e].pc = "tail"
  BY DEF AfterSelect
<1>2. CASE handler' = [handler EXCEPT ![e].pc = "select", ![e].send_packet = Close(e)]
           /\ UNCHANGED upstream
  BY <1>1, <1>2, SendCloseStep
<1>3. CASE ~handler[e].need_ack /\ ~handler[e].closing /\ NextPayload(e)
           /\ UNCHANGED upstream
  BY <1>1, <1>3, PayloadStep
<1>4. CASE /\ handler' = [handler EXCEPT ![e].pc = "select"]
           /\ \/ upstream' = upstream
              \/ upstream' = ClosedUpstream(e)
              \/ upstream' = [upstream EXCEPT ![e].waker = FALSE]
  BY <1>1, <1>4, WakeStep
<1> QED BY <1>2, <1>3, <1>4 DEF AfterSelect

\* Every step of a handler.
LEMMA HandlerStep ==
    ASSUME Inv, NEW e \in Ends, HandlerNext(e)
    PROVE  Inv'
<1>1. ASSUME NEW p \in Incoming(e), Receive(e, p)
      PROVE  Inv'
  <2>1. p \in net
    BY DEF Incoming
  <2> QED BY <1>1, <2>1, DataStep, AckStep, CloseStep, ConnectStep DEF Receive
<1>2. CASE Accept(e)
  BY <1>2, AcceptStep
<1>3. CASE Exit(e)
  BY <1>3, ExitStep
<1>4. CASE UpstreamNotified(e) \/ ShutdownNotified(e)
  BY <1>4, NotifiedStep, ShutdownNotifiedStep
<1>5. CASE SendPacket(e) \/ Retransmit(e) \/ Expire(e)
  BY <1>5, SendStep, RetransmitStep, ExpireStep
<1>6. CASE AfterSelect(e)
  BY <1>6, AfterSelectStep
<1> QED BY <1>1, <1>2, <1>3, <1>4, <1>5, <1>6 DEF HandlerNext

-----------------------------------------------------------------------------
(* The invariant *)

\* The initial states satisfy the invariant.
LEMMA InitInv ==
    Init => Inv
<1> SUFFICES ASSUME Init
             PROVE  Inv
  OBVIOUS
<1>1. ASSUME NEW e \in Ends
      PROVE  InitHandler(e) \in HandlerState
  BY PacketTypes DEF InitHandler, HandlerState
<1>2. InitUpstream \in UpstreamState
  BY DEF InitUpstream, UpstreamState
<1>3. [data |-> <<>>, read |-> 0, waker |-> FALSE] \in DownstreamState
  BY DEF DownstreamState
<1>4. TypeOK
  BY <1>1, <1>2, <1>3 DEF Init, EndpointInit, TypeOK, AppState
<1>5. \A e \in Ends : /\ handler[e] = InitHandler(e)
                      /\ upstream[e] = InitUpstream
                      /\ downstream[e].data = <<>>
                      /\ downstream[e].waker = FALSE
                      /\ app[e] = "idle"
  BY DEF Init, EndpointInit
<1>6. Bytes(0, 0) = <<>>
  BY DEF Bytes
<1>7. ASSUME NEW e \in Ends
      PROVE  /\ SenderInv(e) /\ ReceiverInv(e) /\ AppInv(e)
             /\ HeldInv(e, handler[e].send_packet)
             /\ HeldInv(e, handler[e].last_packet_sent)
  <2>1. Peer(e) \in Ends
    BY <1>4, FieldTypes
  <2>2. HeldInv(e, Connect(e)) /\ HeldInv(e, NoPacket)
    BY DEF HeldInv, PacketInv, Connect
  <2>3. SenderInv(e) /\ ReceiverInv(e)
    BY <1>5, <1>6, <2>1 DEF SenderInv, ReceiverInv, InitHandler, InitUpstream
  <2>4. AppInv(e)
    BY <1>5 DEF AppInv, InitHandler, InitUpstream
  <2> QED BY <1>5, <2>2, <2>3, <2>4 DEF InitHandler
<1> QED BY <1>4, <1>7 DEF Inv, DataInv, Init, EndpointInit

\* Every step of the system keeps the invariant.
LEMMA NextInv ==
    ASSUME Inv, [Next]_vars
    PROVE  Inv'
<1>1. CASE \E e \in Ends : HandlerNext(e)
  BY <1>1, HandlerStep
<1>2. CASE \E e \in Apps : AppNext(e)
  BY <1>2, AppStep, AppsAssumption
<1>3. CASE \E p \in net : Lose(p)
  BY <1>3, LoseStep
<1>4. CASE UNCHANGED vars
  BY <1>4 DEF vars, Inv, TypeOK, DataInv, SenderInv, ReceiverInv, HeldInv, PacketInv,
               AppInv, Buffered, Unread
<1> QED BY <1>1, <1>2, <1>3, <1>4 DEF Next

\* The inductive invariant holds for streams of every length, on a network
\* that loses, duplicates and reorders packets at will.
THEOREM Invariance == Spec => []Inv
<1>1. Init => Inv
  BY InitInv
<1>2. Inv /\ [Next]_vars => Inv'
  BY NextInv
<1> QED BY <1>1, <1>2, PTL DEF Spec

\* Type correctness.
THEOREM TypeCorrect == Spec => []TypeOK
<1>1. Inv => TypeOK
  BY DEF Inv
<1> QED BY <1>1, Invariance, PTL

-----------------------------------------------------------------------------
(* What the invariant says *)

\* What was received lies between what the sender drained and what it was given.
LEMMA Positions ==
    ASSUME Inv, NEW e \in Ends
    PROVE  /\ Len(downstream[e].data) = handler[e].receiver_position
           /\ downstream[e].data = Bytes(0, handler[e].receiver_position)
           /\ handler[e].receiver_position <= upstream[Peer(e)].written
           /\ upstream[Peer(e)].drained <= handler[e].receiver_position
<1>1. /\ Peer(e) \in Ends /\ handler[e].receiver_position \in Nat
      /\ handler[Peer(e)].sender_offset \in Nat /\ handler[Peer(e)].sender_length \in Nat
      /\ upstream[Peer(e)].written \in Nat
  BY FieldTypes DEF Inv
<1>2. SenderInv(Peer(e)) /\ ReceiverInv(e)
  BY <1>1 DEF Inv, DataInv
<1>3. Len(Bytes(0, handler[e].receiver_position)) = handler[e].receiver_position
  BY <1>1, BytesAppend
<1> QED BY <1>1, <1>2, <1>3 DEF SenderInv, ReceiverInv

\* The bytes an end received are the first bytes the other wrote, in order.
THEOREM InOrderDelivery == Spec => []DeliveredInOrder
<1>1. Inv => DeliveredInOrder
  BY Positions DEF DeliveredInOrder
<1> QED BY <1>1, Invariance, PTL

\* The buffer drops only bytes that the other end received.
THEOREM KeptUntilDelivered == Spec => []DrainedIsDelivered
<1>1. ASSUME Inv, NEW e \in Ends
      PROVE  upstream[e].drained <= Len(downstream[Peer(e)].data)
  <2>1. Peer(e) \in Ends /\ Peer(Peer(e)) = e
    BY <1>1, FieldTypes DEF Inv
  <2> QED BY <1>1, <2>1, Positions
<1>2. Inv => DrainedIsDelivered
  BY <1>1 DEF DrainedIsDelivered
<1> QED BY <1>2, Invariance, PTL

\* A flush that returned on an open stream returned after the delivery of
\* every byte written.
THEOREM FlushDelivers == Spec => []FlushedIsDelivered
<1>1. ASSUME Inv, NEW e \in Ends, app[e] = "flushed", ~upstream[e].closed
      PROVE  Len(downstream[Peer(e)].data) = upstream[e].written
  <2>1. /\ Peer(e) \in Ends /\ Peer(Peer(e)) = e
        /\ upstream[e].written \in Nat /\ upstream[e].drained \in Nat
    BY <1>1, FieldTypes DEF Inv
  <2>2. Buffered(e) = 0
    BY <1>1 DEF Inv, AppInv
  <2>3. handler[Peer(e)].receiver_position \in Nat
    BY <1>1, <2>1, FieldTypes DEF Inv
  <2> QED BY <1>1, <2>1, <2>2, <2>3, Positions DEF Buffered
<1>2. Inv => FlushedIsDelivered
  BY <1>1 DEF FlushedIsDelivered
<1> QED BY <1>2, Invariance, PTL

\* No end that runs this code finds its peer misbehaving.
THEOREM NoMisbehaviour == Spec => []ClosingIsRequested
<1>1. Inv => ClosingIsRequested
  BY DEF Inv, AppInv, ClosingIsRequested
<1> QED BY <1>1, Invariance, PTL

\* Nobody is left asleep in a flush or a shutdown when the handler has ended, and no
\* reader while there is something to read (protocol.rs:125-165, 390-400, 436-446, 471-481).
THEOREM WaitersWoken == Spec => []WritersAreReleased
<1>1. ASSUME Inv, NEW e \in Ends
      PROVE  /\ handler[e].pc = "done" => ~upstream[e].waker /\ ~upstream[e].shutdown_waker
             /\ downstream[e].waker => Unread(e) = 0
  BY <1>1 DEF Inv, AppInv
<1>2. Inv => WritersAreReleased
  BY <1>1 DEF WritersAreReleased
<1> QED BY <1>2, Invariance, PTL

\* Of the data packets in flight that still bring new bytes, all are copies
\* of one.
THEOREM StopAndWait == Spec => []OneOutstanding
<1>1. ASSUME Inv, NEW e \in Ends, NEW p \in net, p.from = e, p.type = "data",
             p.pos + p.len > handler[Peer(e)].receiver_position
      PROVE  p = Data(e, handler[e].sender_offset, handler[e].sender_offset,
                      handler[e].sender_length - handler[e].sender_offset)
  <2>1. p \in Packet /\ PacketInv(e, p)
    BY <1>1 DEF Inv, TypeOK, DataInv
  <2>2. p.pos \in Nat /\ p.first \in Nat /\ p.len \in Nat
    BY <1>1, <2>1, DataPacketType
  <2>3. /\ Peer(e) \in Ends /\ Peer(Peer(e)) = e
        /\ handler[e].sender_offset \in Nat /\ handler[e].sender_length \in Nat
    BY <1>1, FieldTypes DEF Inv
  <2>4. handler[Peer(e)].receiver_position \in Nat
    BY <1>1, <2>3, FieldTypes DEF Inv
  <2>5. SenderInv(e) /\ ReceiverInv(Peer(e))
    BY <1>1, <2>3 DEF Inv, DataInv
  <2>6. handler[e].sender_offset <= handler[Peer(e)].receiver_position
    BY <2>3, <2>4, <2>5 DEF SenderInv, ReceiverInv
  <2>7. /\ p.pos = handler[e].sender_offset /\ p.first = p.pos
        /\ p.len = handler[e].sender_length - handler[e].sender_offset
    BY <1>1, <2>1, <2>2, <2>3, <2>4, <2>6 DEF PacketInv
  <2>8. p = [from |-> p.from, type |-> p.type, pos |-> p.pos, first |-> p.first,
             len |-> p.len]
    BY <1>1, <2>1 DEF Packet
  <2> QED BY <1>1, <2>7, <2>8 DEF Data
<1>2. Inv => OneOutstanding
  BY <1>1 DEF OneOutstanding
<1> QED BY <1>2, Invariance, PTL

-----------------------------------------------------------------------------
(* The action property *)

\* What a handler that has closed, or ended, may put into the network.
LEMMA SilentStep ==
    ASSUME Inv, [Next]_vars, NEW e \in Ends,
           handler[e].closed \/ handler[e].pc = "done"
    PROVE  /\ downstream'[e].data = downstream[e].data
           /\ {p \in net' \ net : p.from = e} \subseteq {Close(e), Ack(e, 0)}
<1>1. downstream \in [Ends -> DownstreamState]
  BY DEF Inv, TypeOK
<1>2. CASE UNCHANGED vars
  BY <1>2 DEF vars
<1>3. ASSUME NEW f \in Apps, AppNext(f)
      PROVE  downstream'[e].data = downstream[e].data /\ net' = net
  <2>1. CASE PollRead(f)
    <3>1. PICK d \in {[downstream[f] EXCEPT !.read = downstream[f].read + n] :
                        n \in 1 .. Unread(f)}
                     \cup {[downstream[f] EXCEPT !.waker = TRUE]} :
             downstream' = [downstream EXCEPT ![f] = d]
      <4>1. CASE \E n \in 1 .. Unread(f) : downstream' = [downstream EXCEPT ![f].read = @ + n]
        BY <4>1
      <4>2. CASE downstream' = [downstream EXCEPT ![f].waker = TRUE]
        BY <4>2
      <4> QED BY <2>1, <4>1, <4>2 DEF PollRead
    <3>2. f \in Ends /\ downstream[f] \in DownstreamState
      BY <1>1, AppsAssumption
    <3>3. d.data = downstream[f].data
      BY <3>2 DEF DownstreamState
    <3> QED BY <1>1, <2>1, <3>1, <3>2, <3>3 DEF PollRead
  <2>2. CASE ~PollRead(f)
    BY <1>3, <2>2 DEF AppNext, PollWrite, PollFlush, RegisterFlush, PollShutdown, DropStream
  <2> QED BY <2>1, <2>2
<1>4. ASSUME NEW p \in net, Lose(p)
      PROVE  UNCHANGED downstream /\ net' \subseteq net
  BY <1>4 DEF Lose
<1>5. ASSUME NEW p \in Incoming(e), Receive(e, p)
      PROVE  downstream' = downstream /\ net' \subseteq net \cup {Close(e), Ack(e, 0)}
  <2>1. Refusing(e) /\ handler[e].pc = "select" /\ Rest(p) \subseteq net
    BY <1>5, RestTypes DEF Receive, ReceiveData, ReceiveAck, ReceiveClose, ReceiveConnect,
                           Refusing, Incoming, Inv
  <2>2. CASE ReceiveData(e, p) \/ ReceiveAck(e, p)
    BY <2>1, <2>2 DEF ReceiveData, ReceiveAck, Reply
  <2>3. CASE ReceiveClose(e, p) \/ ReceiveConnect(e, p)
    BY <2>1, <2>3 DEF ReceiveClose, ReceiveConnect, Reply, NoReply
  <2> QED BY <1>5, <2>2, <2>3 DEF Receive
<1>6. CASE HandlerNext(e)
  <2>1. CASE \E p \in Incoming(e) : Receive(e, p)
    BY <1>5, <2>1
  <2>2. CASE Expire(e)
    BY <2>2 DEF Expire, Send
  <2>3. ~SendPacket(e)
    BY DEF SendPacket, Sending
  <2>4. CASE Accept(e) \/ Exit(e) \/ UpstreamNotified(e) \/ ShutdownNotified(e)
              \/ Retransmit(e) \/ AfterSelect(e)
    BY <2>4 DEF Accept, Exit, UpstreamNotified, ShutdownNotified, Retransmit, AfterSelect
  <2> QED BY <1>6, <2>1, <2>2, <2>3, <2>4 DEF HandlerNext
<1>7. ASSUME NEW f \in Ends, f # e, HandlerNext(f)
      PROVE  /\ downstream'[e] = downstream[e]
             /\ \A p \in net' \ net : p.from = f
  <2>1. CASE \E p \in Incoming(f) : Receive(f, p)
    <3> PICK p \in Incoming(f) : Receive(f, p)
      BY <2>1
    <3>1. Rest(p) \subseteq net
      BY RestTypes DEF Incoming, Inv
    <3>2. CASE ReceiveData(f, p)
      <4>1. CASE UNCHANGED downstream /\ (Reply(p, Close(f)) \/ NoReply(p))
        BY <3>1, <4>1 DEF Reply, NoReply, Close
      <4>2. CASE AppendData(f, p)
        <5>1. downstream'[e] = downstream[e]
          BY <1>1, <1>7, <4>2 DEF AppendData
        <5>2. \E n : net' = Rest(p) \cup {Ack(f, n)}
          BY <4>2 DEF AppendData, Reply
        <5> QED BY <3>1, <5>1, <5>2 DEF Ack
      <4> QED BY <3>2, <4>1, <4>2 DEF ReceiveData
    <3>3. CASE ~ReceiveData(f, p)
      BY <3>1, <3>3 DEF Receive, ReceiveAck, ReceiveClose, ReceiveConnect, Reply, NoReply,
                        Ack, Close
    <3> QED BY <3>2, <3>3
  <2>2. CASE Expire(f)
    BY <2>2 DEF Expire, Send, Close
  <2>3. CASE SendPacket(f)
    <3>1. HeldInv(f, handler[f].send_packet)
      BY DEF Inv, DataInv
    <3> QED BY <2>3, <3>1 DEF SendPacket, Send, Sending, HeldInv
  <2>4. CASE Accept(f) \/ Exit(f) \/ UpstreamNotified(f) \/ ShutdownNotified(f)
              \/ Retransmit(f) \/ AfterSelect(f)
    BY <2>4 DEF Accept, Exit, UpstreamNotified, ShutdownNotified, Retransmit, AfterSelect
  <2> QED BY <1>7, <2>1, <2>2, <2>3, <2>4 DEF HandlerNext
<1> QED BY <1>2, <1>3, <1>4, <1>5, <1>6, <1>7 DEF Next

\* A closed or ended handler accepts no data and sends nothing but closes
\* and the ack of a connect.
THEOREM Silence == Spec => SilentOnceClosed
<1>1. Inv /\ [Next]_vars =>
        [\A e \in Ends : handler[e].closed \/ handler[e].pc = "done" =>
            /\ downstream'[e].data = downstream[e].data
            /\ {p \in net' \ net : p.from = e} \subseteq {Close(e), Ack(e, 0)}]_vars
  BY SilentStep
<1> QED BY <1>1, Invariance, PTL DEF Spec, SilentOnceClosed

-----------------------------------------------------------------------------
(* Two ends running lrcp_handler implement a pair of streams: every step is *)
(* a step of LrcpStream, or a stutter of it. *)

\* The status the abstract stream shows, case by case.
LEMMA StatusCases ==
    ASSUME TypeOK, NEW e \in Ends
    PROVE  /\ upstream[e].closed \in BOOLEAN
           /\ upstream[e].closed => StreamStatus(e) = "broken"
           /\ ~upstream[e].closed /\ app[e] = "flushed" => StreamStatus(e) = "flushed"
           /\ ~upstream[e].closed /\ app[e] # "flushed" => StreamStatus(e) = "open"
  BY DEF TypeOK, UpstreamState, StreamStatus

\* The types of what the refinement mapping shows.
LEMMA Shown ==
    ASSUME TypeOK, NEW e \in Ends
    PROVE  /\ upstream[e].written \in Nat /\ upstream[e].drained \in Nat
           /\ downstream[e].data \in Seq(Nat)
           /\ Peer(e) \in Ends /\ Peer(Peer(e)) = e /\ Peer(e) # e
  BY FieldTypes

-----------------------------------------------------------------------------
(* Steps that show nothing *)

\* A step that changes nothing the abstract stream shows is a stutter of it.
LEMMA Hidden ==
    ASSUME \A e \in Ends : /\ upstream'[e].written = upstream[e].written
                           /\ upstream'[e].drained = upstream[e].drained
                           /\ downstream'[e].data = downstream[e].data
                           /\ StreamStatus(e)' = StreamStatus(e)
    PROVE  UNCHANGED Stream!vars
  BY DEF Stream!vars

\* Of the end that moves, only the status may change.
LEMMA StatusMoves ==
    ASSUME TypeOK, TypeOK', NEW e \in Ends,
           \A f \in Ends : /\ upstream'[f].written = upstream[f].written
                           /\ upstream'[f].drained = upstream[f].drained
                           /\ downstream'[f].data = downstream[f].data
                           /\ f # e => StreamStatus(f)' = StreamStatus(f)
    PROVE  /\ StreamStatus(e)' = StreamStatus(e) => UNCHANGED Stream!vars
           /\ StreamStatus(e) # "broken" /\ StreamStatus(e)' = "broken" => Stream!Break(e)
           /\ StreamStatus(e) = "flushed" /\ StreamStatus(e)' = "open" => Stream!Leave(e)
           /\ (StreamStatus(e) = "open" /\ upstream[e].drained = upstream[e].written
                 /\ StreamStatus(e)' = "flushed") => Stream!Flush(e)
<1>1. StreamStatus(e)' = StreamStatus(e) => UNCHANGED Stream!vars
  BY Hidden
<1> DEFINE same == UNCHANGED <<[f \in Party |-> upstream[f].written],
                               [f \in Party |-> downstream[f].data],
                               [f \in Party |-> upstream[f].drained]>>
           st == [f \in Party |-> StreamStatus(f)]
<1>2. same
  OBVIOUS
<1>3. st' = [st EXCEPT ![e] = StreamStatus(e)']
  OBVIOUS
<1>4. st[e] = StreamStatus(e)
  OBVIOUS
<1>5. StreamStatus(e) # "broken" /\ StreamStatus(e)' = "broken" => Stream!Break(e)
  BY <1>2, <1>3, <1>4 DEF Stream!Break
<1>6. StreamStatus(e) = "flushed" /\ StreamStatus(e)' = "open" => Stream!Leave(e)
  BY <1>2, <1>3, <1>4 DEF Stream!Leave
<1>7. (StreamStatus(e) = "open" /\ upstream[e].drained = upstream[e].written
         /\ StreamStatus(e)' = "flushed") => Stream!Flush(e)
  BY <1>2, <1>3, <1>4 DEF Stream!Flush
<1> QED BY <1>1, <1>5, <1>6, <1>7

\* The status depends on the closed flag and on the end of a flush alone.
LEMMA UnmovedStatus ==
    ASSUME NEW e \in Ends, upstream'[e].closed = upstream[e].closed,
           app'[e] = "flushed" <=> app[e] = "flushed"
    PROVE  StreamStatus(e)' = StreamStatus(e)
  BY DEF StreamStatus

StreamStep == [Stream!Next]_(Stream!vars)

-----------------------------------------------------------------------------
(* The application's steps *)

\* poll_write is the abstract write.
LEMMA WriteImplements ==
    ASSUME Inv, Inv', NEW e \in Ends, PollWrite(e)
    PROVE  StreamStep
<1>1. TypeOK /\ TypeOK'
  BY DEF Inv
<1>2. PICK n \in 1 .. MaxBytes[e] - upstream[e].written :
         upstream' = [upstream EXCEPT ![e].written = @ + n]
  BY DEF PollWrite
<1>3. n \in Nat /\ n > 0
  BY <1>1, Shown, BytesAssumption, <1>2
<1>4. /\ upstream'[e].written = upstream[e].written + n
      /\ upstream'[e].closed = upstream[e].closed
      /\ upstream'[e].drained = upstream[e].drained
  BY <1>1, <1>2 DEF TypeOK, UpstreamState
<1>5. \A f \in Ends : f # e => upstream'[f] = upstream[f]
  BY <1>1, <1>2 DEF TypeOK
<1>6. \A f \in Ends : upstream'[f].drained = upstream[f].drained
  BY <1>4, <1>5
<1>7. /\ ~upstream[e].closed /\ app' = [app EXCEPT ![e] = "idle"]
      /\ UNCHANGED downstream
  BY DEF PollWrite
<1>8. StreamStatus(e) # "broken" /\ StreamStatus(e)' = "open"
  <2>1. StreamStatus(e) # "broken"
    BY <1>1, <1>7, StatusCases
  <2>2. app'[e] # "flushed" /\ ~upstream'[e].closed
    BY <1>1, <1>4, <1>7 DEF TypeOK
  <2> QED BY <2>1, <2>2 DEF StreamStatus
<1>9. ASSUME NEW f \in Ends, f # e
      PROVE  StreamStatus(f)' = StreamStatus(f)
  BY <1>5, <1>7, <1>9, UnmovedStatus
<1> DEFINE w == [f \in Party |-> upstream[f].written]
           st == [f \in Party |-> StreamStatus(f)]
<1>10. w'[e] > w[e] /\ w' = [w EXCEPT ![e] = w'[e]] /\ st[e] # "broken"
  <2>1. upstream'[e].written > upstream[e].written
    BY <1>1, <1>3, <1>4, Shown
  <2>2. w' = [w EXCEPT ![e] = w'[e]]
    BY <1>5
  <2> QED BY <1>8, <2>1, <2>2
<1>11. st' = [st EXCEPT ![e] = "open"]
  BY <1>8, <1>9
<1>12. UNCHANGED <<[f \in Party |-> downstream[f].data], [f \in Party |-> upstream[f].drained]>>
  BY <1>6, <1>7
<1> QED BY <1>10, <1>11, <1>12 DEF StreamStep, Stream!Next, Stream!Write

\* poll_flush is the abstract flush when the buffer is empty, and else a stutter.
LEMMA FlushImplements ==
    ASSUME Inv, Inv', NEW e \in Ends, PollFlush(e)
    PROVE  StreamStep
<1>1. TypeOK /\ TypeOK'
  BY DEF Inv
<1>2. UNCHANGED <<upstream, downstream>>
  BY DEF PollFlush
<1>3. app' = [app EXCEPT ![e] = IF Buffered(e) = 0 THEN "flushed" ELSE "registering"]
  BY DEF PollFlush
<1>4. ASSUME NEW f \in Ends, f # e
      PROVE  StreamStatus(f)' = StreamStatus(f)
  BY <1>2, <1>3, <1>4, UnmovedStatus DEF Inv, TypeOK
<1>5. Buffered(e) = 0 <=> upstream[e].drained = upstream[e].written
  BY <1>1, Shown DEF Buffered
<1>6. CASE upstream[e].closed
  <2>1. StreamStatus(e)' = StreamStatus(e)
    BY <1>2, <1>6 DEF StreamStatus
  <2> QED BY <1>1, <1>2, <1>4, <2>1, StatusMoves DEF StreamStep
<1>7. CASE ~upstream[e].closed /\ Buffered(e) = 0
  <2>1. StreamStatus(e)' = "flushed"
    BY <1>1, <1>2, <1>3, <1>7 DEF StreamStatus, TypeOK
  <2>2. StreamStatus(e) \in {"open", "flushed"}
    BY <1>1, <1>7, StatusCases
  <2> QED BY <1>1, <1>2, <1>4, <1>5, <1>7, <2>1, <2>2, StatusMoves DEF StreamStep, Stream!Next
<1>8. CASE ~upstream[e].closed /\ Buffered(e) # 0
  <2>1. app[e] # "flushed" /\ app'[e] # "flushed"
    BY <1>1, <1>3, <1>8 DEF Inv, AppInv, TypeOK
  <2>2. StreamStatus(e)' = StreamStatus(e)
    BY <1>2, <2>1, UnmovedStatus
  <2> QED BY <1>1, <1>2, <1>4, <2>2, StatusMoves DEF StreamStep
<1> QED BY <1>6, <1>7, <1>8

\* An application that stops waiting, or goes on from a flush.
LEMMA LeaveImplements ==
    ASSUME Inv, Inv', NEW e \in Ends, UNCHANGED downstream,
           \A f \in Ends : /\ upstream'[f].written = upstream[f].written
                           /\ upstream'[f].drained = upstream[f].drained
                           /\ upstream'[f].closed = upstream[f].closed
                           /\ f # e => app'[f] = app[f],
           app'[e] = "flushed" => upstream[e].closed
    PROVE  StreamStep
<1>1. TypeOK /\ TypeOK'
  BY DEF Inv
<1>2. ASSUME NEW f \in Ends, f # e
      PROVE  StreamStatus(f)' = StreamStatus(f)
  BY <1>2, UnmovedStatus
<1>3. CASE upstream[e].closed
  <2>1. StreamStatus(e)' = StreamStatus(e)
    BY <1>3 DEF StreamStatus
  <2> QED BY <1>1, <1>2, <2>1, StatusMoves DEF StreamStep
<1>4. CASE ~upstream[e].closed
  <2>1. StreamStatus(e) \in {"open", "flushed"}
    BY <1>1, <1>4, StatusCases
  <2>2. StreamStatus(e)' = "open"
    BY <1>4 DEF StreamStatus
  <2> QED BY <1>1, <1>2, <2>1, <2>2, StatusMoves DEF StreamStep, Stream!Next
<1> QED BY <1>3, <1>4

\* Every step of the application is one of the abstract stream.
LEMMA AppImplements ==
    ASSUME Inv, Inv', NEW e \in Ends, AppNext(e)
    PROVE  StreamStep
<1>1. /\ upstream \in [Ends -> UpstreamState] /\ downstream \in [Ends -> DownstreamState]
      /\ app \in [Ends -> AppState]
  BY DEF Inv, TypeOK
<1>2. CASE RegisterFlush(e) /\ upstream[e].closed
  <2>1. UNCHANGED <<upstream, downstream>> /\ \A f \in Ends : f # e => app'[f] = app[f]
    BY <1>1, <1>2 DEF RegisterFlush
  <2> QED BY <1>2, <2>1, LeaveImplements
<1>3. CASE RegisterFlush(e) /\ ~upstream[e].closed
  <2>1. /\ upstream' = [upstream EXCEPT ![e].waker = TRUE, ![e].notified = TRUE]
        /\ app' = [app EXCEPT ![e] = "flushing"] /\ UNCHANGED downstream
    BY <1>3 DEF RegisterFlush
  <2>2. \A f \in Ends : /\ upstream'[f].written = upstream[f].written
                        /\ upstream'[f].drained = upstream[f].drained
                        /\ upstream'[f].closed = upstream[f].closed
    BY <1>1, <2>1 DEF UpstreamState
  <2>3. app'[e] = "flushing" /\ \A f \in Ends : f # e => app'[f] = app[f]
    BY <1>1, <2>1
  <2> QED BY <2>1, <2>2, <2>3, LeaveImplements
<1>4. CASE PollShutdown(e)
  <2>1. UNCHANGED downstream
    BY <1>4 DEF PollShutdown
  <2>2. app'[e] # "flushed" /\ \A f \in Ends : f # e => app'[f] = app[f]
    BY <1>1, <1>4 DEF PollShutdown
  <2>3. \/ upstream' = upstream
        \/ upstream' = [upstream EXCEPT ![e].shutdown_waker = TRUE,
                                        ![e].shutdown_notified = TRUE]
    BY <1>4 DEF PollShutdown
  <2>4. \A f \in Ends : /\ upstream'[f].written = upstream[f].written
                        /\ upstream'[f].drained = upstream[f].drained
                        /\ upstream'[f].closed = upstream[f].closed
    <3>1. CASE upstream' = upstream
      BY <3>1
    <3>2. CASE upstream' = [upstream EXCEPT ![e].shutdown_waker = TRUE,
                                            ![e].shutdown_notified = TRUE]
      BY <1>1, <3>2 DEF UpstreamState
    <3> QED BY <2>3, <3>1, <3>2
  <2> QED BY <2>1, <2>2, <2>4, LeaveImplements
<1>5. CASE DropStream(e)
  <2>1. UNCHANGED <<upstream, downstream>>
    BY <1>5 DEF DropStream
  <2>2. app'[e] # "flushed" /\ \A f \in Ends : f # e => app'[f] = app[f]
    BY <1>1, <1>5 DEF DropStream
  <2> QED BY <2>1, <2>2, LeaveImplements
<1>6. CASE PollRead(e)
  <2>1. PICK d \in {[downstream[e] EXCEPT !.read = downstream[e].read + n] :
                        n \in 1 .. Unread(e)}
                     \cup {[downstream[e] EXCEPT !.waker = TRUE]} :
             downstream' = [downstream EXCEPT ![e] = d]
    <3>1. CASE \E n \in 1 .. Unread(e) : downstream' = [downstream EXCEPT ![e].read = @ + n]
      BY <3>1
    <3>2. CASE downstream' = [downstream EXCEPT ![e].waker = TRUE]
      BY <3>2
    <3> QED BY <1>6, <3>1, <3>2 DEF PollRead
  <2>2. d.data = downstream[e].data
    BY <1>1 DEF DownstreamState
  <2>3. \A f \in Ends : downstream'[f].data = downstream[f].data
    BY <1>1, <2>1, <2>2
  <2>4. UNCHANGED <<upstream, app>>
    BY <1>6 DEF PollRead
  <2>5. \A f \in Ends : StreamStatus(f)' = StreamStatus(f)
    BY <2>4 DEF StreamStatus
  <2> QED BY <2>3, <2>4, <2>5, Hidden DEF StreamStep
<1> QED BY <1>2, <1>3, <1>4, <1>5, <1>6, WriteImplements, FlushImplements DEF AppNext

-----------------------------------------------------------------------------
(* The handler's steps *)

\* A step that closes the upstream half breaks the stream, if it was not
\* broken; one that only wakes or moves control shows nothing.
LEMMA BreakImplements ==
    ASSUME Inv, Inv', NEW e \in Ends, UNCHANGED <<downstream, app>>,
           \A f \in Ends : /\ upstream'[f].written = upstream[f].written
                           /\ upstream'[f].drained = upstream[f].drained
                           /\ f # e => upstream'[f].closed = upstream[f].closed,
           upstream'[e].closed = TRUE \/ upstream'[e].closed = upstream[e].closed
    PROVE  StreamStep
<1>1. TypeOK /\ TypeOK'
  BY DEF Inv
<1>2. ASSUME NEW f \in Ends, f # e
      PROVE  StreamStatus(f)' = StreamStatus(f)
  BY <1>2, UnmovedStatus
<1>3. CASE upstream'[e].closed = upstream[e].closed
  <2>1. StreamStatus(e)' = StreamStatus(e)
    BY <1>3, UnmovedStatus
  <2> QED BY <1>1, <1>2, <2>1, StatusMoves DEF StreamStep
<1>4. CASE ~upstream[e].closed /\ upstream'[e].closed = TRUE
  <2>1. StreamStatus(e) # "broken" /\ StreamStatus(e)' = "broken"
    BY <1>1, <1>4, StatusCases DEF StreamStatus
  <2> QED BY <1>1, <1>2, <2>1, StatusMoves DEF StreamStep, Stream!Next
<1>5. upstream[e].closed \in BOOLEAN
  BY <1>1, StatusCases
<1> QED BY <1>3, <1>4, <1>5

\* How far each stream has got, in every state that satisfies the invariant.
Progress == \A e \in Ends :
    /\ Peer(e) \in Ends /\ Peer(Peer(e)) = e /\ Peer(e) # e
    /\ upstream[e].written \in Nat /\ upstream[e].drained \in Nat
    /\ handler[e].receiver_position \in Nat
    /\ handler[e].sender_offset = upstream[e].drained
    /\ handler[e].sender_offset <= handler[e].sender_length
    /\ handler[e].sender_length \in Nat
    /\ Len(downstream[e].data) = handler[e].receiver_position
    /\ downstream[e].data = Bytes(0, handler[e].receiver_position)
    /\ handler[e].receiver_position <= upstream[Peer(e)].written
    /\ upstream[Peer(e)].drained <= handler[e].receiver_position

\* The invariant gives the order of the positions the abstract steps rely on.
LEMMA InvProgress == Inv => Progress
<1>1. ASSUME Inv, NEW e \in Ends
      PROVE  /\ handler[e].sender_offset = upstream[e].drained
             /\ handler[e].sender_offset <= handler[e].sender_length
  BY <1>1 DEF Inv, DataInv, SenderInv
<1> QED BY <1>1, Positions, FieldTypes DEF Inv, Progress

\* The same, after a step.
LEMMA ProgressNext == Inv' => Progress'
  BY InvProgress, PTL

\* A data packet is the abstract delivery of its new bytes, or a stutter.
LEMMA AppendImplements ==
    ASSUME Inv, Inv', NEW e \in Ends, NEW p \in Incoming(e), ReceiveData(e, p)
    PROVE  StreamStep
<1>1. downstream \in [Ends -> DownstreamState] /\ UNCHANGED <<upstream, app>>
  BY DEF ReceiveData, Inv, TypeOK
<1>2. \A f \in Ends : StreamStatus(f)' = StreamStatus(f)
  BY <1>1 DEF StreamStatus
<1>3. CASE UNCHANGED downstream
  BY <1>1, <1>2, <1>3, Hidden DEF StreamStep
<1>4. CASE AppendData(e, p)
  <2>1. \A f \in Ends : f # e => downstream'[f] = downstream[f]
    BY <1>1, <1>4 DEF AppendData
  <2> DEFINE n == Len(downstream'[e].data)
             m == Len(downstream[e].data)
             rcv == [f \in Party |-> downstream[f].data]
  <2>2. /\ n \in Nat /\ downstream'[e].data = Bytes(0, n)
        /\ n <= upstream'[Peer(e)].written /\ handler'[e].receiver_position = n
        /\ Peer(e) \in Ends /\ upstream'[Peer(e)].written \in Nat
    BY ProgressNext DEF Progress
  <2>3. m \in Nat /\ downstream[e].data = Bytes(0, m) /\ handler[e].receiver_position = m
    BY InvProgress DEF Progress
  <2>4. m <= n
    <3>1. /\ NewBytes(e, p) \in Nat
          /\ handler'[e].receiver_position = handler[e].receiver_position + NewBytes(e, p)
      <4>1. /\ p \in Packet /\ p.type = "data" /\ handler[e] \in HandlerState
            /\ handler \in [Ends -> HandlerState]
        BY DEF ReceiveData, Incoming, Inv, TypeOK
      <4>2. p.pos \in Nat /\ p.len \in Nat /\ handler[e].receiver_position \in Nat
        BY <4>1, DataPacketType DEF HandlerState
      <4>3. NewBytes(e, p) \in Nat
        BY <4>2 DEF NewBytes
      <4> QED BY <1>4, <4>1, <4>3 DEF AppendData, HandlerState
    <3> QED BY <2>2, <2>3, <3>1
  <2>5. CASE n = m
    <3>1. \A f \in Ends : downstream'[f].data = downstream[f].data
      BY <2>1, <2>2, <2>3, <2>5
    <3> QED BY <1>1, <1>2, <3>1, Hidden DEF StreamStep
  <2>6. CASE n # m
    <3>1. n \in Len(rcv[e]) + 1 .. [f \in Party |-> upstream[f].written][Peer(e)]
      BY <1>1, <2>2, <2>3, <2>4, <2>6
    <3>2. Bytes(0, n) = [i \in 1..n |-> i - 1]
      BY <2>2 DEF Bytes
    <3>3. rcv' = [rcv EXCEPT ![e] = [i \in 1..n |-> i - 1]]
      BY <2>1, <2>2, <3>2
    <3>4. UNCHANGED <<[f \in Party |-> upstream[f].written],
                      [f \in Party |-> upstream[f].drained],
                      [f \in Party |-> StreamStatus(f)]>>
      BY <1>1, <1>2
    <3> HIDE DEF n
    <3>5. Stream!Deliver(e)
      BY <3>1, <3>3, <3>4 DEF Stream!Deliver
    <3> QED BY <3>5 DEF StreamStep, Stream!Next
  <2> QED BY <2>5, <2>6
<1> QED BY <1>3, <1>4 DEF ReceiveData

\* An ack is the abstract confirmation, the break of the stream, or a stutter.
LEMMA AckImplements ==
    ASSUME Inv, Inv', NEW e \in Ends, NEW p \in Incoming(e), ReceiveAck(e, p)
    PROVE  StreamStep
<1>1. upstream \in [Ends -> UpstreamState] /\ UNCHANGED <<downstream, app>>
  BY DEF ReceiveAck, Inv, TypeOK
<1>2. CASE UNCHANGED upstream
  <2>1. \A f \in Ends : StreamStatus(f)' = StreamStatus(f)
    BY <1>1, <1>2 DEF StreamStatus
  <2> QED BY <1>1, <1>2, <2>1, Hidden DEF StreamStep
<1>3. CASE p.length = handler[e].sender_length /\ Acknowledge(e, p.length)
  <2> DEFINE k == upstream'[e].drained
             d == [f \in Party |-> upstream[f].drained]
  <2>1. \A f \in Ends : /\ upstream'[f].written = upstream[f].written
                        /\ upstream'[f].closed = upstream[f].closed
                        /\ f # e => upstream'[f] = upstream[f]
    <3> DEFINE x == handler[e].sender_length - handler[e].sender_offset
               y == IF x > Buffered(e) THEN upstream[e].drained ELSE upstream[e].drained + x
    <3>1. upstream' = [upstream EXCEPT ![e].drained = y]
      BY <1>3 DEF Acknowledge, Drained
    <3> HIDE DEF y
    <3> QED BY <1>1, <3>1 DEF UpstreamState
  <2>2. \A f \in Ends : StreamStatus(f)' = StreamStatus(f)
    BY <1>1, <2>1, UnmovedStatus
  <2>3. /\ Peer(e) \in Ends /\ Peer(Peer(e)) = e
        /\ k \in Nat /\ upstream[e].drained \in Nat
        /\ handler[e].sender_offset \in Nat /\ handler[e].sender_length \in Nat
    BY InvProgress, ProgressNext DEF Progress
  <2>4. upstream[e].drained <= k
    <3>1. /\ upstream[e].drained = handler[e].sender_offset
          /\ handler[e].sender_offset <= handler[e].sender_length
      BY DEF Inv, DataInv, SenderInv
    <3>2. /\ k = handler'[e].sender_offset
          /\ handler'[e].sender_offset = handler[e].sender_length
      <4>1. k = handler'[e].sender_offset
        BY DEF Inv, DataInv, SenderInv
      <4>2. handler \in [Ends -> HandlerState]
        BY DEF Inv, TypeOK
      <4>3. handler'[e].sender_offset = handler[e].sender_length
        BY <1>3, <4>2 DEF Acknowledge, HandlerState
      <4> QED BY <4>1, <4>3
    <3> QED BY <2>3, <3>1, <3>2
  <2>5. CASE k = upstream[e].drained
    <3>1. \A f \in Ends : upstream'[f].drained = upstream[f].drained
      BY <2>1, <2>5
    <3> QED BY <1>1, <2>1, <2>2, <3>1, Hidden DEF StreamStep
  <2>6. CASE k # upstream[e].drained
    <3>1. k <= Len(downstream[Peer(e)].data) /\ Len(downstream[Peer(e)].data) \in Nat
      <4>1. /\ k <= handler'[Peer(e)].receiver_position
            /\ Len(downstream'[Peer(e)].data) = handler'[Peer(e)].receiver_position
            /\ handler'[Peer(e)].receiver_position \in Nat
        BY <2>3, ProgressNext DEF Progress
      <4> QED BY <1>1, <4>1
    <3>2. k \in d[e] + 1 .. Len([f \in Party |-> downstream[f].data][Peer(e)])
      BY <2>3, <2>4, <2>6, <3>1
    <3>3. d' = [d EXCEPT ![e] = k]
      BY <2>1
    <3>4. UNCHANGED <<[f \in Party |-> upstream[f].written],
                      [f \in Party |-> downstream[f].data],
                      [f \in Party |-> StreamStatus(f)]>>
      BY <1>1, <2>1, <2>2
    <3> HIDE DEF k
    <3>5. Stream!Confirm(e)
      BY <3>2, <3>3, <3>4 DEF Stream!Confirm
    <3> QED BY <3>5 DEF StreamStep, Stream!Next
  <2> QED BY <2>5, <2>6
<1>4. p.type = "ack"
  BY DEF ReceiveAck
<1>5. /\ p.length \in Nat /\ handler[e].sender_offset \in Nat
      /\ handler[e].sender_length \in Nat
  BY <1>4, AckPacketType, FieldTypes DEF Incoming, Inv, TypeOK
<1> QED BY <1>2, <1>3, <1>4, <1>5, ArrivingAck DEF ReceiveAck

\* Every step of a handler is one of the abstract stream.
LEMMA HandlerImplements ==
    ASSUME Inv, Inv', NEW e \in Ends, HandlerNext(e)
    PROVE  StreamStep
<1>1. upstream \in [Ends -> UpstreamState]
  BY DEF Inv, TypeOK
<1>2. CASE UNCHANGED <<upstream, downstream, app>>
  BY <1>2, BreakImplements
<1>3. CASE upstream' = ClosedUpstream(e) /\ UNCHANGED <<downstream, app>>
  <2>1. \A f \in Ends : f # e => upstream'[f].closed = upstream[f].closed
    BY <1>3, UpstreamClosed DEF Inv
  <2>2. /\ upstream'[e].closed = TRUE
        /\ \A f \in Ends : /\ upstream'[f].written = upstream[f].written
                          /\ upstream'[f].drained = upstream[f].drained
    BY <1>3, UpstreamClosed DEF Inv
  <2> QED BY <1>3, <2>1, <2>2, BreakImplements
<1>4. CASE UpstreamNotified(e) \/ ShutdownNotified(e) \/ AfterSelect(e)
  <2>1. UNCHANGED <<downstream, app>>
    BY <1>4 DEF UpstreamNotified, ShutdownNotified, AfterSelect
  <2>2. \/ upstream' = upstream
        \/ upstream' = ClosedUpstream(e)
        \/ upstream' = [upstream EXCEPT ![e].notified = FALSE]
        \/ upstream' = [upstream EXCEPT ![e].shutdown_notified = FALSE]
        \/ upstream' = [upstream EXCEPT ![e].waker = FALSE]
    BY <1>4 DEF UpstreamNotified, ShutdownNotified, AfterSelect
  <2>3. ASSUME \/ upstream' = [upstream EXCEPT ![e].notified = FALSE]
               \/ upstream' = [upstream EXCEPT ![e].shutdown_notified = FALSE]
               \/ upstream' = [upstream EXCEPT ![e].waker = FALSE]
        PROVE  \A f \in Ends : /\ upstream'[f].written = upstream[f].written
                               /\ upstream'[f].drained = upstream[f].drained
                               /\ upstream'[f].closed = upstream[f].closed
    <3>1. PICK u \in {[upstream[e] EXCEPT !.notified = FALSE],
                      [upstream[e] EXCEPT !.shutdown_notified = FALSE],
                      [upstream[e] EXCEPT !.waker = FALSE]} :
             upstream' = [upstream EXCEPT ![e] = u]
      BY <2>3
    <3>2. /\ u.written = upstream[e].written /\ u.drained = upstream[e].drained
          /\ u.closed = upstream[e].closed
      BY <1>1 DEF UpstreamState
    <3> QED BY <1>1, <3>1, <3>2
  <2> QED BY <1>2, <1>3, <2>1, <2>2, <2>3, BreakImplements
<1>5. CASE Accept(e) \/ Exit(e) \/ SendPacket(e) \/ Retransmit(e)
  BY <1>2, <1>5 DEF Accept, Exit, SendPacket, Retransmit
<1>6. CASE Expire(e)
  BY <1>3, <1>6 DEF Expire
<1>7. ASSUME NEW p \in Incoming(e), ReceiveClose(e, p) \/ ReceiveConnect(e, p)
      PROVE  StreamStep
  BY <1>2, <1>3, <1>7 DEF ReceiveClose, ReceiveConnect
<1> QED BY <1>4, <1>5, <1>6, <1>7, AppendImplements, AckImplements DEF HandlerNext, Receive

-----------------------------------------------------------------------------

\* The initial states map to the abstract ones.
LEMMA InitImplements == Init => Stream!Init
<1> SUFFICES ASSUME Init
             PROVE  Stream!Init
  OBVIOUS
<1>1. \A e \in Ends : /\ upstream[e].written = 0 /\ upstream[e].drained = 0
                      /\ downstream[e].data = <<>> /\ StreamStatus(e) = "open"
  BY DEF Init, EndpointInit, InitUpstream, StreamStatus
<1> QED BY <1>1 DEF Stream!Init

\* Every step of the session is one of the abstract stream, or a stutter.
LEMMA NextImplements ==
    ASSUME Inv, Inv', [Next]_vars
    PROVE  StreamStep
<1>1. CASE UNCHANGED <<upstream, downstream, app>>
  <2>1. \A f \in Ends : StreamStatus(f)' = StreamStatus(f)
    BY <1>1 DEF StreamStatus
  <2> QED BY <1>1, <2>1, Hidden DEF StreamStep
<1>2. ASSUME NEW p \in net, Lose(p)
      PROVE  StreamStep
  BY <1>1, <1>2 DEF Lose
<1>3. CASE UNCHANGED vars
  BY <1>1, <1>3 DEF vars
<1> QED BY <1>2, <1>3, HandlerImplements, AppImplements, AppsAssumption DEF Next

\* The two handlers, with their buffers, wakers and retransmissions, implement
\* a pair of reliable in-order streams, each of which may break.
THEOREM Refinement == Spec => ImplementsStream
<1>1. Inv /\ Inv' /\ [Next]_vars => [Stream!Next]_(Stream!vars)
  BY NextImplements DEF StreamStep
<1> QED BY <1>1, InitImplements, Invariance, PTL DEF Spec, ImplementsStream, Stream!Spec
=============================================================================
