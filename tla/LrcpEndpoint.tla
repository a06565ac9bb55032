---------------------------- MODULE LrcpEndpoint ----------------------------
(***************************************************************************)
(* One end of an LRCP session: the `lrcp_handler` task, the `Stream` the   *)
(* application holds, and the two mutex-protected halves they share        *)
(* (src/rust/p07-line-reversal/src/lrcp/protocol.rs).                      *)
(*                                                                         *)
(* A byte is represented by its offset in the stream its writer wrote, so  *)
(* a range of bytes is a pair (first, len) and the contents of a stream    *)
(* that arrived in order are 0, 1, 2, ...                                  *)
(*                                                                         *)
(* The network is the set of packets in flight, any of which may be        *)
(* received next (reordering).  If it is not Lossy it keeps them all, so   *)
(* that a packet may be received once, again and again (duplication) or    *)
(* never (loss).  No step needs a packet to be absent, so these are all    *)
(* the behaviours of a network for safety.  For liveness a Lossy network   *)
(* forgets what was lost or received: only sending it again brings it      *)
(* back.  The unbounded channels between the socket tasks and the handler  *)
(* are part of the network.                                                *)
(***************************************************************************)
EXTENDS Integers, Sequences

CONSTANTS
    Ends,        \* the parties that run this code
    MaxBytes,    \* MaxBytes[e]: how many bytes the application of e may write
    MinPayload,  \* the bytes a payload holds if every one must be escaped
    MaxPayload,  \* the bytes a payload holds if none must be escaped
    Lossy        \* whether the network forgets packets

Party == {"client", "server"}

ASSUME EndsAssumption == Ends \subseteq Party
ASSUME BytesAssumption == MaxBytes \in [Party -> Nat]
ASSUME LossyAssumption == Lossy \in BOOLEAN
ASSUME PayloadAssumption ==
    /\ MinPayload \in Nat \ {0}
    /\ MaxPayload \in Nat
    /\ MinPayload <= MaxPayload

VARIABLES
    handler,     \* the local variables of lrcp_handler, one record per end
    upstream,    \* StreamUpstreamPart and the permits of its two Notify
    downstream,  \* StreamDownstreamPart; data keeps what was already read
    app,         \* what the task that writes to the Stream is doing
    net          \* the packets in flight

vars == <<handler, upstream, downstream, app, net>>

Peer(e) == IF e = "client" THEN "server" ELSE "client"

-----------------------------------------------------------------------------
(* Packets *)

Connect(e) == [from |-> e, type |-> "connect"]
Data(e, pos, first, len) ==
    [from |-> e, type |-> "data", pos |-> pos, first |-> first, len |-> len]
Ack(e, length) == [from |-> e, type |-> "ack", length |-> length]
Close(e) == [from |-> e, type |-> "close"]
NoPacket == [from |-> "nobody", type |-> "none"]

Packet ==
    [from : Party, type : {"connect", "close"}]
      \cup [from : Party, type : {"data"}, pos : Nat, first : Nat, len : Nat]
      \cup [from : Party, type : {"ack"}, length : Nat]

\* What e can receive: everything in flight that e did not send itself.
Incoming(e) == {p \in net : p.from = Peer(e)}

\* The bytes first, first+1, ..., of a payload of len bytes.
Bytes(first, len) == [i \in 1..len |-> first + i - 1]

-----------------------------------------------------------------------------
(* The state of a session *)

\* The types of the shared state and of the locals of lrcp_handler.
HandlerState ==
    [pc : {"absent", "select", "tail", "done"}, closing : BOOLEAN, closed : BOOLEAN,
     need_ack : BOOLEAN, receiver_position : Nat, sender_offset : Nat,
     sender_length : Nat, send_packet : Packet \cup {NoPacket},
     last_packet_sent : Packet \cup {NoPacket}]

UpstreamState ==
    [written : Nat, drained : Nat, closed : BOOLEAN, waker : BOOLEAN,
     shutdown_waker : BOOLEAN, notified : BOOLEAN, shutdown_notified : BOOLEAN]

DownstreamState == [data : Seq(Nat), read : Nat, waker : BOOLEAN]

AppState == {"idle", "registering", "flushing", "flushed", "shutting", "shut", "dropped"}

InitHandler(e) ==
    LET connecting == e = "client" IN
    [pc                |-> IF connecting THEN "select" ELSE "absent",
     closing           |-> FALSE,
     closed            |-> FALSE,
     need_ack          |-> connecting,
     receiver_position |-> 0,
     sender_offset     |-> 0,
     sender_length     |-> 0,
     send_packet       |-> IF connecting THEN Connect(e) ELSE NoPacket,
     last_packet_sent  |-> IF connecting THEN Connect(e) ELSE NoPacket]

InitUpstream ==
    [written |-> 0, drained |-> 0, closed |-> FALSE,
     waker |-> FALSE, shutdown_waker |-> FALSE,
     notified |-> FALSE, shutdown_notified |-> FALSE]

EndpointInit ==
    /\ handler = [e \in Ends |-> InitHandler(e)]
    /\ upstream = [e \in Ends |-> InitUpstream]
    /\ downstream = [e \in Ends |-> [data |-> <<>>, read |-> 0, waker |-> FALSE]]
    /\ app = [e \in Ends |-> "idle"]
    /\ net = {}

\* upstream.buffer: the bytes written and not yet acknowledged.
Buffered(e) == upstream[e].written - upstream[e].drained

\* downstream.buffer: the bytes received and not yet read.
Unread(e) == Len(downstream[e].data) - downstream[e].read

-----------------------------------------------------------------------------
(* The application: polls of the Stream *)

\* The application has a Stream, and is not waiting inside one of its polls.
Free(e) == handler[e].pc # "absent" /\ app[e] \in {"idle", "flushed"}

\* A bug: a stream that was closed takes more bytes.
WriteWhenClosed(e) ==
    /\ Free(e)
    /\ \E n \in 1 .. MaxBytes[e] - upstream[e].written :
          upstream' = [upstream EXCEPT ![e].written = @ + n]
    /\ app' = [app EXCEPT ![e] = "idle"]
    /\ UNCHANGED <<handler, downstream, net>>

PollWrite(e) ==
    /\ Free(e)
    /\ ~upstream[e].closed
    /\ \E n \in 1 .. MaxBytes[e] - upstream[e].written :
          upstream' = [upstream EXCEPT ![e].written = @ + n]
    /\ app' = [app EXCEPT ![e] = "idle"]
    /\ UNCHANGED <<handler, downstream, net>>

\* A bug: flush returns when everything was sent, acknowledged or not.
FlushWhenSent(e) ==
    /\ \/ Free(e)
       \/ app[e] = "flushing" /\ ~upstream[e].waker
    /\ app' = [app EXCEPT ![e] =
                 IF handler[e].sender_length = upstream[e].written THEN "flushed"
                                                                  ELSE "registering"]
    /\ UNCHANGED <<handler, upstream, downstream, net>>

\* The first lock of poll_flush: nothing buffered, or go on to register.
PollFlush(e) ==
    /\ \/ Free(e)
       \/ app[e] = "flushing" /\ ~upstream[e].waker    \* woken: polled again
    /\ app' = [app EXCEPT ![e] = IF Buffered(e) = 0 THEN "flushed" ELSE "registering"]
    /\ UNCHANGED <<handler, upstream, downstream, net>>

\* The second lock of poll_flush; the handler may have run since the first.
RegisterFlush(e) ==
    /\ app[e] = "registering"
    /\ \/ /\ upstream[e].closed
          /\ app' = [app EXCEPT ![e] = "flushed"]
          /\ UNCHANGED upstream
       \/ /\ ~upstream[e].closed
          /\ app' = [app EXCEPT ![e] = "flushing"]
          /\ upstream' = [upstream EXCEPT ![e].waker = TRUE, ![e].notified = TRUE]
    /\ UNCHANGED <<handler, downstream, net>>

PollShutdown(e) ==
    /\ \/ Free(e)
       \/ app[e] = "shutting" /\ ~upstream[e].shutdown_waker
    /\ \/ /\ upstream[e].closed
          /\ app' = [app EXCEPT ![e] = "shut"]
          /\ UNCHANGED upstream
       \/ /\ ~upstream[e].closed
          /\ app' = [app EXCEPT ![e] = "shutting"]
          /\ upstream' = [upstream EXCEPT ![e].shutdown_waker = TRUE,
                                          ![e].shutdown_notified = TRUE]
    /\ UNCHANGED <<handler, downstream, net>>

\* poll_read; nothing ever sets downstream.closed, so it has no third outcome.
PollRead(e) ==
    /\ handler[e].pc # "absent" /\ app[e] # "dropped"
    /\ ~downstream[e].waker
    /\ \/ \E n \in 1 .. Unread(e) :
             downstream' = [downstream EXCEPT ![e].read = @ + n]
       \/ /\ Unread(e) = 0
          /\ downstream' = [downstream EXCEPT ![e].waker = TRUE]
    /\ UNCHANGED <<handler, upstream, app, net>>

\* Dropping the Stream leaves a permit in exit_notify.
DropStream(e) ==
    /\ Free(e) \/ app[e] = "shut"
    /\ app' = [app EXCEPT ![e] = "dropped"]
    /\ UNCHANGED <<handler, upstream, downstream, net>>

-----------------------------------------------------------------------------
(* The handler: one action per branch of its select!, each of which leaves *)
(* pc at "tail" (or "done" when the branch breaks), and AfterSelect for    *)
(* the code that follows the select!.  The two take the upstream lock      *)
(* separately, and the application may poll the Stream in between.         *)

\* Continue with the code after the select!.
ToTail(e) == handler' = [handler EXCEPT ![e].pc = "tail"]

Send(p) == net' = net \cup {p}

\* What remains in flight when p is received.
Rest(p) == IF Lossy THEN net \ {p} ELSE net

Reply(p, q) == net' = Rest(p) \cup {q}
NoReply(p) == net' = Rest(p)

\* A bug: the task that shuts the stream down is not woken.
ClosedSilently(e) == [upstream EXCEPT ![e].closed = TRUE, ![e].waker = FALSE]

\* upstream.closed = true, and both wakers are woken.
ClosedUpstream(e) ==
    [upstream EXCEPT ![e].closed = TRUE, ![e].waker = FALSE, ![e].shutdown_waker = FALSE]

\* Connection::new, for the first packet of a session the listener sees.
Accept(e) ==
    /\ handler[e].pc = "absent"
    /\ Incoming(e) # {}
    /\ handler' = [handler EXCEPT ![e].pc = "select"]
    /\ UNCHANGED <<upstream, downstream, app, net>>

Exit(e) ==
    /\ handler[e].pc = "select"
    /\ app[e] = "dropped"
    /\ handler' = [handler EXCEPT ![e].pc = "done"]
    /\ UNCHANGED <<upstream, downstream, app, net>>

UpstreamNotified(e) ==
    /\ handler[e].pc = "select" /\ ~handler[e].closed
    /\ upstream[e].notified
    /\ upstream' = [upstream EXCEPT ![e].notified = FALSE]
    /\ ToTail(e)
    /\ UNCHANGED <<downstream, app, net>>

ShutdownNotified(e) ==
    /\ handler[e].pc = "select" /\ ~handler[e].closed
    /\ upstream[e].shutdown_notified
    /\ upstream' = [upstream EXCEPT ![e].shutdown_notified = FALSE]
    /\ handler' = [handler EXCEPT ![e].pc = "tail", ![e].closing = TRUE]
    /\ UNCHANGED <<downstream, app, net>>

\* send_packet.is_some() && !closed
Sending(e) == handler[e].send_packet # NoPacket /\ ~handler[e].closed

\* A bug: the packet is not kept for a retransmission.
SendAndForget(e) ==
    /\ handler[e].pc = "select" /\ Sending(e)
    /\ Send(handler[e].send_packet)
    /\ handler' = [handler EXCEPT ![e].pc = "tail",
                                  ![e].send_packet = NoPacket,
                                  ![e].closed = handler[e].closing]
    /\ UNCHANGED <<upstream, downstream, app>>

SendPacket(e) ==
    /\ handler[e].pc = "select" /\ Sending(e)
    /\ Send(handler[e].send_packet)
    /\ handler' = [handler EXCEPT ![e].pc = "tail",
                                  ![e].last_packet_sent = handler[e].send_packet,
                                  ![e].send_packet = NoPacket,
                                  ![e].closed = handler[e].closing]
    /\ UNCHANGED <<upstream, downstream, app>>

\* A bug: what was received before is received again.
AllBytes(e, p) == p.len

\* The bytes of p that the receiver does not have yet.
NewBytes(e, p) ==
    IF p.pos + p.len > handler[e].receiver_position
      THEN p.pos + p.len - handler[e].receiver_position
      ELSE 0

\* A bug: the ack counts the payload, and not what was new of it.
AckWholePayload(e, p) ==
    LET new  == NewBytes(e, p)
        skip == handler[e].receiver_position - p.pos
    IN /\ handler' = [handler EXCEPT ![e].pc = "tail", ![e].receiver_position = @ + new]
       /\ downstream' = [downstream EXCEPT
                           ![e].data  = @ \o Bytes(p.first + skip, new),
                           ![e].waker = @ /\ new = 0]
       /\ Reply(p, Ack(e, handler[e].receiver_position + p.len))

AppendData(e, p) ==
    LET new  == NewBytes(e, p)
        skip == handler[e].receiver_position - p.pos
    IN /\ handler' = [handler EXCEPT ![e].pc = "tail", ![e].receiver_position = @ + new]
       /\ downstream' = [downstream EXCEPT
                           ![e].data  = @ \o Bytes(p.first + skip, new),
                           ![e].waker = @ /\ new = 0]
       /\ Reply(p, Ack(e, handler[e].receiver_position + new))

\* closed || closing: anything but a close is answered with a close.
Refusing(e) == handler[e].closing \/ handler[e].closed

ReceiveData(e, p) ==
    /\ handler[e].pc = "select" /\ p \in Incoming(e) /\ p.type = "data"
    /\ \/ /\ Refusing(e)
          /\ Reply(p, Close(e)) /\ ToTail(e) /\ UNCHANGED downstream
       \/ /\ ~Refusing(e) /\ p.pos <= handler[e].receiver_position
          /\ AppendData(e, p)
       \/ /\ ~Refusing(e) /\ p.pos > handler[e].receiver_position
          /\ ToTail(e) /\ UNCHANGED downstream /\ NoReply(p)
    /\ UNCHANGED <<upstream, app>>

\* upstream.buffer.drain(..n), unless the buffer holds less than that.
Drained(e, n) ==
    [upstream EXCEPT ![e].drained = IF n > Buffered(e) THEN @ ELSE @ + n]

\* A bug: an ack of a part of the payload drops all of it.
AcknowledgeWhole(e, length) ==
    /\ upstream' = Drained(e, handler[e].sender_length - handler[e].sender_offset)
    /\ handler' = [handler EXCEPT ![e].pc = "tail",
                                  ![e].sender_offset = length,
                                  ![e].sender_length = length,
                                  ![e].need_ack = FALSE]

Acknowledge(e, length) ==
    /\ upstream' = Drained(e, length - handler[e].sender_offset)
    /\ handler' = [handler EXCEPT ![e].pc = "tail",
                                  ![e].sender_offset = length,
                                  ![e].sender_length = length,
                                  ![e].need_ack = FALSE]

ReceiveAck(e, p) ==
    /\ handler[e].pc = "select" /\ p \in Incoming(e) /\ p.type = "ack"
    /\ \/ /\ Refusing(e)
          /\ Reply(p, Close(e)) /\ ToTail(e) /\ UNCHANGED upstream
       \/ /\ ~Refusing(e)
          /\ \/ p.length = handler[e].sender_length
             \/ /\ p.length < handler[e].sender_length
                /\ p.length > handler[e].sender_offset
          /\ Acknowledge(e, p.length) /\ NoReply(p)
       \/ /\ ~Refusing(e)                               \* too old
          /\ p.length < handler[e].sender_length /\ p.length <= handler[e].sender_offset
          /\ ToTail(e) /\ UNCHANGED upstream /\ NoReply(p)
       \/ /\ ~Refusing(e) /\ p.length > handler[e].sender_length
          /\ handler' = [handler EXCEPT ![e].pc = "tail", ![e].closing = TRUE]
          /\ UNCHANGED upstream /\ NoReply(p)
    /\ UNCHANGED <<downstream, app>>

ReceiveClose(e, p) ==
    /\ handler[e].pc = "select" /\ p \in Incoming(e) /\ p.type = "close"
    /\ \/ /\ handler[e].closing /\ handler[e].closed
          /\ ToTail(e) /\ UNCHANGED upstream /\ NoReply(p)
       \/ /\ handler[e].closing /\ ~handler[e].closed
          /\ Reply(p, Close(e))
          /\ handler' = [handler EXCEPT ![e].pc = "tail", ![e].closed = TRUE]
          /\ UNCHANGED upstream
       \/ /\ ~handler[e].closing
          /\ Reply(p, Close(e))
          /\ upstream' = ClosedUpstream(e)
          /\ handler' = [handler EXCEPT ![e].pc = "done"]
    /\ UNCHANGED <<downstream, app>>

\* The end that started the connection ignores the packet.
ReceiveConnect(e, p) ==
    /\ handler[e].pc = "select" /\ p \in Incoming(e) /\ p.type = "connect"
    /\ IF e = "client" THEN NoReply(p) ELSE Reply(p, Ack(e, 0))
    /\ ToTail(e)
    /\ UNCHANGED <<upstream, downstream, app>>

\* The timer of the select! starts when the loop comes back to it, and a
\* packet to send is sent at the first poll: the timer cannot fire first.
TimerFires(e) == handler[e].pc = "select" /\ ~Sending(e)

\* The timer is RETRASMISSION_TIMEOUT exactly when need_ack is set.
Retransmit(e) ==
    /\ TimerFires(e) /\ handler[e].need_ack
    /\ handler' = [handler EXCEPT
                     ![e].pc = "tail",
                     ![e].send_packet = IF handler[e].last_packet_sent = NoPacket
                                          THEN @ ELSE handler[e].last_packet_sent,
                     ![e].last_packet_sent = NoPacket]
    /\ UNCHANGED <<upstream, downstream, app, net>>

\* Nothing was received for SESSION_EXPIRE_TIMEOUT.
Expire(e) ==
    /\ TimerFires(e)
    /\ Send(Close(e))
    /\ upstream' = ClosedUpstream(e)
    /\ handler' = [handler EXCEPT ![e].pc = "done"]
    /\ UNCHANGED <<downstream, app>>

\* Payload::new: how many bytes fit depends on how many must be escaped.
PayloadSizes(e) ==
    {n \in 1 .. Buffered(e) : n <= MaxPayload /\ (n < Buffered(e) => n >= MinPayload)}

\* A bug: what was sent is not counted.
UncountedPayload(e) == \E n \in PayloadSizes(e) :
    handler' = [handler EXCEPT
                  ![e].pc = "select",
                  ![e].send_packet = Data(e, handler[e].sender_offset, upstream[e].drained, n),
                  ![e].need_ack = TRUE]

NextPayload(e) == \E n \in PayloadSizes(e) :
    handler' = [handler EXCEPT
                  ![e].pc = "select",
                  ![e].send_packet = Data(e, handler[e].sender_offset, upstream[e].drained, n),
                  ![e].sender_length = @ + n,
                  ![e].need_ack = TRUE]

\* The code after the select!.
AfterSelect(e) ==
    /\ handler[e].pc = "tail"
    /\ \/ /\ handler[e].need_ack \/ handler[e].send_packet # NoPacket
          /\ handler' = [handler EXCEPT ![e].pc = "select"]
          /\ UNCHANGED upstream
       \/ /\ ~handler[e].need_ack /\ handler[e].send_packet = NoPacket
          /\ \/ /\ handler[e].closing /\ handler[e].closed
                /\ upstream' = ClosedUpstream(e)
                /\ handler' = [handler EXCEPT ![e].pc = "select"]
             \/ /\ handler[e].closing /\ ~handler[e].closed
                /\ handler' = [handler EXCEPT ![e].pc = "select", ![e].send_packet = Close(e)]
                /\ UNCHANGED upstream
             \/ /\ ~handler[e].closing
                /\ NextPayload(e)
                /\ UNCHANGED upstream
             \/ /\ ~handler[e].closing /\ Buffered(e) = 0
                /\ upstream' = [upstream EXCEPT ![e].waker = FALSE]
                /\ handler' = [handler EXCEPT ![e].pc = "select"]
    /\ UNCHANGED <<downstream, app, net>>

\* The network drops a packet, or delivers it to a session that has ended (the
\* listener, or the closed channel, then discards it).
Lose(p) ==
    /\ Lossy
    /\ net' = net \ {p}
    /\ UNCHANGED <<handler, upstream, downstream, app>>

AppNext(e) ==
    \/ PollWrite(e) \/ PollFlush(e) \/ RegisterFlush(e) \/ PollShutdown(e)
    \/ PollRead(e) \/ DropStream(e)

Receive(e, p) ==
    ReceiveData(e, p) \/ ReceiveAck(e, p) \/ ReceiveClose(e, p) \/ ReceiveConnect(e, p)

HandlerNext(e) ==
    \/ Accept(e) \/ Exit(e) \/ UpstreamNotified(e) \/ ShutdownNotified(e)
    \/ SendPacket(e) \/ (\E p \in Incoming(e) : Receive(e, p))
    \/ Retransmit(e) \/ Expire(e) \/ AfterSelect(e)
=============================================================================
