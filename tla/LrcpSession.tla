----------------------------- MODULE LrcpSession ----------------------------
(***************************************************************************)
(* An LRCP session between two ends that both run lrcp_handler: a client   *)
(* made by Socket::connect and a server stream made by the listener, over  *)
(* a network that loses, duplicates and reorders packets.                  *)
(***************************************************************************)
EXTENDS LrcpEndpoint

CONSTANT Apps  \* the ends whose application uses its Stream, and not just holds it

ASSUME BothEnds == Ends = Party
ASSUME AppsAssumption == Apps \subseteq Ends

Init == EndpointInit

\* A packet that reached an end is lost before its handler looks at its
\* channel or after, not during the rest of the loop.
Next ==
    \/ \E e \in Ends : HandlerNext(e)
    \/ \E e \in Apps : AppNext(e)
    \/ \E p \in net : handler[Peer(p.from)].pc # "tail" /\ Lose(p)

Spec == Init /\ [][Next]_vars

-----------------------------------------------------------------------------
(* Types *)

\* Type correctness of the shared state and of every local of lrcp_handler.
TypeOK ==
    /\ handler \in [Ends -> HandlerState]
    /\ upstream \in [Ends -> UpstreamState]
    /\ downstream \in [Ends -> DownstreamState]
    /\ app \in [Ends -> AppState]
    /\ net \subseteq Packet

-----------------------------------------------------------------------------
(* Safety *)

\* The bytes received are the first bytes the peer wrote, in order, none
\* missing and none twice, whatever the network does.
DeliveredInOrder == \A e \in Ends :
    /\ downstream[e].data = Bytes(0, Len(downstream[e].data))
    /\ Len(downstream[e].data) <= upstream[Peer(e)].written

\* The sender drops from its buffer only bytes that the receiver has.
DrainedIsDelivered == \A e \in Ends :
    upstream[e].drained <= Len(downstream[Peer(e)].data)

\* When flush returns, the peer has every byte written, unless the session
\* was closed under the writer.
FlushedIsDelivered == \A e \in Ends :
    app[e] = "flushed" /\ ~upstream[e].closed =>
        Len(downstream[Peer(e)].data) = upstream[e].written

\* Two ends that run this code never take each other for misbehaving: a
\* handler starts closing only because its application asked for it.
ClosingIsRequested == \A e \in Ends :
    handler[e].closing => app[e] \in {"shutting", "shut", "dropped"}

\* A handler that ends, by a close, by its expiry or with its Stream, leaves nobody
\* asleep in a flush or a shutdown, and nobody falls asleep there afterwards.  Readers
\* have no such promise (see ReadersAreReleased): they do not sleep on bytes they could
\* read, and that is all.
WritersAreReleased == \A e \in Ends :
    /\ handler[e].pc = "done" => ~upstream[e].waker /\ ~upstream[e].shutdown_waker
    /\ downstream[e].waker => Unread(e) = 0

\* Not so: downstream.closed is never set, and the waker of a reader is taken only when
\* data comes (protocol.rs:87-92, 299).  A reader that waits when the handler ends, or that
\* comes later, waits for ever.
ReadersAreReleased == \A e \in Ends :
    handler[e].pc = "done" /\ app[e] # "dropped" => ~downstream[e].waker

\* Only the payload that is being retransmitted can still bring new bytes:
\* two data packets in flight that both do are the same packet.
OneOutstanding == \A e \in Ends : \A p, q \in net :
    /\ p.from = e /\ q.from = e /\ p.type = "data" /\ q.type = "data"
    /\ p.pos + p.len > handler[Peer(e)].receiver_position
    /\ q.pos + q.len > handler[Peer(e)].receiver_position
    => p = q

-----------------------------------------------------------------------------
(* Actions *)

\* A handler that has sent its close, or has ended, takes no more data and
\* sends nothing but closes; a connect is still answered with an ack of 0.
SilentOnceClosed == [][\A e \in Ends :
    handler[e].closed \/ handler[e].pc = "done" =>
        /\ downstream'[e].data = downstream[e].data
        /\ {p \in net' \ net : p.from = e} \subseteq {Close(e), Ack(e, 0)}]_vars

-----------------------------------------------------------------------------
(* The two ends implement a pair of reliable streams. *)

StreamStatus(e) ==
    CASE upstream[e].closed -> "broken"
      [] ~upstream[e].closed /\ app[e] = "flushed" -> "flushed"
      [] OTHER -> "open"

Stream == INSTANCE LrcpStream WITH
    written   <- [e \in Party |-> upstream[e].written],
    received  <- [e \in Party |-> downstream[e].data],
    confirmed <- [e \in Party |-> upstream[e].drained],
    status    <- [e \in Party |-> StreamStatus(e)]

\* lrcp_handler, run by both ends, implements the abstract streams.
ImplementsStream == Stream!Spec

-----------------------------------------------------------------------------
(* The inductive invariant the safety properties follow from. *)

\* What e still keeps of a stream is what has not been acknowledged, and it
\* waits for an acknowledgement as long as there is any.
SenderInv(e) ==
    /\ handler[e].sender_offset = upstream[e].drained
    /\ handler[e].sender_offset <= handler[e].sender_length
    /\ handler[e].sender_length <= upstream[e].written
    /\ ~handler[e].need_ack => handler[e].sender_offset = handler[e].sender_length

\* The receiver has everything that was acknowledged, and at most the
\* payload under way in addition.
ReceiverInv(e) ==
    /\ downstream[e].data = Bytes(0, handler[e].receiver_position)
    /\ handler[e].receiver_position
         \in {handler[Peer(e)].sender_offset, handler[Peer(e)].sender_length}

\* A data packet, sent or about to be sent, holds the bytes its position
\* names, and is either acknowledged or the payload under way.
PacketInv(e, p) ==
    /\ p.type = "data" =>
          /\ p.first = p.pos
          /\ p.len > 0
          /\ \/ p.pos + p.len <= handler[e].sender_offset
             \/ /\ p.pos = handler[e].sender_offset
                /\ p.pos + p.len = handler[e].sender_length
    /\ p.type = "ack" =>
          /\ p.length <= handler[e].receiver_position
          /\ \/ p.length <= handler[Peer(e)].sender_offset
             \/ p.length = handler[Peer(e)].sender_length

\* A packet the handler is about to send, or may send again.
HeldInv(e, p) ==
    p # NoPacket => p.from = e /\ p.type # "ack" /\ PacketInv(e, p)

\* Where the application's tasks are, against the wakers and the handler.
AppInv(e) ==
    /\ handler[e].closed => handler[e].closing
    /\ handler[e].closing \/ upstream[e].shutdown_notified =>
          app[e] \in {"shutting", "shut", "dropped"}
    /\ upstream[e].waker => app[e] = "flushing"
    /\ upstream[e].shutdown_waker => app[e] = "shutting"
    /\ upstream[e].closed => ~upstream[e].waker /\ ~upstream[e].shutdown_waker
    /\ handler[e].pc = "done" => upstream[e].closed \/ app[e] = "dropped"
    /\ app[e] = "flushed" => upstream[e].closed \/ Buffered(e) = 0
    /\ downstream[e].waker => Unread(e) = 0

DataInv ==
    /\ \A e \in Ends :
          /\ SenderInv(e)
          /\ ReceiverInv(e)
          /\ HeldInv(e, handler[e].send_packet)
          /\ HeldInv(e, handler[e].last_packet_sent)
    /\ \A p \in net : PacketInv(p.from, p)

Inv ==
    /\ TypeOK
    /\ DataInv
    /\ \A e \in Ends : AppInv(e)

-----------------------------------------------------------------------------
(* Liveness, on a network that may lose each packet but not every copy *)

\* An end that sends nothing any more of its own accord.
Silent(e) == handler[e].pc \in {"absent", "done"} \/ handler[e].closed

\* Tasks that can run do run; of the packets that are sent again and again
\* one is received; an end whose peer has stopped talking expires in the end.
HandlerFairness(e) ==
    /\ WF_vars(AfterSelect(e)) /\ WF_vars(SendPacket(e)) /\ WF_vars(Retransmit(e))
    /\ SF_vars(Accept(e) \/ \E p \in net : Receive(e, p))
    /\ SF_vars(Expire(e) /\ Silent(Peer(e)))

AppFairness(e) ==
    /\ WF_vars(UpstreamNotified(e)) /\ WF_vars(ShutdownNotified(e))
    /\ WF_vars(RegisterFlush(e))
    /\ WF_vars(app[e] = "flushing" /\ PollFlush(e))
    /\ WF_vars(app[e] = "shutting" /\ PollShutdown(e))

LiveSpec ==
    /\ Spec
    /\ \A e \in Ends : HandlerFairness(e)
    /\ \A e \in Apps : AppFairness(e)

\* A pending flush returns: every lost data packet, ack and wake-up is made
\* up for by a retransmission, or the session ends and wakes the writer.
FlushReturns == \A e \in Ends : app[e] = "flushing" ~> app[e] = "flushed"

\* A pending shutdown returns, at the latest when the session expires.
ShutdownReturns == \A e \in Ends : app[e] = "shutting" ~> app[e] = "shut"
=============================================================================
