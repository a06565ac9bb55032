----------------------------- MODULE LrcpServer -----------------------------
(***************************************************************************)
(* The server's end of a session with a client that does not run this code *)
(* but follows the protocol (src/rust/p07-line-reversal/src/lib.rs:26-199):*)
(* it cuts its stream into overlapping payloads as it likes, sends several *)
(* before the first is acknowledged, and may take part of a payload.       *)
(***************************************************************************)
EXTENDS LrcpEndpoint

CONSTANT Restarted  \* whether the server was restarted during the session

ASSUME ServerOnly == Ends = {"server"}
ASSUME RestartedAssumption == Restarted \in BOOLEAN

VARIABLE peer  \* what the client knows

peerVars == <<vars, peer>>

\* The client of a restarted server believes its session to be open.
Init ==
    /\ EndpointInit
    /\ peer = [connected |-> Restarted, sent |-> 0, acked |-> 0, received |-> 0,
               closing |-> FALSE, answered |-> FALSE]

-----------------------------------------------------------------------------
(* The client *)

PeerConnect ==
    /\ ~peer.connected /\ ~peer.closing
    /\ Send(Connect("client"))
    /\ UNCHANGED <<handler, upstream, downstream, app, peer>>

\* Data that is not acknowledged yet, sent for the first time or again.
PeerSendData ==
    /\ peer.connected /\ ~peer.closing
    /\ \E pos \in peer.acked .. peer.sent : \E len \in 1 .. MaxBytes["client"] - pos :
          /\ len <= MaxPayload
          /\ Send(Data("client", pos, pos, len))
          /\ peer' = [peer EXCEPT !.sent = IF pos + len > @ THEN pos + len ELSE @]
    /\ UNCHANGED <<handler, upstream, downstream, app>>

PeerReceiveAck == \E p \in net :
    /\ p.from = "server" /\ p.type = "ack" /\ ~peer.closing
    /\ peer' = [peer EXCEPT !.connected = TRUE,
                            !.acked = IF p.length > @ THEN p.length ELSE @]
    /\ NoReply(p)
    /\ UNCHANGED <<handler, upstream, downstream, app>>

\* The client says how much it has; it need not have room for all of p.
PeerReceiveData == \E p \in net :
    /\ p.from = "server" /\ p.type = "data" /\ ~peer.closing
    /\ \/ /\ p.pos <= peer.received
          /\ \E n \in peer.received .. p.pos + p.len :
                /\ peer' = [peer EXCEPT !.received = n]
                /\ Reply(p, Ack("client", n))
       \/ /\ p.pos + p.len <= peer.received \/ p.pos > peer.received
          /\ Reply(p, Ack("client", peer.received))
          /\ UNCHANGED peer
    /\ UNCHANGED <<handler, upstream, downstream, app>>

\* Closing: the close is sent until it is answered.
PeerClose ==
    /\ peer.connected /\ ~peer.answered
    /\ Send(Close("client"))
    /\ peer' = [peer EXCEPT !.closing = TRUE]
    /\ UNCHANGED <<handler, upstream, downstream, app>>

PeerReceiveClose == \E p \in net :
    /\ p.from = "server" /\ p.type = "close"
    /\ IF peer.closing THEN NoReply(p) ELSE Reply(p, Close("client"))
    /\ peer' = [peer EXCEPT !.closing = TRUE, !.answered = TRUE]
    /\ UNCHANGED <<handler, upstream, downstream, app>>

PeerNext ==
    \/ PeerConnect \/ PeerSendData \/ PeerReceiveAck
    \/ PeerReceiveData \/ PeerClose \/ PeerReceiveClose

-----------------------------------------------------------------------------

Next ==
    \/ (HandlerNext("server") \/ AppNext("server")) /\ UNCHANGED peer
    \/ PeerNext

Spec == Init /\ [][Next]_peerVars

-----------------------------------------------------------------------------
(* Safety *)

PeerState ==
    [connected : BOOLEAN, sent : Nat, acked : Nat, received : Nat,
     closing : BOOLEAN, answered : BOOLEAN]

\* Type correctness of the server's end, the client's state and the packets they
\* exchange.
TypeOK ==
    /\ handler \in [Ends -> HandlerState]
    /\ upstream \in [Ends -> UpstreamState]
    /\ downstream \in [Ends -> DownstreamState]
    /\ app \in [Ends -> AppState]
    /\ peer \in PeerState
    /\ net \subseteq Packet

\* However the client cuts its stream, the application gets its bytes in
\* order, none missing and none twice.
ReceivedInOrder ==
    /\ downstream["server"].data = Bytes(0, Len(downstream["server"].data))
    /\ Len(downstream["server"].data) <= peer.sent

\* An acknowledgement never promises bytes the application cannot read.
AcksAreTrue == \A p \in net : p.from = "server" /\ p.type = "ack" =>
    p.length <= Len(downstream["server"].data)

\* A payload starts at the position it is labelled with, and the server
\* keeps every byte the client does not have.
KeptUntilReceived ==
    /\ upstream["server"].drained <= peer.received
    /\ \A p \in net : p.from = "server" /\ p.type = "data" => p.first = p.pos

\* When flush returns the client has every byte, unless the session closed.
FlushedIsReceived ==
    app["server"] = "flushed" /\ ~upstream["server"].closed =>
        peer.received = upstream["server"].written

\* From the client to the application, bytes are in order and acknowledged only
\* when they are there (protocol.rs:291-316), in states of the declared types.
ReceivesReliably == TypeOK /\ ReceivedInOrder /\ AcksAreTrue

\* From the application to the client, bytes are kept until they are received,
\* and flush waits for it (protocol.rs:119-145, 322-372).
SendsReliably == KeptUntilReceived /\ FlushedIsReceived

-----------------------------------------------------------------------------
(* What the protocol asks of a server (lib.rs:124-199) *)

\* "If the LENGTH value is larger than the total amount of payload you've
\* sent: the peer is misbehaving, close the session": only then.
OnlyMisbehaviourCloses ==
    handler["server"].closing => app["server"] \in {"shutting", "shut", "dropped"}

\* "If you have not received everything up to POS: send a duplicate of your
\* previous ack": a data packet with a gap before it is answered.
GapIsAcked == [][\A p \in net :
    /\ ReceiveData("server", p) /\ ~Refusing("server")
    /\ p.pos > handler["server"].receiver_position
    => Ack("server", handler["server"].receiver_position) \in net']_peerVars

\* "If the session is not open: send /close/SESSION/ and stop": only a
\* connect opens a session.
OpenedByConnect == [][
    handler["server"].pc = "absent" /\ handler'["server"].pc # "absent"
        => Connect("client") \in net]_peerVars

\* "When you receive a /close/SESSION/ message, send a matching close message
\* back": a client that goes on asking is answered in the end.
CloseIsAnswered == peer.closing ~> peer.answered

\* The server's tasks run; each side's packets get through if it persists, on
\* a network that forgets the others.
FairSpec ==
    /\ Init
    /\ [][Next \/ \E p \in net : Lose(p) /\ UNCHANGED peer]_peerVars
    /\ WF_vars(AfterSelect("server")) /\ WF_vars(SendPacket("server"))
    /\ SF_vars(Accept("server") \/ \E p \in net : Receive("server", p))
    /\ WF_peerVars(PeerClose /\ peer.closing)
    /\ SF_peerVars(PeerReceiveClose)
=============================================================================
