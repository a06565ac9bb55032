-------------------------- MODULE BudgetChatProofs --------------------------
(***************************************************************************)
(* Proofs about BudgetChat, for any number of connections, names and       *)
(* lines, and for both ports: no two connections ever hold the same user   *)
(* name; run is never sent what it does not expect, and a client only in   *)
(* the tokio port, where it panics between its acceptance and its list;    *)
(* and whoever got the list of the room knows who is in it.                *)
(***************************************************************************)
EXTENDS BudgetChat, SequenceTheorems, WellFoundedInduction, TLAPS

\* What OneHolderOfAName says of a table.
Single(table) ==
    \A c, d \in DOMAIN table : table[c] # NoName /\ table[c] = table[d] => c = d

Table(table) ==
    /\ DOMAIN table \subseteq Ids
    /\ table \in [DOMAIN table -> Names \cup {NoName}]
    /\ Single(table)

Inv == TypeOK /\ Single(clients)

-----------------------------------------------------------------------------
(* Types *)

\* What sequences of messages are made of.
LEMMA OneMessage ==
    ASSUME NEW S, NEW e \in S
    PROVE  <<e>> \in Seq(S)
OBVIOUS

\* A queue with one more message.
LEMMA OneMore ==
    ASSUME NEW S, NEW s \in Seq(S), NEW e \in S
    PROVE  Append(s, e) \in Seq(S)
BY AppendProperties

\* A queue without its first message.
LEMMA OneLess ==
    ASSUME NEW S, NEW s \in Seq(S), s # <<>>
    PROVE  Tail(s) \in Seq(S) /\ Head(s) \in S
BY HeadTailProperties

\* Who has joined has a name that is one of Names.
LEMMA JoinedName ==
    ASSUME Inv, NEW c \in Ids, IsJoined(c)
    PROVE  clients[c] \in Names
BY DEF Inv, TypeOK, IsJoined

\* The list of the room is one of names.
LEMMA UsersType ==
    ASSUME Inv, NEW c \in Ids
    PROVE  Users(UsersBut(c)) \in ServerMessage
<1>1. UsersBut(c) \subseteq Names
  BY JoinedName DEF UsersBut, Others
<1> QED
  BY <1>1 DEF Users, ServerMessage

\* The messages without a name, and those about one.
LEMMA MessageType ==
    ASSUME NEW user \in Names
    PROVE  /\ About("AnnounceUser", user) \in ServerMessage
           /\ About("Message", user) \in ServerMessage
           /\ About("Disconnected", user) \in ServerMessage
BY DEF About, ServerMessage

LEMMA PlainType ==
    /\ Plain("Welcome") \in ServerMessage
    /\ Plain("UsernameAccepted") \in ServerMessage
    /\ Plain("UsernameInvalid") \in ServerMessage
BY DEF Plain, ServerMessage

\* What run sends to one client, or to the others.
LEMMA ToType ==
    ASSUME NEW c \in Ids, NEW messages \in Seq(ServerMessage)
    PROVE  To(c, messages) \in [Ids -> Seq(ServerMessage)]
<1>1. <<>> \in Seq(ServerMessage)
  BY EmptySeq
<1> QED
  BY <1>1 DEF To

LEMMA BroadcastType ==
    ASSUME NEW c \in Ids, NEW message \in ServerMessage
    PROVE  Broadcast(c, message) \in [Ids -> Seq(ServerMessage)]
<1>1. <<>> \in Seq(ServerMessage)
  BY EmptySeq
<1>2. <<message>> \in Seq(ServerMessage)
  BY OneMessage
<1> QED
  BY <1>1, <1>2 DEF Broadcast

\* A connection that has not come yet.
LEMMA NoTaskType == NoTasks \in [Ids -> Client]
<1>1. <<>> \in Seq(ServerMessage)
  BY EmptySeq
<1>2. 0 \in 0..MaxMessages
  BY MaxMessagesAssumption
<1> DEFINE inboxes == Seq(ServerMessage)
           lines == 0..MaxMessages
           rooms == SUBSET Names
<1>3. <<>> \in inboxes /\ 0 \in lines /\ {} \in rooms /\ "none" \in States
  BY <1>1, <1>2 DEF States
<1>4. Client = [state : States, inbox : inboxes, room : rooms, said : lines]
  BY DEF Client
<1> HIDE DEF inboxes, lines, rooms
<1> QED
  BY <1>3, <1>4 DEF NoTasks

-----------------------------------------------------------------------------
(* run *)

\* When run is over there is nothing left.
LEMMA EndKeeps ==
    ASSUME Inv, NEW how \in {"closed", "send failed", "panicked"}, End(how), UNCHANGED port
    PROVE  Inv'
<1>1. NoTasks \in [Ids -> Client]
  BY NoTaskType
<1>2. NoClients \in [{} -> Names \cup {NoName}] /\ DOMAIN NoClients = {}
  BY DEF NoClients
<1>3. receiver' \in Seq(ClientMessage)
  BY EmptySeq DEF End
<1> QED
  BY <1>1, <1>2, <1>3 DEF Inv, TypeOK, Single, End

\* A message handled: some are sent something, and the table is a new one.
LEMMA EmitKeeps ==
    ASSUME Inv, NEW sent \in [Ids -> Seq(ServerMessage)], NEW table, Table(table),
           receiver # <<>>, Emit(sent, table), UNCHANGED port
    PROVE  Inv'
<1>1. CASE port = "tokio" /\ \E c \in Ids : Gone(c) /\ sent[c] # <<>>
  BY <1>1, EndKeeps DEF Emit
<1>2. CASE ~(port = "tokio" /\ \E c \in Ids : Gone(c) /\ sent[c] # <<>>)
  <2>1. /\ clients' = table
        /\ receiver' = Tail(receiver)
        /\ client' = [c \in Ids |-> [client[c] EXCEPT !.inbox =
                          IF Gone(c) THEN @ ELSE @ \o sent[c]]]
        /\ UNCHANGED <<server, port>>
    BY <1>2 DEF Emit
  <2>2. receiver' \in Seq(ClientMessage)
    BY <2>1, OneLess DEF Inv, TypeOK
  <2>3. ASSUME NEW c \in Ids
        PROVE  [client[c] EXCEPT !.inbox = IF Gone(c) THEN @ ELSE @ \o sent[c]] \in Client
    <3>1. client[c] \in Client /\ client[c].inbox \in Seq(ServerMessage)
      BY DEF Inv, TypeOK, Client
    <3>2. client[c].inbox \o sent[c] \in Seq(ServerMessage)
      BY <3>1, ConcatProperties
    <3> QED
      BY <3>1, <3>2 DEF Client
  <2>4. client' \in [Ids -> Client]
    BY <2>1, <2>3
  <2> QED
    BY <2>1, <2>2, <2>4 DEF Inv, TypeOK, Table
<1> QED
  BY <1>1, <1>2

\* A message that changes nothing.
LEMMA IgnoreKeeps ==
    ASSUME Inv, receiver # <<>>, Ignore, UNCHANGED port
    PROVE  Inv'
BY OneLess DEF Inv, TypeOK, Ignore

\* A name is given out only to the connection that asked, if no other has it.
LEMMA NamedTable ==
    ASSUME Inv, NEW c \in DOMAIN clients, NEW name \in Names \cup {NoName},
           IsUsernameValid(name)
    PROVE  Table([clients EXCEPT ![c] = name])
BY DEF Inv, TypeOK, Table, Single, IsUsernameValid

LEMMA SetUsernameKeeps ==
    ASSUME Inv, NEW m \in ClientMessage, receiver # <<>>, HandleSetUsername(m), UNCHANGED port
    PROVE  Inv'
<1>1. m.id \in Ids /\ m.name \in Names \cup {NoName}
  BY DEF HandleSetUsername, ClientMessage
<1>2. CASE m.id \notin DOMAIN clients \/ (IsUsernameValid(m.name) /\ IsJoined(m.id))
  BY <1>2, EndKeeps DEF HandleSetUsername, Panics
<1>3. CASE m.id \in DOMAIN clients /\ IsUsernameValid(m.name) /\ ~ IsJoined(m.id)
  <2> DEFINE list == IF port = "wasi" THEN <<Users(UsersBut(m.id))>> ELSE <<>>
             messages == <<Plain("UsernameAccepted")>> \o list
  <2>1. list \in Seq(ServerMessage)
    BY <1>1, UsersType, OneMessage, EmptySeq
  <2>2. messages \in Seq(ServerMessage)
    BY <2>1, PlainType, OneMessage, ConcatProperties
  <2>3. Emit(To(m.id, messages), [clients EXCEPT ![m.id] = m.name])
    BY <1>3 DEF HandleSetUsername
  <2> QED
    BY <1>1, <1>3, <2>2, <2>3, ToType, NamedTable, EmitKeeps
<1>4. CASE m.id \in DOMAIN clients /\ ~ IsUsernameValid(m.name)
  <2>1. Emit(To(m.id, <<Plain("UsernameInvalid")>>), clients)
    BY <1>4 DEF HandleSetUsername
  <2>2. Table(clients)
    BY DEF Inv, TypeOK, Table
  <2> QED
    BY <1>1, <2>1, <2>2, PlainType, OneMessage, ToType, EmitKeeps
<1> QED
  BY <1>2, <1>3, <1>4

LEMMA JoinedKeeps ==
    ASSUME Inv, NEW m \in ClientMessage, receiver # <<>>, HandleJoined(m), UNCHANGED port
    PROVE  Inv'
<1>1. m.id \in Ids
  BY DEF ClientMessage
<1>2. CASE m.id \notin DOMAIN clients
  BY <1>2, EndKeeps DEF HandleJoined, Panics
<1>3. CASE m.id \in DOMAIN clients /\ ~ IsJoined(m.id)
  BY <1>3, IgnoreKeeps DEF HandleJoined
<1>4. CASE IsJoined(m.id)
  <2> DEFINE others == Broadcast(m.id, About("AnnounceUser", clients[m.id]))
             sent == [d \in Ids |-> IF d = m.id /\ port = "tokio" THEN <<Users(UsersBut(m.id))>>
                                    ELSE others[d]]
  <2>1. Emit(sent, clients)
    BY <1>4 DEF HandleJoined, IsJoined
  <2>2. others \in [Ids -> Seq(ServerMessage)]
    BY <1>1, <1>4, JoinedName, MessageType, BroadcastType
  <2>3. <<Users(UsersBut(m.id))>> \in Seq(ServerMessage)
    BY <1>1, UsersType, OneMessage
  <2>4. sent \in [Ids -> Seq(ServerMessage)]
    BY <2>2, <2>3
  <2>5. Table(clients)
    BY DEF Inv, TypeOK, Table
  <2> HIDE DEF sent
  <2> QED
    BY <2>1, <2>4, <2>5, EmitKeeps
<1> QED
  BY <1>2, <1>3, <1>4 DEF IsJoined

LEMMA MessageKeeps ==
    ASSUME Inv, NEW m \in ClientMessage, receiver # <<>>, HandleMessage(m), UNCHANGED port
    PROVE  Inv'
<1>1. m.id \in Ids
  BY DEF ClientMessage
<1>2. CASE m.id \notin DOMAIN clients
  BY <1>2, EndKeeps DEF HandleMessage, Panics
<1>3. CASE m.id \in DOMAIN clients /\ ~ IsJoined(m.id)
  BY <1>3, IgnoreKeeps DEF HandleMessage
<1>4. CASE IsJoined(m.id)
  <2>1. Emit(Broadcast(m.id, About("Message", clients[m.id])), clients)
    BY <1>4 DEF HandleMessage, IsJoined
  <2>2. Table(clients)
    BY DEF Inv, TypeOK, Table
  <2> QED
    BY <1>1, <1>4, <2>1, <2>2, JoinedName, MessageType, BroadcastType, EmitKeeps
<1> QED
  BY <1>2, <1>3, <1>4 DEF IsJoined

LEMMA DisconnectKeeps ==
    ASSUME Inv, NEW m \in ClientMessage, receiver # <<>>, HandleDisconnect(m), UNCHANGED port
    PROVE  Inv'
<1>1. m.id \in Ids
  BY DEF ClientMessage
<1>2. CASE m.id \notin DOMAIN clients
  BY <1>2, IgnoreKeeps DEF HandleDisconnect
<1>3. CASE m.id \in DOMAIN clients
  <2> DEFINE others == Broadcast(m.id, About("Disconnected", clients[m.id]))
             nobody == [d \in Ids |-> <<>>]
             sent == IF IsJoined(m.id) THEN others ELSE nobody
             table == [c \in DOMAIN clients \ {m.id} |-> clients[c]]
  <2>1. Emit(sent, table)
    BY <1>3 DEF HandleDisconnect
  <2>2. IsJoined(m.id) => others \in [Ids -> Seq(ServerMessage)]
    BY <1>1, JoinedName, MessageType, BroadcastType
  <2>3. nobody \in [Ids -> Seq(ServerMessage)]
    BY EmptySeq
  <2>4. sent \in [Ids -> Seq(ServerMessage)]
    BY <2>2, <2>3
  <2>5. Table(table)
    BY DEF Inv, TypeOK, Table, Single
  <2> HIDE DEF sent, table
  <2> QED
    BY <2>1, <2>4, <2>5, EmitKeeps
<1> QED
  BY <1>2, <1>3

LEMMA ServeKeeps ==
    ASSUME Inv, Serve
    PROVE  Inv'
<1>1. receiver # <<>> /\ Head(receiver) \in ClientMessage /\ UNCHANGED port
  BY OneLess DEF Serve, Inv, TypeOK
<1>2. CASE HandleSetUsername(Head(receiver))
  BY <1>1, <1>2, SetUsernameKeeps
<1>3. CASE HandleJoined(Head(receiver))
  BY <1>1, <1>3, JoinedKeeps
<1>4. CASE HandleMessage(Head(receiver))
  BY <1>1, <1>4, MessageKeeps
<1>5. CASE HandleDisconnect(Head(receiver))
  BY <1>1, <1>5, DisconnectKeeps
<1> QED
  BY <1>2, <1>3, <1>4, <1>5 DEF Serve

-----------------------------------------------------------------------------
(* The client tasks *)

\* A task that goes on keeps its queue, one that ends drops it.
LEMMA BecomeType ==
    ASSUME Inv, NEW c \in Ids, NEW state \in States, Become(c, state)
    PROVE  client' \in [Ids -> Client]
<1>1. client[c] \in Client /\ client \in [Ids -> Client]
  BY DEF Inv, TypeOK
<1>2. <<>> \in Seq(ServerMessage)
  BY EmptySeq
<1> QED
  BY <1>1, <1>2 DEF Become, Client

\* What a client task does leaves the table alone.
LEMMA TaskKeeps ==
    ASSUME Inv, client' \in [Ids -> Client], receiver' \in Seq(ClientMessage),
           UNCHANGED <<port, server, clients>>
    PROVE  Inv'
BY DEF Inv, TypeOK, Single

LEMMA SendType ==
    ASSUME Inv, NEW m \in ClientMessage
    PROVE  Append(receiver, m) \in Seq(ClientMessage)
BY OneMore DEF Inv, TypeOK

LEMMA LeaveKeeps ==
    ASSUME Inv, NEW c \in Ids, Leave(c), UNCHANGED <<port, server, clients>>
    PROVE  Inv'
<1>1. client' \in [Ids -> Client]
  BY BecomeType DEF Leave, States
<1>2. [kind |-> "Disconnect", id |-> c] \in ClientMessage
  BY DEF ClientMessage
<1>3. receiver' \in Seq(ClientMessage)
  BY <1>2, SendType DEF Leave
<1> QED
  BY <1>1, <1>3, TaskKeeps

\* A user is shown in the room, or is gone from it.
LEMMA ShownType ==
    ASSUME NEW room \in SUBSET Names, NEW m \in ServerMessage
    PROVE  Shown(room, m) \in SUBSET Names
BY DEF Shown, ServerMessage

LEMMA ProceedsKeeps ==
    ASSUME Inv, NEW c \in Ids, client[c].inbox # <<>>, Proceeds(c, Head(client[c].inbox)),
           UNCHANGED <<port, server, clients>>
    PROVE  Inv'
<1> DEFINE m == Head(client[c].inbox)
           next == CASE m.kind = "Welcome"          -> "Joining"
                     [] m.kind = "UsernameAccepted" -> "Joined"
                     [] OTHER                       -> "Chatting"
<1>1. client[c] \in Client
  BY DEF Inv, TypeOK
<1>2. /\ client[c].inbox \in Seq(ServerMessage)
      /\ client[c].room \in SUBSET Names
  BY <1>1 DEF Client
<1>3. m \in ServerMessage /\ Tail(client[c].inbox) \in Seq(ServerMessage)
  BY <1>2, OneLess
<1>4. Shown(client[c].room, m) \in SUBSET Names
  BY <1>2, <1>3, ShownType
<1>5. next \in States
  BY DEF States
<1>6. /\ client' = [client EXCEPT ![c].state = next,
                                  ![c].inbox = Tail(@),
                                  ![c].room = Shown(@, m)]
      /\ receiver' = IF m.kind = "UsernameAccepted"
                     THEN Append(receiver, [kind |-> "Joined", id |-> c])
                     ELSE receiver
  BY DEF Proceeds
<1> HIDE DEF m, next
<1>7. client' \in [Ids -> Client]
  BY <1>1, <1>3, <1>4, <1>5, <1>6 DEF Inv, TypeOK, Client
<1>8. [kind |-> "Joined", id |-> c] \in ClientMessage
  BY DEF ClientMessage
<1>9. receiver' \in Seq(ClientMessage)
  BY <1>6, <1>8, SendType DEF Inv, TypeOK
<1> QED
  BY <1>7, <1>9, TaskKeeps

LEMMA ReceiveKeeps ==
    ASSUME Inv, NEW c \in Ids, Receive(c)
    PROVE  Inv'
<1> DEFINE m == Head(client[c].inbox)
<1>1. client[c].inbox # <<>> /\ UNCHANGED port
  BY DEF Receive
<1>2. CASE m.kind \notin Expected(client[c].state)
  <2>1. CASE Become(c, "panicked") /\ UNCHANGED <<server, clients, receiver>>
    <3>1. client' \in [Ids -> Client]
      BY <2>1, BecomeType DEF States
    <3>2. receiver' \in Seq(ClientMessage)
      BY <2>1 DEF Inv, TypeOK
    <3> QED
      BY <1>1, <2>1, <3>1, <3>2, TaskKeeps
  <2>2. CASE Panics
    BY <1>1, <2>2, EndKeeps DEF Panics
  <2> QED
    BY <1>2, <2>1, <2>2 DEF Receive
<1>3. CASE m.kind \in Expected(client[c].state)
  <2>1. (Proceeds(c, m) \/ Leave(c)) /\ UNCHANGED <<server, clients>>
    BY <1>3 DEF Receive
  <2> QED
    BY <1>1, <2>1, ProceedsKeeps, LeaveKeeps
<1> QED
  BY <1>2, <1>3

LEMMA AcceptKeeps ==
    ASSUME Inv, NEW c \in Ids, Accept(c)
    PROVE  Inv'
<1>1. client' \in [Ids -> Client]
  <2>1. <<Plain("Welcome")>> \in Seq(ServerMessage)
    BY PlainType, OneMessage
  <2>2. client \in [Ids -> Client]
    BY DEF Inv, TypeOK
  <2>3. client' = [client EXCEPT ![c].state = "WaitingWelcome",
                                 ![c].inbox = <<Plain("Welcome")>>]
    BY DEF Accept
  <2> QED
    BY <2>1, <2>2, <2>3 DEF Client, States
<1>2. Table(clients')
  BY DEF Inv, TypeOK, Table, Single, Accept
<1> QED
  BY <1>1, <1>2 DEF Inv, TypeOK, Accept, Table

-----------------------------------------------------------------------------
LEMMA StepKeeps ==
    ASSUME Inv, [Next]_vars
    PROVE  Inv'
<1>1. CASE Serve
  BY <1>1, ServeKeeps
<1>2. CASE AcceptFails
  BY <1>2, EndKeeps DEF AcceptFails
<1>3. ASSUME NEW c \in Ids, Accept(c) PROVE Inv'
  BY <1>3, AcceptKeeps
<1>4. ASSUME NEW c \in Ids, ReadFails(c) PROVE Inv'
  BY <1>4, LeaveKeeps DEF ReadFails
<1>5. ASSUME NEW c \in Ids, NEW name \in Names \cup {NoName}, SetUsername(c, name) PROVE Inv'
  <2>1. client' \in [Ids -> Client]
    BY <1>5, BecomeType DEF SetUsername, States
  <2>2. [kind |-> "SetUsername", id |-> c, name |-> name] \in ClientMessage
    BY DEF ClientMessage
  <2> QED
    BY <1>5, <2>1, <2>2, SendType, TaskKeeps DEF SetUsername
<1>6. ASSUME NEW c \in Ids, Say(c) PROVE Inv'
  <2>1. client[c].said + 1 \in 0..MaxMessages /\ client \in [Ids -> Client]
    BY <1>6, MaxMessagesAssumption DEF Say, Inv, TypeOK, Client
  <2>2. client' = [client EXCEPT ![c].said = @ + 1]
    BY <1>6 DEF Say
  <2>3. client' \in [Ids -> Client]
    BY <2>1, <2>2 DEF Client
  <2>4. [kind |-> "Message", id |-> c] \in ClientMessage
    BY DEF ClientMessage
  <2> QED
    BY <1>6, <2>3, <2>4, SendType, TaskKeeps DEF Say
<1>7. ASSUME NEW c \in Ids, Receive(c) PROVE Inv'
  BY <1>7, ReceiveKeeps
<1>8. CASE UNCHANGED vars
  BY <1>8 DEF vars, Inv, TypeOK, Single
<1> QED
  BY <1>1, <1>2, <1>3, <1>4, <1>5, <1>6, <1>7, <1>8 DEF Next

\* The invariant: the types, and that the table gives a name to one id only.
THEOREM Invariance == Spec => []Inv
<1>1. Init => Inv
  <2> SUFFICES ASSUME Init PROVE Inv
    OBVIOUS
  <2>1. receiver \in Seq(ClientMessage)
    BY EmptySeq DEF Init
  <2> QED
    BY <2>1, NoTaskType DEF Init, Inv, TypeOK, Single, NoClients
<1> QED
  BY <1>1, StepKeeps, PTL DEF Spec

\* The variables have values of their types.
THEOREM TypeCorrect == Spec => []TypeOK
<1>1. Inv => TypeOK
  BY DEF Inv
<1> QED
  BY <1>1, Invariance, PTL

\* However clients ask for names, leave and give them back: no two hold the
\* same one (lib.rs, run: the check of a name and its entry in the table).
THEOREM SingleNames == Spec => []OneHolderOfAName
<1>1. Inv => OneHolderOfAName
  BY DEF Inv, Single, OneHolderOfAName
<1> QED
  BY <1>1, Invariance, PTL

-----------------------------------------------------------------------------
(* The life of a connection *)

\* What the invariant says of one connection c is a formula of the queue q of
\* run, the state s and the queue inbox of its task, its entry e in the table
\* and the port p.
Entry(c) == IF c \notin DOMAIN clients THEN "absent"
            ELSE IF clients[c] = NoName THEN "unnamed" ELSE "joined"

Chat == {"AnnounceUser", "Message", "Disconnected"}

Silent(c, q) == \A n \in 1..Len(q) : q[n].id # c

\* A name is asked for by a task that waits for the answer, and only by it.
Asks(c, q, s, inbox, e) ==
    \A n \in 1..Len(q) : q[n].id = c /\ q[n].kind = "SetUsername" =>
        /\ s = "answer" /\ inbox = <<>> /\ e = "unnamed"
        /\ \A k \in 1..Len(q) : k # n => q[k].id # c

\* A client joins once, with its name.
Joins(c, q, s, e) ==
    \A n \in 1..Len(q) : q[n].id = c /\ q[n].kind = "Joined" =>
        /\ e = "joined" /\ s \in {"Joined", "Chatting", "done", "panicked"}
        /\ \A k \in 1..Len(q) : k # n /\ q[k].kind = "Joined" => q[k].id # c

\* It says its lines after that.
Talks(c, q, s, e) ==
    \A n \in 1..Len(q) : q[n].id = c /\ q[n].kind = "Message" =>
        /\ e = "joined" /\ s \in {"Chatting", "done"}
        /\ \A k \in 1..Len(q) : k > n /\ q[k].kind = "Joined" => q[k].id # c

\* Its Disconnect is the last that comes from it.
Departs(c, q, s) ==
    \A n \in 1..Len(q) : q[n].id = c /\ q[n].kind = "Disconnect" =>
        s = "done" /\ \A k \in 1..Len(q) : k > n => q[k].id # c

InLine(c, q, s, inbox, e) ==
    /\ ~ Silent(c, q) => e # "absent"
    /\ Asks(c, q, s, inbox, e)
    /\ Joins(c, q, s, e)
    /\ Talks(c, q, s, e)
    /\ Departs(c, q, s)

\* The list of the room was sent to the client.
Listed(s, inbox) == s = "Chatting" \/ \E n \in 1..Len(inbox) : inbox[n].kind = "Users"

\* Where what follows the answer to the name begins.
First(s) == IF s = "answer" THEN 2 ELSE 1

\* What is under way to a client whose name was accepted: the answer, the list
\* of the room at most once, and what the others do.
Accepted(c, q, s, inbox, p) ==
    /\ s = "answer" => Silent(c, q) /\ inbox # <<>> /\ inbox[1] = Plain("UsernameAccepted")
    /\ \A n \in First(s)..Len(inbox) : inbox[n].kind \in Chat \cup {"Users"}
    /\ \A n, k \in 1..Len(inbox) : inbox[n].kind = "Users" /\ inbox[k].kind = "Users" => n = k
    /\ s = "Chatting" => \A n \in 1..Len(inbox) : inbox[n].kind # "Users"
    /\ p = "wasi" /\ s # "Chatting" =>
          First(s) <= Len(inbox) /\ inbox[First(s)].kind = "Users"
    /\ p = "tokio" /\ Listed(s, inbox) =>
          s # "answer" /\ \A n \in 1..Len(q) : q[n].kind = "Joined" => q[n].id # c

Stage(c, q, s, inbox, e, p) ==
    /\ s = "none" => e = "absent" /\ inbox = <<>>
    /\ s = "WaitingWelcome" => e = "unnamed" /\ Silent(c, q) /\ inbox = <<Plain("Welcome")>>
    /\ s = "Joining" => e = "unnamed" /\ Silent(c, q) /\ inbox = <<>>
    /\ s = "answer" => e \in {"unnamed", "joined"}
    /\ s = "answer" /\ e = "unnamed" =>
          inbox = <<>> \/ (Silent(c, q) /\ inbox = <<Plain("UsernameInvalid")>>)
    /\ s \in {"Joined", "Chatting"} => e = "joined"
    /\ s \in {"answer", "Joined", "Chatting"} /\ e = "joined" => Accepted(c, q, s, inbox, p)
    /\ s \in {"done", "panicked"} => inbox = <<>>

Life(c, q, s, inbox, e, p) ==
    InLine(c, q, s, inbox, e) /\ Stage(c, q, s, inbox, e, p)

Lives == \A c \in Ids : Life(c, receiver, client[c].state, client[c].inbox, Entry(c), port)

\* run has not panicked.
RunsOn == server # "panicked"

Orderly == Inv /\ Lives /\ RunsOn

-----------------------------------------------------------------------------
(* How a life goes on *)

\* The places of the rest of a queue, and of one with a message more.
LEMMA TailPlaces ==
    ASSUME NEW S, NEW q \in Seq(S), q # <<>>
    PROVE  /\ Len(q) \in Nat /\ Len(q) > 0 /\ Len(Tail(q)) = Len(q) - 1
           /\ \A n \in 1..Len(q) - 1 : Tail(q)[n] = q[n + 1]
           /\ Head(q) = q[1]
OBVIOUS

LEMMA AppendPlaces ==
    ASSUME NEW S, NEW q \in Seq(S), NEW m \in S
    PROVE  /\ Len(q) \in Nat /\ Len(Append(q, m)) = Len(q) + 1
           /\ \A n \in 1..Len(q) : Append(q, m)[n] = q[n]
           /\ Append(q, m)[Len(q) + 1] = m
OBVIOUS

\* run takes a message: there is less that speaks of c.
LEMMA LifeTail ==
    ASSUME NEW c, NEW q \in Seq(ClientMessage), q # <<>>, NEW s, NEW inbox, NEW e, NEW p,
           Life(c, q, s, inbox, e, p)
    PROVE  Life(c, Tail(q), s, inbox, e, p)
<1> DEFINE r == Tail(q)
<1>1. /\ Len(q) \in Nat /\ Len(r) = Len(q) - 1
      /\ \A n \in 1..Len(r) : r[n] = q[n + 1] /\ n + 1 \in 1..Len(q)
  BY TailPlaces
<1> HIDE DEF r
<1>2. Silent(c, q) => Silent(c, r)
  BY <1>1 DEF Silent
<1>3. Asks(c, q, s, inbox, e) => Asks(c, r, s, inbox, e)
  <2> SUFFICES ASSUME Asks(c, q, s, inbox, e), NEW n \in 1..Len(r), r[n].id = c,
                      r[n].kind = "SetUsername"
               PROVE  /\ s = "answer" /\ inbox = <<>> /\ e = "unnamed"
                      /\ \A k \in 1..Len(r) : k # n => r[k].id # c
    BY DEF Asks
  <2>1. n + 1 \in 1..Len(q) /\ q[n + 1] = r[n]
    BY <1>1
  <2>2. \A k \in 1..Len(q) : k # n + 1 => q[k].id # c
    BY <2>1 DEF Asks
  <2>3. ASSUME NEW k \in 1..Len(r), k # n PROVE r[k].id # c
    <3>1. k + 1 \in 1..Len(q) /\ q[k + 1] = r[k]
      BY <1>1
    <3>2. k + 1 # n + 1
      BY <2>3, <1>1
    <3> QED
      BY <2>2, <2>3, <3>1, <3>2
  <2> QED
    BY <2>1, <2>3 DEF Asks
<1>4. Joins(c, q, s, e) => Joins(c, r, s, e)
  <2> SUFFICES ASSUME Joins(c, q, s, e), NEW n \in 1..Len(r), r[n].id = c,
                      r[n].kind = "Joined"
               PROVE  /\ e = "joined" /\ s \in {"Joined", "Chatting", "done", "panicked"}
                      /\ \A k \in 1..Len(r) : k # n /\ r[k].kind = "Joined" => r[k].id # c
    BY DEF Joins
  <2>1. n + 1 \in 1..Len(q) /\ q[n + 1] = r[n]
    BY <1>1
  <2>2. \A k \in 1..Len(q) : k # n + 1 /\ q[k].kind = "Joined" => q[k].id # c
    BY <2>1 DEF Joins
  <2>3. ASSUME NEW k \in 1..Len(r), k # n, r[k].kind = "Joined" PROVE r[k].id # c
    <3>1. k + 1 \in 1..Len(q) /\ q[k + 1] = r[k]
      BY <1>1
    <3>2. k + 1 # n + 1
      BY <2>3, <1>1
    <3> QED
      BY <2>2, <2>3, <3>1, <3>2
  <2> QED
    BY <2>1, <2>3 DEF Joins
<1>5. Talks(c, q, s, e) => Talks(c, r, s, e)
  <2> SUFFICES ASSUME Talks(c, q, s, e), NEW n \in 1..Len(r), r[n].id = c,
                      r[n].kind = "Message"
               PROVE  /\ e = "joined" /\ s \in {"Chatting", "done"}
                      /\ \A k \in 1..Len(r) : k > n /\ r[k].kind = "Joined" => r[k].id # c
    BY DEF Talks
  <2>1. n + 1 \in 1..Len(q) /\ q[n + 1] = r[n]
    BY <1>1
  <2>2. \A k \in 1..Len(q) : k > n + 1 /\ q[k].kind = "Joined" => q[k].id # c
    BY <2>1 DEF Talks
  <2>3. ASSUME NEW k \in 1..Len(r), k > n, r[k].kind = "Joined" PROVE r[k].id # c
    <3>1. k + 1 \in 1..Len(q) /\ q[k + 1] = r[k]
      BY <1>1
    <3>2. k + 1 > n + 1
      BY <2>3, <1>1
    <3> QED
      BY <2>2, <2>3, <3>1, <3>2
  <2> QED
    BY <2>1, <2>3 DEF Talks
<1>6. Departs(c, q, s) => Departs(c, r, s)
  <2> SUFFICES ASSUME Departs(c, q, s), NEW n \in 1..Len(r), r[n].id = c,
                      r[n].kind = "Disconnect"
               PROVE  s = "done" /\ \A k \in 1..Len(r) : k > n => r[k].id # c
    BY DEF Departs
  <2>1. n + 1 \in 1..Len(q) /\ q[n + 1] = r[n]
    BY <1>1
  <2>2. \A k \in 1..Len(q) : k > n + 1 => q[k].id # c
    BY <2>1 DEF Departs
  <2>3. ASSUME NEW k \in 1..Len(r), k > n PROVE r[k].id # c
    <3>1. k + 1 \in 1..Len(q) /\ q[k + 1] = r[k]
      BY <1>1
    <3>2. k + 1 > n + 1
      BY <2>3, <1>1
    <3> QED
      BY <2>2, <2>3, <3>1, <3>2
  <2> QED
    BY <2>1, <2>3 DEF Departs
<1>7. InLine(c, r, s, inbox, e)
  BY <1>2, <1>3, <1>4, <1>5, <1>6 DEF Life, InLine
<1>8. Accepted(c, q, s, inbox, p) => Accepted(c, r, s, inbox, p)
  <2>1. (\A n \in 1..Len(q) : q[n].kind = "Joined" => q[n].id # c)
        => \A n \in 1..Len(r) : r[n].kind = "Joined" => r[n].id # c
    BY <1>1
  <2> QED
    BY <1>2, <2>1 DEF Accepted
<1>9. Stage(c, r, s, inbox, e, p)
  BY <1>2, <1>8 DEF Life, Stage
<1> QED
  BY <1>7, <1>9 DEF Life, r

\* Another client sends a message.
LEMMA LifeAppend ==
    ASSUME NEW c, NEW q \in Seq(ClientMessage), NEW m \in ClientMessage, m.id # c,
           NEW s, NEW inbox, NEW e, NEW p, Life(c, q, s, inbox, e, p)
    PROVE  Life(c, Append(q, m), s, inbox, e, p)
<1> DEFINE r == Append(q, m)
<1>1. /\ Len(q) \in Nat /\ Len(r) = Len(q) + 1 /\ r[Len(q) + 1] = m
      /\ \A n \in 1..Len(q) : r[n] = q[n]
  BY AppendPlaces
<1>2. \A n \in 1..Len(r) : r[n].id = c => n \in 1..Len(q) /\ r[n] = q[n]
  BY <1>1
<1> HIDE DEF r
<1>3. Silent(c, q) => Silent(c, r)
  BY <1>1, <1>2 DEF Silent
<1>4. Asks(c, q, s, inbox, e) => Asks(c, r, s, inbox, e)
  BY <1>1, <1>2 DEF Asks
<1>5. Joins(c, q, s, e) => Joins(c, r, s, e)
  BY <1>1, <1>2 DEF Joins
<1>6. Talks(c, q, s, e) => Talks(c, r, s, e)
  BY <1>1, <1>2 DEF Talks
<1>7. Departs(c, q, s) => Departs(c, r, s)
  BY <1>1, <1>2 DEF Departs
<1>8. InLine(c, r, s, inbox, e)
  BY <1>3, <1>4, <1>5, <1>6, <1>7 DEF Life, InLine
<1>9. Accepted(c, q, s, inbox, p) => Accepted(c, r, s, inbox, p)
  <2>1. (\A n \in 1..Len(q) : q[n].kind = "Joined" => q[n].id # c)
        => \A n \in 1..Len(r) : r[n].kind = "Joined" => r[n].id # c
    BY <1>2
  <2> QED
    BY <1>3, <2>1 DEF Accepted
<1>10. Stage(c, r, s, inbox, e, p)
  BY <1>3, <1>9 DEF Life, Stage
<1> QED
  BY <1>8, <1>10 DEF Life, r

\* Its own message, when none of it was waiting.
LEMMA LifeSends ==
    ASSUME NEW c, NEW q \in Seq(ClientMessage), NEW m \in ClientMessage, m.id = c, Silent(c, q),
           NEW s, NEW inbox, NEW e, e # "absent",
           m.kind = "SetUsername" => s = "answer" /\ inbox = <<>> /\ e = "unnamed",
           m.kind = "Joined" =>
               e = "joined" /\ s \in {"Joined", "Chatting", "done", "panicked"},
           m.kind = "Message" => e = "joined" /\ s \in {"Chatting", "done"},
           m.kind = "Disconnect" => s = "done"
    PROVE  InLine(c, Append(q, m), s, inbox, e)
<1> DEFINE r == Append(q, m)
<1>1. /\ Len(q) \in Nat /\ Len(r) = Len(q) + 1 /\ r[Len(q) + 1] = m
      /\ \A n \in 1..Len(q) : r[n] = q[n]
  BY AppendPlaces
<1>2. \A n \in 1..Len(r) : r[n].id = c => n = Len(r) /\ r[n] = m
  BY <1>1 DEF Silent
<1> HIDE DEF r
<1>3. Asks(c, r, s, inbox, e)
  BY <1>1, <1>2 DEF Asks
<1>4. Joins(c, r, s, e)
  BY <1>1, <1>2 DEF Joins
<1>5. Talks(c, r, s, e)
  BY <1>1, <1>2 DEF Talks
<1>6. Departs(c, r, s)
  BY <1>1, <1>2 DEF Departs
<1> QED
  BY <1>3, <1>4, <1>5, <1>6 DEF InLine, r

\* The task of c ends, and tells run.
LEMMA LifeLeaves ==
    ASSUME NEW c, NEW q \in Seq(ClientMessage), NEW m \in ClientMessage, m.id = c,
           m.kind = "Disconnect", NEW s, NEW inbox, NEW e, NEW p, Life(c, q, s, inbox, e, p),
           \/ s \in {"WaitingWelcome", "Joining", "Joined", "Chatting"}
           \/ s = "answer" /\ inbox # <<>> /\ inbox[1].kind # "UsernameAccepted"
    PROVE  Life(c, Append(q, m), "done", <<>>, e, p)
<1> DEFINE r == Append(q, m)
<1>1. /\ Len(q) \in Nat /\ Len(r) = Len(q) + 1 /\ r[Len(q) + 1] = m
      /\ \A n \in 1..Len(q) : r[n] = q[n]
  BY AppendPlaces
<1>2. e # "absent"
  BY DEF Life, Stage
<1>3. s # "done" /\ (s = "answer" => inbox # <<>>)
  OBVIOUS
<1>4. \A n \in 1..Len(q) : q[n].id = c => q[n].kind \notin {"SetUsername", "Disconnect"}
  BY <1>3 DEF Life, InLine, Asks, Departs
<1>5. s = "answer" => Silent(c, q)
  <2>1. s = "answer" /\ e = "unnamed" => Silent(c, q)
    BY DEF Life, Stage
  <2>2. s = "answer" /\ e = "joined" => Silent(c, q)
    BY DEF Life, Stage, Accepted
  <2> QED
    BY <2>1, <2>2 DEF Life, Stage
<1> HIDE DEF r
<1>6. \A n \in 1..Len(r) : r[n].id = c /\ r[n].kind # "Disconnect" => n \in 1..Len(q) /\ r[n] = q[n]
  BY <1>1
<1>7. \A n \in 1..Len(r) : r[n].id = c /\ r[n].kind = "Disconnect" => n = Len(r)
  BY <1>1, <1>4
<1>8. Asks(c, r, "done", <<>>, e)
  BY <1>4, <1>6 DEF Asks
<1>9. Joins(c, r, "done", e)
  <2> SUFFICES ASSUME NEW n \in 1..Len(r), r[n].id = c, r[n].kind = "Joined"
               PROVE  /\ e = "joined"
                      /\ \A k \in 1..Len(r) : k # n /\ r[k].kind = "Joined" => r[k].id # c
    BY DEF Joins
  <2>1. n \in 1..Len(q) /\ q[n] = r[n]
    BY <1>6
  <2>2. e = "joined" /\ \A k \in 1..Len(q) : k # n /\ q[k].kind = "Joined" => q[k].id # c
    BY <2>1 DEF Life, InLine, Joins
  <2> QED
    BY <1>1, <1>6, <2>2
<1>10. Talks(c, r, "done", e)
  <2> SUFFICES ASSUME NEW n \in 1..Len(r), r[n].id = c, r[n].kind = "Message"
               PROVE  /\ e = "joined"
                      /\ \A k \in 1..Len(r) : k > n /\ r[k].kind = "Joined" => r[k].id # c
    BY DEF Talks
  <2>1. n \in 1..Len(q) /\ q[n] = r[n]
    BY <1>6
  <2>2. e = "joined" /\ \A k \in 1..Len(q) : k > n /\ q[k].kind = "Joined" => q[k].id # c
    BY <2>1 DEF Life, InLine, Talks
  <2> QED
    BY <1>1, <1>6, <2>2
<1>11. Departs(c, r, "done")
  BY <1>1, <1>7 DEF Departs
<1>12. Stage(c, r, "done", <<>>, e, p)
  BY DEF Stage
<1> QED
  BY <1>2, <1>8, <1>9, <1>10, <1>11, <1>12 DEF Life, InLine, r

\* c says a line.
LEMMA LifeSays ==
    ASSUME NEW c, NEW q \in Seq(ClientMessage), NEW m \in ClientMessage, m.id = c,
           m.kind = "Message", NEW inbox, NEW e, NEW p, Life(c, q, "Chatting", inbox, e, p)
    PROVE  Life(c, Append(q, m), "Chatting", inbox, e, p)
<1> DEFINE r == Append(q, m)
<1>1. /\ Len(q) \in Nat /\ Len(r) = Len(q) + 1 /\ r[Len(q) + 1] = m
      /\ \A n \in 1..Len(q) : r[n] = q[n]
  BY AppendPlaces
<1>2. e = "joined"
  BY DEF Life, Stage
<1>3. \A n \in 1..Len(q) : q[n].id = c => q[n].kind \notin {"SetUsername", "Disconnect"}
  BY DEF Life, InLine, Asks, Departs
<1> HIDE DEF r
<1>4. \A n \in 1..Len(r) : r[n].kind = "Joined" => n \in 1..Len(q) /\ r[n] = q[n]
  BY <1>1
<1>5. Asks(c, r, "Chatting", inbox, e) /\ Departs(c, r, "Chatting")
  BY <1>1, <1>3 DEF Asks, Departs
<1>6. Joins(c, r, "Chatting", e)
  BY <1>1, <1>2, <1>4 DEF Joins, Life, InLine
<1>7. Talks(c, r, "Chatting", e)
  BY <1>1, <1>2, <1>4 DEF Talks, Life, InLine
<1>8. Accepted(c, r, "Chatting", inbox, p)
  <2>1. Accepted(c, q, "Chatting", inbox, p)
    BY <1>2 DEF Life, Stage
  <2>2. (\A n \in 1..Len(q) : q[n].kind = "Joined" => q[n].id # c)
        => \A n \in 1..Len(r) : r[n].kind = "Joined" => r[n].id # c
    BY <1>4
  <2> QED
    BY <2>1, <2>2 DEF Accepted
<1>9. Stage(c, r, "Chatting", inbox, e, p)
  BY <1>2, <1>8 DEF Stage
<1> QED
  BY <1>2, <1>5, <1>6, <1>7, <1>9 DEF Life, InLine, r

\* The task of c panics.
LEMMA LifePanics ==
    ASSUME NEW c, NEW q, NEW inbox, NEW e, NEW p, Life(c, q, "Joined", inbox, e, p)
    PROVE  Life(c, q, "panicked", <<>>, e, p)
<1>1. InLine(c, q, "panicked", <<>>, e)
  BY DEF Life, InLine, Asks, Joins, Talks, Departs
<1> QED
  BY <1>1 DEF Life, Stage

\* c hears of another: there is nothing to ask for, and the list stays the only one.
LEMMA LifeHears ==
    ASSUME NEW c, NEW q, NEW s \in States, NEW inbox \in Seq(ServerMessage),
           NEW m \in ServerMessage, m.kind \in Chat, s \notin {"done", "panicked"}, NEW p,
           Life(c, q, s, inbox, "joined", p)
    PROVE  Life(c, q, s, Append(inbox, m), "joined", p)
<1> DEFINE r == Append(inbox, m)
<1>1. /\ Len(inbox) \in Nat /\ Len(r) = Len(inbox) + 1 /\ r[Len(inbox) + 1] = m
      /\ \A n \in 1..Len(inbox) : r[n] = inbox[n]
  BY AppendPlaces
<1>2. s \in {"answer", "Joined", "Chatting"}
  BY DEF Life, Stage, States
<1>3. Accepted(c, q, s, inbox, p)
  BY <1>2 DEF Life, Stage
<1>4. r # <<>> /\ (inbox # <<>> => 1 \in 1..Len(inbox))
  OBVIOUS
<1> HIDE DEF r
<1>5. \A n \in 1..Len(r) : r[n].kind = "Users" => n \in 1..Len(inbox) /\ r[n] = inbox[n]
  BY <1>1 DEF Chat
<1>6. First(s) \in {1, 2}
  BY DEF First
<1>7. Accepted(c, q, s, r, p)
  <2>1. s = "answer" => Silent(c, q) /\ r # <<>> /\ r[1] = Plain("UsernameAccepted")
    BY <1>1, <1>3, <1>4 DEF Accepted
  <2>2. \A n \in First(s)..Len(r) : r[n].kind \in Chat \cup {"Users"}
    BY <1>1, <1>3, <1>6 DEF Accepted
  <2>3. \A n, k \in 1..Len(r) : r[n].kind = "Users" /\ r[k].kind = "Users" => n = k
    BY <1>3, <1>5 DEF Accepted
  <2>4. s = "Chatting" => \A n \in 1..Len(r) : r[n].kind # "Users"
    BY <1>3, <1>5 DEF Accepted
  <2>5. p = "wasi" /\ s # "Chatting" => First(s) <= Len(r) /\ r[First(s)].kind = "Users"
    BY <1>1, <1>3, <1>6 DEF Accepted
  <2>6. Listed(s, r) => Listed(s, inbox)
    BY <1>5 DEF Listed
  <2> QED
    BY <1>3, <2>1, <2>2, <2>3, <2>4, <2>5, <2>6 DEF Accepted
<1>8. InLine(c, q, s, r, "joined")
  BY DEF Life, InLine, Asks
<1> QED
  BY <1>2, <1>7, <1>8 DEF Life, Stage, r

\* The tokio port handles the Joined of c, and sends it the list.
LEMMA LifeListed ==
    ASSUME NEW c, NEW q \in Seq(ClientMessage), q # <<>>, q[1].kind = "Joined", q[1].id = c,
           NEW s \in States, s \notin {"done", "panicked"}, NEW inbox \in Seq(ServerMessage),
           NEW m \in ServerMessage, m.kind = "Users",
           Life(c, q, s, inbox, "joined", "tokio")
    PROVE  Life(c, Tail(q), s, Append(inbox, m), "joined", "tokio")
<1> DEFINE r == Append(inbox, m)
           t == Tail(q)
<1>1. /\ Len(inbox) \in Nat /\ Len(r) = Len(inbox) + 1 /\ r[Len(inbox) + 1] = m
      /\ \A n \in 1..Len(inbox) : r[n] = inbox[n]
  BY AppendPlaces
<1>2. /\ Len(q) \in Nat /\ Len(q) > 0 /\ Len(t) = Len(q) - 1
      /\ \A n \in 1..Len(t) : t[n] = q[n + 1] /\ n + 1 \in 1..Len(q)
  BY TailPlaces
<1>3. Life(c, t, s, inbox, "joined", "tokio")
  BY LifeTail
<1> HIDE DEF r, t
<1>4. /\ s \in {"Joined", "Chatting"}
      /\ \A k \in 1..Len(q) : k # 1 /\ q[k].kind = "Joined" => q[k].id # c
  BY <1>2 DEF Life, InLine, Joins
<1>5. Accepted(c, q, s, inbox, "tokio") /\ Accepted(c, t, s, inbox, "tokio")
  BY <1>3, <1>4 DEF Life, Stage
<1>6. ~ Listed(s, inbox)
  BY <1>2, <1>5 DEF Accepted
<1>7. s = "Joined" /\ \A n \in 1..Len(inbox) : inbox[n].kind # "Users"
  BY <1>4, <1>6 DEF Listed
<1>8. First(s) = 1
  BY <1>7 DEF First
<1>9. Accepted(c, t, s, r, "tokio")
  <2>1. \A n \in First(s)..Len(r) : r[n].kind \in Chat \cup {"Users"}
    BY <1>1, <1>5, <1>8 DEF Accepted
  <2>2. \A n, k \in 1..Len(r) : r[n].kind = "Users" /\ r[k].kind = "Users" => n = k
    BY <1>1, <1>7
  <2>3. \A n \in 1..Len(t) : t[n].kind = "Joined" => t[n].id # c
    BY <1>2, <1>4
  <2> QED
    BY <1>7, <2>1, <2>2, <2>3 DEF Accepted
<1>10. InLine(c, t, s, r, "joined")
  BY <1>3 DEF Life, InLine, Asks
<1> QED
  BY <1>7, <1>9, <1>10 DEF Life, Stage, r, t

\* run handles the name that c asks for: it is the only message of c.
LEMMA LifeAsked ==
    ASSUME NEW c, NEW q \in Seq(ClientMessage), q # <<>>, q[1].kind = "SetUsername", q[1].id = c,
           NEW s, NEW inbox, NEW e, NEW p, Life(c, q, s, inbox, e, p)
    PROVE  s = "answer" /\ inbox = <<>> /\ e = "unnamed" /\ Silent(c, Tail(q))
<1> DEFINE t == Tail(q)
<1>1. /\ Len(q) \in Nat /\ Len(q) > 0 /\ Len(t) = Len(q) - 1
      /\ \A n \in 1..Len(t) : t[n] = q[n + 1] /\ n + 1 \in 1..Len(q)
  BY TailPlaces
<1> HIDE DEF t
<1>2. s = "answer" /\ inbox = <<>> /\ e = "unnamed"
      /\ \A k \in 1..Len(q) : k # 1 => q[k].id # c
  BY <1>1 DEF Life, InLine, Asks
<1>3. Silent(c, t)
  BY <1>1, <1>2 DEF Silent
<1> QED
  BY <1>2, <1>3 DEF t

\* With nothing of c in the queue of run, its life is the stage it is in.
LEMMA SilentLine ==
    ASSUME NEW c, NEW q, Silent(c, q), NEW s, NEW inbox, NEW e
    PROVE  InLine(c, q, s, inbox, e)
BY DEF Silent, InLine, Asks, Joins, Talks, Departs

\* The answers to the name.
LEMMA LifeRefused ==
    ASSUME NEW c, NEW q, Silent(c, q), NEW p
    PROVE  Life(c, q, "answer", <<Plain("UsernameInvalid")>>, "unnamed", p)
BY SilentLine DEF Life, Stage

LEMMA LifeNamedTokio ==
    ASSUME NEW c, NEW q, Silent(c, q)
    PROVE  Life(c, q, "answer", <<Plain("UsernameAccepted")>>, "joined", "tokio")
<1> DEFINE inbox == <<Plain("UsernameAccepted")>>
<1>1. Len(inbox) = 1 /\ inbox[1] = Plain("UsernameAccepted") /\ inbox # <<>>
  OBVIOUS
<1>2. inbox[1].kind = "UsernameAccepted" /\ First("answer") = 2
  BY DEF Plain, First
<1> HIDE DEF inbox
<1>3. ~ Listed("answer", inbox)
  BY <1>1, <1>2 DEF Listed
<1>4. Accepted(c, q, "answer", inbox, "tokio")
  BY <1>1, <1>2, <1>3 DEF Accepted
<1> QED
  BY <1>4, SilentLine DEF Life, Stage, inbox

LEMMA LifeNamedWasi ==
    ASSUME NEW c, NEW q, Silent(c, q), NEW m, m.kind = "Users"
    PROVE  Life(c, q, "answer", <<Plain("UsernameAccepted"), m>>, "joined", "wasi")
<1> DEFINE inbox == <<Plain("UsernameAccepted"), m>>
<1>1. Len(inbox) = 2 /\ inbox[1] = Plain("UsernameAccepted") /\ inbox[2] = m /\ inbox # <<>>
  OBVIOUS
<1>2. inbox[1].kind = "UsernameAccepted" /\ First("answer") = 2
  BY DEF Plain, First
<1> HIDE DEF inbox
<1>3. \A n \in 1..Len(inbox) : inbox[n].kind = "Users" => n = 2
  BY <1>1, <1>2
<1>4. Accepted(c, q, "answer", inbox, "wasi")
  BY <1>1, <1>2, <1>3 DEF Accepted
<1> QED
  BY <1>4, SilentLine DEF Life, Stage, inbox

\* run handles the Disconnect of c, and forgets it.
LEMMA LifeForgotten ==
    ASSUME NEW c, NEW q \in Seq(ClientMessage), q # <<>>, q[1].kind = "Disconnect", q[1].id = c,
           NEW s, NEW inbox, NEW e, NEW p, Life(c, q, s, inbox, e, p)
    PROVE  Life(c, Tail(q), s, inbox, "absent", p)
<1> DEFINE t == Tail(q)
<1>1. /\ Len(q) \in Nat /\ Len(q) > 0 /\ Len(t) = Len(q) - 1
      /\ \A n \in 1..Len(t) : t[n] = q[n + 1] /\ n + 1 \in 1..Len(q)
  BY TailPlaces
<1> HIDE DEF t
<1>2. s = "done" /\ \A k \in 1..Len(q) : k > 1 => q[k].id # c
  BY <1>1 DEF Life, InLine, Departs
<1>3. Silent(c, t)
  BY <1>1, <1>2 DEF Silent
<1> QED
  BY <1>2, <1>3, SilentLine DEF Life, Stage, t

\* A connection run has not heard of, and one that has just come in.
LEMMA LifeUnknown ==
    ASSUME NEW c, NEW q, NEW inbox, NEW e, NEW p, Life(c, q, "none", inbox, e, p)
    PROVE  e = "absent" /\ Silent(c, q)
BY DEF Life, InLine, Stage

LEMMA LifeBegins ==
    ASSUME NEW c, NEW q, Silent(c, q), NEW p
    PROVE  Life(c, q, "WaitingWelcome", <<Plain("Welcome")>>, "unnamed", p)
BY SilentLine DEF Life, Stage

\* c takes a message it expects.
LEMMA LifeWelcomed ==
    ASSUME NEW c, NEW q, NEW inbox, NEW e, NEW p, Life(c, q, "WaitingWelcome", inbox, e, p)
    PROVE  Life(c, q, "Joining", Tail(inbox), e, p)
<1>1. e = "unnamed" /\ Silent(c, q) /\ inbox = <<Plain("Welcome")>>
  BY DEF Life, Stage
<1>2. Tail(inbox) = <<>>
  BY <1>1
<1> QED
  BY <1>1, <1>2, SilentLine DEF Life, Stage

\* The messages after the first of those under way to a client.
LEMMA AcceptedTail ==
    ASSUME NEW c, NEW q, NEW r, NEW s, NEW next, NEW inbox \in Seq(ServerMessage),
           inbox # <<>>, NEW p, Accepted(c, q, s, inbox, p),
           \/ s = "answer" /\ next = "Joined"
           \/ s = "Joined" /\ next = "Chatting" /\ r = q /\ inbox[1].kind = "Users"
           \/ s = "Chatting" /\ next = "Chatting" /\ r = q
    PROVE  Accepted(c, r, next, Tail(inbox), p)
<1> DEFINE t == Tail(inbox)
<1>1. /\ Len(inbox) \in Nat /\ Len(inbox) > 0 /\ Len(t) = Len(inbox) - 1
      /\ \A n \in 1..Len(t) : t[n] = inbox[n + 1] /\ n + 1 \in 1..Len(inbox)
  BY TailPlaces
<1> HIDE DEF t
<1>2. next # "answer" /\ First(next) = 1 /\ First(s) \in {1, 2}
  BY DEF First
<1>3. \A n \in 1..Len(t) : t[n].kind \in Chat \cup {"Users"}
  BY <1>1, <1>2 DEF Accepted
<1>4. \A n, k \in 1..Len(t) : t[n].kind = "Users" /\ t[k].kind = "Users" => n = k
  <2> SUFFICES ASSUME NEW n \in 1..Len(t), NEW k \in 1..Len(t),
                      t[n].kind = "Users", t[k].kind = "Users"
               PROVE  n = k
    OBVIOUS
  <2>1. n + 1 = k + 1
    BY <1>1 DEF Accepted
  <2> QED
    BY <2>1
<1>5. s = "Chatting" => \A n \in 1..Len(t) : t[n].kind # "Users"
  BY <1>1 DEF Accepted
<1>6. inbox[1].kind = "Users" => \A n \in 1..Len(t) : t[n].kind # "Users"
  <2> SUFFICES ASSUME inbox[1].kind = "Users", NEW n \in 1..Len(t), t[n].kind = "Users"
               PROVE  FALSE
    OBVIOUS
  <2>1. 1 \in 1..Len(inbox) /\ n + 1 \in 1..Len(inbox) /\ inbox[n + 1].kind = "Users"
    BY <1>1
  <2>2. 1 = n + 1
    BY <2>1 DEF Accepted
  <2> QED
    BY <2>2
<1>7. next = "Chatting" => \A n \in 1..Len(t) : t[n].kind # "Users"
  BY <1>5, <1>6
<1>8. p = "wasi" /\ next = "Joined" => 1 <= Len(t) /\ t[1].kind = "Users"
  <2> SUFFICES ASSUME p = "wasi", next = "Joined" PROVE 1 <= Len(t) /\ t[1].kind = "Users"
    OBVIOUS
  <2>1. s = "answer" /\ First(s) = 2
    BY DEF First
  <2>2. 2 <= Len(inbox) /\ inbox[2].kind = "Users"
    BY <2>1 DEF Accepted
  <2> QED
    BY <1>1, <2>2
<1>9. p = "tokio" /\ Listed(next, t) => \A n \in 1..Len(r) : r[n].kind = "Joined" => r[n].id # c
  <2> SUFFICES ASSUME p = "tokio", Listed(next, t)
               PROVE  \A n \in 1..Len(r) : r[n].kind = "Joined" => r[n].id # c
    OBVIOUS
  <2>1. Listed(s, inbox)
    BY <1>1 DEF Listed
  <2> QED
    BY <2>1 DEF Accepted
<1> QED
  BY <1>2, <1>3, <1>4, <1>7, <1>8, <1>9 DEF Accepted, t

LEMMA LifeAccepted ==
    ASSUME NEW c, NEW q \in Seq(ClientMessage), NEW m \in ClientMessage, m.id = c,
           m.kind = "Joined", NEW inbox \in Seq(ServerMessage), inbox # <<>>,
           inbox[1].kind = "UsernameAccepted", NEW e, NEW p, Life(c, q, "answer", inbox, e, p)
    PROVE  Life(c, Append(q, m), "Joined", Tail(inbox), e, p)
<1>1. e = "joined"
  <2>1. inbox # <<Plain("UsernameInvalid")>>
    BY DEF Plain
  <2> QED
    BY <2>1 DEF Life, Stage
<1>2. Accepted(c, q, "answer", inbox, p)
  BY <1>1 DEF Life, Stage
<1>3. Accepted(c, Append(q, m), "Joined", Tail(inbox), p)
  BY <1>2, AcceptedTail
<1>4. InLine(c, Append(q, m), "Joined", Tail(inbox), e)
  BY <1>1, <1>2, LifeSends DEF Accepted
<1> QED
  BY <1>1, <1>3, <1>4 DEF Life, Stage

LEMMA LifeChats ==
    ASSUME NEW c, NEW q, NEW s, NEW inbox \in Seq(ServerMessage), inbox # <<>>, NEW e, NEW p,
           \/ s = "Joined" /\ inbox[1].kind = "Users"
           \/ s = "Chatting",
           Life(c, q, s, inbox, e, p)
    PROVE  Life(c, q, "Chatting", Tail(inbox), e, p)
<1>1. e = "joined" /\ Accepted(c, q, s, inbox, p)
  BY DEF Life, Stage
<1>2. Accepted(c, q, "Chatting", Tail(inbox), p)
  BY <1>1, AcceptedTail
<1>3. InLine(c, q, "Chatting", Tail(inbox), e)
  BY <1>1 DEF Life, InLine, Asks, Joins, Talks, Departs
<1> QED
  BY <1>1, <1>2, <1>3 DEF Life, Stage

\* What is next under way to a client is what it waits for, but that the tokio
\* port may tell it of the others before it gets its list (lib.rs:276).
LEMMA LifeExpects ==
    ASSUME NEW c, NEW q, NEW s \in States, NEW inbox \in Seq(ServerMessage), inbox # <<>>,
           NEW e, NEW p, Life(c, q, s, inbox, e, p), inbox[1].kind \notin Expected(s),
           Expected(s) # {}
    PROVE  s = "Joined" /\ p # "wasi" /\ e = "joined" /\ inbox[1].kind \in Chat
<1>1. 1 \in 1..Len(inbox)
  OBVIOUS
<1>2. s \in {"WaitingWelcome", "answer", "Joined", "Chatting"}
  BY DEF Expected, States
<1>3. s # "WaitingWelcome"
  BY <1>1 DEF Life, Stage, Plain, Expected
<1>4. s # "answer"
  <2> SUFFICES ASSUME s = "answer" PROVE FALSE
    OBVIOUS
  <2>1. Expected(s) = {"UsernameAccepted", "UsernameInvalid"}
    BY DEF Expected
  <2>2. e = "unnamed" => inbox = <<Plain("UsernameInvalid")>>
    BY DEF Life, Stage
  <2>3. e = "joined" => inbox[1] = Plain("UsernameAccepted")
    BY DEF Life, Stage, Accepted
  <2>4. e \in {"unnamed", "joined"}
    BY DEF Life, Stage
  <2> QED
    BY <2>1, <2>2, <2>3, <2>4 DEF Plain
<1>5. s \in {"Joined", "Chatting"} => First(s) = 1 /\ Accepted(c, q, s, inbox, p)
  BY DEF Life, Stage, First
<1>6. s # "Chatting"
  <2> SUFFICES ASSUME s = "Chatting" PROVE FALSE
    OBVIOUS
  <2>1. Expected(s) = Chat
    BY DEF Expected, Chat
  <2> QED
    BY <1>1, <1>5, <2>1 DEF Accepted
<1>7. s = "Joined" => p # "wasi"
  <2> SUFFICES ASSUME s = "Joined", p = "wasi" PROVE FALSE
    OBVIOUS
  <2>1. Expected(s) = {"Users"}
    BY DEF Expected
  <2> QED
    BY <1>5, <2>1 DEF Accepted
<1>8. s = "Joined" => e = "joined" /\ inbox[1].kind \in Chat
  <2> SUFFICES ASSUME s = "Joined" PROVE e = "joined" /\ inbox[1].kind \in Chat
    OBVIOUS
  <2>1. Expected(s) = {"Users"}
    BY DEF Expected
  <2>2. inbox[1].kind \in Chat \cup {"Users"}
    BY <1>1, <1>5 DEF Accepted
  <2>3. e = "joined"
    BY DEF Life, Stage
  <2> QED
    BY <2>1, <2>2, <2>3
<1> QED
  BY <1>2, <1>3, <1>4, <1>6, <1>7, <1>8

-----------------------------------------------------------------------------
(* The steps of run *)

\* Nothing, or one message, is put behind a queue.
LEMMA Behind ==
    ASSUME NEW S, NEW s \in Seq(S), NEW m \in S
    PROVE  s \o <<>> = s /\ s \o <<m>> = Append(s, m)
<1>1. s \o <<>> = s
  BY ConcatEmptySeq
<1>2. s \o <<m>> = Append(s, m)
  OBVIOUS
<1> QED
  BY <1>1, <1>2

LEMMA TwoMessages ==
    ASSUME NEW m, NEW k
    PROVE  <<>> \o (<<m>> \o <<k>>) = <<m, k>>
<1> DEFINE S == {m, k}
<1>1. <<m>> \in Seq(S) /\ <<k>> \in Seq(S) /\ <<m, k>> \in Seq(S)
  OBVIOUS
<1>2. <<m>> \o <<k>> = <<m, k>>
  <2> DEFINE s == <<m>> \o <<k>>
             t == <<m, k>>
  <2>1. Len(s) = 2 /\ s[1] = m /\ s[2] = k
    BY <1>1, ConcatProperties
  <2>2. s \in Seq(S)
    BY <1>1, ConcatProperties
  <2>3. Len(t) = 2 /\ t[1] = m /\ t[2] = k
    OBVIOUS
  <2> HIDE DEF s, t
  <2>4. \A n \in 1..Len(s) : s[n] = t[n]
    BY <2>1, <2>3
  <2>5. s = t
    BY <1>1, <2>1, <2>2, <2>3, <2>4, SeqEqual DEF t
  <2> QED
    BY <2>5 DEF s, t
<1> HIDE DEF S
<1>3. <<>> \o <<m, k>> = <<m, k>>
  BY <1>1, ConcatEmptySeq
<1> QED
  BY <1>2, <1>3

LEMMA AppendToOne ==
    ASSUME NEW m, NEW k
    PROVE  Append(<<m>>, k) = <<m, k>>
<1> DEFINE S == {m, k}
<1>1. <<m>> \in Seq(S) /\ <<k>> \in Seq(S) /\ <<m, k>> \in Seq(S)
  OBVIOUS
<1>2. <<m>> \o <<k>> = Append(<<m>>, k)
  BY <1>1, Behind
<1>3. <<m>> \o <<k>> = <<m, k>>
  <2>1. <<>> \o (<<m>> \o <<k>>) = <<m, k>>
    BY TwoMessages
  <2>2. <<m>> \o <<k>> \in Seq(S)
    BY <1>1, ConcatProperties
  <2> HIDE DEF S
  <2> QED
    BY <2>1, <2>2, ConcatEmptySeq
<1> QED
  BY <1>2, <1>3

\* The values that the variables have of a connection.
LEMMA TaskType ==
    ASSUME Inv, NEW c \in Ids
    PROVE  /\ client[c].state \in States /\ client[c].inbox \in Seq(ServerMessage)
           /\ client[c].room \in SUBSET Names /\ receiver \in Seq(ClientMessage)
           /\ Entry(c) \in {"absent", "unnamed", "joined"}
           /\ Entry(c) = "absent" <=> c \notin DOMAIN clients
           /\ Entry(c) = "joined" <=> IsJoined(c)
           /\ Entry(c) = "unnamed" <=> c \in DOMAIN clients /\ ~ IsJoined(c)
<1>1. client[c] \in Client /\ receiver \in Seq(ClientMessage)
  BY DEF Inv, TypeOK
<1>2. /\ client[c].state \in States /\ client[c].inbox \in Seq(ServerMessage)
      /\ client[c].room \in SUBSET Names
  BY <1>1 DEF Client
<1> QED
  BY <1>1, <1>2 DEF Entry, IsJoined

LEMMA HeadPlace ==
    ASSUME Inv, receiver # <<>>
    PROVE  /\ receiver \in Seq(ClientMessage) /\ receiver[1] = Head(receiver)
           /\ 1 \in 1..Len(receiver)
<1>1. receiver \in Seq(ClientMessage)
  BY DEF Inv, TypeOK
<1>2. Len(receiver) \in Nat /\ Len(receiver) > 0 /\ Head(receiver) = receiver[1]
  BY <1>1, TailPlaces
<1> QED
  BY <1>1, <1>2

LEMMA EndLives ==
    ASSUME NEW how, End(how), UNCHANGED port
    PROVE  Lives'
<1> SUFFICES ASSUME NEW c \in Ids
             PROVE  Life(c, receiver', client'[c].state, client'[c].inbox, Entry(c)', port')
  BY DEF Lives
<1>1. Entry(c)' = "absent"
  BY DEF End, NoClients, Entry
<1>2. client'[c].state = "none" /\ client'[c].inbox = <<>>
  BY DEF End, NoTasks
<1>3. Silent(c, receiver')
  BY DEF End, Silent
<1> QED
  BY <1>1, <1>2, <1>3, SilentLine DEF Life, Stage

\* What becomes of the tasks when run sends, unless it ends.
LEMMA EmitDoes ==
    ASSUME Inv, NEW sent, NEW table, Emit(sent, table)
    PROVE  \/ End("send failed")
           \/ /\ clients' = table
              /\ receiver' = Tail(receiver)
              /\ UNCHANGED server
              /\ \A c \in Ids :
                    /\ client'[c].state = client[c].state
                    /\ client'[c].room = client[c].room
                    /\ client'[c].inbox =
                          IF Gone(c) THEN client[c].inbox ELSE client[c].inbox \o sent[c]
<1> SUFFICES ASSUME ~ End("send failed")
             PROVE  /\ clients' = table
                    /\ receiver' = Tail(receiver)
                    /\ UNCHANGED server
                    /\ \A c \in Ids :
                          /\ client'[c].state = client[c].state
                          /\ client'[c].room = client[c].room
                          /\ client'[c].inbox =
                                IF Gone(c) THEN client[c].inbox ELSE client[c].inbox \o sent[c]
  OBVIOUS
<1>1. /\ clients' = table
      /\ receiver' = Tail(receiver)
      /\ client' = [c \in Ids |-> [client[c] EXCEPT !.inbox =
                       IF Gone(c) THEN @ ELSE @ \o sent[c]]]
      /\ UNCHANGED server
  BY DEF Emit
<1>2. ASSUME NEW c \in Ids
      PROVE  /\ client'[c].state = client[c].state
             /\ client'[c].room = client[c].room
             /\ client'[c].inbox =
                   IF Gone(c) THEN client[c].inbox ELSE client[c].inbox \o sent[c]
  <2>1. client[c] \in Client
    BY DEF Inv, TypeOK
  <2> QED
    BY <1>1, <2>1 DEF Client
<1> QED
  BY <1>1, <1>2

\* The connections that run does not write about, but may write to.
LEMMA OthersLive ==
    ASSUME Inv, Lives, receiver # <<>>, receiver' = Tail(receiver), UNCHANGED port,
           NEW c \in Ids, client'[c].state = client[c].state, Entry(c)' = Entry(c),
           \/ client'[c].inbox = client[c].inbox
           \/ \E m \in ServerMessage :
                 /\ m.kind \in Chat /\ IsJoined(c) /\ ~ Gone(c)
                 /\ client'[c].inbox = Append(client[c].inbox, m)
    PROVE  Life(c, receiver', client'[c].state, client'[c].inbox, Entry(c)', port')
<1>1. /\ client[c].state \in States /\ client[c].inbox \in Seq(ServerMessage)
      /\ receiver \in Seq(ClientMessage)
      /\ IsJoined(c) => Entry(c) = "joined"
  BY TaskType
<1>2. Life(c, receiver', client[c].state, client[c].inbox, Entry(c), port)
  BY <1>1, LifeTail DEF Lives
<1>3. CASE client'[c].inbox = client[c].inbox
  BY <1>2, <1>3
<1>4. ASSUME NEW m \in ServerMessage, m.kind \in Chat, IsJoined(c), ~ Gone(c),
             client'[c].inbox = Append(client[c].inbox, m)
      PROVE  Life(c, receiver', client'[c].state, client'[c].inbox, Entry(c)', port')
  <2>1. Life(c, receiver', client[c].state, Append(client[c].inbox, m), "joined", port)
    BY <1>1, <1>2, <1>4, LifeHears DEF Gone
  <2> QED
    BY <1>1, <1>4, <2>1
<1> QED
  BY <1>3, <1>4

\* A name is given to who asks for it, or refused.
LEMMA SetUsernameDoes ==
    ASSUME Inv, Lives, receiver # <<>>, NEW m \in ClientMessage, m = Head(receiver),
           HandleSetUsername(m)
    PROVE  /\ m.id \in Ids /\ client[m.id].state = "answer" /\ Silent(m.id, Tail(receiver))
           /\ m.id \in DOMAIN clients /\ ~ IsJoined(m.id)
           /\ \/ End("send failed")
              \/ /\ receiver' = Tail(receiver) /\ UNCHANGED server
                 /\ \A c \in Ids : /\ client'[c].state = client[c].state
                                   /\ client'[c].room = client[c].room
                                   /\ c # m.id => client'[c].inbox = client[c].inbox
                 /\ \/ /\ m.name \in Names /\ clients' = [clients EXCEPT ![m.id] = m.name]
                       /\ client'[m.id].inbox =
                             IF port = "wasi"
                             THEN <<Plain("UsernameAccepted"), Users(UsersBut(m.id))>>
                             ELSE <<Plain("UsernameAccepted")>>
                    \/ /\ UNCHANGED clients
                       /\ client'[m.id].inbox = <<Plain("UsernameInvalid")>>
<1>1. m.id \in Ids /\ m.name \in Names \cup {NoName} /\ m.kind = "SetUsername"
  BY DEF HandleSetUsername, ClientMessage
<1>2. receiver \in Seq(ClientMessage) /\ receiver[1] = m
  BY HeadPlace
<1>3. /\ client[m.id].state = "answer" /\ client[m.id].inbox = <<>> /\ Entry(m.id) = "unnamed"
      /\ Silent(m.id, Tail(receiver))
  BY ZenonT(30), <1>1, <1>2, LifeAsked DEF Lives
<1>4. m.id \in DOMAIN clients /\ ~ IsJoined(m.id) /\ ~ Gone(m.id)
  BY <1>1, <1>3, TaskType DEF Gone
<1>5. ASSUME NEW messages, NEW table, Emit(To(m.id, messages), table), ~ End("send failed")
      PROVE  /\ receiver' = Tail(receiver) /\ UNCHANGED server /\ clients' = table
             /\ \A c \in Ids : /\ client'[c].state = client[c].state
                               /\ client'[c].room = client[c].room
                               /\ c # m.id => client'[c].inbox = client[c].inbox
             /\ client'[m.id].inbox = <<>> \o messages
  <2>1. /\ clients' = table /\ receiver' = Tail(receiver) /\ UNCHANGED server
        /\ \A c \in Ids :
              /\ client'[c].state = client[c].state
              /\ client'[c].room = client[c].room
              /\ client'[c].inbox = IF Gone(c) THEN client[c].inbox
                                    ELSE client[c].inbox \o To(m.id, messages)[c]
    BY <1>5, EmitDoes
  <2>2. ASSUME NEW c \in Ids, c # m.id PROVE client'[c].inbox = client[c].inbox
    <3>1. client[c].inbox \o <<>> = client[c].inbox
      BY TaskType, ConcatEmptySeq
    <3> QED
      BY <2>1, <2>2, <3>1 DEF To
  <2>3. client'[m.id].inbox = <<>> \o messages
    BY <1>1, <1>3, <1>4, <2>1 DEF To
  <2> QED
    BY <2>1, <2>2, <2>3
<1>6. CASE IsUsernameValid(m.name) /\ ~ End("send failed")
  <2> DEFINE list == IF port = "wasi" THEN <<Users(UsersBut(m.id))>> ELSE <<>>
             messages == <<Plain("UsernameAccepted")>> \o list
             table == [clients EXCEPT ![m.id] = m.name]
  <2>1. Emit(To(m.id, messages), table)
    BY <1>4, <1>6 DEF HandleSetUsername
  <2>2. m.name \in Names
    BY <1>1, <1>6 DEF IsUsernameValid
  <2>3. <<>> \o messages = IF port = "wasi"
                           THEN <<Plain("UsernameAccepted"), Users(UsersBut(m.id))>>
                           ELSE <<Plain("UsernameAccepted")>>
    <3>1. CASE port = "wasi"
      BY <3>1, TwoMessages
    <3>2. CASE port # "wasi"
      <4>1. <<>> \o (<<Plain("UsernameAccepted")>> \o <<>>) = <<Plain("UsernameAccepted")>>
        OBVIOUS
      <4> QED
        BY <3>2, <4>1
    <3> QED
      BY <3>1, <3>2
  <2> HIDE DEF messages, table
  <2>4. /\ receiver' = Tail(receiver) /\ UNCHANGED server /\ clients' = table
        /\ \A c \in Ids : /\ client'[c].state = client[c].state
                          /\ client'[c].room = client[c].room
                          /\ c # m.id => client'[c].inbox = client[c].inbox
        /\ client'[m.id].inbox = <<>> \o messages
    BY <1>5, <1>6, <2>1
  <2> QED
    BY <1>1, <1>3, <1>4, <2>2, <2>3, <2>4 DEF table
<1>7. CASE ~ IsUsernameValid(m.name) /\ ~ End("send failed")
  <2>1. Emit(To(m.id, <<Plain("UsernameInvalid")>>), clients)
    BY <1>4, <1>7 DEF HandleSetUsername
  <2>2. <<>> \o <<Plain("UsernameInvalid")>> = <<Plain("UsernameInvalid")>>
    OBVIOUS
  <2>3. /\ receiver' = Tail(receiver) /\ UNCHANGED server /\ UNCHANGED clients
        /\ \A c \in Ids : /\ client'[c].state = client[c].state
                          /\ client'[c].room = client[c].room
                          /\ c # m.id => client'[c].inbox = client[c].inbox
        /\ client'[m.id].inbox = <<>> \o <<Plain("UsernameInvalid")>>
    BY <1>5, <1>7, <2>1
  <2> QED
    BY <1>1, <1>3, <1>4, <2>2, <2>3
<1> QED
  BY <1>1, <1>3, <1>4, <1>6, <1>7

LEMMA SetUsernameLives ==
    ASSUME Inv, Lives, RunsOn, receiver # <<>>, NEW m \in ClientMessage, m = Head(receiver),
           HandleSetUsername(m), UNCHANGED port
    PROVE  Lives' /\ RunsOn'
<1>1. m.id \in Ids /\ client[m.id].state = "answer" /\ Silent(m.id, Tail(receiver))
      /\ m.id \in DOMAIN clients
  BY SetUsernameDoes
<1>2. CASE End("send failed")
  BY <1>2, EndLives DEF RunsOn, End
<1>3. CASE ~ End("send failed")
  <2>1. /\ receiver' = Tail(receiver) /\ UNCHANGED server
        /\ \A c \in Ids : /\ client'[c].state = client[c].state
                          /\ c # m.id => client'[c].inbox = client[c].inbox
        /\ \/ /\ m.name \in Names /\ clients' = [clients EXCEPT ![m.id] = m.name]
              /\ client'[m.id].inbox =
                    IF port = "wasi"
                    THEN <<Plain("UsernameAccepted"), Users(UsersBut(m.id))>>
                    ELSE <<Plain("UsernameAccepted")>>
           \/ /\ UNCHANGED clients
              /\ client'[m.id].inbox = <<Plain("UsernameInvalid")>>
    BY <1>3, SetUsernameDoes
  <2>2. ASSUME NEW c \in Ids, c # m.id
        PROVE  Life(c, receiver', client'[c].state, client'[c].inbox, Entry(c)', port')
    <3>1. Entry(c)' = Entry(c)
      BY <2>1, <2>2 DEF Entry
    <3> QED
      BY <2>1, <2>2, <3>1, OthersLive
  <2>3. Life(m.id, receiver', client'[m.id].state, client'[m.id].inbox, Entry(m.id)', port')
    <3>1. CASE /\ m.name \in Names /\ clients' = [clients EXCEPT ![m.id] = m.name]
               /\ client'[m.id].inbox =
                     IF port = "wasi"
                     THEN <<Plain("UsernameAccepted"), Users(UsersBut(m.id))>>
                     ELSE <<Plain("UsernameAccepted")>>
      <4>1. Entry(m.id)' = "joined"
        BY <1>1, <3>1, NoNameAssumption DEF Entry
      <4>2. Users(UsersBut(m.id)).kind = "Users"
        BY DEF Users
      <4>3. CASE port = "wasi"
        BY <1>1, <2>1, <3>1, <4>1, <4>2, <4>3, LifeNamedWasi
      <4>4. CASE port = "tokio"
        BY <1>1, <2>1, <3>1, <4>1, <4>4, LifeNamedTokio
      <4> QED
        BY <4>3, <4>4 DEF Inv, TypeOK
    <3>2. CASE UNCHANGED clients /\ client'[m.id].inbox = <<Plain("UsernameInvalid")>>
      <4>1. ~ IsJoined(m.id)
        BY SetUsernameDoes
      <4>2. Entry(m.id)' = "unnamed"
        BY <1>1, <3>2, <4>1 DEF Entry, IsJoined
      <4> QED
        BY <1>1, <2>1, <3>2, <4>2, LifeRefused
    <3> QED
      BY <2>1, <3>1, <3>2
  <2> QED
    BY <2>1, <2>2, <2>3 DEF Lives, RunsOn
<1> QED
  BY <1>2, <1>3

\* The others that have joined hear what run broadcasts.
LEMMA BroadcastDoes ==
    ASSUME Inv, NEW c \in Ids, NEW d \in Ids, NEW m \in ServerMessage,
           client'[d].inbox = IF Gone(d) THEN client[d].inbox
                              ELSE client[d].inbox \o Broadcast(c, m)[d]
    PROVE  client'[d].inbox = IF ~ Gone(d) /\ IsJoined(d) /\ d # c
                              THEN Append(client[d].inbox, m) ELSE client[d].inbox
<1>1. /\ client[d].inbox \o <<>> = client[d].inbox
      /\ client[d].inbox \o <<m>> = Append(client[d].inbox, m)
  BY TaskType, Behind
<1>2. Broadcast(c, m)[d] = IF d \in Others(c) THEN <<m>> ELSE <<>>
  BY DEF Broadcast
<1>3. d \in Others(c) <=> IsJoined(d) /\ d # c
  BY DEF Others
<1> QED
  BY <1>1, <1>2, <1>3

LEMMA MessageKind ==
    ASSUME NEW user
    PROVE  /\ About("AnnounceUser", user).kind \in Chat
           /\ About("Message", user).kind \in Chat
           /\ About("Disconnected", user).kind \in Chat
BY DEF About, Chat

\* Who has joined is announced; the tokio port sends it the list.
LEMMA JoinedDoes ==
    ASSUME Inv, Lives, receiver # <<>>, NEW m \in ClientMessage, m = Head(receiver),
           HandleJoined(m)
    PROVE  /\ m.id \in Ids /\ m.kind = "Joined" /\ IsJoined(m.id) /\ m.id \in DOMAIN clients
           /\ \/ End("send failed")
              \/ /\ receiver' = Tail(receiver) /\ UNCHANGED <<server, clients>>
                 /\ \A c \in Ids :
                       /\ client'[c].state = client[c].state
                       /\ client'[c].room = client[c].room
                       /\ c # m.id => client'[c].inbox =
                              IF ~ Gone(c) /\ IsJoined(c)
                              THEN Append(client[c].inbox, About("AnnounceUser", clients[m.id]))
                              ELSE client[c].inbox
                 /\ client'[m.id].inbox =
                       IF ~ Gone(m.id) /\ port = "tokio"
                       THEN Append(client[m.id].inbox, Users(UsersBut(m.id)))
                       ELSE client[m.id].inbox
<1>1. m.id \in Ids /\ m.kind = "Joined"
  BY DEF HandleJoined, ClientMessage
<1>2. receiver \in Seq(ClientMessage) /\ receiver[1] = m /\ 1 \in 1..Len(receiver)
  BY HeadPlace
<1>3. Entry(m.id) = "joined"
  BY <1>1, <1>2 DEF Lives, Life, InLine, Joins
<1>4. m.id \in DOMAIN clients /\ IsJoined(m.id)
  BY <1>1, <1>3, TaskType DEF IsJoined
<1> DEFINE a == About("AnnounceUser", clients[m.id])
           u == Users(UsersBut(m.id))
           others == Broadcast(m.id, a)
           sent == [d \in Ids |-> IF d = m.id /\ port = "tokio" THEN <<u>> ELSE others[d]]
<1>5. Emit(sent, clients)
  BY <1>4 DEF HandleJoined
<1>6. CASE ~ End("send failed")
  <2>1. /\ UNCHANGED <<server, clients>> /\ receiver' = Tail(receiver)
        /\ \A c \in Ids :
              /\ client'[c].state = client[c].state
              /\ client'[c].room = client[c].room
              /\ client'[c].inbox = IF Gone(c) THEN client[c].inbox
                                    ELSE client[c].inbox \o sent[c]
    BY <1>5, <1>6, EmitDoes
  <2>2. a \in ServerMessage
    BY <1>1, <1>4, JoinedName, MessageType
  <2>3. ASSUME NEW c \in Ids, ~ (c = m.id /\ port = "tokio")
        PROVE  client'[c].inbox = IF ~ Gone(c) /\ IsJoined(c) /\ c # m.id
                                  THEN Append(client[c].inbox, a) ELSE client[c].inbox
    <3>1. sent[c] = Broadcast(m.id, a)[c]
      BY <2>3
    <3> HIDE DEF sent, a, others
    <3>2. client'[c].inbox = IF Gone(c) THEN client[c].inbox
                             ELSE client[c].inbox \o Broadcast(m.id, a)[c]
      BY <2>1, <3>1
    <3> QED
      BY <1>1, <2>2, <3>2, BroadcastDoes
  <2>4. ASSUME port = "tokio"
        PROVE  client'[m.id].inbox = IF Gone(m.id) THEN client[m.id].inbox
                                     ELSE Append(client[m.id].inbox, u)
    <3>1. sent[m.id] = <<u>>
      BY <1>1, <2>4
    <3>2. u \in ServerMessage
      BY <1>1, UsersType
    <3> HIDE DEF sent, a, u, others
    <3>3. client[m.id].inbox \o <<u>> = Append(client[m.id].inbox, u)
      BY <1>1, <3>2, TaskType, Behind
    <3> QED
      BY <1>1, <2>1, <3>1, <3>3
  <2> HIDE DEF sent, a, u, others
  <2>5. /\ \A c \in Ids : c # m.id => client'[c].inbox =
              IF ~ Gone(c) /\ IsJoined(c) THEN Append(client[c].inbox, a) ELSE client[c].inbox
        /\ client'[m.id].inbox =
              IF ~ Gone(m.id) /\ port = "tokio"
              THEN Append(client[m.id].inbox, u) ELSE client[m.id].inbox
    BY <1>1, <2>3, <2>4
  <2> QED
    BY <1>1, <1>4, <2>1, <2>5 DEF a, u
<1> QED
  BY <1>1, <1>4, <1>6

LEMMA JoinedLives ==
    ASSUME Inv, Lives, RunsOn, receiver # <<>>, NEW m \in ClientMessage, m = Head(receiver),
           HandleJoined(m), UNCHANGED port
    PROVE  Lives' /\ RunsOn'
<1> DEFINE a == About("AnnounceUser", clients[m.id])
           u == Users(UsersBut(m.id))
<1>1. m.id \in Ids /\ m.kind = "Joined" /\ IsJoined(m.id) /\ m.id \in DOMAIN clients
  BY JoinedDoes
<1>2. receiver \in Seq(ClientMessage) /\ receiver[1] = m
  BY HeadPlace
<1>3. a \in ServerMessage /\ a.kind \in Chat
  BY <1>1, JoinedName, MessageType, MessageKind
<1>4. u \in ServerMessage /\ u.kind = "Users"
  BY <1>1, UsersType DEF Users
<1>5. CASE End("send failed")
  BY <1>5, EndLives DEF RunsOn, End
<1>6. CASE ~ End("send failed")
  <2>1. /\ receiver' = Tail(receiver) /\ UNCHANGED <<server, clients>>
        /\ \A c \in Ids :
              /\ client'[c].state = client[c].state
              /\ c # m.id => client'[c].inbox =
                     IF ~ Gone(c) /\ IsJoined(c) THEN Append(client[c].inbox, a) ELSE client[c].inbox
        /\ client'[m.id].inbox =
              IF ~ Gone(m.id) /\ port = "tokio"
              THEN Append(client[m.id].inbox, u) ELSE client[m.id].inbox
    BY <1>6, JoinedDoes
  <2> HIDE DEF a, u
  <2>2. \A c \in Ids : Entry(c)' = Entry(c)
    BY <2>1 DEF Entry
  <2>3. ASSUME NEW c \in Ids, c # m.id
        PROVE  Life(c, receiver', client'[c].state, client'[c].inbox, Entry(c)', port')
    BY <1>3, <2>1, <2>2, <2>3, OthersLive
  <2>4. Life(m.id, receiver', client'[m.id].state, client'[m.id].inbox, Entry(m.id)', port')
    <3>1. CASE Gone(m.id) \/ port # "tokio"
      BY <1>1, <2>1, <2>2, <3>1, OthersLive
    <3>2. CASE ~ Gone(m.id) /\ port = "tokio"
      <4>1. client[m.id].state \in States /\ client[m.id].inbox \in Seq(ServerMessage)
            /\ Entry(m.id) = "joined"
        BY <1>1, TaskType
      <4>2. Life(m.id, receiver, client[m.id].state, client[m.id].inbox, "joined", "tokio")
        BY <1>1, <3>2, <4>1 DEF Lives
      <4>3. client[m.id].state \notin {"done", "panicked"}
        BY <3>2 DEF Gone
      <4>4. Life(m.id, Tail(receiver), client[m.id].state, Append(client[m.id].inbox, u),
                 "joined", "tokio")
        BY <1>1, <1>2, <1>4, <4>1, <4>2, <4>3, LifeListed
      <4> QED
        BY <1>1, <2>1, <2>2, <3>2, <4>1, <4>4
    <3> QED
      BY <3>1, <3>2
  <2> QED
    BY <2>1, <2>3, <2>4 DEF Lives, RunsOn
<1> QED
  BY <1>5, <1>6

\* A line goes to the others.
LEMMA MessageDoes ==
    ASSUME Inv, Lives, receiver # <<>>, NEW m \in ClientMessage, m = Head(receiver),
           HandleMessage(m)
    PROVE  /\ m.id \in Ids /\ m.kind = "Message" /\ IsJoined(m.id)
           /\ \/ End("send failed")
              \/ /\ receiver' = Tail(receiver) /\ UNCHANGED <<server, clients>>
                 /\ \A c \in Ids :
                       /\ client'[c].state = client[c].state
                       /\ client'[c].room = client[c].room
                       /\ client'[c].inbox =
                             IF ~ Gone(c) /\ IsJoined(c) /\ c # m.id
                             THEN Append(client[c].inbox, About("Message", clients[m.id]))
                             ELSE client[c].inbox
<1>1. m.id \in Ids /\ m.kind = "Message"
  BY DEF HandleMessage, ClientMessage
<1>2. receiver \in Seq(ClientMessage) /\ receiver[1] = m /\ 1 \in 1..Len(receiver)
  BY HeadPlace
<1>3. Entry(m.id) = "joined"
  BY <1>1, <1>2 DEF Lives, Life, InLine, Talks
<1>4. m.id \in DOMAIN clients /\ IsJoined(m.id)
  BY <1>1, <1>3, TaskType DEF IsJoined
<1> DEFINE a == About("Message", clients[m.id])
<1>5. Emit(Broadcast(m.id, a), clients)
  BY <1>4 DEF HandleMessage
<1>6. a \in ServerMessage
  BY <1>1, <1>4, JoinedName, MessageType
<1>7. CASE ~ End("send failed")
  <2> HIDE DEF a
  <2>1. /\ UNCHANGED <<server, clients>> /\ receiver' = Tail(receiver)
        /\ \A c \in Ids :
              /\ client'[c].state = client[c].state
              /\ client'[c].room = client[c].room
              /\ client'[c].inbox = IF Gone(c) THEN client[c].inbox
                                    ELSE client[c].inbox \o Broadcast(m.id, a)[c]
    BY <1>5, <1>7, EmitDoes
  <2>2. ASSUME NEW c \in Ids
        PROVE  client'[c].inbox = IF ~ Gone(c) /\ IsJoined(c) /\ c # m.id
                                  THEN Append(client[c].inbox, a) ELSE client[c].inbox
    BY <1>1, <1>6, <2>1, BroadcastDoes
  <2> QED
    BY <1>1, <1>4, <2>1, <2>2 DEF a
<1> QED
  BY <1>1, <1>4, <1>7

LEMMA MessageLives ==
    ASSUME Inv, Lives, RunsOn, receiver # <<>>, NEW m \in ClientMessage, m = Head(receiver),
           HandleMessage(m), UNCHANGED port
    PROVE  Lives' /\ RunsOn'
<1> DEFINE a == About("Message", clients[m.id])
<1>1. a \in ServerMessage /\ a.kind \in Chat
  BY MessageDoes, JoinedName, MessageType, MessageKind
<1>2. CASE End("send failed")
  BY <1>2, EndLives DEF RunsOn, End
<1>3. CASE ~ End("send failed")
  <2>1. /\ UNCHANGED <<server, clients>> /\ receiver' = Tail(receiver)
        /\ \A c \in Ids :
              /\ client'[c].state = client[c].state
              /\ client'[c].inbox = IF ~ Gone(c) /\ IsJoined(c) /\ c # m.id
                                    THEN Append(client[c].inbox, a) ELSE client[c].inbox
    BY <1>3, MessageDoes
  <2> HIDE DEF a
  <2>2. \A c \in Ids : Entry(c)' = Entry(c)
    BY <2>1 DEF Entry
  <2>3. ASSUME NEW c \in Ids
        PROVE  Life(c, receiver', client'[c].state, client'[c].inbox, Entry(c)', port')
    BY <1>1, <2>1, <2>2, OthersLive
  <2> QED
    BY <2>1, <2>3 DEF Lives, RunsOn
<1> QED
  BY <1>2, <1>3

\* Who leaves is forgotten; if it had joined, the others are told.
LEMMA DisconnectDoes ==
    ASSUME Inv, Lives, receiver # <<>>, NEW m \in ClientMessage, m = Head(receiver),
           HandleDisconnect(m)
    PROVE  /\ m.id \in Ids /\ m.kind = "Disconnect" /\ m.id \in DOMAIN clients /\ Gone(m.id)
           /\ \/ End("send failed")
              \/ /\ receiver' = Tail(receiver) /\ UNCHANGED server
                 /\ clients' = [c \in DOMAIN clients \ {m.id} |-> clients[c]]
                 /\ \A c \in Ids :
                       /\ client'[c].state = client[c].state
                       /\ client'[c].room = client[c].room
                       /\ client'[c].inbox =
                             IF IsJoined(m.id) /\ ~ Gone(c) /\ IsJoined(c) /\ c # m.id
                             THEN Append(client[c].inbox, About("Disconnected", clients[m.id]))
                             ELSE client[c].inbox
<1>1. m.id \in Ids /\ m.kind = "Disconnect"
  BY DEF HandleDisconnect, ClientMessage
<1>2. receiver \in Seq(ClientMessage) /\ receiver[1] = m /\ 1 \in 1..Len(receiver)
  BY HeadPlace
<1>3. Life(m.id, receiver, client[m.id].state, client[m.id].inbox, Entry(m.id), port)
  BY <1>1 DEF Lives
<1>4. Entry(m.id) # "absent" /\ client[m.id].state = "done"
  BY <1>1, <1>2, <1>3 DEF Life, InLine, Silent, Departs
<1>5. m.id \in DOMAIN clients /\ Gone(m.id)
  BY <1>1, <1>4, TaskType DEF Gone
<1> DEFINE a == About("Disconnected", clients[m.id])
           nobody == [d \in Ids |-> <<>>]
           sent == IF IsJoined(m.id) THEN Broadcast(m.id, a) ELSE nobody
           table == [c \in DOMAIN clients \ {m.id} |-> clients[c]]
<1>6. Emit(sent, table)
  BY <1>5 DEF HandleDisconnect
<1>7. CASE ~ End("send failed")
  <2>1. /\ clients' = table /\ receiver' = Tail(receiver) /\ UNCHANGED server
        /\ \A c \in Ids :
              /\ client'[c].state = client[c].state
              /\ client'[c].room = client[c].room
              /\ client'[c].inbox = IF Gone(c) THEN client[c].inbox
                                    ELSE client[c].inbox \o sent[c]
    BY <1>6, <1>7, EmitDoes
  <2>2. ASSUME NEW c \in Ids, IsJoined(m.id)
        PROVE  client'[c].inbox = IF ~ Gone(c) /\ IsJoined(c) /\ c # m.id
                                  THEN Append(client[c].inbox, a) ELSE client[c].inbox
    <3>1. a \in ServerMessage
      BY <1>1, <2>2, JoinedName, MessageType
    <3>2. client'[c].inbox = IF Gone(c) THEN client[c].inbox
                             ELSE client[c].inbox \o Broadcast(m.id, a)[c]
      BY <2>1, <2>2
    <3> HIDE DEF a, sent
    <3> QED
      BY <1>1, <3>1, <3>2, BroadcastDoes
  <2>3. ASSUME NEW c \in Ids, ~ IsJoined(m.id)
        PROVE  client'[c].inbox = client[c].inbox
    <3>1. client[c].inbox \o <<>> = client[c].inbox
      BY TaskType, ConcatEmptySeq
    <3> QED
      BY <2>1, <2>3, <3>1
  <2> HIDE DEF sent, a
  <2> QED
    BY <1>1, <1>5, <2>1, <2>2, <2>3 DEF a
<1> QED
  BY <1>1, <1>5, <1>7

LEMMA DisconnectLives ==
    ASSUME Inv, Lives, RunsOn, receiver # <<>>, NEW m \in ClientMessage, m = Head(receiver),
           HandleDisconnect(m), UNCHANGED port
    PROVE  Lives' /\ RunsOn'
<1> DEFINE a == About("Disconnected", clients[m.id])
<1>1. m.id \in Ids /\ m.kind = "Disconnect" /\ m.id \in DOMAIN clients /\ Gone(m.id)
  BY DisconnectDoes
<1>2. receiver \in Seq(ClientMessage) /\ receiver[1] = m
  BY HeadPlace
<1>3. IsJoined(m.id) => a \in ServerMessage /\ a.kind \in Chat
  BY <1>1, JoinedName, MessageType, MessageKind
<1>4. CASE End("send failed")
  BY <1>4, EndLives DEF RunsOn, End
<1>5. CASE ~ End("send failed")
  <2>1. /\ clients' = [c \in DOMAIN clients \ {m.id} |-> clients[c]]
        /\ receiver' = Tail(receiver) /\ UNCHANGED server
        /\ \A c \in Ids :
              /\ client'[c].state = client[c].state
              /\ client'[c].inbox =
                    IF IsJoined(m.id) /\ ~ Gone(c) /\ IsJoined(c) /\ c # m.id
                    THEN Append(client[c].inbox, a) ELSE client[c].inbox
    BY <1>5, DisconnectDoes
  <2> HIDE DEF a
  <2>2. \A c \in Ids : c # m.id => Entry(c)' = Entry(c)
    BY <2>1 DEF Entry
  <2>3. Entry(m.id)' = "absent"
    BY <2>1 DEF Entry
  <2>4. Life(m.id, receiver', client'[m.id].state, client'[m.id].inbox, Entry(m.id)', port')
    <3>1. Life(m.id, receiver, client[m.id].state, client[m.id].inbox, Entry(m.id), port)
      BY <1>1 DEF Lives
    <3> QED
      BY <1>1, <1>2, <2>1, <2>3, <3>1, LifeForgotten
  <2>5. ASSUME NEW c \in Ids, c # m.id
        PROVE  Life(c, receiver', client'[c].state, client'[c].inbox, Entry(c)', port')
    BY <1>3, <2>1, <2>2, <2>5, OthersLive
  <2> QED
    BY <2>1, <2>4, <2>5 DEF Lives, RunsOn
<1> QED
  BY <1>4, <1>5

LEMMA ServeLives ==
    ASSUME Inv, Lives, RunsOn, Serve
    PROVE  Lives' /\ RunsOn'
<1>1. receiver # <<>> /\ Head(receiver) \in ClientMessage /\ UNCHANGED port
  BY OneLess DEF Serve, Inv, TypeOK
<1>2. CASE HandleSetUsername(Head(receiver))
  BY <1>1, <1>2, SetUsernameLives
<1>3. CASE HandleJoined(Head(receiver))
  BY <1>1, <1>3, JoinedLives
<1>4. CASE HandleMessage(Head(receiver))
  BY <1>1, <1>4, MessageLives
<1>5. CASE HandleDisconnect(Head(receiver))
  BY <1>1, <1>5, DisconnectLives
<1> QED
  BY <1>2, <1>3, <1>4, <1>5 DEF Serve

-----------------------------------------------------------------------------
(* The steps of the client tasks *)

\* What the task of c does is nothing to another.
LEMMA TaskLives ==
    ASSUME Inv, Lives, NEW c \in Ids, UNCHANGED <<port, clients>>,
           \A d \in Ids : d # c => client'[d] = client[d],
           \/ receiver' = receiver
           \/ \E m \in ClientMessage : m.id = c /\ receiver' = Append(receiver, m),
           Life(c, receiver', client'[c].state, client'[c].inbox, Entry(c), port)
    PROVE  Lives'
<1>1. \A d \in Ids : Entry(d)' = Entry(d)
  BY DEF Entry
<1>2. receiver \in Seq(ClientMessage)
  BY DEF Inv, TypeOK
<1>3. ASSUME NEW d \in Ids, d # c
      PROVE  Life(d, receiver', client[d].state, client[d].inbox, Entry(d), port)
  BY <1>2, <1>3, LifeAppend DEF Lives
<1>4. ASSUME NEW d \in Ids
      PROVE  Life(d, receiver', client'[d].state, client'[d].inbox, Entry(d)', port')
  BY <1>1, <1>3
<1> QED
  BY <1>4 DEF Lives

\* A task in a new state.
LEMMA BecomeDoes ==
    ASSUME Inv, NEW c \in Ids, NEW state, Become(c, state)
    PROVE  /\ client'[c].state = state
           /\ client'[c].room = client[c].room
           /\ client'[c].inbox = IF state \in {"done", "panicked"} THEN <<>> ELSE client[c].inbox
           /\ \A d \in Ids : d # c => client'[d] = client[d]
<1>1. client[c] \in Client /\ client \in [Ids -> Client]
  BY DEF Inv, TypeOK
<1> QED
  BY <1>1 DEF Become, Client

LEMMA LeaveLives ==
    ASSUME Inv, Lives, NEW c \in Ids, Leave(c), UNCHANGED <<port, clients>>,
           \/ client[c].state \in {"WaitingWelcome", "Joining", "Joined", "Chatting"}
           \/ /\ client[c].state = "answer" /\ client[c].inbox # <<>>
              /\ client[c].inbox[1].kind # "UsernameAccepted"
    PROVE  Lives'
<1> DEFINE m == [kind |-> "Disconnect", id |-> c]
<1>1. m \in ClientMessage /\ m.id = c /\ m.kind = "Disconnect"
  BY DEF ClientMessage
<1>2. receiver' = Append(receiver, m) /\ Become(c, "done")
  BY DEF Leave
<1> HIDE DEF m
<1>3. /\ client'[c].state = "done" /\ client'[c].inbox = <<>>
      /\ \A d \in Ids : d # c => client'[d] = client[d]
  BY <1>2, BecomeDoes
<1>4. Life(c, receiver, client[c].state, client[c].inbox, Entry(c), port)
  BY DEF Lives
<1>5. receiver \in Seq(ClientMessage)
  BY DEF Inv, TypeOK
<1>6. Life(c, Append(receiver, m), "done", <<>>, Entry(c), port)
  BY <1>1, <1>4, <1>5, LifeLeaves
<1> QED
  BY <1>1, <1>2, <1>3, <1>6, TaskLives

LEMMA AcceptLives ==
    ASSUME Inv, Lives, NEW c \in Ids, Accept(c)
    PROVE  Lives'
<1>1. client \in [Ids -> Client]
  BY DEF Inv, TypeOK
<1>2. /\ client'[c].state = "WaitingWelcome" /\ client'[c].inbox = <<Plain("Welcome")>>
      /\ \A d \in Ids : d # c => client'[d] = client[d]
      /\ UNCHANGED <<receiver, port>> /\ client[c].state = "none"
  BY <1>1 DEF Accept, Client
<1>3. Entry(c)' = "unnamed" /\ \A d \in Ids : d # c => Entry(d)' = Entry(d)
  BY DEF Accept, Entry
<1>4. Silent(c, receiver)
  BY <1>2, LifeUnknown DEF Lives
<1>5. Life(c, receiver', client'[c].state, client'[c].inbox, Entry(c)', port')
  BY <1>2, <1>3, <1>4, LifeBegins
<1>6. ASSUME NEW d \in Ids, d # c
      PROVE  Life(d, receiver', client'[d].state, client'[d].inbox, Entry(d)', port')
  BY <1>2, <1>3, <1>6 DEF Lives
<1> QED
  BY <1>5, <1>6 DEF Lives

LEMMA AsksLives ==
    ASSUME Inv, Lives, NEW c \in Ids, NEW name \in Names \cup {NoName}, SetUsername(c, name)
    PROVE  Lives'
<1> DEFINE m == [kind |-> "SetUsername", id |-> c, name |-> name]
<1>1. m \in ClientMessage /\ m.id = c /\ m.kind = "SetUsername"
  BY DEF ClientMessage
<1>2. /\ receiver' = Append(receiver, m) /\ Become(c, "answer") /\ UNCHANGED <<port, clients>>
      /\ client[c].state = "Joining"
  BY DEF SetUsername
<1> HIDE DEF m
<1>3. /\ client'[c].state = "answer" /\ client'[c].inbox = client[c].inbox
      /\ \A d \in Ids : d # c => client'[d] = client[d]
  BY <1>2, BecomeDoes
<1>4. Entry(c) = "unnamed" /\ Silent(c, receiver) /\ client[c].inbox = <<>>
  BY <1>2 DEF Lives, Life, Stage
<1>5. receiver \in Seq(ClientMessage)
  BY DEF Inv, TypeOK
<1>6. InLine(c, Append(receiver, m), "answer", <<>>, "unnamed")
  BY <1>1, <1>4, <1>5, LifeSends
<1>7. Life(c, Append(receiver, m), "answer", <<>>, "unnamed", port)
  BY <1>6 DEF Life, Stage
<1> QED
  BY <1>1, <1>2, <1>3, <1>4, <1>7, TaskLives

LEMMA SayLives ==
    ASSUME Inv, Lives, NEW c \in Ids, Say(c)
    PROVE  Lives'
<1> DEFINE m == [kind |-> "Message", id |-> c]
<1>1. m \in ClientMessage /\ m.id = c /\ m.kind = "Message"
  BY DEF ClientMessage
<1>2. /\ receiver' = Append(receiver, m) /\ UNCHANGED <<port, clients>>
      /\ client[c].state = "Chatting"
  BY DEF Say
<1> HIDE DEF m
<1>3. /\ client'[c].state = client[c].state /\ client'[c].inbox = client[c].inbox
      /\ \A d \in Ids : d # c => client'[d] = client[d]
  <2>1. client \in [Ids -> Client]
    BY DEF Inv, TypeOK
  <2> QED
    BY <2>1 DEF Say, Client
<1>4. receiver \in Seq(ClientMessage)
  BY DEF Inv, TypeOK
<1>5. Life(c, receiver, "Chatting", client[c].inbox, Entry(c), port)
  BY <1>2 DEF Lives
<1>6. Life(c, Append(receiver, m), "Chatting", client[c].inbox, Entry(c), port)
  BY SMTT(30), <1>1, <1>4, <1>5, LifeSays
<1> QED
  BY <1>1, <1>2, <1>3, <1>6, TaskLives

\* What taking a message makes of a task.
LEMMA ProceedsDoes ==
    ASSUME Inv, NEW c \in Ids, client[c].inbox # <<>>, Proceeds(c, Head(client[c].inbox))
    PROVE  LET m == client[c].inbox[1] IN
           /\ m.kind # "UsernameInvalid" /\ m = Head(client[c].inbox)
           /\ client'[c].state = CASE m.kind = "Welcome"          -> "Joining"
                                  [] m.kind = "UsernameAccepted" -> "Joined"
                                  [] OTHER                       -> "Chatting"
           /\ client'[c].inbox = Tail(client[c].inbox)
           /\ client'[c].room = Shown(client[c].room, m)
           /\ \A d \in Ids : d # c => client'[d] = client[d]
           /\ receiver' = IF m.kind = "UsernameAccepted"
                          THEN Append(receiver, [kind |-> "Joined", id |-> c])
                          ELSE receiver
<1> DEFINE m == client[c].inbox[1]
           next == CASE m.kind = "Welcome"          -> "Joining"
                     [] m.kind = "UsernameAccepted" -> "Joined"
                     [] OTHER                       -> "Chatting"
<1>1. client \in [Ids -> Client] /\ client[c] \in Client
  BY DEF Inv, TypeOK
<1>2. client[c].inbox \in Seq(ServerMessage)
  BY <1>1 DEF Client
<1>3. Head(client[c].inbox) = m
  BY <1>2, TailPlaces
<1>4. /\ m.kind # "UsernameInvalid"
      /\ client' = [client EXCEPT ![c].state = next,
                                  ![c].inbox = Tail(@),
                                  ![c].room = Shown(@, m)]
      /\ receiver' = IF m.kind = "UsernameAccepted"
                     THEN Append(receiver, [kind |-> "Joined", id |-> c])
                     ELSE receiver
  BY <1>3 DEF Proceeds
<1> HIDE DEF m, next
<1>5. /\ client'[c].state = next /\ client'[c].inbox = Tail(client[c].inbox)
      /\ client'[c].room = Shown(client[c].room, m)
      /\ \A d \in Ids : d # c => client'[d] = client[d]
  BY <1>1, <1>4 DEF Client
<1> QED
  BY <1>3, <1>4, <1>5 DEF m, next

LEMMA ReceiveLives ==
    ASSUME Inv, Lives, RunsOn, NEW c \in Ids, Receive(c)
    PROVE  Lives' /\ RunsOn'
<1> DEFINE s == client[c].state
           inbox == client[c].inbox
           m == inbox[1]
<1>1. /\ s \in States /\ inbox \in Seq(ServerMessage) /\ receiver \in Seq(ClientMessage)
      /\ inbox # <<>> /\ Expected(s) # {} /\ UNCHANGED port
  BY TaskType DEF Receive
<1>2. Head(inbox) = m
  BY <1>1, TailPlaces
<1>3. Life(c, receiver, s, inbox, Entry(c), port)
  BY DEF Lives
<1>4. CASE m.kind \notin Expected(s)
  <2>1. s = "Joined" /\ port # "wasi"
    BY <1>1, <1>3, <1>4, LifeExpects
  <2>2. Become(c, "panicked") /\ UNCHANGED <<server, clients, receiver>>
    BY <1>2, <1>4, <2>1 DEF Receive
  <2>3. /\ client'[c].state = "panicked" /\ client'[c].inbox = <<>>
        /\ \A d \in Ids : d # c => client'[d] = client[d]
    BY <2>2, BecomeDoes
  <2>4. Life(c, receiver, "panicked", <<>>, Entry(c), port)
    BY <1>3, <2>1, LifePanics
  <2> QED
    BY <1>1, <2>2, <2>3, <2>4, TaskLives DEF RunsOn
<1>5. CASE m.kind \in Expected(s)
  <2>1. (Proceeds(c, m) \/ (m.kind # "UsernameAccepted" /\ Leave(c))) /\ UNCHANGED <<server, clients>>
    BY <1>2, <1>5 DEF Receive
  <2>2. CASE m.kind # "UsernameAccepted" /\ Leave(c)
    <3>1. s \in {"WaitingWelcome", "Joining", "Joined", "Chatting", "answer"}
      BY <1>1 DEF Expected, States
    <3> QED
      BY <1>1, <2>1, <2>2, <3>1, LeaveLives DEF RunsOn
  <2>3. CASE Proceeds(c, m)
    <3>1. /\ m.kind # "UsernameInvalid"
          /\ client'[c].state = CASE m.kind = "Welcome"          -> "Joining"
                                 [] m.kind = "UsernameAccepted" -> "Joined"
                                 [] OTHER                       -> "Chatting"
          /\ client'[c].inbox = Tail(inbox)
          /\ \A d \in Ids : d # c => client'[d] = client[d]
          /\ receiver' = IF m.kind = "UsernameAccepted"
                         THEN Append(receiver, [kind |-> "Joined", id |-> c])
                         ELSE receiver
      BY <1>1, <1>2, <2>3, ProceedsDoes
    <3> HIDE DEF m, s, inbox
    <3>2. CASE s = "WaitingWelcome"
      <4>1. m.kind = "Welcome"
        BY <1>5, <3>2 DEF Expected
      <4>2. Life(c, receiver, "Joining", Tail(inbox), Entry(c), port)
        BY <1>3, <3>2, LifeWelcomed
      <4>3. client'[c].state = "Joining" /\ receiver' = receiver
        BY <3>1, <4>1
      <4> QED
        BY <1>1, <2>1, <3>1, <4>2, <4>3, TaskLives DEF RunsOn
    <3>3. CASE s = "answer"
      <4>1. m.kind = "UsernameAccepted"
        BY <1>5, <3>1, <3>3 DEF Expected
      <4> DEFINE j == [kind |-> "Joined", id |-> c]
      <4>2. j \in ClientMessage /\ j.id = c /\ j.kind = "Joined"
        BY DEF ClientMessage
      <4>3. client'[c].state = "Joined" /\ receiver' = Append(receiver, j)
        BY <3>1, <4>1
      <4> HIDE DEF j
      <4>4. Life(c, Append(receiver, j), "Joined", Tail(inbox), Entry(c), port)
        BY <1>1, <1>3, <3>3, <4>1, <4>2, LifeAccepted DEF m
      <4> QED
        BY <1>1, <2>1, <3>1, <4>2, <4>3, <4>4, TaskLives DEF RunsOn
    <3>4. CASE s = "Joined" \/ s = "Chatting"
      <4>1. s = "Joined" => m.kind = "Users"
        BY <1>5 DEF Expected
      <4>2. s = "Chatting" => m.kind \in Chat
        BY <1>5 DEF Expected, Chat
      <4>3. client'[c].state = "Chatting" /\ receiver' = receiver
        BY <3>1, <3>4, <4>1, <4>2 DEF Chat
      <4>4. Life(c, receiver, "Chatting", Tail(inbox), Entry(c), port)
        BY <1>1, <1>3, <3>4, <4>1, LifeChats DEF m
      <4> QED
        BY <1>1, <2>1, <3>1, <4>3, <4>4, TaskLives DEF RunsOn
    <3>5. s \in {"WaitingWelcome", "answer", "Joined", "Chatting"}
      BY <1>1 DEF Expected, States
    <3> QED
      BY <3>2, <3>3, <3>4, <3>5
  <2> QED
    BY <2>1, <2>2, <2>3
<1> QED
  BY <1>4, <1>5

-----------------------------------------------------------------------------
LEMMA StepLives ==
    ASSUME Orderly, [Next]_vars
    PROVE  Orderly'
<1>1. Inv /\ Lives /\ RunsOn /\ Inv'
  BY StepKeeps DEF Orderly
<1>2. CASE Serve
  BY <1>1, <1>2, ServeLives DEF Orderly
<1>3. CASE AcceptFails
  BY <1>1, <1>3, EndLives DEF AcceptFails, Orderly, RunsOn, End
<1>4. ASSUME NEW c \in Ids, Accept(c) PROVE Orderly'
  BY <1>1, <1>4, AcceptLives DEF Orderly, RunsOn, Accept
<1>5. ASSUME NEW c \in Ids, ReadFails(c) PROVE Orderly'
  <2>1. /\ client[c].state \in {"WaitingWelcome", "Joining", "Joined", "Chatting"}
        /\ Leave(c) /\ UNCHANGED <<port, server, clients>>
    BY <1>5 DEF ReadFails
  <2>2. Lives'
    BY <1>1, <2>1, LeaveLives
  <2> QED
    BY <1>1, <2>1, <2>2 DEF Orderly, RunsOn
<1>6. ASSUME NEW c \in Ids, NEW name \in Names \cup {NoName}, SetUsername(c, name) PROVE Orderly'
  BY <1>1, <1>6, AsksLives DEF Orderly, RunsOn, SetUsername
<1>7. ASSUME NEW c \in Ids, Say(c) PROVE Orderly'
  BY <1>1, <1>7, SayLives DEF Orderly, RunsOn, Say
<1>8. ASSUME NEW c \in Ids, Receive(c) PROVE Orderly'
  BY <1>1, <1>8, ReceiveLives DEF Orderly
<1>9. CASE UNCHANGED vars
  <2>1. \A c \in Ids : Entry(c)' = Entry(c)
    BY <1>9 DEF vars, Entry
  <2> QED
    BY <1>1, <1>9, <2>1 DEF vars, Orderly, Lives, RunsOn
<1> QED
  BY <1>2, <1>3, <1>4, <1>5, <1>6, <1>7, <1>8, <1>9 DEF Next

LEMMA InitIsOrderly ==
    ASSUME Init
    PROVE  Orderly
<1>1. Inv
  <2>1. receiver \in Seq(ClientMessage)
    BY EmptySeq DEF Init
  <2> QED
    BY <2>1, NoTaskType DEF Init, Inv, TypeOK, Single, NoClients
<1>2. ASSUME NEW c \in Ids
      PROVE  Life(c, receiver, client[c].state, client[c].inbox, Entry(c), port)
  <2>1. Entry(c) = "absent" /\ client[c].state = "none" /\ client[c].inbox = <<>>
    BY DEF Init, NoClients, NoTasks, Entry
  <2>2. Silent(c, receiver)
    BY DEF Init, Silent
  <2> QED
    BY <2>1, <2>2, SilentLine DEF Life, Stage
<1> QED
  BY <1>1, <1>2 DEF Orderly, Lives, RunsOn, Init

\* The messages of a client that are under way follow its life: run has it in its
\* table for each, and what is under way to the client is what it waits for; only in
\* the tokio port may what the others do come before the list.
THEOREM Order == Spec => []Orderly
BY InitIsOrderly, StepLives, PTL DEF Spec

\* A task that panics has its name, is in the table of the tokio port, and was told what
\* another does.
Overtaken(c) ==
    /\ port = "tokio" /\ client[c].state = "Joined" /\ IsJoined(c)
    /\ Head(client[c].inbox).kind \in Chat

\* What the end of run and its messages leave: no task that panics.
LEMMA ServePanicsNobody ==
    ASSUME Inv, Serve, NEW c \in Ids, client[c].state # "panicked"
    PROVE  client'[c].state # "panicked"
<1>1. ASSUME NEW how, End(how) PROVE client'[c].state # "panicked"
  BY <1>1 DEF End, NoTasks
<1>2. ASSUME NEW sent, NEW table, Emit(sent, table) PROVE client'[c].state # "panicked"
  <2>1. CASE End("send failed")
    BY <1>1, <2>1
  <2>2. CASE client' = [d \in Ids |-> [client[d] EXCEPT !.inbox =
                           IF Gone(d) THEN @ ELSE @ \o sent[d]]]
    <3>1. client[c] \in Client
      BY DEF Inv, TypeOK
    <3>2. client'[c] = [client[c] EXCEPT !.inbox = IF Gone(c) THEN @ ELSE @ \o sent[c]]
      BY <2>2
    <3>3. client'[c].state = client[c].state
      BY <3>1, <3>2 DEF Client
    <3> QED
      BY <3>3
  <2> QED
    BY <1>2, <2>1, <2>2 DEF Emit
<1>3. CASE Ignore
  BY <1>3 DEF Ignore
<1>4. CASE HandleSetUsername(Head(receiver))
  BY <1>1, <1>2, <1>4 DEF HandleSetUsername, Panics
<1>5. CASE HandleJoined(Head(receiver))
  BY <1>1, <1>2, <1>3, <1>5 DEF HandleJoined, Panics
<1>6. CASE HandleMessage(Head(receiver))
  BY <1>1, <1>2, <1>3, <1>6 DEF HandleMessage, Panics
<1>7. CASE HandleDisconnect(Head(receiver))
  BY <1>2, <1>3, <1>7 DEF HandleDisconnect
<1> QED
  BY <1>4, <1>5, <1>6, <1>7 DEF Serve

\* Of what a client does itself, one thing panics.
LEMMA ReceivePanics ==
    ASSUME Orderly, NEW c \in Ids, Receive(c),
           NEW d \in Ids, client'[d].state = "panicked", client[d].state # "panicked"
    PROVE  Overtaken(d)
<1> DEFINE s == client[c].state
           inbox == client[c].inbox
           m == inbox[1]
<1>1. /\ s \in States /\ inbox \in Seq(ServerMessage)
      /\ inbox # <<>> /\ Expected(s) # {} /\ Inv
  BY TaskType DEF Receive, Orderly
<1>2. Head(inbox) = m
  BY <1>1, TailPlaces
<1>3. Life(c, receiver, s, inbox, Entry(c), port)
  BY DEF Orderly, Lives
<1>4. CASE m.kind \notin Expected(s)
  <2>1. s = "Joined" /\ port # "wasi" /\ Entry(c) = "joined" /\ m.kind \in Chat
    BY <1>1, <1>3, <1>4, LifeExpects
  <2>2. Become(c, "panicked")
    BY <1>2, <1>4, <2>1 DEF Receive
  <2>3. d = c
    BY <1>1, <2>2, BecomeDoes
  <2>4. port = "tokio" /\ IsJoined(c)
    BY <1>1, <2>1, TaskType DEF Inv, TypeOK
  <2> QED
    BY <1>2, <2>1, <2>3, <2>4 DEF Overtaken
<1>5. CASE m.kind \in Expected(s)
  <2>1. Proceeds(c, m) \/ Leave(c)
    BY <1>2, <1>5 DEF Receive
  <2>2. CASE Leave(c)
    BY <1>1, <2>2, BecomeDoes DEF Leave
  <2>3. CASE Proceeds(c, m)
    <3>1. /\ client'[c].state = CASE m.kind = "Welcome"          -> "Joining"
                                 [] m.kind = "UsernameAccepted" -> "Joined"
                                 [] OTHER                       -> "Chatting"
          /\ \A x \in Ids : x # c => client'[x] = client[x]
      BY <1>1, <1>2, <2>3, ProceedsDoes
    <3> HIDE DEF m
    <3>2. client'[c].state # "panicked"
      BY <3>1
    <3> QED
      BY <3>1, <3>2
  <2> QED
    BY <2>1, <2>2, <2>3
<1> QED
  BY <1>4, <1>5

\* No step of another kind panics a task.
LEMMA PanicsOvertaken ==
    ASSUME Orderly, [Next]_vars,
           NEW c \in Ids, client'[c].state = "panicked", client[c].state # "panicked"
    PROVE  Overtaken(c)
<1>1. Inv /\ client \in [Ids -> Client]
  BY DEF Orderly, Inv, TypeOK
<1>2. ASSUME NEW d \in Ids, NEW task \in Client, client' = [client EXCEPT ![d] = task],
             task.state # "panicked"
      PROVE  FALSE
  BY <1>1, <1>2
<1>3. ASSUME NEW d \in Ids, NEW state, state # "panicked", Become(d, state) PROVE FALSE
  BY <1>1, <1>3, BecomeDoes
<1>4. CASE Serve
  BY <1>1, <1>4, ServePanicsNobody
<1>5. CASE AcceptFails
  BY <1>5 DEF AcceptFails, End, NoTasks
<1>6. ASSUME NEW d \in Ids, Accept(d) PROVE FALSE
  BY <1>1, <1>6 DEF Accept, Client
<1>7. ASSUME NEW d \in Ids, ReadFails(d) PROVE FALSE
  BY <1>3, <1>7 DEF ReadFails, Leave
<1>8. ASSUME NEW d \in Ids, NEW name \in Names \cup {NoName}, SetUsername(d, name) PROVE FALSE
  BY <1>3, <1>8 DEF SetUsername
<1>9. ASSUME NEW d \in Ids, Say(d) PROVE FALSE
  BY <1>1, <1>9 DEF Say, Client
<1>10. ASSUME NEW d \in Ids, Receive(d) PROVE Overtaken(c)
  BY <1>10, ReceivePanics
<1>11. CASE UNCHANGED vars
  BY <1>11 DEF vars
<1> QED
  BY <1>4, <1>5, <1>6, <1>7, <1>8, <1>9, <1>10, <1>11 DEF Next

\* run never looks up who is not in its table, no client of the WASI port meets a message
\* that it calls unreachable, and one of the tokio port only between its acceptance and
\* its list, when another overtakes it (lib.rs:251-291, 425-436).
THEOREM JoinersPanic == Spec => OnlyJoinersPanic
<1> DEFINE Step ==
        /\ server' # "panicked"
        /\ \A c \in Ids : client'[c].state = "panicked" /\ client[c].state # "panicked" =>
              /\ port = "tokio" /\ client[c].state = "Joined" /\ IsJoined(c)
              /\ Head(client[c].inbox).kind \in {"AnnounceUser", "Message", "Disconnected"}
<1>1. Orderly /\ [Next]_vars => Step
  <2> SUFFICES ASSUME Orderly, [Next]_vars PROVE Step
    OBVIOUS
  <2>1. server' # "panicked"
    BY StepLives DEF Orderly, RunsOn
  <2> QED
    BY <2>1, PanicsOvertaken DEF Overtaken, Chat
<1>2. OnlyJoinersPanic <=> [][Step]_vars
  BY PTL DEF OnlyJoinersPanic
<1> HIDE DEF Step
<1> QED
  BY <1>1, <1>2, Order, PTL DEF Spec

-----------------------------------------------------------------------------
(* The room as a client will know it *)

\* A set of numbers with 0 and the successors of its members has every number.
LEMMA SetInduction ==
    ASSUME NEW T \in SUBSET Nat, 0 \in T, \A n \in T : n + 1 \in T
    PROVE  T = Nat
<1> SUFFICES ASSUME Nat \ T # {} PROVE FALSE
  OBVIOUS
<1>1. PICK m \in Nat \ T : \A k \in Nat \ T : ~ (<<k, m>> \in OpToRel(<, Nat))
  <2> HIDE DEF OpToRel
  <2> QED
    BY WFMin, NatLessThanWellFounded
<1>2. \A k \in Nat \ T : ~ (k < m)
  BY <1>1 DEF OpToRel
<1> QED
  BY <1>2

\* The room after each message is the one before it with the message shown.
LEMMA RoomsAre ==
    ASSUME NEW room, NEW inbox \in Seq(ServerMessage)
    PROVE  LET rooms == Rooms(room, inbox) IN
           /\ rooms[0] = room
           /\ \A n \in 1..Len(inbox) : rooms[n] = Shown(rooms[n - 1], inbox[n])
<1> DEFINE Step(f, n) == IF n = 0 THEN room ELSE Shown(f[n - 1], inbox[n])
           Kept(f, n) == DOMAIN f = 0..n /\ f = [i \in 0..n |-> Step(f, i)]
           T == {n \in Nat : \E f : Kept(f, n)}
<1>1. 0 \in T
  <2> DEFINE f == [i \in 0..0 |-> room]
  <2>1. Kept(f, 0)
    OBVIOUS
  <2> QED
    BY <2>1
<1>2. ASSUME NEW n \in T PROVE n + 1 \in T
  <2>1. PICK f : Kept(f, n)
    <3> HIDE DEF Kept
    <3> QED
      OBVIOUS
  <2> DEFINE last == Step(f, n + 1)
             g == [i \in 0..(n + 1) |-> IF i = n + 1 THEN last ELSE f[i]]
  <2>2. \A i \in 0..n : g[i] = f[i] /\ f[i] = Step(f, i) /\ i # n + 1
    <3>1. \A i \in 0..n : f[i] = Step(f, i)
      <4> HIDE DEF Step
      <4> QED
        BY <2>1
    <3> HIDE DEF Step, last
    <3>2. \A i \in 0..n : g[i] = f[i] /\ i # n + 1
      OBVIOUS
    <3> QED
      BY <3>1, <3>2
  <2>3. ASSUME NEW i \in 0..(n + 1) PROVE g[i] = Step(g, i)
    <3>1. i # 0 => i - 1 \in 0..n /\ g[i - 1] = f[i - 1]
      BY <2>2
    <3>2. Step(g, i) = Step(f, i)
      <4> HIDE DEF g
      <4> QED
        BY <3>1
    <3>3. g[i] = Step(f, i)
      <4>1. CASE i = n + 1
        BY <4>1
      <4>2. CASE i \in 0..n
        <5> HIDE DEF g, Step
        <5> QED
          BY <4>2, <2>2
      <4> QED
        BY <4>1, <4>2
    <3> HIDE DEF Step, g
    <3> QED
      BY <3>2, <3>3
  <2>4. DOMAIN g = 0..(n + 1) /\ g = [i \in 0..(n + 1) |-> g[i]]
    OBVIOUS
  <2> HIDE DEF g, Step
  <2>5. g = [i \in 0..(n + 1) |-> Step(g, i)]
    BY <2>3, <2>4
  <2> QED
    BY <2>4, <2>5
<1>3. T = Nat
  <2> HIDE DEF T
  <2> QED
    BY <1>1, <1>2, SetInduction DEF T
<1>4. \E f : Kept(f, Len(inbox))
  <2>1. Len(inbox) \in T
    <3> HIDE DEF T
    <3> QED
      BY <1>3, LenProperties
  <2> HIDE DEF Kept
  <2> QED
    BY <2>1
<1> DEFINE after == CHOOSE h : h = [n \in 0..Len(inbox) |-> Step(h, n)]
<1>5. Rooms(room, inbox) = after
  BY DEF Rooms
<1>6. after = [n \in 0..Len(inbox) |-> Step(after, n)]
  BY <1>4
<1> HIDE DEF after
<1>7. after[0] = room
  BY <1>6, LenProperties
<1>8. ASSUME NEW n \in 1..Len(inbox) PROVE after[n] = Shown(after[n - 1], inbox[n])
  <2>1. n \in 0..Len(inbox) /\ n # 0
    BY LenProperties
  <2>2. after[n] = Step(after, n)
    <3> HIDE DEF Step
    <3> QED
      BY <1>6, <2>1
  <2> QED
    BY <2>1, <2>2
<1> QED
  BY <1>5, <1>7, <1>8

\* One message more does not change the rooms before it.
LEMMA RoomsAppend ==
    ASSUME NEW room, NEW inbox \in Seq(ServerMessage), NEW m \in ServerMessage
    PROVE  LET rooms == Rooms(room, inbox)
               more == Rooms(room, Append(inbox, m))
           IN /\ \A n \in 0..Len(inbox) : more[n] = rooms[n]
              /\ more[Len(inbox) + 1] = Shown(rooms[Len(inbox)], m)
<1> DEFINE r == Append(inbox, m)
           rooms == Rooms(room, inbox)
           more == Rooms(room, r)
<1>1. /\ Len(inbox) \in Nat /\ Len(r) = Len(inbox) + 1 /\ r[Len(inbox) + 1] = m
      /\ \A n \in 1..Len(inbox) : r[n] = inbox[n]
  BY AppendPlaces
<1>2. rooms[0] = room /\ \A n \in 1..Len(inbox) : rooms[n] = Shown(rooms[n - 1], inbox[n])
  BY RoomsAre
<1>3. more[0] = room /\ \A n \in 1..Len(r) : more[n] = Shown(more[n - 1], r[n])
  <2>1. r \in Seq(ServerMessage)
    BY AppendProperties
  <2> HIDE DEF r
  <2> QED
    BY <2>1, RoomsAre
<1> DEFINE T == {n \in Nat : n <= Len(inbox) => more[n] = rooms[n]}
<1> HIDE DEF r, rooms, more
<1>4. 0 \in T
  BY <1>2, <1>3
<1>5. ASSUME NEW n \in T PROVE n + 1 \in T
  <2> SUFFICES ASSUME n + 1 <= Len(inbox) PROVE more[n + 1] = rooms[n + 1]
    OBVIOUS
  <2>1. n \in Nat /\ n + 1 \in 1..Len(inbox) /\ n + 1 \in 1..Len(r) /\ (n + 1) - 1 = n
    BY <1>1
  <2>2. more[n] = rooms[n] /\ r[n + 1] = inbox[n + 1]
    BY <1>1, <2>1
  <2>3. more[n + 1] = Shown(more[n], r[n + 1])
    BY <1>3, <2>1
  <2>4. rooms[n + 1] = Shown(rooms[n], inbox[n + 1])
    BY <1>2, <2>1
  <2> QED
    BY <2>2, <2>3, <2>4
<1>6. T = Nat
  <2> HIDE DEF T
  <2> QED
    BY <1>4, <1>5, SetInduction DEF T
<1>7. \A n \in 0..Len(inbox) : more[n] = rooms[n]
  BY <1>1, <1>6
<1>8. more[Len(inbox) + 1] = Shown(rooms[Len(inbox)], m)
  <2>1. Len(inbox) + 1 \in 1..Len(r) /\ (Len(inbox) + 1) - 1 = Len(inbox)
        /\ Len(inbox) \in 0..Len(inbox)
    BY <1>1
  <2>2. more[Len(inbox) + 1] = Shown(more[Len(inbox)], r[Len(inbox) + 1])
    BY <1>3, <2>1
  <2> QED
    BY <1>1, <1>7, <2>1, <2>2
<1> QED
  BY <1>7, <1>8 DEF r, rooms, more

\* The rooms after the first message are those of the rest.
LEMMA RoomsTail ==
    ASSUME NEW room, NEW inbox \in Seq(ServerMessage), inbox # <<>>
    PROVE  \A n \in 0..Len(inbox) - 1 :
               Rooms(Shown(room, inbox[1]), Tail(inbox))[n] = Rooms(room, inbox)[n + 1]
<1> DEFINE r == Tail(inbox)
           rooms == Rooms(room, inbox)
           rest == Rooms(Shown(room, inbox[1]), r)
<1>1. /\ Len(inbox) \in Nat /\ Len(inbox) > 0 /\ Len(r) = Len(inbox) - 1
      /\ \A n \in 1..Len(r) : r[n] = inbox[n + 1]
  BY TailPlaces
<1>2. rooms[0] = room /\ \A n \in 1..Len(inbox) : rooms[n] = Shown(rooms[n - 1], inbox[n])
  BY RoomsAre
<1>3. rest[0] = Shown(room, inbox[1]) /\ \A n \in 1..Len(r) : rest[n] = Shown(rest[n - 1], r[n])
  <2>1. r \in Seq(ServerMessage)
    BY HeadTailProperties
  <2> HIDE DEF r
  <2> QED
    BY <2>1, RoomsAre
<1> DEFINE T == {n \in Nat : n <= Len(r) => rest[n] = rooms[n + 1]}
<1> HIDE DEF r, rooms, rest
<1>4. 0 \in T
  <2>1. 1 \in 1..Len(inbox) /\ 1 - 1 = 0
    BY <1>1
  <2>2. rooms[1] = Shown(rooms[0], inbox[1])
    BY <1>2, <2>1
  <2> QED
    BY <1>2, <1>3, <2>2
<1>5. ASSUME NEW n \in T PROVE n + 1 \in T
  <2> SUFFICES ASSUME n + 1 <= Len(r) PROVE rest[n + 1] = rooms[n + 2]
    OBVIOUS
  <2>1. /\ n \in Nat /\ n + 1 \in 1..Len(r) /\ n + 2 \in 1..Len(inbox)
        /\ (n + 1) - 1 = n /\ (n + 2) - 1 = n + 1 /\ (n + 1) + 1 = n + 2
    BY <1>1
  <2>2. rest[n] = rooms[n + 1] /\ r[n + 1] = inbox[n + 2]
    BY <1>1, <2>1
  <2>3. rest[n + 1] = Shown(rest[n], r[n + 1])
    BY <1>3, <2>1
  <2>4. rooms[n + 2] = Shown(rooms[n + 1], inbox[n + 2])
    BY <1>2, <2>1
  <2> QED
    BY <2>2, <2>3, <2>4
<1>6. T = Nat
  <2> HIDE DEF T
  <2> QED
    BY <1>4, <1>5, SetInduction DEF T
<1>7. \A n \in 0..Len(inbox) - 1 : rest[n] = rooms[n + 1]
  BY <1>1, <1>6
<1> QED
  BY <1>7 DEF r, rooms, rest

Eventually(room, inbox) == Rooms(room, inbox)[Len(inbox)]

\* Of every line under way, but those before the list, the client will know who says it.
Speaks(room, inbox) ==
    \A n \in 1..Len(inbox) :
        inbox[n].kind = "Message" /\ (\A k \in n..Len(inbox) : inbox[k].kind # "Users")
            => inbox[n].user \in Rooms(room, inbox)[n - 1]

\* A client that will know everyone in present, and nobody but those in users.
Informed(room, inbox, present, users) ==
    /\ present \subseteq Eventually(room, inbox)
    /\ Eventually(room, inbox) \subseteq users
    /\ Speaks(room, inbox)

\* What the list is sent with holds of the client from then on.
Present(c) == {clients[d] : d \in {e \in Others(c) : Announced(e)}}

Aware(c) == IsJoined(c) /\ ~Gone(c) /\ ListSent(c) =>
                Informed(client[c].room, client[c].inbox, Present(c), UsersBut(c))

Awareness == \A c \in Ids : Aware(c)

-----------------------------------------------------------------------------
(* What a message is to a client *)

LEMMA InformedMore ==
    ASSUME NEW room, NEW inbox, NEW present, NEW users, Informed(room, inbox, present, users),
           NEW fewer, fewer \subseteq present, NEW more, users \subseteq more
    PROVE  Informed(room, inbox, fewer, more)
BY DEF Informed

LEMMA EventuallyAppend ==
    ASSUME NEW room, NEW inbox \in Seq(ServerMessage), NEW m \in ServerMessage
    PROVE  Eventually(room, Append(inbox, m)) = Shown(Eventually(room, inbox), m)
<1>1. Len(Append(inbox, m)) = Len(inbox) + 1
  BY AppendPlaces
<1> QED
  BY <1>1, RoomsAppend DEF Eventually

LEMMA SpeaksAppend ==
    ASSUME NEW room, NEW inbox \in Seq(ServerMessage), NEW m \in ServerMessage,
           \/ m.kind = "Users"
           \/ Speaks(room, inbox) /\ (m.kind = "Message" => m.user \in Eventually(room, inbox))
    PROVE  Speaks(room, Append(inbox, m))
<1> DEFINE r == Append(inbox, m)
           rooms == Rooms(room, inbox)
           more == Rooms(room, r)
<1>1. /\ Len(inbox) \in Nat /\ Len(r) = Len(inbox) + 1 /\ r[Len(inbox) + 1] = m
      /\ \A n \in 1..Len(inbox) : r[n] = inbox[n]
  BY AppendPlaces
<1>2. \A n \in 0..Len(inbox) : more[n] = rooms[n]
  BY RoomsAppend
<1> SUFFICES ASSUME NEW n \in 1..Len(r), r[n].kind = "Message",
                    \A k \in n..Len(r) : r[k].kind # "Users"
             PROVE  r[n].user \in more[n - 1]
  BY DEF Speaks
<1> HIDE DEF r, more
<1>3. m.kind # "Users"
  <2>1. Len(r) \in n..Len(r)
    BY <1>1
  <2> QED
    BY <1>1, <2>1
<1>4. Speaks(room, inbox) /\ (m.kind = "Message" => m.user \in Eventually(room, inbox))
  BY <1>3
<1>5. n - 1 \in 0..Len(inbox) /\ more[n - 1] = rooms[n - 1]
  BY <1>1, <1>2
<1>6. CASE n = Len(r)
  <2>1. r[n] = m /\ n - 1 = Len(inbox)
    BY <1>1, <1>6
  <2> QED
    BY <1>4, <1>5, <2>1 DEF Eventually
<1>7. CASE n # Len(r)
  <2>1. n \in 1..Len(inbox) /\ r[n] = inbox[n]
    BY <1>1, <1>7
  <2>2. \A k \in n..Len(inbox) : inbox[k].kind # "Users"
    BY <1>1, <2>1
  <2>3. inbox[n].user \in rooms[n - 1]
    BY <1>4, <2>1, <2>2 DEF Speaks
  <2> QED
    BY <1>5, <2>1, <2>3
<1> QED
  BY <1>6, <1>7

\* A list of the room, a line of one who is present, one who comes, and one who leaves.
LEMMA InformedList ==
    ASSUME NEW room, NEW inbox \in Seq(ServerMessage), NEW present, NEW users,
           NEW m \in ServerMessage, m.kind = "Users",
           present \subseteq m.users, m.users \subseteq users
    PROVE  Informed(room, Append(inbox, m), present, users)
<1>1. Eventually(room, Append(inbox, m)) = m.users
  BY EventuallyAppend DEF Shown
<1> QED
  BY <1>1, SpeaksAppend DEF Informed

LEMMA InformedHears ==
    ASSUME NEW room, NEW inbox \in Seq(ServerMessage), NEW present, NEW users,
           Informed(room, inbox, present, users),
           NEW m \in ServerMessage, m.kind = "Message", m.user \in present
    PROVE  Informed(room, Append(inbox, m), present, users)
<1>1. Eventually(room, Append(inbox, m)) = Eventually(room, inbox)
  BY EventuallyAppend DEF Shown
<1>2. Speaks(room, Append(inbox, m))
  BY SpeaksAppend DEF Informed
<1> QED
  BY <1>1, <1>2 DEF Informed

LEMMA InformedJoin ==
    ASSUME NEW room, NEW inbox \in Seq(ServerMessage), NEW present, NEW users,
           Informed(room, inbox, present, users),
           NEW m \in ServerMessage, m.kind = "AnnounceUser", m.user \in users
    PROVE  Informed(room, Append(inbox, m), present \cup {m.user}, users)
<1>1. Eventually(room, Append(inbox, m)) = Eventually(room, inbox) \cup {m.user}
  BY EventuallyAppend DEF Shown
<1>2. Speaks(room, Append(inbox, m))
  BY SpeaksAppend DEF Informed
<1> QED
  BY <1>1, <1>2 DEF Informed

LEMMA InformedLeave ==
    ASSUME NEW room, NEW inbox \in Seq(ServerMessage), NEW present, NEW users,
           Informed(room, inbox, present, users),
           NEW m \in ServerMessage, m.kind = "Disconnected"
    PROVE  Informed(room, Append(inbox, m), present \ {m.user}, users \ {m.user})
<1>1. Eventually(room, Append(inbox, m)) = Eventually(room, inbox) \ {m.user}
  BY EventuallyAppend DEF Shown
<1>2. Speaks(room, Append(inbox, m))
  BY SpeaksAppend DEF Informed
<1> QED
  BY <1>1, <1>2 DEF Informed

\* Nothing is lost when the first message is shown.
LEMMA InformedTail ==
    ASSUME NEW room, NEW inbox \in Seq(ServerMessage), inbox # <<>>, NEW present, NEW users,
           Informed(room, inbox, present, users)
    PROVE  Informed(Shown(room, inbox[1]), Tail(inbox), present, users)
<1> DEFINE r == Tail(inbox)
           next == Shown(room, inbox[1])
           rooms == Rooms(room, inbox)
           rest == Rooms(next, r)
<1>1. /\ Len(inbox) \in Nat /\ Len(inbox) > 0 /\ Len(r) = Len(inbox) - 1
      /\ \A n \in 1..Len(r) : r[n] = inbox[n + 1]
  BY TailPlaces
<1>2. \A n \in 0..Len(inbox) - 1 : rest[n] = rooms[n + 1]
  BY RoomsTail
<1> HIDE DEF r, next, rooms, rest
<1>3. Eventually(next, r) = Eventually(room, inbox)
  <2>1. rest[Len(r)] = rooms[Len(inbox)]
    BY <1>1, <1>2
  <2> QED
    BY <2>1 DEF Eventually, rest, rooms
<1>4. Speaks(next, r)
  <2> SUFFICES ASSUME NEW n \in 1..Len(r), r[n].kind = "Message",
                      \A k \in n..Len(r) : r[k].kind # "Users"
               PROVE  r[n].user \in rest[n - 1]
    BY DEF Speaks, rest
  <2>1. /\ n + 1 \in 1..Len(inbox) /\ r[n] = inbox[n + 1] /\ n - 1 \in 0..Len(inbox) - 1
        /\ (n - 1) + 1 = n /\ (n + 1) - 1 = n
    BY <1>1
  <2>2. ASSUME NEW k \in (n + 1)..Len(inbox) PROVE inbox[k].kind # "Users"
    <3>1. k - 1 \in n..Len(r) /\ r[k - 1] = inbox[k]
      BY <1>1
    <3> QED
      BY <3>1
  <2>3. inbox[n + 1].user \in rooms[(n + 1) - 1]
    BY <2>1, <2>2 DEF Informed, Speaks, rooms
  <2>4. rest[n - 1] = rooms[n]
    BY <1>2, <2>1
  <2> QED
    BY <2>1, <2>3, <2>4
<1> QED
  BY <1>3, <1>4 DEF Informed, r, next

\* Which Joined run has still to handle.
LEMMA JoinedMessage ==
    ASSUME NEW q \in Seq(ClientMessage), NEW c
    PROVE  (\A n \in 1..Len(q) : q[n] # [kind |-> "Joined", id |-> c])
           <=> (\A n \in 1..Len(q) : q[n].kind = "Joined" => q[n].id # c)
<1>1. ASSUME NEW n \in 1..Len(q)
      PROVE  q[n] = [kind |-> "Joined", id |-> c] <=> q[n].kind = "Joined" /\ q[n].id = c
  <2>1. q[n] \in ClientMessage
    BY ElementOfSeq
  <2>2. q[n] \in [kind : {"SetUsername"}, id : Ids, name : Names \cup {NoName}]
        \/ q[n] \in [kind : {"Joined", "Message", "Disconnect"}, id : Ids]
    BY <2>1 DEF ClientMessage
  <2> QED
    BY <2>2
<1> QED
  BY <1>1

-----------------------------------------------------------------------------
(* The steps of run, and what the clients know *)

\* ListSent and Announced are what Listed and the queue of run say.
LEMMA ListSentIs ==
    ASSUME NEW c
    PROVE  ListSent(c) <=> Listed(client[c].state, client[c].inbox)
BY DEF ListSent, Listed

LEMMA AnnouncedIs ==
    ASSUME Inv, NEW c
    PROVE  Announced(c) <=>
               /\ client[c].state \in {"Joined", "Chatting", "done", "panicked"}
               /\ \A n \in 1..Len(receiver) : receiver[n].kind = "Joined" => receiver[n].id # c
<1>1. receiver \in Seq(ClientMessage)
  BY DEF Inv, TypeOK
<1> QED
  BY <1>1, JoinedMessage DEF Announced

\* Handling a message announces no one, but who has sent a Joined.
LEMMA AnnouncedLater ==
    ASSUME Inv, Inv', receiver # <<>>, receiver' = Tail(receiver), NEW c,
           client'[c].state = client[c].state, Announced(c)'
    PROVE  Announced(c) \/ (Head(receiver).kind = "Joined" /\ Head(receiver).id = c)
<1>1. /\ Len(receiver) \in Nat /\ Len(receiver') = Len(receiver) - 1
      /\ \A n \in 1..Len(receiver) - 1 : receiver'[n] = receiver[n + 1]
      /\ receiver[1] = Head(receiver)
  BY TailPlaces DEF Inv, TypeOK
<1>2. /\ client'[c].state \in {"Joined", "Chatting", "done", "panicked"}
      /\ \A n \in 1..Len(receiver') : receiver'[n].kind = "Joined" => receiver'[n].id # c
  <2>1. receiver' \in Seq(ClientMessage)
    BY DEF Inv, TypeOK
  <2> QED
    BY <2>1, JoinedMessage DEF Announced
<1> SUFFICES ASSUME ~ (Head(receiver).kind = "Joined" /\ Head(receiver).id = c)
             PROVE  Announced(c)
  OBVIOUS
<1>3. ASSUME NEW n \in 1..Len(receiver), receiver[n].kind = "Joined"
      PROVE  receiver[n].id # c
  <2>1. CASE n = 1
    BY <1>1, <1>3, <2>1
  <2>2. CASE n # 1
    <3>1. n - 1 \in 1..Len(receiver') /\ receiver'[n - 1] = receiver[n]
      BY <1>1, <2>2
    <3> QED
      BY <1>2, <1>3, <3>1
  <2> QED
    BY <2>1, <2>2
<1> QED
  BY <1>2, <1>3, AnnouncedIs

\* Nothing is under way to a client, and it has not been shown the list.
LEMMA Unlisted ==
    ASSUME NEW c, ~ (IsJoined(c)' /\ ~ Gone(c)' /\ Listed(client'[c].state, client'[c].inbox))
    PROVE  Aware(c)'
BY DEF Aware, ListSent, Listed

\* What a client knows, when it is about to know no less of no more.
LEMMA StillAware ==
    ASSUME NEW c, Aware(c), NEW present, NEW users,
           IsJoined(c)' => IsJoined(c), Gone(c) => Gone(c)',
           Listed(client'[c].state, client'[c].inbox) => ListSent(c),
           Informed(client[c].room, client[c].inbox, Present(c), UsersBut(c)) =>
               Informed(client'[c].room, client'[c].inbox, present, users),
           Present(c)' \subseteq present, users \subseteq UsersBut(c)'
    PROVE  Aware(c)'
<1> SUFFICES ASSUME IsJoined(c)', ~ Gone(c)', ListSent(c)'
             PROVE  Informed(client'[c].room, client'[c].inbox, Present(c)', UsersBut(c)')
  BY DEF Aware
<1>1. Listed(client'[c].state, client'[c].inbox)
  BY DEF ListSent, Listed
<1>2. Informed(client'[c].room, client'[c].inbox, present, users)
  BY <1>1 DEF Aware
<1> QED
  BY <1>2, InformedMore

LEMMA EndAware ==
    ASSUME NEW how, End(how)
    PROVE  Awareness'
<1>1. \A c \in Ids : ~ IsJoined(c)'
  BY DEF End, NoClients, IsJoined
<1> QED
  BY <1>1, Unlisted DEF Awareness

LEMMA SetUsernameAware ==
    ASSUME Orderly, Inv', Awareness, receiver # <<>>, NEW m \in ClientMessage,
           m = Head(receiver), HandleSetUsername(m), UNCHANGED port
    PROVE  Awareness'
<1>1. Inv /\ Lives
  BY DEF Orderly
<1>2. /\ m.id \in Ids /\ client[m.id].state = "answer" /\ m.kind = "SetUsername"
      /\ m.id \in DOMAIN clients /\ ~ IsJoined(m.id)
  BY <1>1, SetUsernameDoes DEF HandleSetUsername
<1>3. CASE End("send failed")
  BY <1>3, EndAware
<1>4. CASE ~ End("send failed")
  <2>1. /\ receiver' = Tail(receiver)
        /\ \A c \in Ids : /\ client'[c].state = client[c].state
                          /\ client'[c].room = client[c].room
                          /\ c # m.id => client'[c].inbox = client[c].inbox
        /\ \/ /\ m.name \in Names /\ clients' = [clients EXCEPT ![m.id] = m.name]
              /\ client'[m.id].inbox =
                    IF port = "wasi"
                    THEN <<Plain("UsernameAccepted"), Users(UsersBut(m.id))>>
                    ELSE <<Plain("UsernameAccepted")>>
           \/ /\ UNCHANGED clients
              /\ client'[m.id].inbox = <<Plain("UsernameInvalid")>>
    BY <1>1, <1>4, SetUsernameDoes
  <2>2. \A c \in Ids : c # m.id =>
            /\ IsJoined(c)' <=> IsJoined(c)
            /\ IsJoined(c) => clients'[c] = clients[c]
    BY <2>1 DEF IsJoined
  <2>3. \A c \in Ids : Announced(c)' => Announced(c) /\ c # m.id
    <3>1. ~ Announced(m.id)'
      BY <1>2, <2>1 DEF Announced
    <3> QED
      BY <1>1, <1>2, <2>1, <3>1, AnnouncedLater
  <2>4. ASSUME NEW c \in Ids, c # m.id
        PROVE  Aware(c)'
    <3>1. Present(c)' \subseteq Present(c)
      BY <2>2, <2>3 DEF Present, Others
    <3>2. UsersBut(c) \subseteq UsersBut(c)'
      BY <1>2, <2>2 DEF UsersBut, Others
    <3>3. /\ client'[c].inbox = client[c].inbox /\ client'[c].room = client[c].room
          /\ client'[c].state = client[c].state
      BY <2>1, <2>4
    <3>4. Gone(c) => Gone(c)'
      BY <3>3 DEF Gone
    <3>5. IsJoined(c)' => IsJoined(c)
      BY <2>2, <2>4
    <3>6. Listed(client'[c].state, client'[c].inbox) => ListSent(c)
      BY <3>3, ListSentIs
    <3>7. Aware(c)
      BY DEF Awareness
    <3> QED
      BY <3>1, <3>2, <3>3, <3>4, <3>5, <3>6, <3>7, StillAware
  <2>5. Aware(m.id)'
    <3>1. CASE m.name \in Names /\ clients' = [clients EXCEPT ![m.id] = m.name] /\ port = "wasi"
      <4> DEFINE u == Users(UsersBut(m.id))
                 inbox == <<Plain("UsernameAccepted")>>
      <4>1. UsersBut(m.id)' = UsersBut(m.id)
        <5>1. Others(m.id)' = Others(m.id)
          BY <2>2 DEF Others
        <5>2. \A d \in Others(m.id) : clients'[d] = clients[d]
          BY <2>2 DEF Others
        <5> QED
          BY <5>1, <5>2 DEF UsersBut
      <4>2. u \in ServerMessage /\ u.kind = "Users" /\ u.users = UsersBut(m.id)
        BY <1>1, <1>2, UsersType DEF Users
      <4>3. inbox \in Seq(ServerMessage)
        BY PlainType, OneMessage
      <4>4. Present(m.id)' \subseteq UsersBut(m.id)'
        BY DEF Present, UsersBut
      <4>5. client'[m.id].inbox = Append(inbox, u)
        <5>1. client'[m.id].inbox = <<Plain("UsernameAccepted"), u>>
          <6>1. Plain("UsernameAccepted") # Plain("UsernameInvalid")
            BY DEF Plain
          <6>2. clients' # clients
            BY <1>2, <3>1, NoNameAssumption DEF IsJoined
          <6> HIDE DEF u
          <6> QED
            BY <2>1, <3>1, <6>2 DEF u
        <5>2. Append(<<Plain("UsernameAccepted")>>, u) = <<Plain("UsernameAccepted"), u>>
          <6> HIDE DEF u
          <6> QED
            BY AppendToOne
        <5> QED
          BY <5>1, <5>2
      <4> HIDE DEF u, inbox
      <4>6. Informed(client'[m.id].room, client'[m.id].inbox, Present(m.id)', UsersBut(m.id)')
        BY <4>1, <4>2, <4>3, <4>4, <4>5, InformedList
      <4> QED
        BY <4>6 DEF Aware
    <3>2. CASE UNCHANGED clients \/ port # "wasi"
      <4>1. client'[m.id].inbox = <<Plain("UsernameAccepted")>> \/ ~ IsJoined(m.id)'
        BY <1>2, <2>1, <3>2 DEF IsJoined
      <4>2. ASSUME client'[m.id].inbox = <<Plain("UsernameAccepted")>>
            PROVE  ~ Listed(client'[m.id].state, client'[m.id].inbox)
        BY <1>2, <2>1, <4>2 DEF Listed, Plain
      <4> QED
        BY <4>1, <4>2, Unlisted
    <3> QED
      BY <2>1, <3>1, <3>2
  <2> QED
    BY <2>4, <2>5 DEF Awareness
<1> QED
  BY <1>3, <1>4

\* A message that reaches those who have joined leaves the table and the tasks alone.
LEMMA SameTable ==
    ASSUME UNCHANGED clients, NEW c
    PROVE  /\ IsJoined(c)' <=> IsJoined(c)
           /\ UsersBut(c)' = UsersBut(c)
           /\ Others(c)' = Others(c)
<1>1. \A d : IsJoined(d)' <=> IsJoined(d)
  BY DEF IsJoined
<1>2. Others(c)' = Others(c)
  BY <1>1 DEF Others
<1> QED
  BY <1>1, <1>2 DEF UsersBut

LEMMA JoinedAware ==
    ASSUME Orderly, Inv', Awareness, receiver # <<>>, NEW m \in ClientMessage,
           m = Head(receiver), HandleJoined(m), UNCHANGED port
    PROVE  Awareness'
<1> DEFINE a == About("AnnounceUser", clients[m.id])
           u == Users(UsersBut(m.id))
<1>1. Inv /\ Lives
  BY DEF Orderly
<1>2. m.id \in Ids /\ m.kind = "Joined" /\ IsJoined(m.id)
  BY <1>1, JoinedDoes
<1>3. a \in ServerMessage /\ a.kind = "AnnounceUser" /\ a.user = clients[m.id]
  BY <1>1, <1>2, JoinedName, MessageType DEF About
<1>4. u \in ServerMessage /\ u.kind = "Users" /\ u.users = UsersBut(m.id)
  BY <1>1, <1>2, UsersType DEF Users
<1>5. CASE End("send failed")
  BY <1>5, EndAware
<1>6. CASE ~ End("send failed")
  <2>1. /\ receiver' = Tail(receiver) /\ UNCHANGED clients
        /\ \A c \in Ids :
              /\ client'[c].state = client[c].state
              /\ client'[c].room = client[c].room
              /\ c # m.id => client'[c].inbox =
                     IF ~ Gone(c) /\ IsJoined(c) THEN Append(client[c].inbox, a) ELSE client[c].inbox
        /\ client'[m.id].inbox =
              IF ~ Gone(m.id) /\ port = "tokio"
              THEN Append(client[m.id].inbox, u) ELSE client[m.id].inbox
    BY <1>1, <1>6, JoinedDoes
  <2> HIDE DEF a, u
  <2>2. \A c \in Ids : Announced(c)' => Announced(c) \/ c = m.id
    BY <1>1, <2>1, AnnouncedLater
  <2>3. ASSUME NEW c \in Ids
        PROVE  Gone(c)' <=> Gone(c)
    BY <2>1 DEF Gone
  <2>4. ASSUME NEW c \in Ids, c # m.id, IsJoined(c), ~ Gone(c)
        PROVE  Aware(c)'
    <3>1. Present(c)' \subseteq Present(c) \cup {a.user}
      <4>1. ASSUME NEW d \in Others(c), Announced(d)'
            PROVE  clients[d] \in Present(c) \cup {a.user}
        BY <1>3, <2>2, <4>1 DEF Present, Others
      <4>2. Others(c)' = Others(c)
        BY <2>1, SameTable
      <4> QED
        BY <2>1, <4>1, <4>2 DEF Present
    <3>2. a.user \in UsersBut(c)
      BY <1>2, <1>3, <2>4 DEF UsersBut, Others
    <3>3. client'[c].inbox = Append(client[c].inbox, a) /\ client'[c].room = client[c].room
      BY <2>1, <2>4
    <3>4. client[c].inbox \in Seq(ServerMessage)
      BY <1>1, TaskType
    <3>5. Informed(client[c].room, client[c].inbox, Present(c), UsersBut(c)) =>
              Informed(client'[c].room, client'[c].inbox, Present(c) \cup {a.user}, UsersBut(c))
      BY <1>3, <3>2, <3>3, <3>4, InformedJoin
    <3>6. Listed(client'[c].state, client'[c].inbox) => ListSent(c)
      <4>1. \A n \in 1..Len(client'[c].inbox) : client'[c].inbox[n].kind = "Users" =>
                n \in 1..Len(client[c].inbox) /\ client[c].inbox[n].kind = "Users"
        BY <1>3, <3>3, <3>4, AppendPlaces
      <4> QED
        BY <2>1, <4>1, ListSentIs DEF Listed
    <3>7. Aware(c) /\ UsersBut(c)' = UsersBut(c)
      BY <2>1, SameTable DEF Awareness
    <3> QED
      BY <2>3, <2>4, <3>1, <3>5, <3>6, <3>7, StillAware
  <2>5. ASSUME NEW c \in Ids, ~ IsJoined(c) \/ Gone(c)
        PROVE  Aware(c)'
    BY <2>1, <2>3, <2>5, SameTable, Unlisted
  <2>6. ASSUME ~ Gone(m.id), port = "tokio"
        PROVE  Aware(m.id)'
    <3>1. client'[m.id].inbox = Append(client[m.id].inbox, u)
      BY <2>1, <2>6
    <3>2. client[m.id].inbox \in Seq(ServerMessage)
      BY <1>1, <1>2, TaskType
    <3>3. UsersBut(m.id)' = UsersBut(m.id)
      BY <2>1, SameTable
    <3>4. Present(m.id)' \subseteq UsersBut(m.id)'
      BY DEF Present, UsersBut
    <3>5. Informed(client'[m.id].room, client'[m.id].inbox, Present(m.id)', UsersBut(m.id)')
      BY <1>4, <3>1, <3>2, <3>3, <3>4, InformedList
    <3> QED
      BY <3>5 DEF Aware
  <2>7. ASSUME ~ Gone(m.id), port # "tokio"
        PROVE  Aware(m.id)'
    <3>1. client'[m.id].inbox = client[m.id].inbox /\ client'[m.id].room = client[m.id].room
          /\ client'[m.id].state = client[m.id].state
      BY <1>2, <2>1, <2>7
    <3>2. Present(m.id)' \subseteq Present(m.id)
      BY <2>1, <2>2, SameTable DEF Present, Others
    <3>3. Aware(m.id) /\ UsersBut(m.id)' = UsersBut(m.id)
      BY <1>2, <2>1, SameTable DEF Awareness
    <3>4. Listed(client'[m.id].state, client'[m.id].inbox) => ListSent(m.id)
      BY <3>1, ListSentIs
    <3> QED
      BY <1>2, <2>3, <3>1, <3>2, <3>3, <3>4, StillAware
  <2> QED
    BY <2>4, <2>5, <2>6, <2>7 DEF Awareness
<1> QED
  BY <1>5, <1>6

LEMMA MessageAware ==
    ASSUME Orderly, Inv', Awareness, receiver # <<>>, NEW m \in ClientMessage,
           m = Head(receiver), HandleMessage(m), UNCHANGED port
    PROVE  Awareness'
<1> DEFINE a == About("Message", clients[m.id])
<1>1. Inv /\ Lives
  BY DEF Orderly
<1>2. m.id \in Ids /\ m.kind = "Message" /\ IsJoined(m.id)
  BY <1>1, MessageDoes
<1>3. a \in ServerMessage /\ a.kind = "Message" /\ a.user = clients[m.id]
  BY <1>1, <1>2, JoinedName, MessageType DEF About
<1>4. CASE End("send failed")
  BY <1>4, EndAware
<1>5. CASE ~ End("send failed")
  <2>1. /\ receiver' = Tail(receiver) /\ UNCHANGED clients
        /\ \A c \in Ids :
              /\ client'[c].state = client[c].state
              /\ client'[c].room = client[c].room
              /\ client'[c].inbox = IF ~ Gone(c) /\ IsJoined(c) /\ c # m.id
                                    THEN Append(client[c].inbox, a) ELSE client[c].inbox
    BY <1>1, <1>5, MessageDoes
  <2> HIDE DEF a
  <2>2. \A c \in Ids : Announced(c)' => Announced(c)
    BY <1>1, <1>2, <2>1, AnnouncedLater
  <2>3. Announced(m.id)
    <3>1. receiver \in Seq(ClientMessage) /\ receiver[1] = m /\ 1 \in 1..Len(receiver)
          /\ Len(receiver) \in Nat
      BY <1>1, HeadPlace, LenProperties
    <3>2. /\ client[m.id].state \in {"Chatting", "done"}
          /\ \A k \in 1..Len(receiver) :
                k > 1 /\ receiver[k].kind = "Joined" => receiver[k].id # m.id
      BY <1>1, <1>2, <3>1 DEF Lives, Life, InLine, Talks
    <3>3. ASSUME NEW k \in 1..Len(receiver), receiver[k].kind = "Joined"
          PROVE  receiver[k].id # m.id
      <4>1. k # 1
        BY <1>2, <3>1, <3>3
      <4>2. k > 1
        BY <3>1, <4>1
      <4> QED
        BY <3>2, <3>3, <4>2
    <3> QED
      BY <1>1, <3>2, <3>3, AnnouncedIs
  <2>4. ASSUME NEW c \in Ids
        PROVE  Aware(c)'
    <3>1. Present(c)' \subseteq Present(c)
      BY <2>1, <2>2, SameTable DEF Present, Others
    <3>2. Aware(c) /\ UsersBut(c)' = UsersBut(c) /\ (IsJoined(c)' <=> IsJoined(c))
      BY <2>1, SameTable DEF Awareness
    <3>3. Gone(c)' <=> Gone(c)
      BY <2>1 DEF Gone
    <3>4. client[c].inbox \in Seq(ServerMessage)
      BY <1>1, TaskType
    <3>5. CASE ~ Gone(c) /\ IsJoined(c) /\ c # m.id
      <4>1. client'[c].inbox = Append(client[c].inbox, a) /\ client'[c].room = client[c].room
        BY <2>1, <3>5
      <4>2. a.user \in Present(c)
        BY <1>2, <1>3, <2>3, <3>5 DEF Present, Others
      <4>3. Informed(client[c].room, client[c].inbox, Present(c), UsersBut(c)) =>
                Informed(client'[c].room, client'[c].inbox, Present(c), UsersBut(c))
        BY <1>3, <3>4, <4>1, <4>2, InformedHears
      <4>4. Listed(client'[c].state, client'[c].inbox) => ListSent(c)
        <5>1. \A n \in 1..Len(client'[c].inbox) : client'[c].inbox[n].kind = "Users" =>
                  n \in 1..Len(client[c].inbox) /\ client[c].inbox[n].kind = "Users"
          BY <1>3, <3>4, <4>1, AppendPlaces
        <5> QED
          BY <2>1, <5>1, ListSentIs DEF Listed
      <4> QED
        BY <3>1, <3>2, <3>3, <4>3, <4>4, StillAware
    <3>6. CASE ~ (~ Gone(c) /\ IsJoined(c) /\ c # m.id)
      <4>1. client'[c].inbox = client[c].inbox /\ client'[c].room = client[c].room
            /\ client'[c].state = client[c].state
        BY <2>1, <3>6
      <4>2. Listed(client'[c].state, client'[c].inbox) => ListSent(c)
        BY <4>1, ListSentIs
      <4> QED
        BY <3>1, <3>2, <3>3, <4>1, <4>2, StillAware
    <3> QED
      BY <3>5, <3>6
  <2> QED
    BY <2>4 DEF Awareness
<1> QED
  BY <1>4, <1>5

LEMMA DisconnectAware ==
    ASSUME Orderly, Inv', Awareness, receiver # <<>>, NEW m \in ClientMessage,
           m = Head(receiver), HandleDisconnect(m), UNCHANGED port
    PROVE  Awareness'
<1> DEFINE a == About("Disconnected", clients[m.id])
<1>1. Inv /\ Lives
  BY DEF Orderly
<1>2. m.id \in Ids /\ m.kind = "Disconnect" /\ m.id \in DOMAIN clients
  BY <1>1, DisconnectDoes
<1>3. CASE End("send failed")
  BY <1>3, EndAware
<1>4. CASE ~ End("send failed")
  <2>1. /\ receiver' = Tail(receiver)
        /\ clients' = [c \in DOMAIN clients \ {m.id} |-> clients[c]]
        /\ \A c \in Ids :
              /\ client'[c].state = client[c].state
              /\ client'[c].room = client[c].room
              /\ client'[c].inbox =
                    IF IsJoined(m.id) /\ ~ Gone(c) /\ IsJoined(c) /\ c # m.id
                    THEN Append(client[c].inbox, a) ELSE client[c].inbox
    BY <1>1, <1>4, DisconnectDoes
  <2>2. \A c \in Ids : Announced(c)' => Announced(c)
    BY <1>1, <1>2, <2>1, AnnouncedLater
  <2>3. ~ IsJoined(m.id)' /\ \A c \in Ids : c # m.id =>
            /\ IsJoined(c)' <=> IsJoined(c)
            /\ IsJoined(c) => clients'[c] = clients[c]
    BY <2>1 DEF IsJoined
  <2>4. \A c \in Ids : Gone(c)' <=> Gone(c)
    BY <2>1 DEF Gone
  <2>5. ASSUME NEW c \in Ids, IsJoined(m.id), ~ Gone(c), IsJoined(c), c # m.id
        PROVE  Aware(c)'
    <3>1. a \in ServerMessage /\ a.kind = "Disconnected" /\ a.user = clients[m.id]
      BY <1>1, <1>2, <2>5, JoinedName, MessageType DEF About
    <3>2. client'[c].inbox = Append(client[c].inbox, a) /\ client'[c].room = client[c].room
      BY <2>1, <2>5
    <3> HIDE DEF a
    <3>3. client[c].inbox \in Seq(ServerMessage)
      BY <1>1, TaskType
    <3>4. \A d \in Ids : IsJoined(d) /\ d # m.id => clients[d] # a.user
      BY <1>1, <1>2, <2>5, <3>1 DEF Inv, Single, IsJoined
    <3>5. Present(c)' \subseteq Present(c) \ {a.user}
      BY <2>2, <2>3, <3>4 DEF Present, Others
    <3>6. UsersBut(c) \ {a.user} \subseteq UsersBut(c)'
      BY <2>3, <3>1 DEF UsersBut, Others
    <3>7. Informed(client[c].room, client[c].inbox, Present(c), UsersBut(c)) =>
              Informed(client'[c].room, client'[c].inbox, Present(c) \ {a.user},
                       UsersBut(c) \ {a.user})
      BY <3>1, <3>2, <3>3, InformedLeave
    <3>8. Listed(client'[c].state, client'[c].inbox) => ListSent(c)
      <4>1. \A n \in 1..Len(client'[c].inbox) : client'[c].inbox[n].kind = "Users" =>
                n \in 1..Len(client[c].inbox) /\ client[c].inbox[n].kind = "Users"
        BY <3>1, <3>2, <3>3, AppendPlaces
      <4> QED
        BY <2>1, <4>1, ListSentIs DEF Listed
    <3>9. Aware(c)
      BY DEF Awareness
    <3> QED
      BY <2>4, <2>5, <3>5, <3>6, <3>7, <3>8, <3>9, StillAware
  <2>6. ASSUME NEW c \in Ids, c # m.id, ~ IsJoined(m.id)
        PROVE  Aware(c)'
    <3>1. client'[c].inbox = client[c].inbox /\ client'[c].room = client[c].room
          /\ client'[c].state = client[c].state
      BY <2>1, <2>6
    <3>2. Present(c)' \subseteq Present(c)
      BY <2>2, <2>3 DEF Present, Others
    <3>3. UsersBut(c) \subseteq UsersBut(c)'
      BY <2>3, <2>6 DEF UsersBut, Others
    <3>4. Listed(client'[c].state, client'[c].inbox) => ListSent(c)
      BY <3>1, ListSentIs
    <3>5. Aware(c) /\ (IsJoined(c)' => IsJoined(c))
      BY <2>3, <2>6 DEF Awareness
    <3> QED
      BY <2>4, <3>1, <3>2, <3>3, <3>4, <3>5, StillAware
  <2>7. ASSUME NEW c \in Ids, c = m.id \/ Gone(c) \/ ~ IsJoined(c)
        PROVE  Aware(c)'
    BY <2>3, <2>4, <2>7, Unlisted
  <2> QED
    BY <2>5, <2>6, <2>7 DEF Awareness
<1> QED
  BY <1>3, <1>4

LEMMA ServeAware ==
    ASSUME Orderly, Inv', Awareness, Serve
    PROVE  Awareness'
<1>1. receiver # <<>> /\ Head(receiver) \in ClientMessage /\ UNCHANGED port
  BY OneLess DEF Serve, Orderly, Inv, TypeOK
<1>2. CASE HandleSetUsername(Head(receiver))
  BY <1>1, <1>2, SetUsernameAware
<1>3. CASE HandleJoined(Head(receiver))
  BY <1>1, <1>3, JoinedAware
<1>4. CASE HandleMessage(Head(receiver))
  BY <1>1, <1>4, MessageAware
<1>5. CASE HandleDisconnect(Head(receiver))
  BY <1>1, <1>5, DisconnectAware
<1> QED
  BY <1>2, <1>3, <1>4, <1>5 DEF Serve

-----------------------------------------------------------------------------
(* The steps of the client tasks, and what they know *)

\* What the task of a does leaves the table alone, or adds a client without a
\* name; and it announces no one, as run has still to handle its Joined.
LEMMA TaskAware ==
    ASSUME Orderly, Inv', Awareness, NEW a \in Ids,
           \A d \in Ids : d # a => client'[d] = client[d],
           \A d \in Ids : IsJoined(d)' <=> IsJoined(d),
           \A d \in Ids : IsJoined(d) => clients'[d] = clients[d],
           \/ receiver' = receiver
           \/ \E m \in ClientMessage : receiver' = Append(receiver, m),
           \/ ~ IsJoined(a)
           \/ client[a].state \in {"Joined", "Chatting", "done", "panicked"}
           \/ receiver' = Append(receiver, [kind |-> "Joined", id |-> a]),
           \/ ~ IsJoined(a)
           \/ client'[a].state \in {"done", "panicked"}
           \/ /\ ~ Gone(a)
              /\ Listed(client'[a].state, client'[a].inbox) => ListSent(a)
              /\ \/ client'[a].room = client[a].room /\ client'[a].inbox = client[a].inbox
                 \/ /\ client[a].inbox # <<>>
                    /\ client'[a].room = Shown(client[a].room, client[a].inbox[1])
                    /\ client'[a].inbox = Tail(client[a].inbox)
    PROVE  Awareness'
<1>1. Inv
  BY DEF Orderly
<1>2. receiver \in Seq(ClientMessage) /\ receiver' \in Seq(ClientMessage) /\ Len(receiver) \in Nat
  <2>1. receiver \in Seq(ClientMessage) /\ receiver' \in Seq(ClientMessage)
    BY <1>1 DEF Inv, TypeOK
  <2> QED
    BY <2>1, LenProperties
<1>3. \A n \in 1..Len(receiver) : n \in 1..Len(receiver') /\ receiver'[n] = receiver[n]
  BY <1>2, AppendPlaces
<1>4. ASSUME NEW d \in Ids, IsJoined(d), Announced(d)'
      PROVE  Announced(d)
  <2>1. /\ client'[d].state \in {"Joined", "Chatting", "done", "panicked"}
        /\ \A n \in 1..Len(receiver') : receiver'[n] # [kind |-> "Joined", id |-> d]
    BY <1>4 DEF Announced
  <2>2. \A n \in 1..Len(receiver) : receiver[n] # [kind |-> "Joined", id |-> d]
    BY <1>3, <2>1
  <2>3. client[d].state \in {"Joined", "Chatting", "done", "panicked"}
    <3>1. receiver' # Append(receiver, [kind |-> "Joined", id |-> d])
      <4> SUFFICES ASSUME receiver' = Append(receiver, [kind |-> "Joined", id |-> d])
                   PROVE  FALSE
        OBVIOUS
      <4>1. [kind |-> "Joined", id |-> d] \in ClientMessage
        BY DEF ClientMessage
      <4>2. Len(receiver) + 1 \in 1..Len(receiver')
            /\ receiver'[Len(receiver) + 1] = [kind |-> "Joined", id |-> d]
        BY <1>2, <4>1, AppendPlaces
      <4> QED
        BY <2>1, <4>2
    <3> QED
      BY <1>4, <2>1, <3>1
  <2> QED
    BY <2>2, <2>3 DEF Announced
<1>5. ASSUME NEW c \in Ids
      PROVE  /\ Present(c)' \subseteq Present(c) /\ UsersBut(c) \subseteq UsersBut(c)'
  BY <1>4 DEF Present, UsersBut, Others
<1>6. ASSUME NEW c \in Ids, c # a
      PROVE  Aware(c)'
  <2>1. client'[c] = client[c] /\ Aware(c)
    BY <1>6 DEF Awareness
  <2>2. /\ Gone(c) => Gone(c)'
        /\ Listed(client'[c].state, client'[c].inbox) => ListSent(c)
    BY <2>1, ListSentIs DEF Gone
  <2> QED
    BY <1>5, <2>1, <2>2, StillAware
<1>7. Aware(a)'
  <2>1. CASE ~ IsJoined(a) \/ client'[a].state \in {"done", "panicked"}
    <3>1. ~ (IsJoined(a)' /\ ~ Gone(a)')
      BY <2>1 DEF Gone
    <3> QED
      BY <3>1, Unlisted
  <2>2. CASE IsJoined(a) /\ client'[a].state \notin {"done", "panicked"}
    <3>1. Informed(client[a].room, client[a].inbox, Present(a), UsersBut(a)) =>
              Informed(client'[a].room, client'[a].inbox, Present(a), UsersBut(a))
      BY <1>1, <2>2, TaskType, InformedTail
    <3>2. Aware(a)
      BY DEF Awareness
    <3> QED
      BY <1>5, <2>2, <3>1, <3>2, StillAware
  <2> QED
    BY <2>1, <2>2
<1> QED
  BY <1>6, <1>7 DEF Awareness

LEMMA LeaveAware ==
    ASSUME Orderly, Inv', Awareness, NEW c \in Ids, Leave(c), UNCHANGED clients,
           \/ client[c].state \in {"WaitingWelcome", "Joining", "Joined", "Chatting"}
           \/ /\ client[c].state = "answer" /\ client[c].inbox # <<>>
              /\ client[c].inbox[1].kind # "UsernameAccepted"
    PROVE  Awareness'
<1>1. Inv /\ Life(c, receiver, client[c].state, client[c].inbox, Entry(c), port)
  BY DEF Orderly, Lives
<1>2. [kind |-> "Disconnect", id |-> c] \in ClientMessage
  BY DEF ClientMessage
<1>3. client'[c].state = "done" /\ \A d \in Ids : d # c => client'[d] = client[d]
  BY <1>1, BecomeDoes DEF Leave
<1>4. ~ IsJoined(c) \/ client[c].state \in {"Joined", "Chatting", "done", "panicked"}
  <2> SUFFICES ASSUME IsJoined(c), client[c].state \in {"WaitingWelcome", "Joining", "answer"}
               PROVE  FALSE
    OBVIOUS
  <2>1. Entry(c) = "joined"
    BY <1>1, TaskType
  <2>2. client[c].state = "answer" /\ client[c].inbox[1] = Plain("UsernameAccepted")
    BY <1>1, <2>1 DEF Life, Stage, Accepted
  <2> QED
    BY <2>2 DEF Plain
<1>5. \A d \in Ids : IsJoined(d)' <=> IsJoined(d)
  BY DEF IsJoined
<1> QED
  BY <1>2, <1>3, <1>4, <1>5, TaskAware DEF Leave

LEMMA AcceptAware ==
    ASSUME Orderly, Inv', Awareness, NEW c \in Ids, Accept(c)
    PROVE  Awareness'
<1>1. Inv /\ client[c].state = "none" /\ UNCHANGED receiver
  BY DEF Orderly, Accept
<1>2. Entry(c) = "absent"
  BY <1>1, LifeUnknown DEF Orderly, Lives
<1>3. c \notin DOMAIN clients
  BY <1>1, <1>2, TaskType
<1>4. \A d \in Ids : d # c => client'[d] = client[d]
  BY <1>1 DEF Accept, Inv, TypeOK
<1>5. /\ \A d \in Ids : IsJoined(d)' <=> IsJoined(d)
      /\ \A d \in Ids : IsJoined(d) => clients'[d] = clients[d]
      /\ ~ IsJoined(c)
  BY <1>3 DEF IsJoined, Accept
<1> QED
  BY <1>1, <1>4, <1>5, TaskAware

LEMMA AsksAware ==
    ASSUME Orderly, Inv', Awareness, NEW c \in Ids, NEW name \in Names \cup {NoName},
           SetUsername(c, name)
    PROVE  Awareness'
<1>1. Inv /\ Life(c, receiver, client[c].state, client[c].inbox, Entry(c), port)
      /\ client[c].state = "Joining" /\ UNCHANGED clients
  BY DEF Orderly, Lives, SetUsername
<1>2. [kind |-> "SetUsername", id |-> c, name |-> name] \in ClientMessage
  BY DEF ClientMessage
<1>3. \A d \in Ids : d # c => client'[d] = client[d]
  BY <1>1, BecomeDoes DEF SetUsername
<1>4. ~ IsJoined(c)
  <2>1. Entry(c) = "unnamed"
    BY <1>1 DEF Life, Stage
  <2> QED
    BY <1>1, <2>1, TaskType
<1>5. \A d \in Ids : IsJoined(d)' <=> IsJoined(d)
  BY <1>1 DEF IsJoined
<1> QED
  BY <1>1, <1>2, <1>3, <1>4, <1>5, TaskAware DEF SetUsername

LEMMA SayAware ==
    ASSUME Orderly, Inv', Awareness, NEW c \in Ids, Say(c)
    PROVE  Awareness'
<1>1. Inv /\ client[c].state = "Chatting" /\ UNCHANGED clients
  BY DEF Orderly, Say
<1>2. [kind |-> "Message", id |-> c] \in ClientMessage
  BY DEF ClientMessage
<1>3. /\ client'[c].state = client[c].state /\ client'[c].inbox = client[c].inbox
      /\ client'[c].room = client[c].room
      /\ \A d \in Ids : d # c => client'[d] = client[d]
  <2>1. client \in [Ids -> Client]
    BY <1>1 DEF Inv, TypeOK
  <2> QED
    BY <2>1 DEF Say, Client
<1>4. \A d \in Ids : IsJoined(d)' <=> IsJoined(d)
  BY <1>1 DEF IsJoined
<1>5. ~ Gone(c) /\ ListSent(c)
  BY <1>1 DEF Gone, ListSent
<1> QED
  BY <1>1, <1>2, <1>3, <1>4, <1>5, TaskAware DEF Say

LEMMA ReceiveAware ==
    ASSUME Orderly, Inv', Awareness, NEW c \in Ids, Receive(c)
    PROVE  Awareness'
<1> DEFINE s == client[c].state
           inbox == client[c].inbox
           m == inbox[1]
<1>1. /\ s \in States /\ inbox \in Seq(ServerMessage) /\ receiver \in Seq(ClientMessage)
      /\ inbox # <<>> /\ Expected(s) # {} /\ Inv
  BY TaskType DEF Receive, Orderly
<1>2. Head(inbox) = m /\ 1 \in 1..Len(inbox)
  BY <1>1, TailPlaces
<1>3. Life(c, receiver, s, inbox, Entry(c), port)
  BY DEF Orderly, Lives
<1>4. CASE m.kind \notin Expected(s)
  <2>1. s = "Joined" /\ port # "wasi"
    BY <1>1, <1>3, <1>4, LifeExpects
  <2>2. Become(c, "panicked") /\ UNCHANGED <<server, clients, receiver>>
    BY <1>2, <1>4, <2>1 DEF Receive
  <2>3. /\ client'[c].state = "panicked"
        /\ \A d \in Ids : d # c => client'[d] = client[d]
    BY <1>1, <2>2, BecomeDoes
  <2>4. \A d \in Ids : IsJoined(d)' <=> IsJoined(d)
    BY <2>2 DEF IsJoined
  <2> QED
    BY <2>1, <2>2, <2>3, <2>4, TaskAware
<1>5. CASE m.kind \in Expected(s)
  <2>1. (Proceeds(c, m) \/ (m.kind # "UsernameAccepted" /\ Leave(c))) /\ UNCHANGED <<server, clients>>
    BY <1>2, <1>5 DEF Receive
  <2>2. s \in {"WaitingWelcome", "answer", "Joined", "Chatting"}
    BY <1>1 DEF Expected, States
  <2>3. CASE m.kind # "UsernameAccepted" /\ Leave(c)
    BY <1>1, <2>1, <2>2, <2>3, LeaveAware
  <2>4. CASE Proceeds(c, m)
    <3>1. /\ m.kind # "UsernameInvalid"
          /\ client'[c].state = CASE m.kind = "Welcome"          -> "Joining"
                                 [] m.kind = "UsernameAccepted" -> "Joined"
                                 [] OTHER                       -> "Chatting"
          /\ client'[c].inbox = Tail(inbox)
          /\ client'[c].room = Shown(client[c].room, m)
          /\ \A d \in Ids : d # c => client'[d] = client[d]
          /\ receiver' = IF m.kind = "UsernameAccepted"
                         THEN Append(receiver, [kind |-> "Joined", id |-> c])
                         ELSE receiver
      BY <1>1, <1>2, <2>4, ProceedsDoes
    <3>2. [kind |-> "Joined", id |-> c] \in ClientMessage
      BY DEF ClientMessage
    <3>3. \A d \in Ids : IsJoined(d)' <=> IsJoined(d)
      BY <2>1 DEF IsJoined
    <3>4. \/ ~ IsJoined(c)
          \/ s \in {"Joined", "Chatting", "done", "panicked"}
          \/ receiver' = Append(receiver, [kind |-> "Joined", id |-> c])
      <4>1. CASE s = "WaitingWelcome"
        <5>1. Entry(c) = "unnamed"
          BY <1>3, <4>1 DEF Life, Stage
        <5> QED
          BY <1>1, <5>1, TaskType
      <4>2. CASE s = "answer"
        <5>1. m.kind = "UsernameAccepted"
          BY <1>5, <3>1, <4>2 DEF Expected
        <5> QED
          BY <3>1, <5>1
      <4> QED
        BY <2>2, <4>1, <4>2
    <3>5. \A n \in 1..Len(Tail(inbox)) : n + 1 \in 1..Len(inbox) /\ Tail(inbox)[n] = inbox[n + 1]
      BY <1>1, TailPlaces
    <3>6. Listed(client'[c].state, client'[c].inbox) => ListSent(c)
      <4> SUFFICES ASSUME Listed(client'[c].state, client'[c].inbox) PROVE Listed(s, inbox)
        BY ListSentIs
      <4>1. CASE \E n \in 1..Len(Tail(inbox)) : Tail(inbox)[n].kind = "Users"
        BY <3>5, <4>1 DEF Listed
      <4>2. CASE client'[c].state = "Chatting"
        <5>1. m.kind \notin {"Welcome", "UsernameAccepted"}
          BY <3>1, <4>2
        <5>2. s = "Chatting" \/ m.kind = "Users"
          BY <1>5, <2>2, <3>1, <5>1 DEF Expected
        <5> QED
          BY <1>2, <5>2 DEF Listed
      <4> QED
        BY <3>1, <4>1, <4>2 DEF Listed
    <3>7. ~ Gone(c)
      BY <2>2 DEF Gone
    <3>8. \/ receiver' = receiver
          \/ \E k \in ClientMessage : receiver' = Append(receiver, k)
      BY <3>1, <3>2
    <3>9. \A d \in Ids : IsJoined(d) => clients'[d] = clients[d]
      BY <2>1
    <3> QED
      BY <1>1, <3>1, <3>3, <3>4, <3>6, <3>7, <3>8, <3>9, TaskAware
  <2> QED
    BY <2>1, <2>3, <2>4
<1> QED
  BY <1>4, <1>5

LEMMA StepAware ==
    ASSUME Orderly, Awareness, [Next]_vars
    PROVE  Awareness'
<1>1. Inv'
  BY StepKeeps DEF Orderly
<1>2. CASE Serve
  BY <1>1, <1>2, ServeAware
<1>3. CASE AcceptFails
  BY <1>3, EndAware DEF AcceptFails
<1>4. ASSUME NEW c \in Ids, Accept(c) PROVE Awareness'
  BY <1>1, <1>4, AcceptAware
<1>5. ASSUME NEW c \in Ids, ReadFails(c) PROVE Awareness'
  BY <1>1, <1>5, LeaveAware DEF ReadFails
<1>6. ASSUME NEW c \in Ids, NEW name \in Names \cup {NoName}, SetUsername(c, name)
      PROVE  Awareness'
  BY <1>1, <1>6, AsksAware
<1>7. ASSUME NEW c \in Ids, Say(c) PROVE Awareness'
  BY <1>1, <1>7, SayAware
<1>8. ASSUME NEW c \in Ids, Receive(c) PROVE Awareness'
  BY <1>1, <1>8, ReceiveAware
<1>9. CASE UNCHANGED vars
  <2> SUFFICES ASSUME NEW c \in Ids PROVE Aware(c)'
    BY DEF Awareness
  <2>1. Aware(c) /\ UNCHANGED <<client, clients, receiver>>
    BY <1>9 DEF Awareness, vars
  <2>2. /\ IsJoined(c)' <=> IsJoined(c)
        /\ Gone(c)' <=> Gone(c)
        /\ ListSent(c)' <=> ListSent(c)
        /\ Present(c)' = Present(c)
        /\ UsersBut(c)' = UsersBut(c)
    BY <2>1 DEF IsJoined, Gone, ListSent, Present, UsersBut, Others, Announced
  <2> QED
    BY <2>1, <2>2 DEF Aware
<1> QED
  BY <1>2, <1>3, <1>4, <1>5, <1>6, <1>7, <1>8, <1>9 DEF Next

\* With the order of the messages, what every client knows or is about to know.
THEOREM Knowledge == Spec => [](Orderly /\ Awareness)
<1>1. Init => Orderly /\ Awareness
  <2> SUFFICES ASSUME Init PROVE Orderly /\ Awareness
    OBVIOUS
  <2>1. \A c \in Ids : ~ IsJoined(c)
    BY DEF Init, NoClients, IsJoined
  <2> QED
    BY <2>1, InitIsOrderly DEF Awareness, Aware
<1>2. Orderly /\ Awareness /\ [Next]_vars => (Orderly /\ Awareness)'
  BY StepLives, StepAware
<1> QED
  BY <1>1, <1>2, PTL DEF Spec

\* In whatever order clients join and leave, a client that has its list of the
\* room knows, with what is under way to it, who is there (lib.rs, run:
\* the list that is sent and the messages that follow it).
THEOREM RoomKnown == Spec => []RoomIsKnown
<1>1. Awareness => RoomIsKnown
  BY DEF Awareness, Aware, Informed, Eventually, EventualRoom, Present, RoomIsKnown
<1> QED
  BY <1>1, Knowledge, PTL

\* A line that a client shows is of a user it was told is in the room.
THEOREM SpeakersAreKnown == Spec => SpeakerIsInTheRoom
<1> DEFINE Shows(c) ==
        Receive(c) /\ client'[c].state = "Chatting" /\ Head(client[c].inbox).kind = "Message"
            => Head(client[c].inbox).user \in client[c].room
           Step == \A c \in Ids : Shows(c)
<1>1. ASSUME Orderly, Awareness, NEW c \in Ids PROVE Shows(c)
  <2> SUFFICES ASSUME Receive(c), client'[c].state = "Chatting",
                      Head(client[c].inbox).kind = "Message"
               PROVE  Head(client[c].inbox).user \in client[c].room
    OBVIOUS
  <2> DEFINE s == client[c].state
             inbox == client[c].inbox
  <2>1. /\ s \in States /\ inbox \in Seq(ServerMessage) /\ inbox # <<>> /\ Inv
    BY <1>1, TaskType DEF Receive, Orderly
  <2>2. Head(inbox) = inbox[1] /\ 1 \in 1..Len(inbox)
    BY <2>1, TailPlaces
  <2>3. "Message" \in Expected(s)
    <3> SUFFICES ASSUME "Message" \notin Expected(s) PROVE FALSE
      OBVIOUS
    <3>1. Become(c, "panicked") \/ Panics
      BY DEF Receive
    <3>2. Become(c, "panicked") => client'[c].state = "panicked"
      BY <2>1, BecomeDoes
    <3>3. Panics => client'[c].state = "none"
      BY DEF Panics, End, NoTasks
    <3> QED
      BY <3>1, <3>2, <3>3
  <2>4. s = "Chatting"
    BY <2>1, <2>3 DEF Expected, States
  <2>5. Entry(c) = "joined" /\ \A n \in 1..Len(inbox) : inbox[n].kind # "Users"
    BY <1>1, <2>4 DEF Orderly, Lives, Life, Stage, Accepted
  <2>6. Aware(c) /\ IsJoined(c) /\ ~ Gone(c) /\ ListSent(c)
    BY <1>1, <2>1, <2>4, <2>5, TaskType DEF Awareness, Gone, ListSent
  <2>7. Speaks(client[c].room, inbox)
    BY <2>6 DEF Aware, Informed
  <2>8. inbox[1].user \in Rooms(client[c].room, inbox)[1 - 1]
    BY <2>2, <2>5, <2>7 DEF Speaks
  <2>9. Rooms(client[c].room, inbox)[0] = client[c].room
    BY <2>1, RoomsAre
  <2> QED
    BY <2>2, <2>8, <2>9
<1>2. Orderly /\ Awareness => Step
  BY <1>1
<1>3. SpeakerIsInTheRoom <=> [][Step]_vars
  BY PTL DEF SpeakerIsInTheRoom
<1> HIDE DEF Step
<1> QED
  BY <1>2, <1>3, Knowledge, PTL

=============================================================================
