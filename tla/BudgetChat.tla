----------------------------- MODULE BudgetChat -----------------------------
(***************************************************************************)
(* The budget chat: the task run, which keeps the table of the clients,    *)
(* and one task handle_client per connection.  A client task talks to run  *)
(* through one queue that all of them share, and run talks to each client  *)
(* through a queue of its own.                                             *)
(*                                                                         *)
(* There are two ports, which differ in what run answers to a user name    *)
(* and in what a send to a task that has ended does:                       *)
(*   "tokio"  src/rust/p03-budget-chat/src/lib.rs                          *)
(*   "wasi"   src/wasi/problems/p03-budget-chat/src                        *)
(* The variable port is chosen in Init and never changes.                  *)
(*                                                                         *)
(* A socket may end or fail whenever a task reads it or writes to it.      *)
(***************************************************************************)
EXTENDS Naturals, Sequences

CONSTANTS
    Ids,         \* the ids of the connections, each used once
    Names,       \* the valid user names
    NoName,      \* stands for no name in the table, and for a name that is not valid
    MaxMessages  \* bound on the lines a client says

ASSUME NoNameAssumption == NoName \notin Names
ASSUME MaxMessagesAssumption == MaxMessages \in Nat

VARIABLES
    port,      \* which port runs
    server,    \* how run does: "running", or how it ended
    clients,   \* the table of run: the user name, if any, of each id
    receiver,  \* the queue of ClientMessages
    client     \* the tasks: state, queue of ServerMessages, what was shown

vars == <<port, server, clients, receiver, client>>

-----------------------------------------------------------------------------
(* Messages *)

ClientMessage ==
    [kind : {"SetUsername"}, id : Ids, name : Names \cup {NoName}]
        \cup [kind : {"Joined", "Message", "Disconnect"}, id : Ids]

ServerMessage ==
    [kind : {"Welcome", "UsernameAccepted", "UsernameInvalid"}]
        \cup [kind : {"AnnounceUser", "Message", "Disconnected"}, user : Names]
        \cup [kind : {"Users"}, users : SUBSET Names]

Plain(kind) == [kind |-> kind]
About(kind, user) == [kind |-> kind, user |-> user]
Users(users) == [kind |-> "Users", users |-> users]

-----------------------------------------------------------------------------
(* State *)

States == {"none", "WaitingWelcome", "Joining", "answer", "Joined", "Chatting",
           "done", "panicked"}

Client == [state : States, inbox : Seq(ServerMessage), room : SUBSET Names,
           said : 0..MaxMessages]

\* The values of the variables.
TypeOK ==
    /\ port \in {"tokio", "wasi"}
    /\ server \in {"running", "closed", "send failed", "panicked"}
    /\ DOMAIN clients \subseteq Ids
    /\ clients \in [DOMAIN clients -> Names \cup {NoName}]
    /\ receiver \in Seq(ClientMessage)
    /\ client \in [Ids -> Client]

NoClients == [c \in {} |-> NoName]
NoTasks == [c \in Ids |-> [state |-> "none", inbox |-> <<>>, room |-> {}, said |-> 0]]

Init ==
    /\ port \in {"tokio", "wasi"}
    /\ server = "running"
    /\ clients = NoClients
    /\ receiver = <<>>
    /\ client = NoTasks

\* The receiving half of the queue of c was dropped with its task.
Gone(c) == client[c].state \in {"done", "panicked"}

IsJoined(c) == c \in DOMAIN clients /\ clients[c] # NoName

Others(c) == {d \in Ids : IsJoined(d) /\ d # c}

UsersBut(c) == {clients[d] : d \in Others(c)}

\* A bug: the other names are not looked at.
IsUsernameAName(name) == name # NoName

IsUsernameValid(name) == name # NoName /\ \A c \in DOMAIN clients : clients[c] # name

-----------------------------------------------------------------------------
(* The task run *)

\* What run sends: to c alone, or to the others that have joined.
To(c, messages) == [d \in Ids |-> IF d = c THEN messages ELSE <<>>]
Broadcast(c, message) == [d \in Ids |-> IF d \in Others(c) THEN <<message>> ELSE <<>>]

\* run returns or panics, and the process ends with it.
End(how) ==
    /\ server' = how
    /\ clients' = NoClients
    /\ receiver' = <<>>
    /\ client' = NoTasks

\* run sends and goes on with a new table.  A send to a task that has ended
\* fails: the tokio port returns the error, the WASI port ignores it.
Emit(sent, table) ==
    IF port = "tokio" /\ \E c \in Ids : Gone(c) /\ sent[c] # <<>>
    THEN End("send failed")
    ELSE /\ clients' = table
         /\ receiver' = Tail(receiver)
         /\ client' = [c \in Ids |-> [client[c] EXCEPT !.inbox =
                          IF Gone(c) THEN @ ELSE @ \o sent[c]]]
         /\ UNCHANGED server

\* clients[&id] and unwrap panic for an id that is not in the table.
Panics == End("panicked")

\* A message of a client that has no name is logged, and no more.
Ignore == receiver' = Tail(receiver) /\ UNCHANGED <<server, clients, client>>

\* A bug: a name that is refused is not answered.
RefusesSilently(m) ==
    /\ m.kind = "SetUsername"
    /\ IF IsUsernameValid(m.name)
       THEN Emit(To(m.id, <<Plain("UsernameAccepted")>> \o
                          IF port = "wasi" THEN <<Users(UsersBut(m.id))>> ELSE <<>>),
                 [clients EXCEPT ![m.id] = m.name])
       ELSE Ignore

\* A bug: the list is sent with Joined in both ports.
AcceptsOnly(m) ==
    /\ m.kind = "SetUsername"
    /\ IF IsUsernameValid(m.name)
       THEN Emit(To(m.id, <<Plain("UsernameAccepted")>>), [clients EXCEPT ![m.id] = m.name])
       ELSE Emit(To(m.id, <<Plain("UsernameInvalid")>>), clients)

HandleSetUsername(m) ==
    /\ m.kind = "SetUsername"
    /\ IF m.id \notin DOMAIN clients \/ (IsUsernameValid(m.name) /\ IsJoined(m.id)) THEN Panics
       ELSE IF IsUsernameValid(m.name)
       THEN Emit(To(m.id, <<Plain("UsernameAccepted")>> \o
                          IF port = "wasi" THEN <<Users(UsersBut(m.id))>> ELSE <<>>),
                 [clients EXCEPT ![m.id] = m.name])
       ELSE Emit(To(m.id, <<Plain("UsernameInvalid")>>), clients)

\* A bug: only the newcomer is told.
JoinsUnannounced(m) ==
    /\ m.kind = "Joined"
    /\ Emit(To(m.id, IF port = "tokio" THEN <<Users(UsersBut(m.id))>> ELSE <<>>), clients)

HandleJoined(m) ==
    /\ m.kind = "Joined"
    /\ IF m.id \notin DOMAIN clients THEN Panics
       ELSE IF ~IsJoined(m.id) THEN Ignore
       ELSE Emit([d \in Ids |->
                     IF d = m.id /\ port = "tokio" THEN <<Users(UsersBut(m.id))>>
                     ELSE Broadcast(m.id, About("AnnounceUser", clients[m.id]))[d]],
                 clients)

HandleMessage(m) ==
    /\ m.kind = "Message"
    /\ IF m.id \notin DOMAIN clients THEN Panics
       ELSE IF ~IsJoined(m.id) THEN Ignore
       ELSE Emit(Broadcast(m.id, About("Message", clients[m.id])), clients)

\* A bug: the others are not told.
LeavesUnannounced(m) ==
    /\ m.kind = "Disconnect"
    /\ Emit([d \in Ids |-> <<>>], [c \in DOMAIN clients \ {m.id} |-> clients[c]])

HandleDisconnect(m) ==
    /\ m.kind = "Disconnect"
    /\ IF m.id \notin DOMAIN clients THEN Ignore
       ELSE Emit(IF IsJoined(m.id)
                 THEN Broadcast(m.id, About("Disconnected", clients[m.id]))
                 ELSE [d \in Ids |-> <<>>],
                 [c \in DOMAIN clients \ {m.id} |-> clients[c]])

Serve ==
    /\ server = "running"
    /\ receiver # <<>>
    /\ LET m == Head(receiver) IN
       \/ HandleSetUsername(m)
       \/ HandleJoined(m)
       \/ HandleMessage(m)
       \/ HandleDisconnect(m)
    /\ UNCHANGED port

\* A connection comes in: its task is spawned and welcomed.
Accept(c) ==
    /\ server = "running"
    /\ client[c].state = "none"
    /\ clients' = [d \in DOMAIN clients \cup {c} |-> IF d = c THEN NoName ELSE clients[d]]
    /\ client' = [client EXCEPT ![c].state = "WaitingWelcome",
                                ![c].inbox = <<Plain("Welcome")>>]
    /\ UNCHANGED <<port, server, receiver>>

\* The listener fails, and run ends.
AcceptFails ==
    /\ server = "running"
    /\ End("closed")
    /\ UNCHANGED port

-----------------------------------------------------------------------------
(* The task handle_client *)

\* The queue of c goes with its task.
Become(c, state) ==
    client' = [client EXCEPT ![c].state = state,
                             ![c].inbox = IF state \in {"done", "panicked"} THEN <<>> ELSE @]

\* Every way out of the task but a panic tells run.
Leave(c) ==
    /\ Become(c, "done")
    /\ receiver' = Append(receiver, [kind |-> "Disconnect", id |-> c])

\* The socket ends or fails where c reads it: the name, or a line.
ReadFails(c) ==
    /\ server = "running"
    /\ client[c].state \in {"Joining", "Chatting"}
    /\ Leave(c)
    /\ UNCHANGED <<port, server, clients>>

\* joining: the line with the name.
SetUsername(c, name) ==
    /\ server = "running"
    /\ client[c].state = "Joining"
    /\ receiver' = Append(receiver, [kind |-> "SetUsername", id |-> c, name |-> name])
    /\ Become(c, "answer")
    /\ UNCHANGED <<port, server, clients>>

\* chatting: a line to the room.
Say(c) ==
    /\ server = "running"
    /\ client[c].state = "Chatting"
    /\ client[c].said < MaxMessages
    /\ receiver' = Append(receiver, [kind |-> "Message", id |-> c])
    /\ client' = [client EXCEPT ![c].said = @ + 1]
    /\ UNCHANGED <<port, server, clients>>

\* The kinds of message that c takes in each of its states.
Expected(state) ==
    CASE state = "WaitingWelcome" -> {"Welcome"}
      [] state = "answer"         -> {"UsernameAccepted", "UsernameInvalid"}
      [] state = "Joined"         -> {"Users"}
      [] state = "Chatting"       -> {"AnnounceUser", "Message", "Disconnected"}
      [] OTHER                    -> {}

\* The room as c knows it once m was shown.
Shown(room, m) ==
    CASE m.kind = "Users"        -> m.users
      [] m.kind = "AnnounceUser" -> room \cup {m.user}
      [] m.kind = "Disconnected" -> room \ {m.user}
      [] OTHER                   -> room

\* What c does with a message it expects, when its writes succeed.
Proceeds(c, m) ==
    LET next == CASE m.kind = "Welcome"          -> "Joining"
                  [] m.kind = "UsernameAccepted" -> "Joined"
                  [] OTHER                       -> "Chatting"
    IN /\ m.kind # "UsernameInvalid"
       /\ client' = [client EXCEPT ![c].state = next,
                                   ![c].inbox = Tail(@),
                                   ![c].room = Shown(@, m)]
       /\ receiver' = IF m.kind = "UsernameAccepted"
                      THEN Append(receiver, [kind |-> "Joined", id |-> c])
                      ELSE receiver

\* A message of run: an unexpected one is unreachable!, and the task panics,
\* which takes the task down in tokio, and the process in WASI.
\* All but UsernameAccepted are written to the socket, which may fail; after
\* UsernameInvalid the task ends in any case.
Receive(c) ==
    /\ server = "running"
    /\ Expected(client[c].state) # {}
    /\ client[c].inbox # <<>>
    /\ LET m == Head(client[c].inbox) IN
       IF m.kind \notin Expected(client[c].state)
       THEN \/ port = "tokio" /\ Become(c, "panicked") /\ UNCHANGED <<server, clients, receiver>>
            \/ port = "wasi" /\ Panics
       ELSE /\ \/ Proceeds(c, m)
               \/ m.kind # "UsernameAccepted" /\ Leave(c)
            /\ UNCHANGED <<server, clients>>
    /\ UNCHANGED port

-----------------------------------------------------------------------------
Next ==
    \/ Serve
    \/ AcceptFails
    \/ \E c \in Ids :
          \/ Accept(c)
          \/ ReadFails(c)
          \/ \E name \in Names \cup {NoName} : SetUsername(c, name)
          \/ Say(c)
          \/ Receive(c)

\* The tasks run: run takes its messages, and each client its own.
Spec == Init /\ [][Next]_vars /\ WF_vars(Serve) /\ \A c \in Ids : WF_vars(Receive(c))

-----------------------------------------------------------------------------
(* Properties *)

\* No two entries of the table have the same user name, whatever the order of
\* the clients that ask for it, and of those that leave and give it back.
OneHolderOfAName ==
    \A c, d \in DOMAIN clients :
        clients[c] # NoName /\ clients[c] = clients[d] => c = d

\* run never looks up an id that is not in its table: what a client sent before
\* its Disconnect is handled before it (lib.rs:251-275).  No task of the WASI port,
\* where a panic takes the whole process down, meets a message that it calls
\* unreachable.  A task of the tokio port does in one place only: it has its name,
\* is in the table, and is told what another does before it gets its list
\* (lib.rs:434); see NobodyPanics.
OnlyJoinersPanic ==
    [][/\ server' # "panicked"
       /\ \A c \in Ids : client'[c].state = "panicked" /\ client[c].state # "panicked" =>
             /\ port = "tokio" /\ client[c].state = "Joined" /\ IsJoined(c)
             /\ Head(client[c].inbox).kind \in {"AnnounceUser", "Message", "Disconnected"}]_vars

\* Not so in the tokio port: what lib.rs:434 calls unreachable is reached, by a client
\* that another overtakes between UsernameAccepted and Users (lib.rs:267, 276).  The
\* task ends without a Disconnect: its name stays in the table and in the lists, and
\* the next message to it ends run.
NobodyPanics == \A c \in Ids : client[c].state # "panicked"

\* The room after each of the messages of a queue, and as c will know it when it
\* has shown those under way.
Rooms(room, inbox) ==
    LET after[n \in 0..Len(inbox)] == IF n = 0 THEN room ELSE Shown(after[n - 1], inbox[n])
    IN after

EventualRoom(c) == Rooms(client[c].room, client[c].inbox)[Len(client[c].inbox)]

ListSent(c) ==
    \/ client[c].state = "Chatting"
    \/ \E n \in 1..Len(client[c].inbox) : client[c].inbox[n].kind = "Users"

\* run has handled the Joined of c.
Announced(c) ==
    /\ client[c].state \in {"Joined", "Chatting", "done", "panicked"}
    /\ \A n \in 1..Len(receiver) : receiver[n] # [kind |-> "Joined", id |-> c]

\* Whatever the order in which clients join and leave, a client that has its
\* list of the room knows, once it has shown what is under way to it, everyone
\* who has joined, and nobody who is not there.
RoomIsKnown ==
    \A c \in Ids : IsJoined(c) /\ ~Gone(c) /\ ListSent(c) =>
        /\ {clients[d] : d \in {e \in Others(c) : Announced(e)}} \subseteq EventualRoom(c)
        /\ EventualRoom(c) \subseteq UsersBut(c)

\* A client is shown messages only of users it was told are in the room.
SpeakerIsInTheRoom ==
    [][\A c \in Ids :
          Receive(c) /\ client'[c].state = "Chatting" /\ Head(client[c].inbox).kind = "Message"
              => Head(client[c].inbox).user \in client[c].room]_vars

\* A client that gave a name gets into the chat, or leaves; and one that leaves is
\* taken out of the table, so that its name is free again.  Only the listener can
\* prevent this in the WASI port.  In the tokio port two things more do: the panic of
\* a joining client, which then neither gets its list nor leaves the table (see
\* NobodyPanics), and a send to a client that is gone, which ends run (see
\* OnlyTheSocketEndsRun).
ClientsAreServed ==
    \A c \in Ids :
        /\ client[c].state \in {"answer", "Joined"} ~>
              \/ client[c].state \in {"Chatting", "done"}
              \/ server = "closed"
              \/ port = "tokio" /\ (client[c].state = "panicked" \/ server = "send failed")
        /\ client[c].state = "done" ~>
              \/ c \notin DOMAIN clients
              \/ server = "closed"
              \/ port = "tokio" /\ server = "send failed"

\* run is said to return an error only when its socket returns one.
OnlyTheSocketEndsRun == server # "send failed"

=============================================================================
