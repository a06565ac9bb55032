----------------------------- MODULE SpeedDaemon -----------------------------
(***************************************************************************)
(* The speed daemon: a task handle_client per connection, which turns out  *)
(* to be a camera or a ticket dispatcher, and the task run, which takes    *)
(* what they report from one queue, keeps the observations and hands the   *)
(* tickets out.  Its two ports, src/rust/p06-speed-daemon/src (tokio) and  *)
(* src/wasi/problems/p06-speed-daemon/src (WASI), have the same control.   *)
(* They part where a listener that fails ends run (tokio only), and where  *)
(* a ticket sent to a dispatcher that has left makes run return (tokio) or *)
(* panic (WASI): the process is over in both.                              *)
(*                                                                         *)
(* A socket may end or fail whenever a task reads it or writes to it.  The *)
(* order of the tickets in a list or a queue is left out: they are sets.   *)
(***************************************************************************)
EXTENDS Integers, Sequences, FiniteSets

CONSTANTS
    Clients,          \* the connections; the id of a dispatcher is its connection
    Cars,             \* the number plates
    Roads, Miles,     \* where a camera may be
    Limits,           \* the limits a camera may report, in miles per hour
    Timestamps,       \* the seconds at which a plate may be seen
    Askers,           \* the connections that ask for heartbeats
    NoClient,         \* stands for no dispatcher
    MaxObservations,  \* bound on the observations
    MaxQueue          \* bound on the queue of run when a camera reports

MaxU16 == 65535

ASSUME ClientsAssumption == IsFiniteSet(Clients)
ASSUME NoClientAssumption == NoClient \notin Clients
ASSUME NumbersAssumption ==
    /\ Miles \subseteq 0..MaxU16
    /\ Limits \subseteq 0..MaxU16
    /\ Timestamps \subseteq Nat

VARIABLES
    server,        \* "running", or how run ended
    observations,  \* what the Controller has observed
    ticketed,      \* the days on which a car has a ticket, Controller.tickets
    pending,       \* Dispatchers.pending_tickets
    dispatchers,   \* Dispatchers.dispatchers, in the order they were added
    receiver,      \* the queue of ControllerMessages
    cameras,       \* limit and number of the cameras of each road
    client         \* the tasks of the connections

vars == <<server, observations, ticketed, pending, dispatchers, receiver, cameras, client>>

controller == <<observations, ticketed, pending, dispatchers>>

-----------------------------------------------------------------------------
(* State *)

Observation == [plate : Cars, road : Roads, mile : Miles, timestamp : Timestamps]

Plate == [kind : {"Plate"}, plate : Cars, road : Roads, mile : Miles, limit : Limits,
          timestamp : Timestamps]

Ticket == [plate : Cars, road : Roads, mile1 : Miles, timestamp1 : Timestamps,
           mile2 : Miles, timestamp2 : Timestamps, speed : 0..MaxU16]

Dispatcher == [id : Clients, roads : SUBSET Roads]

ControllerMessage ==
    Plate \cup [kind : {"AddDispatcher"}, id : Clients, roads : SUBSET Roads]
          \cup [kind : {"RemoveDispatcher"}, id : Clients]

\* What a task keeps: where it is, the camera it is, whether its heartbeat was
\* set, the tickets queued for it and, for the properties, those it wrote; and after
\* its end those that were lost with its queue.
Camera == [road : Roads, mile : Miles, limit : Limits]
NoCamera == [road |-> 0, mile |-> 0, limit |-> 0]
Client == [state : {"none", "identify", "camera", "dispatcher", "done"},
           camera : Camera \cup {NoCamera},
           heartbeat : BOOLEAN,
           inbox : SUBSET Ticket, written : SUBSET Ticket]

NoTasks == [c \in Clients |-> [state |-> "none", camera |-> NoCamera, heartbeat |-> FALSE,
                               inbox |-> {}, written |-> {}]]
NoCameras == [road \in {} |-> [limit |-> 0, count |-> 0]]

Init ==
    /\ server = "running"
    /\ observations = {}
    /\ ticketed = {}
    /\ pending = {}
    /\ dispatchers = <<>>
    /\ receiver = <<>>
    /\ cameras = NoCameras
    /\ client = NoTasks

\* run is over, and the process with it.
End(how) ==
    /\ server' = how
    /\ observations' = {}
    /\ ticketed' = {}
    /\ pending' = {}
    /\ dispatchers' = <<>>
    /\ receiver' = <<>>
    /\ cameras' = NoCameras
    /\ client' = NoTasks

-----------------------------------------------------------------------------
(* The Controller *)

UnixDay == 86400

Day(timestamp) == timestamp \div UnixDay

Abs(n) == IF n < 0 THEN -n ELSE n

\* In hundredths of a mile per hour, up to the greatest u16.
Speed(o, p) ==
    LET time == Abs(p.timestamp - o.timestamp)
        speed == (Abs(p.mile - o.mile) * 100 * 3600) \div time
    IN IF time = 0 \/ speed > MaxU16 THEN MaxU16 ELSE speed

\* limit * 100 in a u16, in a build without overflow checks.
Hundredths(limit) == (limit * 100) % (MaxU16 + 1)

Exceeds(speed, limit) == speed > Hundredths(limit) /\ speed - Hundredths(limit) >= 50

\* A bug: the sightings are taken to come in order.
TicketInOrder(o, p) ==
    [plate |-> p.plate, road |-> p.road, mile1 |-> o.mile, timestamp1 |-> o.timestamp,
     mile2 |-> p.mile, timestamp2 |-> p.timestamp, speed |-> Speed(o, p)]

\* The ticket for a car seen at o and at p.
TicketFor(o, p) ==
    LET first  == IF p.timestamp > o.timestamp THEN o ELSE p
        second == IF p.timestamp > o.timestamp THEN p ELSE o
    IN [plate |-> p.plate, road |-> p.road,
        mile1 |-> first.mile, timestamp1 |-> first.timestamp,
        mile2 |-> second.mile, timestamp2 |-> second.timestamp, speed |-> Speed(o, p)]

\* The car and day pairs a ticket stands for.
Days(t) == {t.plate} \X (Day(t.timestamp1)..Day(t.timestamp2))

ObservationOf(p) ==
    [plate |-> p.plate, road |-> p.road, mile |-> p.mile, timestamp |-> p.timestamp]

Speeding(p) ==
    {TicketFor(o, p) : o \in {ob \in observations :
        ob.plate = p.plate /\ ob.road = p.road /\ Exceeds(Speed(ob, p), p.limit)}}

\* A bug: the days are looked up before any ticket is made, and not for each.
SignalAtOnce(p) ==
    IF ObservationOf(p) \in observations THEN {{}}
    ELSE {{t \in Speeding(p) : Days(t) \cap ticketed = {}}}

\* signal goes through the observations of the car on the road in the order of
\* a HashSet, and makes a ticket for each that exceeds the limit, unless a day
\* of it has a ticket already: whatever the order, it ends with tickets that
\* share no day, to which none could be added.
Signal(p) ==
    IF ObservationOf(p) \in observations THEN {{}}
    ELSE {tickets \in SUBSET Speeding(p) :
            /\ \A t \in tickets : Days(t) \cap ticketed = {}
            /\ \A t, u \in tickets : t # u => Days(t) \cap Days(u) = {}
            /\ \A t \in Speeding(p) \ tickets :
                  Days(t) \cap (ticketed \cup UNION {Days(u) : u \in tickets}) # {}}

-----------------------------------------------------------------------------
(* The Dispatchers *)

\* The first dispatcher that serves the road of the ticket.
SenderFor(t, list) ==
    LET serving == {n \in DOMAIN list : t.road \in list[n].roads}
    IN IF serving = {} THEN NoClient
       ELSE list[CHOOSE n \in serving : \A m \in serving : n <= m].id

\* The receiving half of the queue of c was dropped with its task.
Gone(c) == c # NoClient /\ client[c].state = "done"

\* A bug: a ticket that no dispatcher of the list serves is taken off it.
SendOrDrop(tickets, list, observed, days) ==
    IF \E t \in tickets : Gone(SenderFor(t, list))
    THEN End("send failed")
    ELSE /\ pending' = {}
         /\ client' = [c \in Clients |-> [client[c] EXCEPT !.inbox =
                          @ \cup {t \in tickets : SenderFor(t, list) = c}]]
         /\ dispatchers' = list
         /\ observations' = observed
         /\ ticketed' = days
         /\ receiver' = Tail(receiver)
         /\ UNCHANGED <<server, cameras>>

\* send_pending_tickets, from a new list of tickets and of dispatchers: a ticket
\* for a task that has ended is an error, and ends run.
SendPendingTickets(tickets, list, observed, days) ==
    IF \E t \in tickets : Gone(SenderFor(t, list))
    THEN End("send failed")
    ELSE /\ pending' = {t \in tickets : SenderFor(t, list) = NoClient}
         /\ client' = [c \in Clients |-> [client[c] EXCEPT !.inbox =
                          @ \cup {t \in tickets : SenderFor(t, list) = c}]]
         /\ dispatchers' = list
         /\ observations' = observed
         /\ ticketed' = days
         /\ receiver' = Tail(receiver)
         /\ UNCHANGED <<server, cameras>>

\* A bug: the new dispatcher gets new tickets only.
AddDispatcherOnly(m) ==
    /\ m.kind = "AddDispatcher"
    /\ dispatchers' = Append(dispatchers, [id |-> m.id, roads |-> m.roads])
    /\ receiver' = Tail(receiver)
    /\ UNCHANGED <<server, observations, ticketed, pending, cameras, client>>

AddDispatcher(m) ==
    /\ m.kind = "AddDispatcher"
    /\ SendPendingTickets(pending, Append(dispatchers, [id |-> m.id, roads |-> m.roads]),
                          observations, ticketed)

\* The dispatchers of a list that are not those of a connection, in order.
Without(list, id) ==
    LET kept[n \in 0..Len(list)] ==
            IF n = 0 THEN <<>>
            ELSE IF list[n].id = id THEN kept[n - 1] ELSE Append(kept[n - 1], list[n])
    IN kept[Len(list)]

RemoveDispatcher(m) ==
    /\ m.kind = "RemoveDispatcher"
    /\ dispatchers' = Without(dispatchers, m.id)
    /\ receiver' = Tail(receiver)
    /\ UNCHANGED <<server, observations, ticketed, pending, cameras, client>>

\* A bug: a new ticket waits for the next dispatcher to come.
HandlePlateOnly(p) ==
    /\ p.kind = "Plate"
    /\ \E tickets \in Signal(p) :
        /\ pending' = pending \cup tickets
        /\ observations' = observations \cup {ObservationOf(p)}
        /\ ticketed' = ticketed \cup UNION {Days(t) : t \in tickets}
    /\ receiver' = Tail(receiver)
    /\ UNCHANGED <<server, dispatchers, cameras, client>>

HandlePlate(p) ==
    /\ p.kind = "Plate"
    /\ \E tickets \in Signal(p) :
        SendPendingTickets(pending \cup tickets, dispatchers,
                           observations \cup {ObservationOf(p)},
                           ticketed \cup UNION {Days(t) : t \in tickets})

\* run takes the next message.
Serve ==
    /\ server = "running"
    /\ receiver # <<>>
    /\ LET m == Head(receiver) IN AddDispatcher(m) \/ RemoveDispatcher(m) \/ HandlePlate(m)

-----------------------------------------------------------------------------
(* The connections *)

Accept(c) ==
    /\ server = "running"
    /\ client[c].state = "none"
    /\ client' = [client EXCEPT ![c].state = "identify"]
    /\ UNCHANGED <<server, controller, receiver, cameras>>

\* The listener of the tokio port fails, and run ends.
AcceptFails ==
    /\ server = "running"
    /\ End("closed")

\* Drop of the CameraGuard.
DropCamera(road) ==
    cameras' = IF cameras[road].count = 1
               THEN [r \in DOMAIN cameras \ {road} |-> cameras[r]]
               ELSE [cameras EXCEPT ![road].count = @ - 1]

\* The task ends and its guard is dropped: a camera is counted off, a dispatcher
\* asks to be removed.  What is in its queue is lost: what inbox has from here on.
Leave(c) ==
    /\ client' = [client EXCEPT ![c] = [NoTasks[c] EXCEPT
          !.state = "done", !.inbox = client[c].inbox, !.written = client[c].written]]
    /\ IF client[c].state = "camera" THEN DropCamera(client[c].camera.road)
                                     ELSE UNCHANGED cameras
    /\ receiver' = IF client[c].state = "dispatcher"
                   THEN Append(receiver, [kind |-> "RemoveDispatcher", id |-> c])
                   ELSE receiver
    /\ UNCHANGED <<server, controller>>

\* The socket ends or fails at a read or at the write of a heartbeat, or the
\* client sends a message that the state of its task does not allow.
Fails(c) ==
    /\ server = "running"
    /\ client[c].state \in {"identify", "camera", "dispatcher"}
    /\ Leave(c)

\* IAmCamera: CameraGuard::new counts the camera, or refuses another limit.
IAmCamera(c, road, mile, limit) ==
    /\ server = "running"
    /\ client[c].state = "identify"
    /\ IF road \in DOMAIN cameras /\ cameras[road].limit # limit
       THEN Leave(c)
       ELSE /\ cameras' = [r \in DOMAIN cameras \cup {road} |->
                  IF r # road THEN cameras[r]
                  ELSE [limit |-> limit,
                        count |-> IF r \in DOMAIN cameras THEN cameras[r].count + 1 ELSE 1]]
            /\ client' = [client EXCEPT ![c].state = "camera",
                             ![c].camera = [road |-> road, mile |-> mile, limit |-> limit]]
            /\ UNCHANGED <<server, controller, receiver>>

\* IAmDispatcher: DispatcherGuard::new sends run the roads and a queue.
IAmDispatcher(c, roads) ==
    /\ server = "running"
    /\ client[c].state = "identify"
    /\ client' = [client EXCEPT ![c].state = "dispatcher"]
    /\ receiver' = Append(receiver, [kind |-> "AddDispatcher", id |-> c, roads |-> roads])
    /\ UNCHANGED <<server, controller, cameras>>

\* WantHeartbeat: once, and a second is an error.
WantHeartbeat(c) ==
    /\ server = "running"
    /\ client[c].state \in {"identify", "camera", "dispatcher"}
    /\ IF client[c].heartbeat
       THEN Leave(c)
       ELSE /\ client' = [client EXCEPT ![c].heartbeat = TRUE]
            /\ UNCHANGED <<server, controller, receiver, cameras>>

\* A camera reports a plate.
SeePlate(c, plate, timestamp) ==
    LET camera == client[c].camera IN
    /\ server = "running"
    /\ client[c].state = "camera"
    /\ Cardinality(observations) < MaxObservations /\ Len(receiver) < MaxQueue
    /\ receiver' = Append(receiver, [kind |-> "Plate", plate |-> plate, road |-> camera.road,
                      mile |-> camera.mile, limit |-> camera.limit, timestamp |-> timestamp])
    /\ UNCHANGED <<server, controller, cameras, client>>

\* A dispatcher takes a ticket from its queue and writes it, or fails to.
WriteTicket(c) ==
    /\ server = "running"
    /\ client[c].state = "dispatcher"
    /\ \E t \in client[c].inbox :
        \/ /\ client' = [client EXCEPT ![c].inbox = @ \ {t}, ![c].written = @ \cup {t}]
           /\ UNCHANGED <<server, controller, receiver, cameras>>
        \/ Leave(c)

-----------------------------------------------------------------------------
Next ==
    \/ Serve
    \/ AcceptFails
    \/ \E c \in Clients :
          \/ Accept(c)
          \/ Fails(c)
          \/ \E road \in Roads, mile \in Miles, limit \in Limits : IAmCamera(c, road, mile, limit)
          \/ \E roads \in SUBSET Roads : IAmDispatcher(c, roads)
          \/ c \in Askers /\ WantHeartbeat(c)
          \/ \E plate \in Cars, timestamp \in Timestamps : SeePlate(c, plate, timestamp)
          \/ WriteTicket(c)

\* run takes its messages, and the task of a dispatcher its tickets.
Spec == Init /\ [][Next]_vars /\ WF_vars(Serve) /\ \A c \in Clients : WF_vars(WriteTicket(c))

-----------------------------------------------------------------------------
(* Properties *)

TypeOK ==
    /\ server \in {"running", "closed", "send failed"}
    /\ observations \subseteq Observation
    /\ ticketed \subseteq Cars \X Nat
    /\ pending \subseteq Ticket
    /\ receiver \in Seq(ControllerMessage)
    /\ DOMAIN cameras \subseteq Roads
    /\ cameras \in [DOMAIN cameras -> [limit : Limits, count : Nat \ {0}]]
    /\ client \in [Clients -> Client]
    /\ \A c \in Clients : client[c].state = "camera" => client[c].camera \in Camera

\* The tickets there are: waiting for a dispatcher, queued for one (or lost with it),
\* or written.
Places == ({NoClient} \X {"pending"}) \cup (Clients \X {"inbox", "written"})
At(place) == CASE place[2] = "pending" -> pending
               [] place[2] = "inbox"   -> client[place[1]].inbox
               [] OTHER                -> client[place[1]].written

\* A car has at most one ticket for a day, in all the places a ticket may be,
\* whatever the order in which the cameras report and the dispatchers come and
\* go; so no ticket is sent twice either.
OneTicketADay ==
    \A x, y \in Places : \A t \in At(x), u \in At(y) :
        Days(t) \cap Days(u) # {} => x = y /\ t = u

\* Two sightings of a car on a road, too fast for any limit a camera may have there.
TooFast(o, p) ==
    /\ o # p /\ o.plate = p.plate /\ o.road = p.road
    /\ \A limit \in Limits : Exceeds(Speed(o, p), limit)

\* No speeder is forgotten: for any two sightings of a car that are too fast, in
\* whatever order they and others came, there is a ticket for a day of that trip.  It
\* waits, is on its way, was written, or was lost with the dispatcher it was queued
\* for (in inbox, see Leave); the days that signal has marked do not count as one.
SpeederIsTicketed ==
    \A o, p \in observations : TooFast(o, p) =>
        \E x \in Places : \E t \in At(x) : Days(t) \cap Days(TicketFor(o, p)) # {}

\* A ticket names two observations of its car on its road, the earlier first,
\* and a speed between them that is above a limit of the cameras.
OnlySpeedersAreTicketed ==
    \A x \in Places : \A t \in At(x) :
        /\ \E o, p \in observations :
              /\ {o.plate, p.plate} = {t.plate} /\ {o.road, p.road} = {t.road}
              /\ o.mile = t.mile1 /\ o.timestamp = t.timestamp1
              /\ p.mile = t.mile2 /\ p.timestamp = t.timestamp2
              /\ o.timestamp <= p.timestamp
              /\ t.speed = Speed(o, p)
              /\ \E limit \in Limits : Exceeds(t.speed, limit)

\* A ticket waits only while run knows of no dispatcher for its road, whatever
\* dispatchers came and went.
WaitsForADispatcher ==
    /\ dispatchers \in Seq(Dispatcher)
    /\ \A t \in pending : \A n \in DOMAIN dispatchers : t.road \notin dispatchers[n].roads

\* The cameras of a road agree on its limit, and are counted right, as they come
\* and go in any order.
CamerasAgree ==
    LET on(road) == {c \in Clients : client[c].state = "camera" /\ client[c].camera.road = road}
    IN \A road \in Roads :
        /\ road \in DOMAIN cameras <=> on(road) # {}
        /\ road \in DOMAIN cameras =>
              /\ cameras[road].count = Cardinality(on(road))
              /\ \A c \in on(road) : client[c].camera.limit = cameras[road].limit

\* While run goes on, a ticket that waits is sent when a dispatcher for its road
\* comes.
StoredTicketIsSent ==
    \A road \in Roads :
        LET waiting == \E t \in pending : t.road = road IN
        /\ waiting
        /\ \E n \in DOMAIN receiver :
              receiver[n].kind = "AddDispatcher" /\ road \in receiver[n].roads
        ~> ~waiting \/ server # "running"

\* A dispatcher that leaves takes its tickets along, and the server goes on.
LostTicketEndsNothing == server # "send failed"

=============================================================================
