-------------------------- MODULE SpeedDaemonProofs --------------------------
(***************************************************************************)
(* Proofs about SpeedDaemon: a car has at most one ticket for a day, has   *)
(* one for a trip that was too fast and for no other, a ticket waits only  *)
(* for want of a dispatcher, and the cameras of a road agree on its limit  *)
(* and are counted right, for any connections, roads, cars, limits and     *)
(* times.                                                                  *)
(***************************************************************************)
EXTENDS SpeedDaemon, FiniteSetTheorems, SequenceTheorems, WellFoundedInduction, TLAPS

\* A day of a ticket, wherever the ticket is, is a day on which its car has one.
Counted == \A x \in Places : \A t \in At(x) : Days(t) \subseteq ticketed

Inv == TypeOK /\ Counted /\ OneTicketADay /\ CamerasAgree

\* What one more message leaves: a sequence of messages.
LEMMA OneMore ==
    ASSUME NEW S, NEW s \in Seq(S), NEW e \in S
    PROVE  Append(s, e) \in Seq(S)
BY AppendProperties

-----------------------------------------------------------------------------
(* The tickets *)

\* What keeps the tickets of a day single: the tickets that are new share no day with
\* each other or with an old one, and none gets to two places.
LEMMA PlacingKeeps ==
    ASSUME Counted, OneTicketADay,
           NEW new,
           \A t \in new : Days(t) \cap ticketed = {},
           \A t, u \in new : t # u => Days(t) \cap Days(u) = {},
           ticketed' = ticketed \cup UNION {Days(t) : t \in new},
           \A x \in Places : \A t \in At(x)' : t \in new \/ \E y \in Places : t \in At(y),
           \A x, y \in Places : \A t \in At(x)' : t \in At(y)' /\ Days(t) # {} => x = y
    PROVE  Counted' /\ OneTicketADay'
<1>1. Counted'
  <2> SUFFICES ASSUME NEW x \in Places, NEW t \in At(x)' PROVE Days(t) \subseteq ticketed'
    BY DEF Counted, Places, Days, Day
  <2>1. CASE t \in new
    BY <2>1
  <2>2. CASE \E y \in Places : t \in At(y)
    BY <2>2 DEF Counted
  <2> QED
    BY <2>1, <2>2
<1>2. OneTicketADay'
  <2> SUFFICES ASSUME NEW x \in Places, NEW y \in Places, NEW t \in At(x)', NEW u \in At(y)',
                      Days(t) \cap Days(u) # {}
               PROVE  x = y /\ t = u
    BY DEF OneTicketADay, Places, Days, Day
  <2>1. t = u
    <3>1. CASE t \in new /\ u \in new
      BY <3>1
    <3>2. CASE t \in new /\ \E z \in Places : u \in At(z)
      BY <3>2 DEF Counted
    <3>3. CASE u \in new /\ \E z \in Places : t \in At(z)
      BY <3>3 DEF Counted
    <3>4. CASE (\E z \in Places : t \in At(z)) /\ \E z \in Places : u \in At(z)
      BY <3>4 DEF OneTicketADay
    <3> QED
      BY <3>1, <3>2, <3>3, <3>4
  <2> QED
    BY <2>1
<1> QED
  BY <1>1, <1>2

\* The tickets stay where they are, or some of them are lost.
LEMMA LosingKeeps ==
    ASSUME Counted, OneTicketADay, ticketed' = ticketed,
           \A x \in Places : At(x)' \subseteq At(x)
    PROVE  Counted' /\ OneTicketADay'
<1>1. \A x, y \in Places : \A t \in At(x)' : t \in At(y)' /\ Days(t) # {} => x = y
  BY DEF OneTicketADay
<1>2. \A x \in Places : \A t \in At(x)' : t \in {} \/ \E y \in Places : t \in At(y)
  OBVIOUS
<1>3. ticketed' = ticketed \cup UNION {Days(t) : t \in {}}
  OBVIOUS
<1> QED
  BY <1>1, <1>2, <1>3, PlacingKeeps

\* send_pending_tickets brings each ticket to one place.
LEMMA SendingKeeps ==
    ASSUME Inv, NEW new, NEW list, NEW observed,
           \A t \in new : Days(t) \cap ticketed = {},
           \A t, u \in new : t # u => Days(t) \cap Days(u) = {},
           NEW days, days = ticketed \cup UNION {Days(t) : t \in new},
           ~ \E t \in pending \cup new : Gone(SenderFor(t, list)),
           SendPendingTickets(pending \cup new, list, observed, days)
    PROVE  Counted' /\ OneTicketADay'
<1> DEFINE tickets == pending \cup new
           To(t) == SenderFor(t, list)
<1>1. /\ pending' = {t \in tickets : To(t) = NoClient}
      /\ \A c \in Clients : client'[c] = [client[c] EXCEPT !.inbox =
                                @ \cup {t \in tickets : To(t) = c}]
      /\ ticketed' = days
  BY DEF SendPendingTickets
<1> HIDE DEF To
<1>2. \A c \in Clients : /\ client'[c].inbox = client[c].inbox \cup {t \in tickets : To(t) = c}
                         /\ client'[c].written = client[c].written
  <2> SUFFICES ASSUME NEW c \in Clients
               PROVE  /\ client'[c].inbox = client[c].inbox \cup {t \in tickets : To(t) = c}
                      /\ client'[c].written = client[c].written
    OBVIOUS
  <2> HIDE DEF tickets
  <2>1. client[c] \in Client
    BY DEF Inv, TypeOK
  <2>2. client'[c] = [client[c] EXCEPT !.inbox = @ \cup {t \in tickets : To(t) = c}]
    BY <1>1
  <2> QED
    BY <2>1, <2>2 DEF Client
<1>3. \A x \in Places : \A t \in At(x)' :
          \/ t \in At(x) /\ x # <<NoClient, "pending">>
          \/ t \in tickets /\ To(t) = x[1] /\ x[2] \in {"pending", "inbox"}
  BY <1>1, <1>2 DEF Places, At
<1>4. \A x \in Places : \A t \in At(x)' : t \in new \/ \E y \in Places : t \in At(y)
  <2>1. \A t \in pending : <<NoClient, "pending">> \in Places /\ t \in At(<<NoClient, "pending">>)
    BY DEF Places, At
  <2> QED
    BY <1>3, <2>1
<1>5. ASSUME NEW x \in Places, NEW y \in Places, NEW t \in At(x)', t \in At(y)', Days(t) # {}
      PROVE  x = y
  <2>1. CASE t \in At(x) /\ t \in At(y)
    BY <2>1, <1>5 DEF Inv, OneTicketADay
  <2>2. \A z \in Places : t \in tickets /\ t \in At(z) /\ z # <<NoClient, "pending">> => FALSE
    <3> SUFFICES ASSUME NEW z \in Places, t \in tickets, t \in At(z), z # <<NoClient, "pending">>
                 PROVE  FALSE
      OBVIOUS
    <3>1. Days(t) \subseteq ticketed
      BY DEF Inv, Counted
    <3>2. t \in pending
      BY <3>1, <1>5
    <3>3. <<NoClient, "pending">> \in Places /\ t \in At(<<NoClient, "pending">>)
      BY <3>2 DEF Places, At
    <3> QED
      BY <3>3, <1>5 DEF Inv, OneTicketADay
  <2>3. CASE To(t) = x[1] /\ To(t) = y[1] /\ x[2] \in {"pending", "inbox"} /\ y[2] \in {"pending", "inbox"}
    <3>1. \A z \in Places : z[2] \in {"pending", "inbox"} =>
              z = IF z[1] = NoClient THEN <<NoClient, "pending">> ELSE <<z[1], "inbox">>
      BY NoClientAssumption DEF Places
    <3> QED
      BY <2>3, <3>1
  <2> QED
    BY <1>3, <1>5, <2>1, <2>2, <2>3
<1> QED
  BY <1>1, <1>4, <1>5, PlacingKeeps DEF Inv

\* The tickets that signal makes for p share no day.
LEMMA SignalMakes ==
    ASSUME NEW p, NEW tickets \in Signal(p)
    PROVE  /\ tickets \subseteq Speeding(p)
           /\ \A t \in tickets : Days(t) \cap ticketed = {}
           /\ \A t, u \in tickets : t # u => Days(t) \cap Days(u) = {}
<1>1. CASE ObservationOf(p) \in observations
  BY <1>1 DEF Signal
<1>2. CASE ObservationOf(p) \notin observations
  BY <1>2 DEF Signal
<1> QED
  BY <1>1, <1>2

\* Once run is over there is no ticket and no camera.
LEMMA EndKeeps ==
    ASSUME NEW how \in {"closed", "send failed"}, End(how)
    PROVE  Inv'
<1>1. TypeOK'
  <2>1. NoTasks \in [Clients -> Client]
    BY DEF NoTasks, Client
  <2>2. DOMAIN NoCameras = {}
    BY DEF NoCameras
  <2>3. NoCameras \in [DOMAIN NoCameras -> [limit : Limits, count : Nat \ {0}]]
    BY DEF NoCameras
  <2>4. <<>> \in Seq(ControllerMessage)
    BY EmptySeq
  <2>5. \A c \in Clients : NoTasks[c].state = "none"
    BY DEF NoTasks
  <2> HIDE DEF NoTasks
  <2> QED
    BY <2>1, <2>2, <2>3, <2>4, <2>5 DEF End, TypeOK
<1>2. \A x \in Places : At(x)' = {}
  BY DEF End, NoTasks, Places, At
<1>3. Counted' /\ OneTicketADay'
  BY <1>2 DEF Counted, OneTicketADay, Places, Days, Day
<1>4. CamerasAgree'
  BY DEF End, NoTasks, NoCameras, CamerasAgree
<1> QED
  BY <1>1, <1>3, <1>4 DEF Inv

-----------------------------------------------------------------------------
(* Types *)

\* A speed is a u16.
LEMMA SpeedType ==
    ASSUME NEW o, NEW p, o.mile \in Int, p.mile \in Int, o.timestamp \in Nat, p.timestamp \in Nat
    PROVE  Speed(o, p) \in 0..MaxU16
<1> DEFINE time == Abs(p.timestamp - o.timestamp)
           way == Abs(p.mile - o.mile) * 100 * 3600
           speed == way \div time
<1>1. time \in Nat /\ way \in Nat
  BY DEF Abs
<1>2. MaxU16 \in Nat
  BY DEF MaxU16
<1>3. Speed(o, p) = IF time = 0 \/ speed > MaxU16 THEN MaxU16 ELSE speed
  BY DEF Speed
<1>4. time # 0 => speed \in Nat
  <2> HIDE DEF time, way
  <2> QED
    BY <1>1
<1> HIDE DEF time, speed
<1> QED
  BY <1>2, <1>3, <1>4

LEMMA SpeedingType ==
    ASSUME TypeOK, NEW p \in Plate
    PROVE  Speeding(p) \subseteq Ticket
<1> SUFFICES ASSUME NEW o \in observations, o.plate = p.plate, o.road = p.road
             PROVE  TicketFor(o, p) \in Ticket
  BY DEF Speeding
<1>1. o \in Observation
  BY DEF TypeOK
<1>2. /\ o.mile \in Miles /\ p.mile \in Miles
      /\ o.timestamp \in Timestamps /\ p.timestamp \in Timestamps
      /\ p.plate \in Cars /\ p.road \in Roads
  BY <1>1 DEF Observation, Plate
<1>3. MaxU16 \in Nat
  BY DEF MaxU16
<1>4. Miles \subseteq Int /\ Timestamps \subseteq Nat
  BY <1>3, NumbersAssumption
<1>5. /\ o.mile \in Int /\ p.mile \in Int
      /\ o.timestamp \in Nat /\ p.timestamp \in Nat
  BY <1>2, <1>4
<1>6. Speed(o, p) \in 0..MaxU16
  BY <1>5, SpeedType
<1> QED
  BY <1>2, <1>6 DEF TicketFor, Ticket

LEMMA DaysType ==
    ASSUME NEW t \in Ticket
    PROVE  Days(t) \subseteq Cars \X Nat
<1>1. t.plate \in Cars /\ t.timestamp1 \in Nat /\ t.timestamp2 \in Nat
  BY NumbersAssumption DEF Ticket
<1>2. Day(t.timestamp1) \in Nat
  BY <1>1 DEF Day, UnixDay
<1>3. Day(t.timestamp2) \in Int
  BY <1>1 DEF Day, UnixDay
<1> QED
  BY <1>1, <1>2, <1>3 DEF Days

-----------------------------------------------------------------------------
(* The cameras *)

\* The cameras on a road.
On(road) == {c \in Clients : client[c].state = "camera" /\ client[c].camera.road = road}

\* Nobody becomes a camera or stops to be one.
LEMMA SameCameras ==
    ASSUME CamerasAgree, UNCHANGED cameras,
           \A c \in Clients :
              /\ client'[c].state = "camera" <=> client[c].state = "camera"
              /\ client[c].state = "camera" => client'[c].camera = client[c].camera
    PROVE  CamerasAgree'
<1>1. \A road : On(road)' = On(road)
  BY DEF On
<1>2. SUFFICES ASSUME NEW road \in Roads
      PROVE  /\ road \in DOMAIN cameras <=> On(road)' # {}
             /\ road \in DOMAIN cameras =>
                   /\ cameras[road].count = Cardinality(On(road)')
                   /\ \A c \in On(road)' : client'[c].camera.limit = cameras[road].limit
  BY DEF CamerasAgree, On
<1>3. On(road)' = On(road)
  BY <1>1
<1>4. \A c \in On(road) : client'[c].camera = client[c].camera
  BY DEF On
<1>5. /\ road \in DOMAIN cameras <=> On(road) # {}
      /\ road \in DOMAIN cameras =>
            /\ cameras[road].count = Cardinality(On(road))
            /\ \A c \in On(road) : client[c].camera.limit = cameras[road].limit
  BY DEF CamerasAgree, On
<1> QED
  BY <1>3, <1>4, <1>5

Table(cams) == /\ DOMAIN cams \subseteq Roads
               /\ cams \in [DOMAIN cams -> [limit : Limits, count : Nat \ {0}]]

\* A camera that leaves is counted off.
LEMMA DroppingKeeps ==
    ASSUME Inv, NEW c \in Clients, client[c].state = "camera",
           NEW r, r = client[c].camera.road, DropCamera(r),
           client'[c].state = "done", \A d \in Clients \ {c} : client'[d] = client[d]
    PROVE  CamerasAgree' /\ Table(cameras')
<1> DEFINE n == cameras[r].count
<1>1. IsFiniteSet(On(r))
  BY ClientsAssumption, FS_Subset DEF On
<1>2. r \in Roads /\ c \in On(r)
  BY DEF On, Inv, TypeOK, Camera
<1>3. On(r)' = On(r) \ {c} /\ \A road : road # r => On(road)' = On(road) /\ c \notin On(road)
  <2>1. \A d \in Clients \ {c} : client'[d] = client[d]
    OBVIOUS
  <2>2. \A road, d : d \in On(road)' <=> d \in On(road) /\ d # c
    BY <2>1 DEF On
  <2>3. \A road : road # r => c \notin On(road)
    BY DEF On
  <2>4. On(r)' = On(r) \ {c}
    BY <2>2
  <2>5. ASSUME NEW road, road # r PROVE On(road)' = On(road)
    BY <2>2, <2>3, <2>5
  <2> QED
    BY <2>3, <2>4, <2>5
<1>11. \A road \in Roads :
          /\ road \in DOMAIN cameras <=> On(road) # {}
          /\ road \in DOMAIN cameras =>
                /\ cameras[road].count = Cardinality(On(road))
                /\ \A d \in On(road) : d \in Clients /\ client[d].camera.limit = cameras[road].limit
  BY DEF Inv, CamerasAgree, On
<1>4. Cardinality(On(r)') = Cardinality(On(r)) - 1 /\ IsFiniteSet(On(r)')
  BY <1>1, <1>2, <1>3, FS_RemoveElement
<1>5. /\ r \in DOMAIN cameras /\ n = Cardinality(On(r)) /\ n \in Nat \ {0}
      /\ \A d \in On(r) : client[d].camera.limit = cameras[r].limit
  <2>1. r \in DOMAIN cameras
    BY <1>2 DEF Inv, CamerasAgree, On
  <2> QED
    BY <2>1, <1>2 DEF Inv, CamerasAgree, On, TypeOK
<1>6. Cardinality(On(r)') = 0 <=> On(r)' = {}
  BY <1>4, FS_EmptySet
<1>7. \A road \in Roads \ {r} :
        /\ road \in DOMAIN cameras' <=> road \in DOMAIN cameras
        /\ road \in DOMAIN cameras' => cameras'[road] = cameras[road]
  BY DEF DropCamera
<1>8. IF n = 1 THEN r \notin DOMAIN cameras'
      ELSE /\ r \in DOMAIN cameras' /\ cameras'[r].count = n - 1
           /\ cameras'[r].limit = cameras[r].limit
  BY <1>5 DEF DropCamera, Inv, TypeOK
<1>9. CamerasAgree'
  <2> SUFFICES ASSUME NEW road \in Roads
               PROVE  /\ road \in DOMAIN cameras' <=> On(road)' # {}
                      /\ road \in DOMAIN cameras' =>
                            /\ cameras'[road].count = Cardinality(On(road)')
                            /\ \A d \in On(road)' : client'[d].camera.limit = cameras'[road].limit
    BY DEF CamerasAgree, On
  <2>1. CASE road # r
    BY <2>1, <1>3, <1>7, <1>11
  <2>2. CASE road = r
    <3>1. \A d \in On(r)' : client'[d].camera.limit = cameras[r].limit
      BY <1>2, <1>3, <1>11, <1>5
    <3>2. CASE n = 1
      <4>1. On(r)' = {} /\ r \notin DOMAIN cameras'
        BY <3>2, <1>4, <1>5, <1>6, <1>8
      <4> QED
        BY <2>2, <4>1
    <3>3. CASE n # 1
      <4>1. On(r)' # {} /\ r \in DOMAIN cameras'
        BY <3>3, <1>4, <1>5, <1>6, <1>8
      <4>2. cameras'[r].count = Cardinality(On(r)') /\ cameras'[r].limit = cameras[r].limit
        BY <3>3, <1>4, <1>5, <1>8
      <4> QED
        BY <2>2, <3>1, <4>1, <4>2
    <3> QED
      BY <3>2, <3>3
  <2> QED
    BY <2>1, <2>2
<1>10. Table(cameras')
  <2>1. Table(cameras)
    BY DEF Table, Inv, TypeOK
  <2>2. CASE n = 1
    BY <2>1, <2>2 DEF DropCamera, Table
  <2>3. CASE n # 1
    <3>1. n - 1 \in Nat \ {0}
      BY <1>5, <2>3
    <3>2. cameras' = [cameras EXCEPT ![r].count = n - 1]
      BY <2>3 DEF DropCamera
    <3> HIDE DEF n
    <3> QED
      BY <2>1, <3>1, <3>2, <1>5 DEF Table
  <2> QED
    BY <2>2, <2>3
<1> QED
  BY <1>9, <1>10

\* A new camera is counted, and has the limit of its road.
LEMMA CountingKeeps ==
    ASSUME Inv, NEW c \in Clients, NEW road \in Roads, NEW mile \in Miles, NEW limit \in Limits,
           IAmCamera(c, road, mile, limit), ~ (road \in DOMAIN cameras /\ cameras[road].limit # limit)
    PROVE  CamerasAgree' /\ Table(cameras')
<1>1. IsFiniteSet(On(road)) /\ c \notin On(road)
  BY ClientsAssumption, FS_Subset DEF On, IAmCamera
<1>2. /\ client'[c].state = "camera" /\ client'[c].camera.road = road
      /\ client'[c].camera.limit = limit /\ client[c].state # "camera"
      /\ \A d \in Clients \ {c} : client'[d] = client[d]
  <2>1. client[c] \in Client
    BY DEF Inv, TypeOK
  <2>2. client' = [client EXCEPT ![c].state = "camera",
                      ![c].camera = [road |-> road, mile |-> mile, limit |-> limit]]
    BY DEF IAmCamera
  <2>3. client[c].state = "identify"
    BY DEF IAmCamera
  <2> QED
    BY <2>1, <2>2, <2>3 DEF Inv, TypeOK, Client
<1>3. On(road)' = On(road) \cup {c} /\ \A r : r # road => On(r)' = On(r) /\ c \notin On(r)
  BY <1>2 DEF On
<1>8. \A r \in Roads :
          /\ r \in DOMAIN cameras <=> On(r) # {}
          /\ r \in DOMAIN cameras =>
                /\ cameras[r].count = Cardinality(On(r))
                /\ \A d \in On(r) : d \in Clients /\ client[d].camera.limit = cameras[r].limit
  BY DEF Inv, CamerasAgree, On
<1>4. Cardinality(On(road)') = Cardinality(On(road)) + 1
  BY <1>1, <1>3, FS_AddElement
<1>5. cameras' = [r \in DOMAIN cameras \cup {road} |->
                    IF r # road THEN cameras[r]
                    ELSE [limit |-> limit,
                          count |-> IF r \in DOMAIN cameras THEN cameras[r].count + 1 ELSE 1]]
  BY DEF IAmCamera
<1>6. CamerasAgree'
  <2> SUFFICES ASSUME NEW r \in Roads
               PROVE  /\ r \in DOMAIN cameras' <=> On(r)' # {}
                      /\ r \in DOMAIN cameras' =>
                            /\ cameras'[r].count = Cardinality(On(r)')
                            /\ \A d \in On(r)' : client'[d].camera.limit = cameras'[r].limit
    BY DEF CamerasAgree, On
  <2>1. CASE r # road
    BY <2>1, <1>2, <1>3, <1>5, <1>8
  <2>2. CASE r = road /\ r \in DOMAIN cameras
    BY <2>2, <1>2, <1>3, <1>4, <1>5 DEF Inv, CamerasAgree, On
  <2>3. CASE r = road /\ r \notin DOMAIN cameras
    <3>1. On(road) = {}
      BY <2>3 DEF Inv, CamerasAgree, On
    <3>2. Cardinality(On(road)') = 1
      BY <3>1, <1>4, FS_EmptySet
    <3> QED
      BY <2>3, <3>1, <3>2, <1>2, <1>3, <1>5
  <2> QED
    BY <2>1, <2>2, <2>3
<1>7. Table(cameras')
  <2>1. Table(cameras)
    BY DEF Table, Inv, TypeOK
  <2> QED
    BY <2>1, <1>5 DEF Table
<1> QED
  BY <1>6, <1>7

-----------------------------------------------------------------------------
(* The steps *)

LEMMA LeavingKeeps ==
    ASSUME Inv, NEW c \in Clients, Leave(c)
    PROVE  Inv'
<1> DEFINE gone == [NoTasks[c] EXCEPT !.state = "done", !.inbox = client[c].inbox,
                                      !.written = client[c].written]
<1>1. client[c] \in Client
  BY DEF Inv, TypeOK
<1>2. /\ gone \in Client /\ gone.state = "done"
      /\ gone.inbox = client[c].inbox /\ gone.written = client[c].written
  BY <1>1 DEF NoTasks, Client
<1>3. /\ client' = [client EXCEPT ![c] = gone]
      /\ receiver' \in {receiver, Append(receiver, [kind |-> "RemoveDispatcher", id |-> c])}
      /\ UNCHANGED <<server, observations, ticketed, pending, dispatchers>>
  BY DEF Leave, controller
<1> HIDE DEF gone
<1>4. client'[c] = gone /\ \A d \in Clients \ {c} : client'[d] = client[d]
  BY <1>3 DEF Inv, TypeOK
<1>5. CamerasAgree' /\ Table(cameras')
  <2>1. CASE client[c].state = "camera"
    BY <2>1, <1>2, <1>4, DroppingKeeps DEF Leave
  <2>2. CASE client[c].state # "camera"
    <3>1. UNCHANGED cameras
      BY <2>2 DEF Leave
    <3>2. Table(cameras)
      BY DEF Inv, TypeOK, Table
    <3> QED
      BY <2>2, <3>1, <3>2, <1>2, <1>4, SameCameras DEF Inv
  <2> QED
    BY <2>1, <2>2
<1>6. TypeOK'
  <2>1. client' \in [Clients -> Client]
    BY <1>2, <1>3 DEF Inv, TypeOK
  <2>2. \A d \in Clients : client'[d].state = "camera" => client'[d].camera \in Camera
    BY <1>2, <1>4 DEF Inv, TypeOK
  <2>3. receiver' \in Seq(ControllerMessage)
    <3>1. [kind |-> "RemoveDispatcher", id |-> c] \in ControllerMessage
      BY DEF ControllerMessage
    <3>2. receiver \in Seq(ControllerMessage)
      BY DEF Inv, TypeOK
    <3>3. Append(receiver, [kind |-> "RemoveDispatcher", id |-> c]) \in Seq(ControllerMessage)
      BY <3>1, <3>2, OneMore
    <3> QED
      BY <3>2, <3>3, <1>3
  <2> QED
    BY <2>1, <2>2, <2>3, <1>3, <1>5 DEF Inv, TypeOK, Table
<1>7. \A x \in Places : At(x)' \subseteq At(x)
  BY <1>2, <1>3, <1>4 DEF Places, At
<1> QED
  BY <1>3, <1>5, <1>6, <1>7, LosingKeeps DEF Inv

LEMMA SteppingKeeps ==
    ASSUME Inv, NEW c \in Clients, NEW task \in Client,
           client' = [client EXCEPT ![c] = task],
           task.inbox = client[c].inbox, task.written = client[c].written,
           task.state # "camera", client[c].state # "camera",
           UNCHANGED <<server, observations, ticketed, pending, cameras>>,
           receiver' \in Seq(ControllerMessage)
    PROVE  Inv'
<1>1. client'[c] = task /\ \A d \in Clients \ {c} : client'[d] = client[d]
  BY DEF Inv, TypeOK
<1>2. TypeOK'
  BY <1>1 DEF Inv, TypeOK
<1>3. \A x \in Places : At(x)' = At(x)
  BY <1>1 DEF Places, At
<1>4. CamerasAgree'
  BY <1>1, SameCameras DEF Inv
<1> QED
  BY <1>2, <1>3, <1>4, LosingKeeps DEF Inv

LEMMA SendingTypes ==
    ASSUME Inv, receiver # <<>>,
           NEW new \in SUBSET Ticket, NEW list, NEW observed \in SUBSET Observation,
           NEW days \in SUBSET (Cars \X Nat),
           ~ \E t \in pending \cup new : Gone(SenderFor(t, list)),
           SendPendingTickets(pending \cup new, list, observed, days)
    PROVE  TypeOK' /\ CamerasAgree'
<1> DEFINE to(c) == {t \in pending \cup new : SenderFor(t, list) = c}
<1>1. /\ pending' \subseteq pending \cup new
      /\ client' = [c \in Clients |-> [client[c] EXCEPT !.inbox = @ \cup to(c)]]
      /\ observations' = observed /\ ticketed' = days /\ receiver' = Tail(receiver)
      /\ UNCHANGED <<server, cameras>>
  BY DEF SendPendingTickets
<1>2. ASSUME NEW c \in Clients
      PROVE  client'[c] \in Client /\ client'[c].state = client[c].state
                /\ client'[c].camera = client[c].camera
  <2>1. client[c] \in Client /\ to(c) \subseteq Ticket
    BY DEF Inv, TypeOK
  <2> HIDE DEF to
  <2>2. client'[c] = [client[c] EXCEPT !.inbox = @ \cup to(c)]
    BY <1>1
  <2> QED
    BY <2>1, <2>2 DEF Client
<1>3. receiver' \in Seq(ControllerMessage)
  BY <1>1, HeadTailProperties DEF Inv, TypeOK
<1> HIDE DEF to
<1>4. client' \in [Clients -> Client]
  BY <1>1, <1>2
<1>5. TypeOK'
  BY <1>1, <1>2, <1>3, <1>4 DEF Inv, TypeOK
<1>6. CamerasAgree'
  BY <1>1, <1>2, SameCameras DEF Inv
<1> QED
  BY <1>5, <1>6

LEMMA ServeKeeps ==
    ASSUME Inv, Serve
    PROVE  Inv'
<1> DEFINE m == Head(receiver)
<1>1. m \in ControllerMessage /\ receiver # <<>>
  BY DEF Inv, TypeOK, Serve
<1>2. CASE AddDispatcher(m)
  <2> DEFINE list == Append(dispatchers, [id |-> m.id, roads |-> m.roads])
  <2>1. SendPendingTickets(pending \cup {}, list, observations, ticketed)
    BY <1>2 DEF AddDispatcher
  <2>2. CASE \E t \in pending \cup {} : Gone(SenderFor(t, list))
    BY <2>1, <2>2, EndKeeps DEF SendPendingTickets
  <2>3. CASE ~ \E t \in pending \cup {} : Gone(SenderFor(t, list))
    <3> HIDE DEF list
    <3>1. TypeOK' /\ CamerasAgree'
      BY <2>1, <2>3, <1>1, SendingTypes DEF Inv, TypeOK
    <3>2. Counted' /\ OneTicketADay'
      BY <2>1, <2>3, SendingKeeps
    <3> QED
      BY <3>1, <3>2 DEF Inv
  <2> QED
    BY <2>2, <2>3
<1>3. CASE RemoveDispatcher(m)
  <2>1. receiver' \in Seq(ControllerMessage)
    BY <1>1, <1>3, HeadTailProperties DEF RemoveDispatcher, Inv, TypeOK
  <2>2. TypeOK' /\ CamerasAgree' /\ \A x \in Places : At(x)' = At(x)
    BY <1>3, <2>1 DEF RemoveDispatcher, Inv, TypeOK, CamerasAgree, At
  <2> QED
    BY <1>3, <2>2, LosingKeeps DEF Inv, RemoveDispatcher
<1>4. CASE HandlePlate(m)
  <2>1. m \in Plate
    BY <1>1, <1>4 DEF HandlePlate, ControllerMessage
  <2>2. PICK tickets \in Signal(m) :
            SendPendingTickets(pending \cup tickets, dispatchers,
                               observations \cup {ObservationOf(m)},
                               ticketed \cup UNION {Days(t) : t \in tickets})
    BY <1>4 DEF HandlePlate
  <2> DEFINE days == ticketed \cup UNION {Days(t) : t \in tickets}
             observed == observations \cup {ObservationOf(m)}
  <2>3. /\ tickets \in SUBSET Ticket
        /\ \A t \in tickets : Days(t) \cap ticketed = {}
        /\ \A t, u \in tickets : t # u => Days(t) \cap Days(u) = {}
    BY <2>1, SignalMakes, SpeedingType DEF Inv
  <2>4. days \in SUBSET (Cars \X Nat) /\ observed \in SUBSET Observation
    <3>1. ObservationOf(m) \in Observation
      BY <2>1 DEF ObservationOf, Observation, Plate
    <3>2. \A t \in tickets : Days(t) \subseteq Cars \X Nat
      BY <2>3, DaysType
    <3>3. UNION {Days(t) : t \in tickets} \subseteq Cars \X Nat
      BY <3>2
    <3>4. ticketed \subseteq Cars \X Nat /\ observations \subseteq Observation
      BY DEF Inv, TypeOK
    <3> QED
      BY <3>1, <3>3, <3>4
  <2>5. CASE \E t \in pending \cup tickets : Gone(SenderFor(t, dispatchers))
    BY <2>2, <2>5, EndKeeps DEF SendPendingTickets
  <2>6. CASE ~ \E t \in pending \cup tickets : Gone(SenderFor(t, dispatchers))
    <3>1. days = ticketed \cup UNION {Days(t) : t \in tickets}
          /\ SendPendingTickets(pending \cup tickets, dispatchers, observed, days)
      BY <2>2
    <3> HIDE DEF days, observed, m
    <3>2. TypeOK' /\ CamerasAgree'
      BY <2>3, <2>4, <2>6, <3>1, <1>1, SendingTypes
    <3>3. Counted' /\ OneTicketADay'
      BY <2>3, <2>6, <3>1, SendingKeeps
    <3> QED
      BY <3>2, <3>3 DEF Inv
  <2> QED
    BY <2>5, <2>6
<1> QED
  BY <1>2, <1>3, <1>4 DEF Serve

\* Every step keeps the invariant.
LEMMA StepKeeps ==
    ASSUME Inv, [Next]_vars
    PROVE  Inv'
<1>1. CASE Serve
  BY <1>1, ServeKeeps
<1>2. CASE AcceptFails
  BY <1>2, EndKeeps DEF AcceptFails
<1>3. ASSUME NEW c \in Clients, Accept(c) PROVE Inv'
  <2> DEFINE task == [client[c] EXCEPT !.state = "identify"]
  <2>1. client[c] \in Client
    BY DEF Inv, TypeOK
  <2>2. /\ task \in Client /\ task.inbox = client[c].inbox /\ task.written = client[c].written
        /\ task.state # "camera"
    BY <2>1 DEF Client
  <2>3. client' = [client EXCEPT ![c] = task] /\ client[c].state # "camera"
    BY <1>3 DEF Accept
  <2> HIDE DEF task
  <2> QED
    BY <1>3, <2>2, <2>3, SteppingKeeps DEF Accept, controller, Inv, TypeOK
<1>4. ASSUME NEW c \in Clients, Fails(c) PROVE Inv'
  BY <1>4, LeavingKeeps DEF Fails
<1>5. ASSUME NEW c \in Clients, NEW road \in Roads, NEW mile \in Miles, NEW limit \in Limits,
             IAmCamera(c, road, mile, limit)
      PROVE  Inv'
  <2>1. CASE road \in DOMAIN cameras /\ cameras[road].limit # limit
    BY <1>5, <2>1, LeavingKeeps DEF IAmCamera
  <2>2. CASE ~ (road \in DOMAIN cameras /\ cameras[road].limit # limit)
    <3> DEFINE camera == [road |-> road, mile |-> mile, limit |-> limit]
               task == [client[c] EXCEPT !.state = "camera", !.camera = camera]
    <3>1. CamerasAgree' /\ Table(cameras')
      BY <1>5, <2>2, CountingKeeps
    <3>2. client' = [client EXCEPT ![c] = task]
              /\ UNCHANGED <<server, observations, ticketed, pending, dispatchers, receiver>>
      BY <1>5, <2>2 DEF IAmCamera, controller
    <3>3. camera \in Camera /\ client[c] \in Client
      BY DEF Camera, Inv, TypeOK
    <3> HIDE DEF camera
    <3>4. /\ task \in Client /\ task.camera = camera
          /\ task.inbox = client[c].inbox /\ task.written = client[c].written
      BY <3>3 DEF Client
    <3> HIDE DEF task
    <3>5. client'[c] = task /\ \A d \in Clients \ {c} : client'[d] = client[d]
      BY <3>2 DEF Inv, TypeOK
    <3>6. TypeOK'
      BY <3>1, <3>2, <3>3, <3>4, <3>5 DEF Inv, TypeOK, Table
    <3>7. \A x \in Places : At(x)' = At(x)
      BY <3>2, <3>4, <3>5 DEF Places, At
    <3> QED
      BY <3>1, <3>2, <3>6, <3>7, LosingKeeps DEF Inv
  <2> QED
    BY <2>1, <2>2
<1>6. ASSUME NEW c \in Clients, NEW roads \in SUBSET Roads, IAmDispatcher(c, roads) PROVE Inv'
  <2> DEFINE task == [client[c] EXCEPT !.state = "dispatcher"]
             message == [kind |-> "AddDispatcher", id |-> c, roads |-> roads]
  <2>1. client[c] \in Client
    BY DEF Inv, TypeOK
  <2>2. /\ task \in Client /\ task.inbox = client[c].inbox /\ task.written = client[c].written
        /\ task.state # "camera"
    BY <2>1 DEF Client
  <2>3. message \in ControllerMessage
    BY DEF ControllerMessage
  <2>4. client' = [client EXCEPT ![c] = task] /\ client[c].state # "camera"
            /\ receiver' = Append(receiver, message)
    BY <1>6 DEF IAmDispatcher
  <2> HIDE DEF task, message
  <2>5. receiver' \in Seq(ControllerMessage)
    BY <2>3, <2>4, OneMore DEF Inv, TypeOK
  <2> QED
    BY <1>6, <2>2, <2>4, <2>5, SteppingKeeps DEF IAmDispatcher, controller
<1>7. ASSUME NEW c \in Clients, WantHeartbeat(c) PROVE Inv'
  <2>1. CASE client[c].heartbeat
    BY <1>7, <2>1, LeavingKeeps DEF WantHeartbeat
  <2>2. CASE ~ client[c].heartbeat
    <3> DEFINE task == [client[c] EXCEPT !.heartbeat = TRUE]
    <3>1. client[c] \in Client
      BY DEF Inv, TypeOK
    <3>2. /\ task \in Client /\ task.inbox = client[c].inbox /\ task.written = client[c].written
          /\ task.state = client[c].state /\ task.camera = client[c].camera
      BY <3>1 DEF Client
    <3>3. client' = [client EXCEPT ![c] = task]
              /\ UNCHANGED <<server, observations, ticketed, pending, dispatchers, receiver, cameras>>
      BY <1>7, <2>2 DEF WantHeartbeat, controller
    <3> HIDE DEF task
    <3>4. client'[c] = task /\ \A d \in Clients \ {c} : client'[d] = client[d]
      BY <3>3 DEF Inv, TypeOK
    <3>5. TypeOK'
      BY <3>2, <3>3, <3>4 DEF Inv, TypeOK
    <3>6. \A x \in Places : At(x)' = At(x)
      BY <3>2, <3>3, <3>4 DEF Places, At
    <3>7. CamerasAgree'
      BY <3>2, <3>3, <3>4, SameCameras DEF Inv
    <3> QED
      BY <3>3, <3>5, <3>6, <3>7, LosingKeeps DEF Inv
  <2> QED
    BY <2>1, <2>2
<1>8. ASSUME NEW c \in Clients, NEW plate \in Cars, NEW timestamp \in Timestamps,
             SeePlate(c, plate, timestamp)
      PROVE  Inv'
  <2> DEFINE camera == client[c].camera
             message == [kind |-> "Plate", plate |-> plate, road |-> camera.road,
                         mile |-> camera.mile, limit |-> camera.limit, timestamp |-> timestamp]
  <2>1. camera \in Camera
    BY <1>8 DEF SeePlate, Inv, TypeOK
  <2>2. message \in ControllerMessage
    <3> HIDE DEF camera
    <3> QED
      BY <2>1 DEF Camera, ControllerMessage, Plate
  <2>3. receiver' = Append(receiver, message)
            /\ UNCHANGED <<server, observations, ticketed, pending, dispatchers, cameras, client>>
    BY <1>8 DEF SeePlate, controller
  <2> HIDE DEF message
  <2>4. receiver' \in Seq(ControllerMessage)
    BY <2>2, <2>3, OneMore DEF Inv, TypeOK
  <2>5. TypeOK' /\ CamerasAgree' /\ \A x \in Places : At(x)' = At(x)
    BY <2>3, <2>4 DEF Inv, TypeOK, CamerasAgree, At
  <2> QED
    BY <2>3, <2>5, LosingKeeps DEF Inv
<1>9. ASSUME NEW c \in Clients, WriteTicket(c) PROVE Inv'
  <2>1. CASE Leave(c)
    BY <2>1, LeavingKeeps
  <2>2. CASE \E t \in client[c].inbox :
                /\ client' = [client EXCEPT ![c].inbox = @ \ {t}, ![c].written = @ \cup {t}]
                /\ UNCHANGED <<server, controller, receiver, cameras>>
    <3>1. PICK t \in client[c].inbox :
                /\ client' = [client EXCEPT ![c].inbox = @ \ {t}, ![c].written = @ \cup {t}]
                /\ UNCHANGED <<server, controller, receiver, cameras>>
      BY <2>2
    <3> DEFINE task == [client[c] EXCEPT !.inbox = @ \ {t}, !.written = @ \cup {t}]
    <3>2. client[c] \in Client
      BY DEF Inv, TypeOK
    <3>3. /\ task \in Client /\ task.state = client[c].state /\ task.camera = client[c].camera
          /\ task.inbox = client[c].inbox \ {t} /\ task.written = client[c].written \cup {t}
      BY <3>2 DEF Client
    <3>4. client' = [client EXCEPT ![c] = task]
              /\ UNCHANGED <<server, observations, ticketed, pending, dispatchers, receiver, cameras>>
      BY <3>1 DEF controller
    <3> HIDE DEF task
    <3>5. client'[c] = task /\ \A d \in Clients \ {c} : client'[d] = client[d]
      BY <3>4 DEF Inv, TypeOK
    <3>6. TypeOK'
      BY <3>3, <3>4, <3>5 DEF Inv, TypeOK
    <3>7. CamerasAgree'
      BY <3>3, <3>4, <3>5, SameCameras DEF Inv
    <3> DEFINE in == <<c, "inbox">>
               out == <<c, "written">>
    <3>8. /\ in \in Places /\ out \in Places /\ t \in At(in)
          /\ At(in)' = At(in) \ {t} /\ At(out)' = At(out) \cup {t}
          /\ \A x \in Places \ {in, out} : At(x)' = At(x)
      BY <3>3, <3>4, <3>5 DEF Places, At
    <3> HIDE DEF in, out
    <3>9. \A x \in Places : \A u \in At(x)' : u \in {} \/ \E y \in Places : u \in At(y)
      BY <3>8
    <3>10. \A x, y \in Places : \A u \in At(x)' : u \in At(y)' /\ Days(u) # {} => x = y
      BY <3>8 DEF Inv, OneTicketADay
    <3>11. ticketed' = ticketed \cup UNION {Days(u) : u \in {}}
      BY <3>4
    <3>12. Counted' /\ OneTicketADay'
      BY <3>9, <3>10, <3>11, PlacingKeeps DEF Inv
    <3> QED
      BY <3>6, <3>7, <3>12 DEF Inv
  <2> QED
    BY <1>9, <2>1, <2>2 DEF WriteTicket
<1>10. CASE UNCHANGED vars
  <2>1. TypeOK' /\ CamerasAgree' /\ \A x \in Places : At(x)' = At(x)
    BY <1>10 DEF vars, Inv, TypeOK, CamerasAgree, At
  <2> QED
    BY <1>10, <2>1, LosingKeeps DEF vars, Inv
<1> QED
  BY <1>1, <1>2, <1>3, <1>4, <1>5, <1>6, <1>7, <1>8, <1>9, <1>10 DEF Next

\* The invariant holds of every behaviour of the speed daemon.
THEOREM Invariance == Spec => []Inv
<1>1. Init => Inv
  <2> SUFFICES ASSUME Init PROVE Inv
    OBVIOUS
  <2>1. NoTasks \in [Clients -> Client] /\ \A c \in Clients : NoTasks[c].state = "none"
    BY DEF NoTasks, Client
  <2>2. DOMAIN NoCameras = {}
            /\ NoCameras \in [DOMAIN NoCameras -> [limit : Limits, count : Nat \ {0}]]
    BY DEF NoCameras
  <2>3. <<>> \in Seq(ControllerMessage)
    BY EmptySeq
  <2>4. TypeOK
    <3> HIDE DEF NoTasks
    <3> QED
      BY <2>1, <2>2, <2>3 DEF Init, TypeOK
  <2>5. \A x \in Places : At(x) = {}
    BY DEF Init, NoTasks, Places, At
  <2>6. CamerasAgree
    BY DEF Init, NoTasks, NoCameras, CamerasAgree
  <2> QED
    BY <2>4, <2>5, <2>6 DEF Inv, Counted, OneTicketADay
<1>2. Inv /\ [Next]_vars => Inv'
  BY StepKeeps
<1> QED
  BY <1>1, <1>2, PTL DEF Spec

\* Messages, observations, tickets and tasks are what the program declares.
THEOREM TypeCorrect == Spec => []TypeOK
  BY Invariance, PTL DEF Inv

\* A car never has two tickets for a day, whatever the order of its sightings, of the
\* cameras and of the dispatchers (controller.rs:80-101, dispatchers).
THEOREM SingleTickets == Spec => []OneTicketADay
  BY Invariance, PTL DEF Inv

\* The limit and the count of a road are those of its cameras (CameraGuard).
THEOREM CamerasCounted == Spec => []CamerasAgree
  BY Invariance, PTL DEF Inv

-----------------------------------------------------------------------------
(* Where the tickets come from *)

\* What a ticket says is so, of the observations in seen.
Genuine(t, seen) ==
    \E o, p \in seen :
        /\ {o.plate, p.plate} = {t.plate} /\ {o.road, p.road} = {t.road}
        /\ o.mile = t.mile1 /\ o.timestamp = t.timestamp1
        /\ p.mile = t.mile2 /\ p.timestamp = t.timestamp2
        /\ o.timestamp <= p.timestamp
        /\ t.speed = Speed(o, p)
        /\ \E limit \in Limits : Exceeds(t.speed, limit)

\* A speed is the same both ways.
LEMMA SpeedBothWays ==
    ASSUME NEW o, NEW p, o.mile \in Int, p.mile \in Int, o.timestamp \in Nat, p.timestamp \in Nat
    PROVE  Speed(o, p) = Speed(p, o)
<1>1. Abs(p.timestamp - o.timestamp) = Abs(o.timestamp - p.timestamp)
  BY DEF Abs
<1>2. Abs(p.mile - o.mile) = Abs(o.mile - p.mile)
  BY DEF Abs
<1> QED
  BY <1>1, <1>2 DEF Speed

\* The tickets for who is seen at p are genuine once p is observed, whether p comes
\* before the other sighting or after it.
LEMMA SpeedingIsGenuine ==
    ASSUME TypeOK, NEW p \in Plate, NEW t \in Speeding(p),
           NEW seen, observations \subseteq seen, ObservationOf(p) \in seen
    PROVE  Genuine(t, seen) /\ t.timestamp1 <= t.timestamp2
<1>1. PICK o \in observations : /\ o.plate = p.plate /\ o.road = p.road
                                /\ Exceeds(Speed(o, p), p.limit) /\ t = TicketFor(o, p)
  BY DEF Speeding
<1> DEFINE q == ObservationOf(p)
<1>2. /\ q.plate = p.plate /\ q.road = p.road /\ q.mile = p.mile /\ q.timestamp = p.timestamp
      /\ q \in seen /\ o \in seen /\ p.limit \in Limits
  BY DEF ObservationOf, Plate
<1>3. Miles \subseteq Int /\ Timestamps \subseteq Nat
  <2>1. MaxU16 \in Nat
    BY DEF MaxU16
  <2> QED
    BY <2>1, NumbersAssumption
<1>4. /\ o.mile \in Int /\ p.mile \in Int
      /\ o.timestamp \in Nat /\ p.timestamp \in Nat
  BY <1>1, <1>3 DEF TypeOK, Observation, Plate
<1> HIDE DEF q
<1>5. Speed(o, q) = Speed(o, p) /\ Speed(q, o) = Speed(o, p)
  <2>1. Speed(o, q) = Speed(o, p)
    BY <1>2 DEF Speed
  <2> QED
    BY <2>1, <1>2, <1>4, SpeedBothWays
<1>6. CASE p.timestamp > o.timestamp
  <2>1. /\ t.plate = p.plate /\ t.road = p.road /\ t.speed = Speed(o, p)
        /\ t.mile1 = o.mile /\ t.timestamp1 = o.timestamp
        /\ t.mile2 = q.mile /\ t.timestamp2 = q.timestamp
    BY <1>1, <1>2, <1>6 DEF TicketFor
  <2> QED
    BY <2>1, <1>1, <1>2, <1>4, <1>5, <1>6 DEF Genuine
<1>7. CASE ~ (p.timestamp > o.timestamp)
  <2>1. /\ t.plate = p.plate /\ t.road = p.road /\ t.speed = Speed(o, p)
        /\ t.mile1 = q.mile /\ t.timestamp1 = q.timestamp
        /\ t.mile2 = o.mile /\ t.timestamp2 = o.timestamp
    BY <1>1, <1>2, <1>7 DEF TicketFor
  <2> QED
    BY <2>1, <1>1, <1>2, <1>4, <1>5, <1>7 DEF Genuine
<1> QED
  BY <1>6, <1>7

\* send_pending_tickets brings no ticket that was not in its list.
LEMMA SendingMoves ==
    ASSUME TypeOK, NEW tickets, NEW list, NEW observed, NEW days,
           SendPendingTickets(tickets, list, observed, days),
           NEW x \in Places, NEW t \in At(x)'
    PROVE  t \in tickets \cup At(x) /\ observations' = observed
<1>1. ~ \E u \in tickets : Gone(SenderFor(u, list))
  <2> SUFFICES ASSUME End("send failed") PROVE FALSE
    BY DEF SendPendingTickets
  <2>1. pending' = {} /\ \A c \in Clients : client'[c].inbox = {} /\ client'[c].written = {}
    BY DEF End, NoTasks
  <2> QED
    BY <2>1 DEF Places, At
<1>2. /\ pending' = {u \in tickets : SenderFor(u, list) = NoClient}
      /\ client' = [c \in Clients |-> [client[c] EXCEPT !.inbox =
                       @ \cup {u \in tickets : SenderFor(u, list) = c}]]
      /\ observations' = observed
  BY <1>1 DEF SendPendingTickets
<1>3. ASSUME NEW c \in Clients
      PROVE  /\ client'[c].inbox \subseteq client[c].inbox \cup tickets
             /\ client'[c].written = client[c].written
  <2> DEFINE to == {u \in tickets : SenderFor(u, list) = c}
  <2>1. client[c] \in Client /\ to \subseteq tickets
    BY DEF TypeOK
  <2>2. client'[c] = [client[c] EXCEPT !.inbox = @ \cup to]
    BY <1>2
  <2> HIDE DEF to
  <2> QED
    BY <2>1, <2>2 DEF Client
<1> QED
  BY <1>2, <1>3 DEF Places, At

\* A step of a task makes no ticket and forgets neither ticket nor observation.
Idle == /\ \A x \in Places : \A t \in At(x)' : \E y \in Places : t \in At(y)
        /\ \A x \in Places : \A t \in At(x) : \E y \in Places : t \in At(y)'
        /\ UNCHANGED <<observations, ticketed, pending, dispatchers>>

LEMMA LeavingIsIdle ==
    ASSUME TypeOK, NEW c \in Clients, Leave(c)
    PROVE  Idle
<1> DEFINE gone == [NoTasks[c] EXCEPT !.state = "done", !.inbox = client[c].inbox,
                                      !.written = client[c].written]
<1>1. client[c] \in Client
  BY DEF TypeOK
<1>2. gone.inbox = client[c].inbox /\ gone.written = client[c].written
  BY <1>1 DEF NoTasks, Client
<1>3. /\ client' = [client EXCEPT ![c] = gone]
      /\ UNCHANGED <<observations, ticketed, pending, dispatchers>>
  BY DEF Leave, controller
<1> HIDE DEF gone
<1>4. client'[c] = gone /\ \A d \in Clients \ {c} : client'[d] = client[d]
  BY <1>3 DEF TypeOK
<1>5. \A x \in Places : At(x)' = At(x)
  BY <1>2, <1>3, <1>4 DEF Places, At
<1> QED
  BY <1>3, <1>5 DEF Idle

\* What a step does: the process ends, or run takes a message, or a task does a step
\* of its own.
LEMMA StepsOfTasks ==
    ASSUME TypeOK, [Next]_vars
    PROVE  (\E how : End(how)) \/ Serve \/ Idle
<1>1. ASSUME NEW c \in Clients, NEW task, client' = [client EXCEPT ![c] = task],
             task.inbox \subseteq client[c].inbox,
             task.written \subseteq client[c].written \cup client[c].inbox,
             client[c].inbox \subseteq task.inbox \cup task.written,
             client[c].written \subseteq task.written,
             UNCHANGED <<observations, ticketed, pending, dispatchers>>
      PROVE  Idle
  <2>1. client'[c] = task /\ \A d \in Clients \ {c} : client'[d] = client[d]
    BY <1>1 DEF TypeOK
  <2>2. \A d \in Clients : /\ client'[d].inbox \subseteq client[d].inbox
                           /\ client'[d].written \subseteq client[d].written \cup client[d].inbox
                           /\ client[d].inbox \subseteq client'[d].inbox \cup client'[d].written
                           /\ client[d].written \subseteq client'[d].written
    BY <1>1, <2>1
  <2>3. /\ <<NoClient, "pending">> \in Places /\ At(<<NoClient, "pending">>) = pending
        /\ At(<<NoClient, "pending">>)' = pending'
        /\ \A d \in Clients :
              /\ <<d, "inbox">> \in Places /\ At(<<d, "inbox">>) = client[d].inbox
              /\ At(<<d, "inbox">>)' = client'[d].inbox
              /\ <<d, "written">> \in Places /\ At(<<d, "written">>) = client[d].written
              /\ At(<<d, "written">>)' = client'[d].written
    BY DEF Places, At
  <2>4. ASSUME NEW x \in Places, NEW t \in At(x)' PROVE \E y \in Places : t \in At(y)
    <3>1. CASE x = <<NoClient, "pending">>
      BY <3>1, <1>1, <2>3, <2>4
    <3>2. ASSUME NEW d \in Clients, x = <<d, "inbox">> PROVE \E y \in Places : t \in At(y)
      BY <2>2, <2>3, <2>4, <3>2
    <3>3. ASSUME NEW d \in Clients, x = <<d, "written">> PROVE \E y \in Places : t \in At(y)
      BY <2>2, <2>3, <2>4, <3>3
    <3> QED
      BY <3>1, <3>2, <3>3 DEF Places
  <2>5. ASSUME NEW x \in Places, NEW t \in At(x) PROVE \E y \in Places : t \in At(y)'
    <3>1. CASE x = <<NoClient, "pending">>
      BY <3>1, <1>1, <2>3, <2>5
    <3>2. ASSUME NEW d \in Clients, x = <<d, "inbox">> PROVE \E y \in Places : t \in At(y)'
      BY <2>2, <2>3, <2>5, <3>2
    <3>3. ASSUME NEW d \in Clients, x = <<d, "written">> PROVE \E y \in Places : t \in At(y)'
      BY <2>2, <2>3, <2>5, <3>3
    <3> QED
      BY <3>1, <3>2, <3>3 DEF Places
  <2> QED
    BY <1>1, <2>4, <2>5 DEF Idle, Places
<1>2. \A c \in Clients : client[c] \in Client
  BY DEF TypeOK
<1>3. CASE UNCHANGED <<observations, ticketed, pending, dispatchers, client>>
  BY <1>3 DEF Places, At, Idle
<1>4. ASSUME NEW c \in Clients, Accept(c) PROVE Idle
  BY <1>1, <1>2, <1>4 DEF Accept, controller, Client
<1>5. ASSUME NEW c \in Clients, NEW road \in Roads, NEW mile \in Miles, NEW limit \in Limits,
             IAmCamera(c, road, mile, limit), ~ Leave(c)
      PROVE  Idle
  BY <1>1, <1>2, <1>5 DEF IAmCamera, controller, Client
<1>6. ASSUME NEW c \in Clients, NEW roads \in SUBSET Roads, IAmDispatcher(c, roads) PROVE Idle
  BY <1>1, <1>2, <1>6 DEF IAmDispatcher, controller, Client
<1>7. ASSUME NEW c \in Clients, WantHeartbeat(c), ~ Leave(c) PROVE Idle
  BY <1>1, <1>2, <1>7 DEF WantHeartbeat, controller, Client
<1>8. ASSUME NEW c \in Clients, WriteTicket(c), ~ Leave(c) PROVE Idle
  <2>1. PICK t \in client[c].inbox :
            /\ client' = [client EXCEPT ![c].inbox = @ \ {t}, ![c].written = @ \cup {t}]
            /\ UNCHANGED <<observations, ticketed, pending, dispatchers>>
    BY <1>8 DEF WriteTicket, controller
  <2> DEFINE task == [client[c] EXCEPT !.inbox = @ \ {t}, !.written = @ \cup {t}]
  <2>2. /\ task.inbox \subseteq client[c].inbox
        /\ task.written \subseteq client[c].written \cup client[c].inbox
        /\ client[c].inbox \subseteq task.inbox \cup task.written
        /\ client[c].written \subseteq task.written
    BY <1>2 DEF Client
  <2>3. client' = [client EXCEPT ![c] = task]
    BY <2>1
  <2> HIDE DEF task
  <2> QED
    BY <1>1, <2>1, <2>2, <2>3
<1>9. ASSUME NEW c \in Clients, Leave(c) PROVE Idle
  BY <1>9, LeavingIsIdle
<1> QED
  BY <1>3, <1>4, <1>5, <1>6, <1>7, <1>8, <1>9
  DEF Next, vars, controller, AcceptFails, Fails, SeePlate

\* Every ticket that a step leaves was there before, or is for a plate that the step
\* handles; the observations stay while there is a ticket.
LEMMA TicketsCome ==
    ASSUME TypeOK, [Next]_vars, NEW x \in Places, NEW t \in At(x)'
    PROVE  /\ observations \subseteq observations'
           /\ \/ \E y \in Places : t \in At(y)
              \/ \E p \in Plate : t \in Speeding(p) /\ ObservationOf(p) \in observations'
<1>1. ASSUME NEW how, End(how) PROVE FALSE
  <2>1. pending' = {} /\ \A c \in Clients : client'[c].inbox = {} /\ client'[c].written = {}
    BY <1>1 DEF End, NoTasks
  <2> QED
    BY <2>1 DEF Places, At
<1>2. CASE Idle
  BY <1>2 DEF Idle
<1>3. CASE Serve
  <2> DEFINE m == Head(receiver)
  <2>1. m \in ControllerMessage
    BY <1>3 DEF Serve, TypeOK
  <2>2. <<NoClient, "pending">> \in Places /\ At(<<NoClient, "pending">>) = pending
    BY DEF Places, At
  <2>3. CASE AddDispatcher(m)
    <3>1. t \in pending \cup At(x) /\ observations' = observations
      BY <2>3, SendingMoves DEF AddDispatcher
    <3> QED
      BY <2>2, <3>1
  <2>4. CASE RemoveDispatcher(m)
    BY <2>4 DEF RemoveDispatcher, At
  <2>5. CASE HandlePlate(m)
    <3>1. m \in Plate
      BY <2>1, <2>5 DEF HandlePlate, ControllerMessage
    <3>2. PICK tickets \in Signal(m) :
              SendPendingTickets(pending \cup tickets, dispatchers,
                                 observations \cup {ObservationOf(m)},
                                 ticketed \cup UNION {Days(u) : u \in tickets})
      BY <2>5 DEF HandlePlate
    <3>3. tickets \subseteq Speeding(m)
      BY SignalMakes
    <3>4. t \in (pending \cup tickets) \cup At(x)
              /\ observations' = observations \cup {ObservationOf(m)}
      <4> HIDE DEF m
      <4> QED
        BY <3>2, SendingMoves
    <3> QED
      BY <2>2, <3>1, <3>3, <3>4
  <2> QED
    BY <1>3, <2>3, <2>4, <2>5 DEF Serve
<1> QED
  BY <1>1, <1>2, <1>3, StepsOfTasks

\* A ticket names two observations of its car on its road, in the order of their times,
\* and a speed between them above a limit (controller.rs:52-101).
THEOREM OnlySpeeders == Spec => []OnlySpeedersAreTicketed
<1> DEFINE All == \A x \in Places : \A t \in At(x) : Genuine(t, observations)
<1>1. All <=> OnlySpeedersAreTicketed
  BY DEF Genuine, OnlySpeedersAreTicketed
<1>2. Init => All
  <2>1. ASSUME Init PROVE \A x \in Places : At(x) = {}
    BY <2>1 DEF Init, NoTasks, Places, At
  <2> QED
    BY <2>1
<1>3. TypeOK /\ All /\ [Next]_vars => All'
  <2> SUFFICES ASSUME TypeOK, All, [Next]_vars, NEW x \in Places, NEW t \in At(x)'
               PROVE  Genuine(t, observations')
    BY DEF Places
  <2>1. ASSUME NEW y \in Places, t \in At(y) PROVE Genuine(t, observations')
    BY <2>1, TicketsCome DEF Genuine
  <2>2. ASSUME NEW p \in Plate, t \in Speeding(p), ObservationOf(p) \in observations'
        PROVE  Genuine(t, observations')
    BY <2>2, TicketsCome, SpeedingIsGenuine
  <2> QED
    BY <2>1, <2>2, TicketsCome
<1> HIDE DEF All
<1> QED
  BY <1>1, <1>2, <1>3, TypeCorrect, PTL DEF Spec

-----------------------------------------------------------------------------
(* The dispatchers that run knows of *)

\* A set of numbers with 0 and the successors of its members has every number.
LEMMA SetInduction ==
    ASSUME NEW T \in SUBSET Nat, 0 \in T, \A n \in T : n + 1 \in T
    PROVE  T = Nat
<1> SUFFICES ASSUME Nat \ T # {} PROVE FALSE
  OBVIOUS
<1>1. PICK m \in Nat \ T : \A k \in Nat \ T : ~ (<<k, m>> \in OpToRel(<, Nat))
  <2> HIDE DEF OpToRel
  <2> QED
    BY WFMin, NatLessThanWellFounded
<1>2. \A k \in Nat \ T : ~ (k < m)
  BY <1>1 DEF OpToRel
<1> QED
  BY <1>2

\* What is left of a list has only dispatchers of the list.
LEMMA WithoutType ==
    ASSUME NEW S, NEW list \in Seq(S), NEW id
    PROVE  Without(list, id) \in Seq(S)
<1> DEFINE Step(f, n) == IF n = 0 THEN <<>>
                         ELSE IF list[n].id = id THEN f[n - 1] ELSE Append(f[n - 1], list[n])
           Kept(f, n) == f \in [0..n -> Seq(S)] /\ \A i \in 0..n : f[i] = Step(f, i)
           T == {n \in Nat : n <= Len(list) => \E f : Kept(f, n)}
<1>1. 0 \in T
  <2> DEFINE f == [i \in 0..0 |-> <<>>]
  <2>1. Kept(f, 0)
    BY EmptySeq
  <2> QED
    BY <2>1
<1>2. ASSUME NEW n \in T PROVE n + 1 \in T
  <2> SUFFICES ASSUME n + 1 <= Len(list) PROVE \E f : Kept(f, n + 1)
    <3> HIDE DEF Kept
    <3> QED
      OBVIOUS
  <2>1. PICK f : Kept(f, n)
    <3> HIDE DEF Kept
    <3> QED
      BY LenProperties
  <2> DEFINE last == Step(f, n + 1)
             g == [i \in 0..(n + 1) |-> IF i = n + 1 THEN last ELSE f[i]]
  <2>2. f[n] \in Seq(S) /\ list[n + 1] \in S
    BY <2>1, ElementOfSeq
  <2>3. last \in Seq(S)
    BY <2>2, AppendProperties
  <2>4. \A i \in 0..n : g[i] = f[i] /\ f[i] \in Seq(S) /\ f[i] = Step(f, i) /\ i # n + 1
    <3> HIDE DEF Step, last
    <3> QED
      BY <2>1
  <2>5. g \in [0..(n + 1) -> Seq(S)]
    <3>1. \A i \in 0..(n + 1) : i \in 0..n \/ i = n + 1
      OBVIOUS
    <3> HIDE DEF last
    <3> QED
      BY <2>3, <2>4, <3>1
  <2>6. ASSUME NEW i \in 0..(n + 1) PROVE g[i] = Step(g, i)
    <3>1. i # 0 => i - 1 \in 0..n /\ g[i - 1] = f[i - 1]
      BY <2>4
    <3>2. Step(g, i) = Step(f, i)
      <4> HIDE DEF g
      <4> QED
        BY <3>1
    <3>3. g[i] = Step(f, i)
      <4>1. CASE i = n + 1
        BY <4>1
      <4>2. CASE i \in 0..n
        <5> HIDE DEF g, Step
        <5> QED
          BY <4>2, <2>4
      <4> QED
        BY <4>1, <4>2
    <3> HIDE DEF Step, g
    <3> QED
      BY <3>2, <3>3
  <2> HIDE DEF g
  <2> QED
    BY <2>5, <2>6
<1>3. T = Nat
  <2> HIDE DEF T
  <2> QED
    BY <1>1, <1>2, SetInduction DEF T
<1>4. PICK f : Kept(f, Len(list))
  <2>1. Len(list) \in T
    <3> HIDE DEF T
    <3> QED
      BY <1>3, LenProperties
  <2>2. Len(list) <= Len(list) => \E f : Kept(f, Len(list))
    <3> HIDE DEF Kept
    <3> QED
      BY <2>1
  <2> HIDE DEF Kept
  <2> QED
    BY <2>2, LenProperties
<1>5. f = [n \in 0..Len(list) |-> Step(f, n)]
  BY <1>4
<1> DEFINE kept == CHOOSE h : h = [n \in 0..Len(list) |-> Step(h, n)]
<1>6. Without(list, id) = kept[Len(list)]
  BY DEF Without
<1>7. kept = [n \in 0..Len(list) |-> Step(kept, n)]
  BY <1>5
<1> DEFINE U == {n \in Nat : n <= Len(list) => kept[n] \in Seq(S)}
<1> HIDE DEF kept
<1>8. 0 \in U
  BY <1>7, EmptySeq, LenProperties
<1>9. ASSUME NEW n \in U PROVE n + 1 \in U
  <2> SUFFICES ASSUME n + 1 <= Len(list) PROVE kept[n + 1] \in Seq(S)
    OBVIOUS
  <2>1. kept[n] \in Seq(S) /\ list[n + 1] \in S
    BY LenProperties, ElementOfSeq
  <2>2. kept[n + 1] = IF list[n + 1].id = id THEN kept[n] ELSE Append(kept[n], list[n + 1])
    <3>1. n + 1 \in 0..Len(list) /\ n + 1 # 0 /\ (n + 1) - 1 = n
      BY LenProperties
    <3>2. kept[n + 1] = Step(kept, n + 1)
      <4> HIDE DEF Step
      <4> QED
        BY <1>7, <3>1
    <3> QED
      BY <3>1, <3>2
  <2> QED
    BY <2>1, <2>2, AppendProperties
<1>10. U = Nat
  <2> HIDE DEF U
  <2> QED
    BY <1>8, <1>9, SetInduction DEF U
<1> QED
  BY <1>6, <1>10, LenProperties

\* A ticket has no dispatcher only when no dispatcher of the list serves its road.
LEMMA SenderForEach ==
    ASSUME NEW list \in Seq(Dispatcher), NEW t, SenderFor(t, list) = NoClient
    PROVE  \A n \in DOMAIN list : t.road \notin list[n].roads
<1> DEFINE serving == {n \in DOMAIN list : t.road \in list[n].roads}
<1> SUFFICES ASSUME serving # {} PROVE FALSE
  OBVIOUS
<1>1. serving \subseteq Nat
  BY LenProperties
<1>2. PICK n \in serving : \A m \in serving : ~ (<<m, n>> \in OpToRel(<, Nat))
  <2> HIDE DEF OpToRel, serving
  <2> QED
    BY <1>1, WFMin, NatLessThanWellFounded
<1>3. \A m \in serving : n <= m
  <2> HIDE DEF serving
  <2>1. n \in Nat /\ \A m \in serving : m \in Nat /\ ~ (m < n)
    BY <1>1, <1>2 DEF OpToRel
  <2> QED
    BY <2>1
<1> DEFINE least == CHOOSE k \in serving : \A m \in serving : k <= m
<1>4. least \in serving
  <2> HIDE DEF serving
  <2> QED
    BY <1>3
<1>5. SenderFor(t, list) = list[least].id
  BY DEF SenderFor
<1>6. list[least] \in Dispatcher
  <2> HIDE DEF least
  <2> QED
    BY <1>4, ElementOfSeq, LenProperties
<1> HIDE DEF least
<1> QED
  BY <1>5, <1>6, NoClientAssumption DEF Dispatcher

\* send_pending_tickets keeps the tickets that no dispatcher of its list serves.
LEMMA SendingWaits ==
    ASSUME NEW tickets, NEW list \in Seq(Dispatcher), NEW observed, NEW days,
           SendPendingTickets(tickets, list, observed, days)
    PROVE  WaitsForADispatcher'
<1>1. CASE End("send failed")
  BY <1>1, EmptySeq DEF End, WaitsForADispatcher
<1>2. CASE dispatchers' = list /\ pending' = {t \in tickets : SenderFor(t, list) = NoClient}
  BY <1>2, SenderForEach DEF WaitsForADispatcher
<1> QED
  BY <1>1, <1>2 DEF SendPendingTickets

\* A ticket waits only while no dispatcher that run knows of serves its road
\* (dispatchers.rs:58-82), whatever dispatchers came and went.
THEOREM TicketsWait == Spec => []WaitsForADispatcher
<1>1. Init => WaitsForADispatcher
  BY EmptySeq DEF Init, WaitsForADispatcher
<1>2. TypeOK /\ WaitsForADispatcher /\ [Next]_vars => WaitsForADispatcher'
  <2> SUFFICES ASSUME TypeOK, WaitsForADispatcher, [Next]_vars PROVE WaitsForADispatcher'
    OBVIOUS
  <2>1. ASSUME NEW how, End(how) PROVE WaitsForADispatcher'
    BY <2>1, EmptySeq DEF End, WaitsForADispatcher
  <2>2. CASE Idle
    BY <2>2 DEF Idle, WaitsForADispatcher
  <2>3. CASE Serve
    <3> DEFINE m == Head(receiver)
    <3>1. m \in ControllerMessage
      BY <2>3 DEF Serve, TypeOK
    <3>2. CASE AddDispatcher(m)
      <4> DEFINE added == [id |-> m.id, roads |-> m.roads]
      <4>1. added \in Dispatcher
        BY <3>1, <3>2 DEF AddDispatcher, ControllerMessage, Plate, Dispatcher
      <4> HIDE DEF added
      <4>2. Append(dispatchers, added) \in Seq(Dispatcher)
        BY <4>1, OneMore DEF WaitsForADispatcher
      <4> QED
        BY <3>2, <4>2, SendingWaits DEF AddDispatcher, added
    <3>3. CASE RemoveDispatcher(m)
      <4> DEFINE S == {dispatchers[n] : n \in DOMAIN dispatchers}
      <4>1. dispatchers \in Seq(S)
        BY IsASeq, LenProperties DEF WaitsForADispatcher
      <4>2. dispatchers' \in Seq(S)
        BY <3>3, <4>1, WithoutType DEF RemoveDispatcher
      <4>3. S \subseteq Dispatcher /\ \A d \in S : \A t \in pending : t.road \notin d.roads
        BY ElementOfSeq, LenProperties DEF WaitsForADispatcher
      <4> HIDE DEF S
      <4>4. \A n \in DOMAIN dispatchers' : dispatchers'[n] \in S
        BY <4>2, ElementOfSeq, LenProperties
      <4>5. dispatchers' \in Seq(Dispatcher)
        BY <4>2, <4>3, SeqMonotonic
      <4> QED
        BY <3>3, <4>3, <4>4, <4>5 DEF RemoveDispatcher, WaitsForADispatcher
    <3>4. CASE HandlePlate(m)
      BY <3>4, SendingWaits DEF HandlePlate, WaitsForADispatcher
    <3> QED
      BY <2>3, <3>2, <3>3, <3>4 DEF Serve
  <2> QED
    BY <2>1, <2>2, <2>3, StepsOfTasks
<1> QED
  BY <1>1, <1>2, TypeCorrect, PTL DEF Spec

-----------------------------------------------------------------------------
(* No speeder is forgotten *)

\* Every day that is marked has its ticket, wherever that is.
Marked == \A d \in ticketed : \E x \in Places : \E t \in At(x) : d \in Days(t)

\* Some day of each trip that was too fast is among days.
AllCaught(seen, days) ==
    \A o, p \in seen : TooFast(o, p) => Days(TicketFor(o, p)) \cap days # {}

Caught == AllCaught(observations, ticketed)

\* Miles and times are numbers.
LEMMA ObservedNumbers ==
    ASSUME NEW o \in Observation
    PROVE  o.mile \in Int /\ o.timestamp \in Nat
<1>1. MaxU16 \in Nat
  BY DEF MaxU16
<1>2. Miles \subseteq Int /\ Timestamps \subseteq Nat
  BY <1>1, NumbersAssumption
<1> QED
  BY <1>2 DEF Observation

\* The days of a trip are the same in whichever order its sightings came, and they
\* depend on the car and the times only.
LEMMA DaysBothWays ==
    ASSUME NEW o, NEW p, o.plate = p.plate, o.timestamp \in Nat, p.timestamp \in Nat
    PROVE  Days(TicketFor(o, p)) = Days(TicketFor(p, o))
<1>1. CASE p.timestamp = o.timestamp
  BY <1>1 DEF TicketFor, Days
<1>2. CASE p.timestamp # o.timestamp
  BY <1>2 DEF TicketFor, Days
<1> QED
  BY <1>1, <1>2

\* The first dispatcher for a ticket is a connection.
LEMMA SenderIsKnown ==
    ASSUME NEW list \in Seq(Dispatcher), NEW t
    PROVE  SenderFor(t, list) \in Clients \cup {NoClient}
<1> DEFINE serving == {n \in DOMAIN list : t.road \in list[n].roads}
           least == CHOOSE k \in serving : \A m \in serving : k <= m
<1>1. CASE serving = {}
  BY <1>1 DEF SenderFor
<1>2. CASE serving # {}
  <2>1. serving \subseteq Nat
    BY LenProperties
  <2>2. PICK n \in serving : \A m \in serving : ~ (<<m, n>> \in OpToRel(<, Nat))
    <3> HIDE DEF OpToRel, serving
    <3> QED
      BY <1>2, <2>1, WFMin, NatLessThanWellFounded
  <2>3. \A m \in serving : n <= m
    <3> HIDE DEF serving
    <3>1. n \in Nat /\ \A m \in serving : m \in Nat /\ ~ (m < n)
      BY <2>1, <2>2 DEF OpToRel
    <3> QED
      BY <3>1
  <2>4. least \in serving
    <3> HIDE DEF serving
    <3> QED
      BY <2>3
  <2>5. SenderFor(t, list) = list[least].id
    BY <1>2 DEF SenderFor
  <2> HIDE DEF least
  <2>6. list[least] \in Dispatcher
    BY <2>4, ElementOfSeq, LenProperties
  <2> QED
    BY <2>5, <2>6 DEF Dispatcher
<1> QED
  BY <1>1, <1>2

\* A place is that of the tickets that wait, or one of the two of a connection.
LEMMA PlaceIs ==
    ASSUME NEW x \in Places
    PROVE  \/ x = <<NoClient, "pending">>
           \/ \E d \in Clients : x = <<d, "inbox">> \/ x = <<d, "written">>
<1>1. CASE x \in {NoClient} \X {"pending"}
  BY <1>1
<1>2. CASE x \in Clients \X {"inbox", "written"}
  <2>1. PICK d \in Clients, k \in {"inbox", "written"} : x = <<d, k>>
    BY <1>2
  <2> QED
    BY <2>1
<1> QED
  BY <1>1, <1>2 DEF Places

\* send_pending_tickets loses no ticket while run goes on.
LEMMA SendingStays ==
    ASSUME TypeOK, NEW tickets, pending \subseteq tickets, NEW list \in Seq(Dispatcher),
           NEW observed, NEW days, SendPendingTickets(tickets, list, observed, days),
           ~ End("send failed")
    PROVE  /\ \A x \in Places : \A t \in At(x) : \E y \in Places : t \in At(y)'
           /\ \A t \in tickets : \E y \in Places : t \in At(y)'
           /\ observations' = observed /\ ticketed' = days
<1> DEFINE To(t) == SenderFor(t, list)
<1>1. /\ pending' = {u \in tickets : To(u) = NoClient}
      /\ client' = [c \in Clients |-> [client[c] EXCEPT !.inbox =
                       @ \cup {u \in tickets : To(u) = c}]]
      /\ observations' = observed /\ ticketed' = days
  BY DEF SendPendingTickets
<1>2. \A t \in tickets : To(t) \in Clients \cup {NoClient}
  BY SenderIsKnown
<1> HIDE DEF To
<1>3. ASSUME NEW c \in Clients
      PROVE  /\ client'[c].inbox = client[c].inbox \cup {u \in tickets : To(u) = c}
             /\ client'[c].written = client[c].written
  <2> DEFINE to == {u \in tickets : To(u) = c}
  <2>1. client[c] \in Client
    BY DEF TypeOK
  <2>2. client'[c] = [client[c] EXCEPT !.inbox = @ \cup to]
    BY <1>1
  <2> HIDE DEF to
  <2>3. client'[c].inbox = client[c].inbox \cup to /\ client'[c].written = client[c].written
    BY <2>1, <2>2 DEF Client
  <2> QED
    BY <2>3 DEF to
<1>4. /\ <<NoClient, "pending">> \in Places /\ At(<<NoClient, "pending">>) = pending
      /\ At(<<NoClient, "pending">>)' = pending'
      /\ \A d \in Clients :
            /\ <<d, "inbox">> \in Places /\ At(<<d, "inbox">>) = client[d].inbox
            /\ At(<<d, "inbox">>)' = client'[d].inbox
            /\ <<d, "written">> \in Places /\ At(<<d, "written">>) = client[d].written
            /\ At(<<d, "written">>)' = client'[d].written
  BY DEF Places, At
<1>5. ASSUME NEW t \in tickets PROVE \E y \in Places : t \in At(y)'
  <2>1. CASE To(t) = NoClient
    <3>1. t \in At(<<NoClient, "pending">>)'
      BY <1>1, <1>4, <1>5, <2>1
    <3> QED
      BY <1>4, <3>1
  <2>2. CASE To(t) \in Clients
    <3>1. t \in At(<<To(t), "inbox">>)'
      BY <1>3, <1>4, <1>5, <2>2
    <3> QED
      BY <1>4, <2>2, <3>1
  <2> QED
    BY <1>2, <1>5, <2>1, <2>2
<1>6. ASSUME NEW x \in Places, NEW t \in At(x) PROVE \E y \in Places : t \in At(y)'
  <2> DEFINE Somewhere == \E y \in Places : t \in At(y)'
  <2>1. ASSUME x = <<NoClient, "pending">> PROVE Somewhere
    BY <1>4, <1>5, <1>6, <2>1
  <2>2. ASSUME NEW d \in Clients, x = <<d, "inbox">> PROVE Somewhere
    <3>1. t \in At(<<d, "inbox">>)'
      BY <1>3, <1>4, <1>6, <2>2
    <3> QED
      BY <1>4, <3>1
  <2>3. ASSUME NEW d \in Clients, x = <<d, "written">> PROVE Somewhere
    <3>1. t \in At(<<d, "written">>)'
      BY <1>3, <1>4, <1>6, <2>3
    <3> QED
      BY <1>4, <3>1
  <2> HIDE DEF Somewhere
  <2>4. Somewhere
    BY <2>1, <2>2, <2>3, PlaceIs
  <2> QED
    BY <2>4 DEF Somewhere
<1> QED
  BY <1>1, <1>5, <1>6

\* A ticket for a trip has a day, and a new sighting finds every other that makes it
\* too fast: a day of each such trip is marked once signal is done.
LEMMA SignalCatches ==
    ASSUME TypeOK, NEW p \in Plate, NEW tickets \in Signal(p),
           ObservationOf(p) \notin observations,
           NEW o \in observations, TooFast(o, ObservationOf(p))
    PROVE  Days(TicketFor(o, ObservationOf(p)))
               \cap (ticketed \cup UNION {Days(u) : u \in tickets}) # {}
<1> DEFINE q == ObservationOf(p)
           t == TicketFor(o, p)
           days == ticketed \cup UNION {Days(u) : u \in tickets}
<1>1. /\ q.plate = p.plate /\ q.road = p.road /\ q.mile = p.mile /\ q.timestamp = p.timestamp
      /\ p.limit \in Limits
  BY DEF ObservationOf, Plate
<1>2. Speed(o, q) = Speed(o, p) /\ TicketFor(o, q) = TicketFor(o, p)
  <2>1. Speed(o, q) = Speed(o, p)
    BY <1>1 DEF Speed
  <2> HIDE DEF q
  <2> QED
    BY <1>1, <2>1 DEF TicketFor
<1>3. t \in Speeding(p)
  BY <1>1, <1>2 DEF TooFast, Speeding
<1>4. CASE t \notin tickets
  BY <1>2, <1>3, <1>4 DEF Signal
<1>5. CASE t \in tickets
  <2>1. t \in Ticket
    BY <1>3, SpeedingType
  <2>2. t.timestamp1 <= t.timestamp2
    <3> DEFINE seen == observations \cup {q}
    <3>1. observations \subseteq seen /\ ObservationOf(p) \in seen
      OBVIOUS
    <3> HIDE DEF seen, t
    <3> QED
      BY <1>3, <3>1, SpeedingIsGenuine
  <2> HIDE DEF t
  <2>3. t.timestamp1 \in Nat /\ t.timestamp2 \in Nat
    BY <2>1, NumbersAssumption DEF Ticket
  <2>4. /\ Day(t.timestamp1) \in Int /\ Day(t.timestamp2) \in Int
        /\ Day(t.timestamp1) <= Day(t.timestamp2)
    BY <2>2, <2>3 DEF Day, UnixDay
  <2>5. <<t.plate, Day(t.timestamp1)>> \in Days(t)
    BY <2>4 DEF Days
  <2>6. Days(t) \subseteq days
    BY <1>5
  <2>7. Days(t) \cap days # {}
    BY <2>5, <2>6
  <2> QED
    BY <1>2, <2>7 DEF t
<1> QED
  BY <1>4, <1>5

\* What a step does to the marks and the tickets, but for the end of run.
LEMMA PlateCatches ==
    ASSUME TypeOK, dispatchers \in Seq(Dispatcher), Marked, Caught, NEW p \in Plate,
           HandlePlate(p), ~ End("send failed")
    PROVE  Marked' /\ Caught'
<1>1. PICK tickets \in Signal(p) :
          SendPendingTickets(pending \cup tickets, dispatchers,
                             observations \cup {ObservationOf(p)},
                             ticketed \cup UNION {Days(u) : u \in tickets})
  BY DEF HandlePlate
<1> DEFINE days == ticketed \cup UNION {Days(u) : u \in tickets}
           q == ObservationOf(p)
<1>2. /\ \A x \in Places : \A t \in At(x) : \E y \in Places : t \in At(y)'
      /\ \A t \in pending \cup tickets : \E y \in Places : t \in At(y)'
      /\ observations' = observations \cup {q} /\ ticketed' = days
  <2> DEFINE all == pending \cup tickets
             seen == observations \cup {q}
  <2>1. pending \subseteq all /\ SendPendingTickets(all, dispatchers, seen, days)
    BY <1>1
  <2> HIDE DEF all, seen, days
  <2>2. /\ \A x \in Places : \A t \in At(x) : \E y \in Places : t \in At(y)'
        /\ \A t \in all : \E y \in Places : t \in At(y)'
        /\ observations' = seen /\ ticketed' = days
    BY <2>1, SendingStays
  <2> QED
    BY <2>2 DEF all, seen
<1>3. Marked'
  <2> SUFFICES ASSUME NEW d \in ticketed'
               PROVE  \E x \in Places : \E t \in At(x)' : d \in Days(t)
    BY DEF Marked, Places, Days, Day
  <2>1. CASE d \in ticketed
    BY <1>2, <2>1 DEF Marked
  <2>2. CASE d \in UNION {Days(u) : u \in tickets}
    BY <1>2, <2>2
  <2> QED
    BY <1>2, <2>1, <2>2
<1>4. Caught'
  <2> SUFFICES ASSUME NEW a \in observations', NEW b \in observations', TooFast(a, b)
               PROVE  Days(TicketFor(a, b)) \cap ticketed' # {}
    BY DEF Caught, AllCaught
  <2>1. CASE a \in observations /\ b \in observations
    <3>1. Days(TicketFor(a, b)) \cap ticketed # {}
      BY <2>1 DEF Caught, AllCaught
    <3>2. ticketed \subseteq ticketed'
      BY <1>2
    <3> QED
      BY <3>1, <3>2
  <2>2. CASE q \in observations
    BY <1>2, <2>1, <2>2
  <2>3. CASE q \notin observations /\ a \in observations /\ b = q
    BY <1>2, <2>3, SignalCatches
  <2>4. CASE q \notin observations /\ a = q /\ b \in observations
    <3>1. /\ q \in Observation /\ b \in Observation /\ q.plate = b.plate
      BY <2>4 DEF TypeOK, ObservationOf, Observation, Plate, TooFast
    <3> HIDE DEF q, days
    <3>2. /\ q.mile \in Int /\ b.mile \in Int
          /\ q.timestamp \in Nat /\ b.timestamp \in Nat
      BY <3>1, ObservedNumbers
    <3>3. Speed(q, b) = Speed(b, q)
      BY <3>2, SpeedBothWays
    <3>4. TooFast(b, q)
      BY <2>4, <3>3 DEF TooFast
    <3>5. Days(TicketFor(b, q)) \cap days # {}
      BY <2>4, <3>4, SignalCatches DEF q, days
    <3>6. Days(TicketFor(b, q)) = Days(TicketFor(q, b))
      BY <3>1, <3>2, DaysBothWays
    <3> QED
      BY <1>2, <2>4, <3>5, <3>6
  <2>5. a # b
    BY DEF TooFast
  <2> QED
    BY <1>2, <2>1, <2>2, <2>3, <2>4, <2>5
<1> QED
  BY <1>3, <1>4

\* For any two sightings of a car that are too fast, in whatever order they came, there
\* is a ticket for a day of the trip: waiting, queued, written, or lost with the
\* dispatcher it was queued for (controller.rs:45-113, dispatchers.rs:58-82).
THEOREM SpeedersAreTicketed == Spec => []SpeederIsTicketed
<1> DEFINE Kept == Marked /\ Caught
<1>1. Kept => SpeederIsTicketed
  BY DEF Marked, Caught, AllCaught, SpeederIsTicketed
<1>2. Init => Kept
  BY DEF Init, Marked, Caught, AllCaught
<1>3. TypeOK /\ WaitsForADispatcher /\ Kept /\ [Next]_vars => Kept'
  <2> SUFFICES ASSUME TypeOK, WaitsForADispatcher, Marked, Caught, [Next]_vars
               PROVE  Marked' /\ Caught'
    OBVIOUS
  <2>1. ASSUME NEW how, End(how) PROVE Marked' /\ Caught'
    BY <2>1 DEF End, Marked, Caught, AllCaught
  <2>2. ASSUME \A x \in Places : \A t \in At(x) : \E y \in Places : t \in At(y)',
               UNCHANGED <<observations, ticketed>>
        PROVE  Marked' /\ Caught'
    <3>1. Marked'
      <4> SUFFICES ASSUME NEW d \in ticketed'
                   PROVE  \E x \in Places : \E t \in At(x)' : d \in Days(t)
        BY DEF Marked, Places, Days, Day
      <4> QED
        BY <2>2 DEF Marked
    <3>2. Caught'
      BY <2>2 DEF Caught
    <3> QED
      BY <3>1, <3>2
  <2>3. CASE Idle
    BY <2>2, <2>3 DEF Idle
  <2>4. CASE Serve
    <3> DEFINE m == Head(receiver)
    <3>1. m \in ControllerMessage /\ dispatchers \in Seq(Dispatcher)
      BY <2>4 DEF Serve, TypeOK, WaitsForADispatcher
    <3>2. CASE End("send failed")
      BY <2>1, <3>2
    <3>3. CASE AddDispatcher(m) /\ ~ End("send failed")
      <4> DEFINE added == [id |-> m.id, roads |-> m.roads]
      <4>1. added \in Dispatcher
        BY <3>1, <3>3 DEF AddDispatcher, ControllerMessage, Plate, Dispatcher
      <4>2. SendPendingTickets(pending, Append(dispatchers, added), observations, ticketed)
        BY <3>3 DEF AddDispatcher
      <4> HIDE DEF added
      <4>3. Append(dispatchers, added) \in Seq(Dispatcher)
        BY <3>1, <4>1, OneMore
      <4>4. /\ \A x \in Places : \A t \in At(x) : \E y \in Places : t \in At(y)'
            /\ UNCHANGED <<observations, ticketed>>
        BY <3>3, <4>2, <4>3, SendingStays
      <4> QED
        BY <2>2, <4>4
    <3>4. CASE RemoveDispatcher(m)
      <4>1. /\ \A x \in Places : At(x)' = At(x)
            /\ UNCHANGED <<observations, ticketed>>
        BY <3>4 DEF RemoveDispatcher, At
      <4> QED
        BY <2>2, <4>1
    <3>5. CASE HandlePlate(m) /\ ~ End("send failed")
      <4>1. m \in Plate
        BY <3>1, <3>5 DEF HandlePlate, ControllerMessage
      <4> QED
        BY <3>1, <3>5, <4>1, PlateCatches
    <3> QED
      BY <2>4, <3>2, <3>3, <3>4, <3>5 DEF Serve
  <2> QED
    BY <2>1, <2>3, <2>4, StepsOfTasks
<1> HIDE DEF Kept
<1> QED
  BY <1>1, <1>2, <1>3, TypeCorrect, TicketsWait, PTL DEF Spec
=============================================================================
