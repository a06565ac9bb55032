# A TLA+ model of prothackers

`prothackers` solves the problems of Protohackers with tokio
(`src/rust/pNN-*`), ports the first seven to WASI (`src/wasi/problems`), and
brings its own single-threaded async runtime and I/O library for them
(`src/wasi/crates`). This directory models the parts whose correctness depends
on the order in which things happen. Source paths below leave out `src/rust/`
where the crate's name makes them clear.

## The system

The servers are separate programs. Within each, the tasks that serve the
connections interact through a lock, a channel or a `Notify`.

| component | state | operations | hard because | correct when |
|---|---|---|---|---|
| p07 `lrcp/protocol.rs`: session | locals of `lrcp_handler`, two mutex-protected halves of a `Stream`, wakers, three `Notify` | polls of the `Stream`; one `select!` branch per event | packets lost, duplicated, reordered; two tasks between locks; retransmission and expiry | each byte arrives once, in order; flush means delivered; flush and shutdown return |
| p07 listener | map of sessions | first packet opens a session | restarts, entries that stay | only a connect opens a session |
| p09 `job_centre.rs` | heaps, jobs, running jobs, `Weak` lists of the workers | put, get, delete, abort, drop | steps before and after the lock; missed notifications; clients that leave | a job waits in one queue or is worked on by one client, and is never lost |
| p03 budget chat, two ports | table of clients, one queue each, one queue back | join, message, leave | broadcasts overtake the answer to a join; sends to tasks that ended | one holder of a name; everyone knows who is in the room |
| p06 speed daemon, two ports | observations, ticketed days, pending tickets, dispatchers, cameras | plate, camera and dispatcher come and go | observations out of order; dispatchers that left with their message still queued | one ticket a day and car; no speeder forgotten; no ticket waits for nothing |
| p11 pest control | an actor per site with the policies it knows; the authority | visit, connect, adjust, delete, create | connection lost between request and answer; visits during a round | the authority has the policies that the last visit calls for |
| p10 version control | a tree of entries with a lock on each directory | put, get, list | locks taken hand over hand; equal data put twice | every request takes effect at once; revisions are numbered and differ |
| wasi-async-runtime | tasks, wakers, the poller's slabs; Semaphore, Notify, Mutex, RwLock | spawn, join, wait_for, block_until, lock, unlock | stale wakers, dropped futures, wake-ups between polls | nobody who can go on is forgotten; writers exclude each other |
| wire formats and wasi-async I/O | `FramedRead`, `FramedWrite`, halves of `TcpStream`, decoders | read, decode, encode, write | packets in pieces, partial writes, end of a stream amid a packet | packets come out whole, in order, once |
| p08 ciphers | cipher spec, a position per direction | encode, decode | input split anywhere, the spec too | decode inverts encode |
| p05 mob in the middle | two streams | forward and rewrite | half-closed directions | both directions close |
| p00, p01, p02, p04 | at most a map per program | request, answer | sequential | an answer per request |

## Modules

| module | what it is |
|---|---|
| `LrcpEndpoint` | one end of an LRCP session: handler, `Stream` polls, network |
| `LrcpSession` | two such ends: safety, liveness, refinement |
| `LrcpStream` | abstract: a pair of reliable, in-order streams that may break |
| `LrcpServer` | the server's end against any client that follows the protocol |
| `JobCentre` | the store of jobs, the workers and the task of each client |
| `JobBoard` | abstract: jobs that wait, are worked on, or are deleted |
| `BudgetChat` | `run`, the task of each client, and the queues between them |
| `SpeedDaemon` | `run` with Controller and Dispatchers, cameras, dispatchers |
| `PestControl` | SiteVisitors, the Controller, an AuthorityServer per site, the authority |
| `VersionStore` | the connections and their walks over the tree, a step per lock |
| `VersionBoard` | abstract: a store on which each request takes effect at once |
| `WasiRuntime` | `block_on`, the Reactor with its poller, tasks, and a lock |
| `Ciphers` | the operations of a cipher spec, and the codec that reads one |
| `Codecs` | packets of six formats, their encoders and their decoders |
| `Streams` | these packets through framing and `TcpStream` |
| `MC*` | instances for TLC: constants that a cfg cannot write |
| `*Proofs` | theorems about the module of that name; `RuntimeProofs`: about `WasiRuntime`, and about `Streams` with `Codecs` and `Ciphers` |

A definition whose comment begins with "A bug:" is a mutation of the
definition after it, and takes no part in a specification. It shows that a
property would notice the bug.

### LRCP (`LrcpEndpoint`, `LrcpSession`, `LrcpServer`)

`handler[e]` holds the locals of `lrcp_handler`; `upstream[e]` and
`downstream[e]` the two shared halves, with the permits of their `Notify`;
`app[e]` where the task that uses the `Stream` stands. A byte is its offset in
the stream it was written to, so a payload is a pair (first, len) and what was
received in order is 0, 1, 2, ... Buffers are kept as counters: what was
written and what was drained of it.

One action is one branch of the `select!` (`pc` goes from "select" to "tail"),
or the code after it (`AfterSelect`): the two take the upstream lock
separately and the application runs in between. `poll_flush` is two actions
because it takes the lock twice. `poll_shutdown` also does, but decides
nothing on its first look that it does not decide again.

The network is a set of packets. When not `Lossy` it only grows, which
covers loss, duplication and reordering, since no step needs a packet to be
absent. When `Lossy` it forgets what is received or lost, which liveness needs.

`LrcpServer` puts a client that does not run this code at the other end: it
cuts its stream into overlapping payloads, has several in flight, takes part
of a payload, and closes. Its actions (`Peer...`) model no code of the
repository but the protocol text in p07 `lib.rs`.

Left out: clock times, other sessions, packet text. The text of a packet
matters in one way, how many bytes fit in it, which depends on their escaping:
`PayloadSizes` takes any number from `MinPayload` to `MaxPayload`. A byte is one
byte at the other end, as in the ASCII of the protocol: one of 0x80 or more
becomes a character of two (`packets.rs:103`).

### Job centre (`JobCentre`)

`worker[w]` is the task of a client and its `Worker`: `pc` is where the task
stands between two steps, `jobs` its list of `Weak`, `id` the job it holds
while it delivers or aborts. A step is what the task does under one lock, or
between two: `get` takes a job under the lock and upgrades the `Weak` later
(`Take`, `Deliver`); `abort` looks the job up first and takes the lock later
(`Abort`, `FinishAbort`); a get that found nothing releases the lock
(`TakeNothing`) and only then listens (`Listen`); `notify_waiters` is a step of
its own (`Notify`, `NotifyDropped`) that wakes those who listen at that time.
The panic of `get` on an id without a job is modelled: the task unwinds, and
`Drop` runs. A job is its id. Two `Arc` of one job are told apart by the worker
that has a `Weak` to it.

### Budget chat (`BudgetChat`)

`clients` is the table of `run` (a name, or `NoName`, for each id), `receiver`
its queue of `ClientMessage`; `client[c]` the task of a connection: its state,
its queue of `ServerMessage`, and the room as it was shown to its user. `Serve`
is one message that `run` takes, with all that it sends; `Receive` one message
that a client's task takes; `SetUsername` and `Say` are lines it reads.
`Accept`, `ReadFails` and the failing branches of `Receive` are the socket's.

Both ports are in one module, by the variable `port`: the tokio port sends the
list of users when the client has joined, and a send to a task that has ended
ends `run`; the WASI port sends it with the acceptance of the name, and drops
what it cannot send; a panic takes down a task in one and the process in the
other. A definition that is the same in both is mapped to the port that says
it best, which is why some rows of the map name `src/wasi`.

### Speed daemon (`SpeedDaemon`)

`observations`, `ticketed`, `pending` and `dispatchers` are the state of the
Controller and the Dispatchers, `cameras` the table of roads that the guards
keep, `receiver` the queue of `run`, and `client[c]` a connection: camera,
dispatcher with its queue of tickets, or not yet known. `Serve` takes one
message with all it entails: a plate is compared with every observation of the
car on the road, in the unspecified order of a `HashSet`, and tickets go to the
first dispatcher of the road or wait. `Leave` drops the guards, and keeps the
queue of a dispatcher as it was: those tickets are lost, and `SpeederIsTicketed`
counts them. Speeds, days
and limits are computed as in `signal`, with the wrap of `limit * 100` at u16.
The two ports have the same control; the module's head says where they part.

### Pest control (`PestControl`)

`visitor[v]` is a SiteVisitor; `site_visits` the bounded channel to the
Controller; `authority_servers` its map; `actor[s]` the AuthorityServer of a
site with its unbounded inbox; `authority[s]` the policies there are. A round
of `adjust_policies` is a step per species, and each request is two: the actor
asks (`Adjust`), the authority carries it out and the answer arrives
(`Deleted`, `Created`). `Lose` ends the connection between them, with the
request carried out or not; the actor connects again (`Connect`,
`ConnectFails`, up to `MAX_RETRY`) and starts the round once more. `created`,
`latest` and `losses` are for the properties.

### Version store (`VersionStore`, `VersionBoard`)

`entries` are the `Entry` structures in the order they were made, `lock` the
`RwLock` on the `subdirs` of each, `client[c]` a connection with its walk. A
walk has the lock of directory `held` and wants that of `want`; `Claim` and
`Enter` take it and give the other back, as an assignment to the guard does.
`parking_lot` lets a writer claim the lock before its readers are gone, which
keeps later readers out: `Claim`. A listing reads the entries in any order
under their own locks (`Describe`).

`store` and `promised` run the abstract store beside it: a request takes
effect there when its walk enters the root, and `IsABoard` says that what the
walk answers in the end is what it was answered there. That is linearizability,
with the entry into the root as the point.

### WASI runtime (`WasiRuntime`)

`exec` is where the one thread stands in `block_on` and `block_until`, with
the queue and the pending list as locals; `tasks`, `complete`, `targets` and
`wakers` are the fields of `InnerReactor` and its `Poller`; `woken` is the set
of futures whose state is true. What the futures do is any sequence of
operations: wait for a source (`WaitFor`, and `Reread`, which polls a new
`wait_for` each time and drops it), lock and unlock, spawn, end. Any of them
spawns: the tests of p05 run two servers as tasks, each of which spawns a task
per client. What the main future spawned it joins; a server that is a task
drops the handles. `sync` is one lock, a Mutex or an RwLock, made of a `Semaphore`
and a `Notify` as the code makes it.

Abstracted: the queue of the semaphore is a set, since `drop` wakes all of it;
keys that a dropped `wait_for` leaves behind are alike, and at most `MaxLeft`
of each future are kept.

### Streams (`Streams`, `Codecs`, `Ciphers`)

An exchange is a sequence of packets and a tail that is none. Its bytes arrive
in pieces of any size; `reader` is `FramedRead` with its decoder; `out` and
`written` are `FramedWrite` over a writer that takes any part. The decoders
(`Lines`, `Chunks`, `Wire`, `Pest` in `Codecs`) are translated one by one, with
the layouts of all messages as sequences of field types. `IsPacket` says which
values are packets: those that the types of the fields have, with a text no
longer than the number before it can say (the assertion in `put_str_d`). Bytes
are numbers where the formats compute with them (lengths, tags, checksums), and
text is ASCII. Every item is sent back, so that encoder, partial writes and
decoder meet in `BytesAreKept`.

For p08 a packet is one byte, and before the first comes the cipher spec.
`reader.codec` is the `Codec`: the spec with what was read of it so far, and
the positions of the two directions, with which `EncodeByte` and `DecodeByte`
compute: an operation is arithmetic on a byte or on its bits (`Bit`, `FromBits`).
`ReadSpec` is its loop over a buffer in which it looks for the end of
the spec. If the end is not there, the loop either starts over on the same bytes
("spins"), or drops an operation whose operand has not arrived. Both set `cut`,
a field for the properties, as `lost` is: what an exchange delivers after that
is a divergence of its own (`SpecIsFollowed` below), and the other properties
are about exchanges in which neither happens (`Undisturbed`). `MCStreams`
assumes the examples of p08 `lib.rs:97-143`, which TLC computes.

## Runs

| run | instance | what it shows |
|---|---|---|
| `lrcp_session` | 2 bytes one way, payloads of 1 or 2, everlasting packets | order; flush means delivered; closing is asked for; a handler that ends leaves no writer asleep; refinement of `LrcpStream` |
| `lrcp_liveness` | 1 byte, forgetful network, the client's application active | every flush and shutdown returns |
| `lrcp_server` | 2 bytes each way, a foreign client | what is received is what was sent, in order; acks are true; what is not acked is kept |
| `job_centre` | 2 clients, 2 queues, 2 priorities, 2 puts | a job waits or runs and is not lost; best job first; refinement of `JobBoard` |
| `job_centre_liveness` | 2 clients, 1 queue, 2 puts | a missed client is served after a later notification; jobs of a leaver go back |
| `budget_chat` | 3 clients, 2 names, a line each, both ports | one holder of a name; nobody panics but an overtaken joiner of the tokio port; the room is known; speakers are in it; joins and leaves are served |
| `speed_daemon` | 3 clients, 1 car, 1 road with cameras at 2 miles, 3 sightings on 2 days | one ticket a day; there is a ticket for every speeder and no other; tickets find their dispatcher |
| `pest_control` | 1 visitor, 1 site, 2 species, 3 visits, a loss | without a loss the policies settle as the last visit asks, one for a species at a time; with one, what is known still exists; the actor comes to rest |
| `version_store` | 2 clients, 4 paths, 2 data, 2 puts | refinement of `VersionBoard` (linearizability); no revision twice; every request is answered; deadlock is checked |
| `wasi_runtime` | the main future and 3 tasks, 2 operations each, a Mutex or an RwLock | keys have wakers; writers exclude each other; whom the thread leaves behind when it sleeps waits for something, or was just spawned by another task; `block_on` returns, and not before the tasks it joins |
| `streams` | 16 exchanges in 6 formats | packets come out whole and in order; a stream ends cleanly only at its end; bytes are kept, once each; the handler ends |
| `streams_lost` | the same | violated: `TcpStream::read` drops what it read after it waited |

Bounds, and why they are enough.

* `MaxBytes` 2 with payloads of one or two: two consecutive payloads, a
  retransmission that overlaps, a partial payload and a late ack of each. Three
  are needed for a gap, and for an ack larger than a shortened payload.
* Two clients and `MaxJobs` 2: every race of the job centre about one job, and
  a choice between two jobs in one queue or in two. With three clients, one
  queue and one priority the invariants hold too.
* Three `Ids` and two `Names` in the chat: two that want one name, and a third
  who watches; a name that is given back is taken again. `MaxMessages` 1: a
  line of each is enough to overtake a join, a list or a leave.
* `MaxObservations` 3 and `MaxQueue` 1: the third sighting of a car comes
  before, between or after two others, and a trip over midnight has two days.
  `Askers` names the one client that may ask for a heartbeat.
* `MaxVisits` 3, `MaxLosses` 1, `MaxRetry` 1, `Capacity` 1: a visit during a
  round, one after it, and an actor that gives up while a visit is on its way.
* `MaxPuts` 2 over a directory that may also become a file: two puts meet in a
  directory neither has made yet, or put equal data.
* `MaxOps` 2 and three tasks: each may wait and lock, in either order, besides
  the main future; or a task spawns another, which spawns a third; `MaxLeft` 1, since the keys left behind are alike.
* `MaxLost` 1 in `Streams` stops counting lost bytes; `Size` 2 is the chunk.

`MaxBytes`, `MaxJobs`, `MaxMessages`, `MaxObservations`, `MaxVisits`, `MaxPuts`
and `MaxOps` bound what the environment does, not what the code does; the
theorems hold for every value of them. `MaxQueue` and `MaxLosses` bound how far
tasks run ahead and how often connections fail.

A connection, a session or a program ends, and a bound may be used up while
clients wait: a state without successors is no error there, and these cfgs say
`CHECK_DEADLOCK FALSE`. Liveness properties state what must not stop. In
`VersionStore` a connection that ends is replaced, so deadlock is checked.
`MCJobCentre` takes the permutations of clients and of queues as symmetries, in
the safety run only.

Fairness. `LrcpSession!LiveSpec`: tokio runs tasks that are ready (weak
fairness of the handler's own steps and of the pending polls that were woken);
a packet that is sent for ever is received in the end (strong fairness of
receiving); an end whose peer has fallen silent expires, since only packets
renew `last_recv_timestamp` (strong fairness of `Expire` while the peer is
silent). No fairness of the application's choice to write, flush or close.
`JobCentre!LiveSpec`: a task that is neither at `read.next()` nor at
`notified()` goes on. `LrcpServer!FairSpec` adds a client that repeats its
close. The others ask only for weak fairness of tasks that have a message
(`Serve`, `Receive`, `Control`, `Act`), of a walk (`Step`, whose thread the
scheduler runs and whose lock `parking_lot` hands on), of the runtime's thread
(`Run`) and of the handler of a stream. `PestControl` counts on the authority to
answer a request unless the connection is lost; `WasiRuntime` on every source
that is waited for to become ready, without which no server of it would end.

## Findings

`streams_lost` is a run of the project. The other disagreements of code and text
that the models show have a cfg each, to be run by hand
(`tlc -config X.cfg M`); TLC finds each property violated.

| cfg (module) | property | the code | the text |
|---|---|---|---|
| `StreamsLost` (`MCStreams`) | `NothingIsLost` | wasi-async `net/tcp.rs:247`: unless the read after the wait is empty its bytes are forgotten, and the loop reads again | `src/wasi/problems/p00-smoke-test/tests/main.rs:30-32` asserts that the payload comes back |
| `StreamsCut` (`MCStreams`) | `SpecIsFollowed` | p08 `cipher.rs:51`: a cipher spec that arrives in pieces is gone over for ever, or loses an operation, whose operand is then taken for the next | `lib.rs:45-48`: the server applies the inverse of the spec |
| `LrcpMisbehaviour` (`MCLrcpServer`) | `OnlyMisbehaviourCloses` | p07 `protocol.rs:362`: after a partial ack `sender_length` is lowered to it, and an ack of the longer first copy starts a close | `lib.rs:167-168`: only more than what was sent is misbehaviour |
| `LrcpGap` (`MCLrcpServer`) | `GapIsAcked` | `protocol.rs:310`: data beyond what was received is not answered | `lib.rs:134-137` asks for a duplicate of the previous ack |
| `LrcpUnopened` (`MCLrcpServer`) | `OpenedByConnect` | `protocol.rs:654`: any packet of an unknown session opens it | `lib.rs:126`, `:161`: send a close and stop |
| `LrcpCloseAnswer` (`MCLrcpServer`) | `CloseIsAnswered` | `protocol.rs:402`: the handler ends after its first answer, and the entry of its session stays | `lib.rs:191-192`: send a matching close |
| `LrcpReader` (`MCLrcpSession`) | `ReadersAreReleased` | `protocol.rs:92`: `downstream.closed` is never set, and the waker of a reader is taken only when data comes (`:299`); a reader outlives its handler asleep | `protocol.rs:87-89`: a read of a closed stream returns |
| `JobCentreStarve` (`MCJobCentre`) | `WaitersAreServed` | `job_centre.rs:236`: the lock is released before `notified()` is called, and `notify_waiters` leaves no permit | `lib.rs:83-87`: the job must be returned to one of the waiting clients |
| `JobCentreDisconnect` (`MCJobCentre`) | `DisconnectAborts` | `lib.rs:255`: a task in `worker.get` does not read its socket | `lib.rs:159-161`: jobs of a client that disconnects are aborted |
| `JobCentreDeleted` (`MCJobCentre`) | `DeletedIsGone` | `job_centre.rs:173`: an abort that looked a job up before it was deleted queues its id again; the next get panics at `:147` | `lib.rs:125-126`: never retrieved, aborted or deleted again |
| `BudgetChatSend` (`BudgetChat`) | `OnlyTheSocketEndsRun` | p03 `lib.rs:277`: a send to a task that has just ended is an error that ends `run` | `lib.rs:209`: `run` returns an error when the socket returns one |
| `BudgetChatPanic` (`BudgetChat`) | `NobodyPanics` | p03 `lib.rs:267`, `:276`: a client is in the table, and told what others do, before it is sent the list; its task panics, without a `Disconnect`, and its name stays in use | `lib.rs:434`: any other message is `unreachable!` |
| `SpeedDaemonSend` (`SpeedDaemon`) | `LostTicketEndsNothing` | p06 `lib.rs:533`: so is a ticket for a dispatcher whose `RemoveDispatcher` is still queued | none: a statement of these models |
| `WasiRuntimeSpawn` (`WasiRuntime`) | `OnlyTheIdleSleep` | `reactor.rs:195-212`: a task that another task spawned is in the Reactor, woken, when the thread goes to sleep; it waits until something arrives for somebody else | none: a statement of these models; `src/wasi/problems/p05-mob-in-the-middle` is used so (`tests/main.rs:82`, `lib.rs:60`) |
| `PestControlLosses` (`MCPestControl`) | `AlwaysSettles` | `authority_server.rs`: a policy whose creation was carried out but not answered is unknown to the actor, stays, and is created again | none: a statement of these models |

Numbers at their limits are not modelled. `limit * 100` overflows u16 from a
limit of 656 (p06 `controller.rs:45`), a distance above 11930 miles u32 (`:56`),
and the interval of a heartbeat u32 (`lib.rs:637`); numbers of LRCP packets
overflow u32 at ten digits (`packets.rs:31`), job ids after 2^32 puts. A build
with overflow checks panics there, one without wraps. Text of a pest control
packet that is not UTF-8 panics its task (`codec/mod.rs:141`). A message that
is incomplete stalls the heartbeats and tickets of its connection, since it is
read inside a branch of `select!` (p06 `lib.rs:797`). And a writer of the WASI
`RwLock` waits for writers only: readers are counted and never looked at
(`sync/rwlock.rs`), so `OneWriter` says nothing of them.

## Proofs

The proof modules hold for every value of the constants that the assumptions
allow: any number of clients, bytes, jobs, tasks or puts. What is proved is not
checked in the runs again where the proof needs nothing else: the type
invariants, the inductive invariants, `NamesAreUnique`, `CamerasAgree`,
`OneActorASite` and others are definitions that only theorems use.

* `LrcpSessionProofs`: the safety properties of a session and an action
  property. They are not inductive: that acks acknowledge only what was received
  depends on what every packet in flight, and every packet that may be sent
  again, says about the two positions. `Inv` states that the receiver stands at
  `sender_offset` or `sender_length` of the sender (`ReceiverInv`), that a data
  packet in flight is acknowledged or is the payload under way (`PacketInv`),
  that so are the packets held for retransmission (`HeldInv`), that a sender
  without a pending ack has everything acknowledged (`SenderInv`), and which
  wakers can be set where (`AppInv`). Every step is a step of `LrcpStream` or a
  stutter (`Refinement`).
* `LrcpServerProofs`: what holds with a client that does not run this code, as
  `ReceivesReliably` and `SendsReliably`. Only the server stops and waits:
  payloads of the client overlap, several are in flight, and acks come for parts
  of a payload. What replaces it is that positions only grow (`Grows`), so that
  what a packet says of them stays true however long it is in flight
  (`PacketInv`) or is kept to be sent again (`HeldInv`): a data packet is within
  what was written, an ack within what was received. The server stands at
  `drained`, which is `sender_offset` and at most `sender_length`, itself at
  most what was written; the client has at least `drained` bytes and at most
  what was written (`SenderInv`).
* `JobCentreProofs`: `WaitsOrRuns` (nothing lost) needs that an id about to be
  given back is queued nowhere (`GivenBackOnce`), which needs that no other task
  gives it back (`TasksInv`) and that who runs it is unique (`OneWorker`); that
  `drop` gives back everything needs `Recoverable`. `BestJobFirst` needs that
  only a step that takes a job brings a task to a job it got (`OnlyTakeGets`),
  and that the first of each queue is its greatest. Every step is a step of
  `JobBoard` or a stutter (`BoardImplemented`): `Shown` maps queues, running
  jobs and what tasks are giving back to a state of each id, and a lemma says
  of each step how it maps.
* `BudgetChatProofs`: `OneHolderOfAName`, from the types and `Single`, which
  says the same of the table; a name is checked against the table and entered in
  one step. `run` looks up no id in vain, and no task meets a message that it
  calls unreachable but one of the tokio port that is overtaken before it gets
  its list (`OnlyJoinersPanic`); and the room is known (`RoomIsKnown`,
  `SpeakerIsInTheRoom`): both come from the order of the messages. `Life` says of each connection which
  messages of it may be under way to `run` and which to its task, in which
  order, given its entry in the table; `Awareness` that the room a client has
  shown, with the messages under way to it (`Rooms`), becomes what the table
  says, and knows by then the speaker of every line on its way.
* `SpeedDaemonProofs`: `OneTicketADay` needs that every ticket, wherever it is,
  has its days in `ticketed` (`Counted`); `CamerasAgree` that a guard is counted
  once. `OnlySpeedersAreTicketed` is that each ticket is `Genuine` wherever it
  is, from the controller to the dispatcher; `WaitsForADispatcher` is inductive
  with the types. `SpeederIsTicketed` is not: that a trip too fast has a day in
  `ticketed` (`Caught`) is about the loop over the observations, whatever the
  order in which the `HashSet` gives them; that every such day has its ticket
  (`Marked`) is about every step that moves a ticket.
* `PestControlProofs`: `SiteInv` relates, for a site, what the actor knows, the
  request under way and the policies there are: the ids known are created and
  there, a policy that is being deleted is forgotten already, and as long as
  nothing was lost there is no policy that is neither known nor under way.
  `Settles` needs that no visit is overtaken on its way from the channel to the
  inbox to the round (`UpToDate`), and that what a round does not have to do any
  more is as the populations it works on call for (`Rounds`).
* `VersionStoreProofs`: `LockInv` says that a walk has the lock of the directory
  it is in, as a reader or as the writer, and none but those it says. A put is
  then alone in its directory (`AloneInDirectory`), and what it looks up there
  is still so when it adds to it: names are unique, no revision is repeated.
  `WalksImplementBoard` is linearizability. Its invariant `Foreseen` says that
  there are `where`, which gives each entry its path, and `view`, which gives
  each directory on the way of a file the file as a walk will find it that is
  there now. At the root `view` is the store that is promised, at the end of the
  way the revisions in the tree, and between two directories it changes by one
  put at most, and only where a walk holds the first (`ViewOK`). `Kept` says of
  each walk that its answer, computed in the view of its directory, is what it
  was promised. A lemma per action names the next `where` and `view`: `Enter`
  moves a put one directory on, past nobody (`ViewPush`, `KeptPush`), `MakeDir`
  and `Create` add a path, `Commit` takes the put into the file (`CommitPut`).
* `RuntimeProofs`, of `WasiRuntime`: `SleepsForAReason` needs that no task is
  lost between the Reactor and the lists of `block_until` (`PlaceInv`), that a
  task that is not woken is known to what it waits for (`SleepInv`), that while
  `block_until` runs the Reactor has only tasks just spawned (`FreshInv`), that the
  poller's two slabs are the same and a `wait_for` owns its key (`KeyInv`), and
  who has the permit of the lock (`LockInv`); that `join()` waits for all needs
  `JoinInv`, and all of them that nobody is woken who was not spawned
  (`BornInv`).
* `RuntimeProofs`, of `Streams`: for every exchange, of any packets of any of
  the six formats and any cipher spec, the packets come out in order, the stream
  ends where it should, and the bytes are kept. First the decoders. If the bytes
  of a packet and then others are on their way, and any part of them is in the
  buffer, the decoder gives out that packet and keeps the rest, or wants more
  and gives up nothing (`PacketsAreDecoded`): a value is found in what is there
  or wants more (`GetsValue`), so are those of a list of fields (`Came`), the
  elements of an array, and at last the checksum, which is that of the bytes as
  they were sent. And whatever comes, a packet that is given out is the first
  bytes of the buffer and what is left the others (`DecodedIsWhole`). Of the
  ciphers, that each operation has its inverse, bit by bit where it is about
  bits, and so a spec (`BytesAreDeciphered`); and that a spec that is whole in
  the buffer is read as it was written. The inductive invariant `StreamsInv` is
  then about a number n: that the items are the first n packets, what is written
  and waits to be are their bytes, and the buffer with what is not read is what
  follows them (`Leaves`), with the codec at its n-th byte (`Keyed`). None of
  the three properties is inductive without it: each says what came of the bytes
  so far, and none what the decoder will find next. `StreamsTypeOK` has an
  invariant of its own (`StreamsTypeInv`), which holds in disturbed exchanges
  too.

Each module has a lemma per action, or per conjunct that it disturbs.
Assumptions beyond types: `MinPayload` is at least 1 and at most `MaxPayload` (a
packet has room for an escaped byte); there is a queue; the model values for no
name and no client are neither; there are finitely many clients of the speed
daemon, whose guards are counted; no worker is called "waiting" or "deleted",
the other places of a job; miles and limits fit in u16; what a peer sends is an
exchange (`IsExchange`: packets that the encoder can have made, and a tail that
no decoder takes for one, however it is cut); the root is a path, and so is
every directory on the way of one (`PathsAreClosed`), without which a listing of
the promised store would leave out a directory that the tree has.

What repeats is a recursive function or an explicit one, never a recursive
operator: `Without` in `SpeedDaemon`, `Rooms` in `BudgetChat` and the loops of
`Codecs` and `Ciphers` (over the bytes of a buffer, the fields of a packet, the
operations of a spec) are recursive functions of a number. Their facts are
proved by induction in the form the provers can use, over a set: a set of
numbers with 0 and every successor is all of `Nat` (`SetInduction`), and one
that is not empty has a least element.

Only model-checked: the liveness properties, which are out of the prover's reach.
Every safety and action property of a run that passes is a theorem.

## Not modelled

* The line reversal application over LRCP, and the text protocol of the job
  centre: each turns a line into an answer, with no state between lines.
* The LRCP listener beyond one session: its table of sessions is a map from
  ids to channels, and `LrcpUnopened` and `LrcpCloseAnswer` show what follows from
  entries that appear too early or stay too long. Packet text is abstracted to
  what fits in a packet.
* p08: which toy is the answer, a maximum over a line; every byte is sent back
  instead.
* p05: two copies of one loop that reads a line, rewrites words of it and sends
  it on, with no state but that of the framing, which `Streams` models.
* p00, p01, p02, p04 and their ports: no state that two tasks share, or a map
  written and read by one.
* UDP, listeners and timers of wasi-async.
* Clock times: a timeout may happen whenever its timer runs; backoff between
  attempts to connect is left out.

## What could follow

The proxy of p05 with its half-closed directions, and several sessions and
addresses over `LrcpEndpoint`.
