---------------------------- MODULE VersionStore ----------------------------
(***************************************************************************)
(* The version store (src/rust/p10-voracious-code-storage/src): a tree of  *)
(* directories that the tasks of all connections walk at once, with a      *)
(* read-write lock on the entries of each directory.  A walk takes the     *)
(* lock of the next directory before it gives back the one it holds.       *)
(*                                                                         *)
(* The revisions of an entry have a lock of their own, which is only taken *)
(* under the lock of the directory that holds the entry, in the same mode: *)
(* nobody ever waits for it, and it is left out.                           *)
(***************************************************************************)
EXTENDS Naturals, Sequences, FiniteSets

CONSTANTS
    Clients,       \* the connections
    Names,         \* the components of paths
    Paths,         \* the paths asked for, each a sequence of names
    Data,          \* what files hold
    MaxPuts        \* bound on the puts

ASSUME ClientsAssumption == "nobody" \notin Clients
ASSUME PathsAssumption == Paths \subseteq Seq(Names) /\ <<>> \in Paths
\* The directories on the way of a path are asked for too.
ASSUME PathsAreClosed == \A p \in Paths : \A k \in 0..Len(p) : SubSeq(p, 1, k) \in Paths
ASSUME MaxPutsAssumption == MaxPuts \in Nat

VARIABLES
    entries,   \* the Entry structures, in the order they were made; the first is the root
    lock,      \* of each of them, the lock on its subdirs
    client,    \* of each connection: its request, and where its walk is
    puts       \* the number of puts

\* The store that is promised, on which a request takes effect when its walk
\* enters the root, and what it is answered there.
VARIABLES store, promised

vars == <<entries, lock, client, puts, store, promised>>

Promise == INSTANCE VersionBoard WITH client <- promised

\* What a client sees: once it is answered, what it was answered.
shown == [c \in Clients |-> IF client[c].at = "answered" THEN client[c] ELSE promised[c]]

Board == INSTANCE VersionBoard WITH client <- shown

-----------------------------------------------------------------------------
(* State *)

Root == 1
Nobody == "nobody"
Nowhere == 0

Free == [writer |-> Nobody, readers |-> {}]

\* A put whose path ends in a slash or is not valid, or whose data is not text.
NotValid == [op |-> "put", path |-> <<>>, data |-> <<>>, valid |-> FALSE]

\* The requests that reach the store; rev is what follows the r, 1 for the first.
Requests ==
    [op : {"list", "last"}, path : Paths]
        \cup [op : {"get"}, path : Paths, rev : 1..MaxPuts]
        \cup [op : {"put"}, path : Paths \ {<<>>}, data : Data, valid : {TRUE}]
        \cup {NotValid}

\* HELP, a request that is not well formed, revision r0.  A path that is not
\* valid behaves like one that is not there.
Other == [op |-> "other"]

Idle == [at |-> "idle"]

\* A walk: rest is the way it has to go from the directory want, to which it
\* goes from the directory held.
Walk(q) == [at |-> "want", request |-> q, held |-> Nowhere, want |-> Root, rest |-> q.path,
            found |-> {}, todo |-> {}]

Writes(w) == w.request.op = "put"

Answered(answer) == [at |-> "answered", answer |-> answer]

Entry == [name : Names \cup {"/"}, subdirs : SUBSET Nat, releases : Seq(Data)]
Lock == [writer : Clients \cup {Nobody}, readers : SUBSET Clients]

Walking == {"want", "claimed", "in", "collect"}

\* The walk of a request is in the tree, and goes down.
WalkOK(w) ==
    /\ DOMAIN w = DOMAIN Walk(w.request)
    /\ w.request \in Requests \ {NotValid}
    /\ w.held \in DOMAIN entries \cup {Nowhere} /\ w.want \in DOMAIN entries
    /\ w.at \in {"want", "claimed"} => w.held < w.want
    /\ w.at \in {"in", "collect"} => w.held = w.want
    /\ w.rest \in Seq(Names) /\ (Writes(w) => w.rest # <<>>)

TypeOK ==
    /\ entries \in Seq(Entry) /\ entries # <<>>
    /\ \A e \in DOMAIN entries : entries[e].subdirs \subseteq (e + 1)..Len(entries)
    /\ lock \in Seq(Lock) /\ Len(lock) = Len(entries)
    /\ DOMAIN client = Clients
    /\ \A c \in Clients :
        /\ client[c].at \in {"idle", "other", "data", "answered"} \cup Walking
        /\ client[c].at = "data" => client[c].request \in Requests
        /\ client[c].at \in Walking => WalkOK(client[c])
    /\ puts \in 0..MaxPuts

Init ==
    /\ entries = <<[name |-> "/", subdirs |-> {}, releases |-> <<>>]>>
    /\ lock = <<Free>>
    /\ client = [c \in Clients |-> Idle]
    /\ puts = 0
    /\ Promise!Init

-----------------------------------------------------------------------------
(* The lock of a directory.  A writer first keeps new readers out and then  *)
(* waits for those that are in.                                             *)

\* What is left of the locks when c gives back that of directory d, if any.
Release(c, d) ==
    [e \in DOMAIN lock |->
        IF e # d THEN lock[e]
        ELSE [writer |-> IF lock[e].writer = c THEN Nobody ELSE lock[e].writer,
              readers |-> lock[e].readers \ {c}]]

\* A bug: a writer waits for the readers to be gone before it keeps others out.
ClaimsLate(c) == LET w == client[c] IN
    /\ w.at = "want" /\ Writes(w)
    /\ lock[w.want].writer = Nobody /\ lock[w.want].readers = {}
    /\ lock' = [lock EXCEPT ![w.want].writer = c]
    /\ client' = [client EXCEPT ![c].at = "claimed"]
    /\ UNCHANGED <<entries, puts, store, promised>>

Claim(c) == LET w == client[c] IN
    /\ w.at = "want" /\ Writes(w)
    /\ lock[w.want].writer = Nobody
    /\ lock' = [lock EXCEPT ![w.want].writer = c]
    /\ client' = [client EXCEPT ![c].at = "claimed"]
    /\ UNCHANGED <<entries, puts, store, promised>>

\* The lock of the next directory is taken, and the one held given back.
Enter(c) ==
    LET w == client[c]
        left == Release(c, w.held)
    IN
    /\ \/ w.at = "claimed" /\ lock[w.want].readers = {} /\ lock' = left
       \/ /\ w.at = "want" /\ ~ Writes(w)
          /\ lock[w.want].writer = Nobody
          /\ lock' = [left EXCEPT ![w.want].readers = @ \cup {c}]
    /\ client' = [client EXCEPT ![c].at = "in", ![c].held = w.want]
    /\ IF w.want = Root THEN Promise!Do(c) ELSE UNCHANGED <<store, promised>>
    /\ UNCHANGED <<entries, puts>>

-----------------------------------------------------------------------------
(* The walk, in the directory whose lock it holds *)

Named(d, name) == {e \in entries[d].subdirs : entries[e].name = name}

Finish(c, answer) ==
    /\ client' = [client EXCEPT ![c] = Answered(answer)]
    /\ lock' = Release(c, client[c].held)

\* The next component is a directory on the way: list goes into the last one too.
Ahead(w) == w.rest # <<>> /\ (Len(w.rest) > 1 \/ w.request.op = "list")

\* A bug: the lock held is given back before the next one is taken.
DescendsUnlocked(c) ==
    LET w == client[c] IN
    /\ w.at = "in" /\ Ahead(w)
    /\ \E e \in Named(w.held, Head(w.rest)) :
          client' = [client EXCEPT ![c].at = "want", ![c].want = e, ![c].rest = Tail(w.rest),
                                   ![c].held = Nowhere]
    /\ lock' = Release(c, w.held)
    /\ UNCHANGED <<entries, puts, store, promised>>

\* The walk goes on to a directory of this one.
Descend(c) ==
    LET w == client[c] IN
    /\ w.at = "in" /\ Ahead(w)
    /\ \E e \in Named(w.held, Head(w.rest)) :
          client' = [client EXCEPT ![c].at = "want", ![c].want = e, ![c].rest = Tail(w.rest)]
    /\ UNCHANGED <<entries, lock, puts, store, promised>>

\* There is no such directory: a put makes it.
MakeDir(c) ==
    LET w == client[c]
        new == Len(entries) + 1
    IN
    /\ w.at = "in" /\ Writes(w) /\ Len(w.rest) > 1
    /\ Named(w.held, Head(w.rest)) = {}
    /\ entries' = Append([entries EXCEPT ![w.held].subdirs = @ \cup {new}],
                         [name |-> Head(w.rest), subdirs |-> {}, releases |-> <<>>])
    /\ lock' = Append(lock, Free)
    /\ client' = [client EXCEPT ![c].at = "want", ![c].want = new, ![c].rest = Tail(w.rest)]
    /\ UNCHANGED <<puts, store, promised>>

\* list, get and get_revision find nothing on their way.
Misses(c) ==
    LET w == client[c] IN
    /\ w.at = "in" /\ ~ Writes(w)
    /\ \/ w.rest = <<>> /\ w.request.op # "list"
       \/ w.rest # <<>> /\ Named(w.held, Head(w.rest)) = {}
    /\ Finish(c, Promise!Error)
    /\ UNCHANGED <<entries, puts, store, promised>>

\* get and get_revision: the last component is an entry of this directory.
Get(c) ==
    LET w == client[c] IN
    /\ w.at = "in" /\ w.request.op \in {"get", "last"} /\ Len(w.rest) = 1
    /\ \E e \in Named(w.held, Head(w.rest)) :
        LET releases == entries[e].releases
            r == IF w.request.op = "last" THEN Len(releases) ELSE w.request.rev
        IN Finish(c, IF r \in DOMAIN releases THEN Promise!Content(releases[r])
                                              ELSE Promise!Error)
    /\ UNCHANGED <<entries, puts, store, promised>>

\* A bug: whatever is put is a new revision.
CommitsAgain(c) ==
    LET w == client[c] IN
    /\ w.at = "in" /\ Writes(w) /\ Len(w.rest) = 1
    /\ \E e \in Named(w.held, Head(w.rest)) :
        LET r == Len(entries[e].releases) IN
        /\ entries' = [entries EXCEPT ![e].releases = Append(@, w.request.data)]
        /\ Finish(c, Promise!Numbered(r + 1))
    /\ UNCHANGED <<puts, store, promised>>

\* commit: a revision of an entry of this directory, unless it is the last one again.
Commit(c) ==
    LET w == client[c] IN
    /\ w.at = "in" /\ Writes(w) /\ Len(w.rest) = 1
    /\ \E e \in Named(w.held, Head(w.rest)) :
        LET r == Len(entries[e].releases) IN
        IF r > 0 /\ entries[e].releases[r] = w.request.data
        THEN Finish(c, Promise!Numbered(r)) /\ UNCHANGED entries
        ELSE /\ entries' = [entries EXCEPT ![e].releases = Append(@, w.request.data)]
             /\ Finish(c, Promise!Numbered(r + 1))
    /\ UNCHANGED <<puts, store, promised>>

\* commit: the first revision of a file.
Create(c) ==
    LET w == client[c]
        new == Len(entries) + 1
    IN
    /\ w.at = "in" /\ Writes(w) /\ Len(w.rest) = 1
    /\ Named(w.held, Head(w.rest)) = {}
    /\ entries' = Append([entries EXCEPT ![w.held].subdirs = @ \cup {new}],
                         [name |-> Head(w.rest), subdirs |-> {},
                          releases |-> <<w.request.data>>])
    /\ client' = [client EXCEPT ![c] = Answered(Promise!Numbered(1))]
    /\ lock' = Append(Release(c, w.held), Free)
    /\ UNCHANGED <<puts, store, promised>>

\* list has come to the directory asked for, and describes its entries in turn.
List(c) ==
    LET w == client[c] IN
    /\ w.at = "in" /\ w.request.op = "list" /\ w.rest = <<>>
    /\ client' = [client EXCEPT ![c].at = "collect", ![c].todo = entries[w.held].subdirs]
    /\ UNCHANGED <<entries, lock, puts, store, promised>>

\* An entry without revisions is a directory: the number of its own entries is
\* read under its lock.
Describe(c) ==
    LET w == client[c]
        e == CHOOSE x \in w.todo : \A y \in w.todo : x <= y
        entry == entries[e]
        described ==
            IF entry.releases = <<>>
            THEN [name |-> entry.name, kind |-> "DIR", count |-> Cardinality(entry.subdirs)]
            ELSE [name |-> entry.name, kind |-> "file", count |-> Len(entry.releases)]
    IN
    /\ w.at = "collect" /\ w.todo # {}
    /\ entry.releases = <<>> => lock[e].writer = Nobody
    /\ client' = [client EXCEPT ![c].todo = @ \ {e}, ![c].found = @ \cup {described}]
    /\ UNCHANGED <<entries, lock, puts, store, promised>>

Listed(c) ==
    /\ client[c].at = "collect" /\ client[c].todo = {}
    /\ Finish(c, Promise!Listing(client[c].found))
    /\ UNCHANGED <<entries, puts, store, promised>>

-----------------------------------------------------------------------------
(* The connections *)

\* handle_client reads a request; a put is followed by its data.
Ask(c, q) ==
    /\ client[c].at = "idle"
    /\ IF q.op = "put" THEN puts < MaxPuts /\ puts' = puts + 1 ELSE UNCHANGED puts
    /\ client' = [client EXCEPT ![c] =
          CASE q.op = "other" -> [at |-> "other"]
            [] q.op = "put" -> [at |-> "data", request |-> q]
            [] OTHER -> Walk(q)]
    /\ promised' = [promised EXCEPT ![c] = [at |-> "asked", request |-> q]]
    /\ UNCHANGED <<entries, lock, store>>

\* A request that does not concern the store.
Usage(c) ==
    /\ client[c].at = "other"
    /\ client' = [client EXCEPT ![c] = Answered(Promise!Error)]
    /\ Promise!Do(c)
    /\ UNCHANGED <<entries, lock, puts>>

\* copy_n has the data of a put: commit refuses it, or sets out for the root.
HaveData(c) ==
    LET q == client[c].request IN
    /\ client[c].at = "data"
    /\ IF q.valid
       THEN /\ client' = [client EXCEPT ![c] = Walk(q)]
            /\ UNCHANGED <<store, promised>>
       ELSE /\ client' = [client EXCEPT ![c] = Answered(Promise!Error)]
            /\ Promise!Do(c)
    /\ UNCHANGED <<entries, lock, puts>>

\* The client reads its answer, or its connection is lost, amid the data of a
\* put, which panics, or amid the answer; another takes its place.
Rest(c) ==
    /\ client[c].at \in {"data", "answered"}
    /\ client' = [client EXCEPT ![c] = Idle]
    /\ Promise!Rest(c)
    /\ UNCHANGED <<entries, lock, puts>>

Step(c) ==
    \/ Claim(c) \/ Enter(c) \/ Descend(c) \/ MakeDir(c) \/ Misses(c) \/ Get(c)
    \/ Commit(c) \/ Create(c) \/ List(c) \/ Describe(c) \/ Listed(c)
    \/ Usage(c) \/ HaveData(c)

Next ==
    \E c \in Clients :
        \/ Step(c) \/ Rest(c)
        \/ \E q \in Requests \cup {Other} : Ask(c, q)

\* The thread that runs the task of a connection goes on with it.
Spec == Init /\ [][Next]_vars /\ \A c \in Clients : WF_vars(Step(c))

-----------------------------------------------------------------------------
(* Properties *)

\* Two entries of one directory never have one name, although two puts may
\* look for a directory at the same time and both make it (vcs.rs:201-213).
NamesAreUnique ==
    \A d \in DOMAIN entries : \A e, f \in entries[d].subdirs :
        entries[e].name = entries[f].name => e = f

\* No revision repeats the one before it, whoever put them, and however close
\* to each other (vcs.rs:217-232).
NoRevisionTwice ==
    \A e \in DOMAIN entries : \A r \in DOMAIN entries[e].releases :
        r > 1 => entries[e].releases[r] # entries[e].releases[r - 1]

\* The concurrent walks answer as if every request had taken effect at once,
\* in the order in which the walks entered the root.
IsABoard == Board!Spec

\* A request is answered: the walks never wait for each other in a circle, and
\* readers do not keep a writer waiting (vcs.rs:198, 202, 310-413).
IsAnswered == \A c \in Clients : (client[c].at \in {"data", "want"}) ~>
                                   (client[c].at \in {"idle", "answered"})
=============================================================================
