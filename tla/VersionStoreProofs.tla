-------------------------- MODULE VersionStoreProofs --------------------------
(***************************************************************************)
(* Proofs about VersionStore, for any number of connections and any paths: *)
(* the type invariant, that a put has the directories it walks for itself, *)
(* that the names in a directory are unique, that no revision repeats the  *)
(* one before it, and that the walks of all connections, which go down the *)
(* tree at once, implement the store of VersionBoard, which does one       *)
(* request at a time.                                                      *)
(***************************************************************************)
EXTENDS VersionStore, SequenceTheorems, FiniteSetTheorems, WellFoundedInduction, TLAPS

-----------------------------------------------------------------------------
(* The inductive invariant *)

Holds(c) == client[c].at \in Walking /\ client[c].held # Nowhere

\* What a walk holds is in the lock: a put keeps everyone out.
LockInv ==
    \A c \in Clients :
        /\ Holds(c) /\ Writes(client[c]) =>
              /\ lock[client[c].held].writer = c
              /\ lock[client[c].held].readers = {}
        /\ Holds(c) /\ ~ Writes(client[c]) => c \in lock[client[c].held].readers
        /\ client[c].at = "claimed" => Writes(client[c]) /\ lock[client[c].want].writer = c

Inv == TypeOK /\ LockInv /\ NamesAreUnique /\ NoRevisionTwice

\* A put has a directory that it walks for itself: what it looks for there is not
\* changed, and what it adds not read, by another walk in between (vcs.rs:195-236).
AloneInDirectory ==
    \A c, d \in Clients :
        Holds(c) /\ Holds(d) /\ client[c].held = client[d].held /\ Writes(client[c]) => c = d

-----------------------------------------------------------------------------
(* What the operators give *)

LEMMA RequestTypes ==
    ASSUME NEW q \in Requests
    PROVE  /\ q.path \in Paths /\ q.path \in Seq(Names)
           /\ q.op = "put" /\ q # NotValid => q.data \in Data /\ q.path # <<>>
           /\ q.op = "put" /\ q.valid => q # NotValid
           /\ q.op # "put" => q # NotValid
<1>1. CASE q \in [op : {"list", "last"}, path : Paths] \cup [op : {"get"}, path : Paths, rev : 1..MaxPuts]
  BY <1>1, PathsAssumption DEF NotValid
<1>2. CASE q \in [op : {"put"}, path : Paths \ {<<>>}, data : Data, valid : {TRUE}]
  BY <1>2, PathsAssumption DEF NotValid
<1>3. CASE q = NotValid
  BY <1>3, PathsAssumption DEF NotValid
<1> QED
  BY <1>1, <1>2, <1>3 DEF Requests

LEMMA SeqOfFunction ==
    ASSUME NEW S, NEW n \in Nat, NEW f \in [1..n -> S]
    PROVE  f \in Seq(S) /\ Len(f) = n
<1>1. f \in Seq(S)
  BY SeqDef
<1>2. DOMAIN f = 1..n /\ DOMAIN f = 1..Len(f) /\ Len(f) \in Nat
  BY <1>1, LenProperties
<1> QED
  BY <1>1, <1>2

LEMMA ReleaseOK ==
    ASSUME TypeOK, NEW c \in Clients, NEW d
    PROVE  /\ Release(c, d) \in Seq(Lock) /\ Len(Release(c, d)) = Len(lock)
           /\ \A e \in DOMAIN lock : e # d => Release(c, d)[e] = lock[e]
           /\ d \in DOMAIN lock =>
                 /\ Release(c, d)[d].readers = lock[d].readers \ {c}
                 /\ Release(c, d)[d].writer = IF lock[d].writer = c THEN Nobody ELSE lock[d].writer
<1>1. DOMAIN lock = 1..Len(lock) /\ Len(lock) \in Nat /\ \A e \in DOMAIN lock : lock[e] \in Lock
  BY LenProperties, ElementOfSeq DEF TypeOK
<1>2. Release(c, d) \in [1..Len(lock) -> Lock]
  BY <1>1 DEF Release, Lock
<1>3. Release(c, d) \in Seq(Lock) /\ Len(Release(c, d)) = Len(lock)
  BY <1>1, <1>2, SeqOfFunction
<1> QED
  BY <1>3 DEF Release

\* A new entry x of directory d.
LEMMA Grows ==
    ASSUME TypeOK, NEW d \in DOMAIN entries, NEW x \in Entry, x.subdirs = {},
           entries' = Append([entries EXCEPT ![d].subdirs = @ \cup {Len(entries) + 1}], x)
    PROVE  /\ entries' \in Seq(Entry) /\ entries' # <<>> /\ Len(entries') = Len(entries) + 1
           /\ \A e \in DOMAIN entries' : entries'[e].subdirs \subseteq (e + 1)..Len(entries')
           /\ DOMAIN entries' = DOMAIN entries \cup {Len(entries) + 1}
           /\ Len(entries) + 1 \notin DOMAIN entries
           /\ entries'[Len(entries) + 1] = x
           /\ \A e \in DOMAIN entries :
                 /\ entries'[e].name = entries[e].name
                 /\ entries'[e].releases = entries[e].releases
                 /\ e # d => entries'[e].subdirs = entries[e].subdirs
           /\ entries'[d].subdirs = entries[d].subdirs \cup {Len(entries) + 1}
<1> DEFINE n == Len(entries)
           old == [entries EXCEPT ![d].subdirs = @ \cup {n + 1}]
<1>1. /\ n \in Nat /\ DOMAIN entries = 1..n /\ \A e \in 1..n : entries[e] \in Entry
      /\ \A e \in 1..n : entries[e].subdirs \subseteq (e + 1)..n
  BY LenProperties, ElementOfSeq DEF TypeOK
<1>2. old \in [1..n -> Entry]
  <2>1. entries \in [1..n -> Entry]
    BY LenProperties DEF TypeOK
  <2>2. entries[d].subdirs \cup {n + 1} \in SUBSET Nat
    BY <1>1 DEF Entry
  <2>3. [entries[d] EXCEPT !.subdirs = entries[d].subdirs \cup {n + 1}] \in Entry
    BY <1>1, <2>2 DEF Entry
  <2>4. old = [entries EXCEPT ![d] = [entries[d] EXCEPT !.subdirs = entries[d].subdirs \cup {n + 1}]]
    OBVIOUS
  <2> QED
    BY <2>1, <2>3, <2>4
<1>3. old \in Seq(Entry) /\ Len(old) = n
  BY <1>1, <1>2, SeqOfFunction
<1>4. /\ \A e \in 1..n : /\ old[e].name = entries[e].name
                         /\ old[e].releases = entries[e].releases
                         /\ e # d => old[e].subdirs = entries[e].subdirs
      /\ old[d].subdirs = entries[d].subdirs \cup {n + 1}
  BY <1>1 DEF Entry
<1> HIDE DEF old
<1>5. /\ entries' \in Seq(Entry) /\ entries' # <<>> /\ Len(entries') = n + 1
      /\ \A e \in 1..n : entries'[e] = old[e]
      /\ entries'[n + 1] = x
  BY <1>3, AppendProperties DEF old
<1>6. DOMAIN entries' = 1..(n + 1)
  BY <1>5, LenProperties
<1>7. \A e \in 1..(n + 1) : entries'[e].subdirs \subseteq (e + 1)..(n + 1)
  <2>1. ASSUME NEW e \in 1..n PROVE entries'[e].subdirs \subseteq (e + 1)..(n + 1)
    <3>1. entries'[e].subdirs \subseteq entries[e].subdirs \cup {n + 1}
      BY <1>4, <1>5
    <3>2. entries[e].subdirs \subseteq (e + 1)..(n + 1)
      BY <1>1
    <3>3. n + 1 \in (e + 1)..(n + 1)
      BY <1>1
    <3> QED
      BY <3>1, <3>2, <3>3
  <2>2. entries'[n + 1].subdirs = {}
    BY <1>5
  <2> QED
    BY <1>1, <2>1, <2>2
<1>8. d \in 1..n
  BY <1>1
<1> QED
  BY <1>1, <1>4, <1>5, <1>6, <1>7, <1>8

-----------------------------------------------------------------------------
(* The entries: each step *)

Moves(c) == Step(c) \/ Rest(c) \/ \E q \in Requests \cup {Other} : Ask(c, q)

LEMMA Rests ==
    ASSUME NEW S, NEW r \in Seq(S)
    PROVE  /\ r # <<>> => Head(r) \in S /\ Tail(r) \in Seq(S)
           /\ Len(r) > 1 => r # <<>> /\ Tail(r) # <<>>
           /\ Len(r) = 1 => r # <<>>
<1> DEFINE n == Len(r)
           t == Tail(r)
           m == Len(t)
           empty == r = <<>>
<1>1. n \in Nat /\ (~ empty => n # 0) /\ (empty => n = 0)
  BY EmptySeq
<1>2. ~ empty => Head(r) \in S /\ t \in Seq(S) /\ m = n - 1
  BY HeadTailProperties
<1>3. t = <<>> => m = 0
  BY EmptySeq
<1> HIDE DEF n, m, empty, t
<1>4. n > 1 => ~ empty /\ m # 0
  BY <1>1, <1>2
<1>5. n = 1 => ~ empty
  BY <1>1
<1>6. n > 1 => ~ empty /\ t # <<>>
  BY <1>3, <1>4
<1> QED
  BY <1>2, <1>5, <1>6 DEF n, t, empty

\* What is known of a walk that is in a directory.
LEMMA InDirectory ==
    ASSUME TypeOK, NEW c \in Clients, client[c].at \in Walking
    PROVE  /\ WalkOK(client[c]) /\ client[c].want \in DOMAIN entries
           /\ client[c].at \in {"in", "collect"} => client[c].held \in DOMAIN entries
           /\ client[c].rest \in Seq(Names)
           /\ client[c].rest # <<>> => /\ Head(client[c].rest) \in Names
                                       /\ Tail(client[c].rest) \in Seq(Names)
           /\ Len(client[c].rest) > 1 => client[c].rest # <<>> /\ Tail(client[c].rest) # <<>>
           /\ Len(client[c].rest) = 1 => client[c].rest # <<>>
           /\ DOMAIN entries = 1..Len(entries) /\ Len(entries) \in Nat /\ DOMAIN lock = DOMAIN entries
           /\ \A e \in DOMAIN entries : entries[e] \in Entry
           /\ Writes(client[c]) => client[c].request.data \in Data
<1>1. WalkOK(client[c])
  BY DEF TypeOK
<1>2. client[c].want \in DOMAIN entries /\ client[c].rest \in Seq(Names)
  BY <1>1 DEF WalkOK
<1>3. client[c].at \in {"in", "collect"} => client[c].held \in DOMAIN entries
  BY <1>1 DEF WalkOK
<1>4. /\ client[c].rest # <<>> =>
            /\ Head(client[c].rest) \in Names
            /\ Tail(client[c].rest) \in Seq(Names)
      /\ Len(client[c].rest) > 1 => client[c].rest # <<>> /\ Tail(client[c].rest) # <<>>
      /\ Len(client[c].rest) = 1 => client[c].rest # <<>>
  BY <1>2, Rests
<1>6. DOMAIN entries = 1..Len(entries) /\ Len(entries) \in Nat /\ DOMAIN lock = DOMAIN entries
  BY LenProperties DEF TypeOK
<1>7. \A e \in DOMAIN entries : entries[e] \in Entry
  BY <1>6, ElementOfSeq DEF TypeOK
<1>8. Writes(client[c]) => client[c].request.data \in Data
  BY <1>1, RequestTypes DEF WalkOK, Writes
<1> QED
  BY <1>1, <1>2, <1>3, <1>4, <1>6, <1>7, <1>8

\* The tree grows by an entry, or an entry by a revision.
NewEntry(d, x) ==
    /\ d \in DOMAIN entries /\ x \in Entry /\ x.subdirs = {} /\ Len(x.releases) <= 1
    /\ Named(d, x.name) = {}
    /\ entries' = Append([entries EXCEPT ![d].subdirs = @ \cup {Len(entries) + 1}], x)

NewRevision(e, data) ==
    /\ e \in DOMAIN entries /\ data \in Data
    /\ entries[e].releases # <<>> => entries[e].releases[Len(entries[e].releases)] # data
    /\ entries' = [entries EXCEPT ![e].releases = Append(@, data)]

LEMMA MakesEntry ==
    ASSUME TypeOK, NEW c \in Clients, MakeDir(c) \/ Create(c)
    PROVE  \E x : NewEntry(client[c].held, x)
<1>1. CASE MakeDir(c)
  <2> DEFINE x == [name |-> Head(client[c].rest), subdirs |-> {}, releases |-> <<>>]
  <2>1. client[c].at = "in" /\ Len(client[c].rest) > 1
    BY <1>1 DEF MakeDir
  <2>2. /\ client[c].held \in DOMAIN entries /\ Head(client[c].rest) \in Names
    BY <2>1, InDirectory DEF Walking
  <2>3. x \in Entry /\ x.subdirs = {} /\ Len(x.releases) <= 1 /\ x.name = Head(client[c].rest)
    BY <2>2, EmptySeq DEF Entry
  <2>4. /\ Named(client[c].held, x.name) = {}
        /\ entries' = Append([entries EXCEPT ![client[c].held].subdirs = @ \cup {Len(entries) + 1}], x)
    BY <1>1 DEF MakeDir
  <2> HIDE DEF x
  <2> QED
    BY <2>2, <2>3, <2>4 DEF NewEntry
<1>2. CASE Create(c)
  <2> DEFINE x == [name |-> Head(client[c].rest), subdirs |-> {},
                   releases |-> <<client[c].request.data>>]
  <2>1. client[c].at = "in" /\ Len(client[c].rest) = 1 /\ Writes(client[c])
    BY <1>2 DEF Create
  <2>2. /\ client[c].held \in DOMAIN entries /\ Head(client[c].rest) \in Names
        /\ client[c].request.data \in Data
    BY <2>1, InDirectory DEF Walking
  <2>3. x \in Entry /\ x.subdirs = {} /\ Len(x.releases) <= 1 /\ x.name = Head(client[c].rest)
    BY <2>2 DEF Entry
  <2>4. /\ Named(client[c].held, x.name) = {}
        /\ entries' = Append([entries EXCEPT ![client[c].held].subdirs = @ \cup {Len(entries) + 1}], x)
    BY <1>2 DEF Create
  <2> HIDE DEF x
  <2> QED
    BY <2>2, <2>3, <2>4 DEF NewEntry
<1> QED
  BY <1>1, <1>2

LEMMA Lengthens ==
    ASSUME TypeOK, NEW d, NEW x, NewEntry(d, x)
    PROVE  Len(entries') = Len(entries) + 1
<1>1. /\ d \in DOMAIN entries /\ x \in Entry /\ x.subdirs = {}
      /\ entries' = Append([entries EXCEPT ![d].subdirs = @ \cup {Len(entries) + 1}], x)
  BY DEF NewEntry
<1> QED
  BY <1>1, Grows

LEMMA CommitsEntry ==
    ASSUME TypeOK, NEW c \in Clients, Commit(c)
    PROVE  \/ UNCHANGED entries
           \/ \E e : NewRevision(e, client[c].request.data)
<1>1. client[c].at = "in" /\ Len(client[c].rest) = 1 /\ Writes(client[c])
  BY DEF Commit
<1>2. /\ client[c].held \in DOMAIN entries
      /\ client[c].request.data \in Data
      /\ \A e \in DOMAIN entries : entries[e] \in Entry
      /\ DOMAIN entries = 1..Len(entries) /\ Len(entries) \in Nat
  BY <1>1, InDirectory DEF Walking
<1>3. PICK e \in Named(client[c].held, Head(client[c].rest)) :
         \/ UNCHANGED entries
         \/ /\ ~ (/\ Len(entries[e].releases) > 0
                  /\ entries[e].releases[Len(entries[e].releases)] = client[c].request.data)
            /\ entries' = [entries EXCEPT ![e].releases = Append(@, client[c].request.data)]
  BY DEF Commit
<1>4. e \in DOMAIN entries
  BY <1>2, <1>3 DEF Named, TypeOK
<1>5. entries[e].releases # <<>> => Len(entries[e].releases) > 0
  BY SMTT(30), <1>2, <1>4, EmptySeq DEF Entry
<1> QED
  BY <1>2, <1>3, <1>4, <1>5 DEF NewRevision

LEMMA EntriesMove ==
    ASSUME TypeOK, NEW c \in Clients, Moves(c)
    PROVE  \/ UNCHANGED entries
           \/ \E x : NewEntry(client[c].held, x)
           \/ \E e : NewRevision(e, client[c].request.data)
<1>1. CASE MakeDir(c) \/ Create(c)
  BY <1>1, MakesEntry
<1>3. CASE Commit(c)
  BY <1>3, CommitsEntry
<1> QED
  BY <1>1, <1>3
     DEF Moves, Step, Claim, Enter, Descend, Misses, Get, List, Describe, Listed, Usage,
         HaveData, Rest, Ask

LEMMA Revised ==
    ASSUME TypeOK, NEW e, NEW data, NewRevision(e, data)
    PROVE  /\ entries' \in Seq(Entry) /\ entries' # <<>> /\ Len(entries') = Len(entries)
           /\ DOMAIN entries' = DOMAIN entries
           /\ \A d \in DOMAIN entries :
                 /\ entries'[d].name = entries[d].name /\ entries'[d].subdirs = entries[d].subdirs
                 /\ d # e => entries'[d].releases = entries[d].releases
           /\ entries'[e].releases = Append(entries[e].releases, data)
<1> DEFINE n == Len(entries)
<1>1. /\ n \in Nat /\ DOMAIN entries = 1..n /\ entries \in [1..n -> Entry]
      /\ \A d \in 1..n : entries[d] \in Entry
  BY LenProperties, ElementOfSeq DEF TypeOK
<1>2. e \in 1..n /\ Append(entries[e].releases, data) \in Seq(Data)
  BY <1>1, AppendProperties DEF NewRevision, Entry
<1>3. entries' = [entries EXCEPT ![e] =
                     [entries[e] EXCEPT !.releases = Append(entries[e].releases, data)]]
  BY DEF NewRevision
<1>4. [entries[e] EXCEPT !.releases = Append(entries[e].releases, data)] \in Entry
  BY <1>1, <1>2 DEF Entry
<1>5. entries' \in [1..n -> Entry]
  BY <1>1, <1>3, <1>4
<1>6. entries' \in Seq(Entry) /\ Len(entries') = n
  BY <1>1, <1>5, SeqOfFunction
<1>7. entries' # <<>>
  BY <1>1, <1>2, <1>6, EmptySeq
<1>8. DOMAIN entries' = DOMAIN entries
  BY <1>1, <1>5
<1>9. \A d \in DOMAIN entries :
                 /\ entries'[d].name = entries[d].name /\ entries'[d].subdirs = entries[d].subdirs
                 /\ d # e => entries'[d].releases = entries[d].releases
  BY <1>1, <1>3 DEF Entry
<1>10. entries'[e].releases = Append(entries[e].releases, data)
  BY <1>1, <1>2, <1>3 DEF Entry
<1> QED
  BY <1>6, <1>7, <1>8, <1>9, <1>10

\* The names in a directory stay unique, and revisions differ from those before them.
LEMMA EntriesStep ==
    ASSUME TypeOK, NamesAreUnique, NoRevisionTwice, NEW c \in Clients, Moves(c)
    PROVE  /\ entries' \in Seq(Entry) /\ entries' # <<>>
           /\ \A e \in DOMAIN entries' : entries'[e].subdirs \subseteq (e + 1)..Len(entries')
           /\ DOMAIN entries \subseteq DOMAIN entries'
           /\ NamesAreUnique' /\ NoRevisionTwice'
<1>0. /\ \A e \in DOMAIN entries : entries[e] \in Entry
      /\ DOMAIN entries = 1..Len(entries) /\ Len(entries) \in Nat
      /\ \A e \in DOMAIN entries : entries[e].subdirs \subseteq DOMAIN entries
  BY LenProperties, ElementOfSeq DEF TypeOK
<1>1. CASE UNCHANGED entries
  BY <1>1 DEF TypeOK, NamesAreUnique, NoRevisionTwice
<1>2. ASSUME NEW d, NEW x, NewEntry(d, x)
      PROVE  /\ entries' \in Seq(Entry) /\ entries' # <<>>
             /\ \A e \in DOMAIN entries' : entries'[e].subdirs \subseteq (e + 1)..Len(entries')
             /\ DOMAIN entries \subseteq DOMAIN entries'
             /\ NamesAreUnique' /\ NoRevisionTwice'
  <2> DEFINE new == Len(entries) + 1
  <2>1. /\ d \in DOMAIN entries /\ x \in Entry /\ x.subdirs = {}
        /\ entries' = Append([entries EXCEPT ![d].subdirs = @ \cup {Len(entries) + 1}], x)
    BY <1>2 DEF NewEntry
  <2>2. /\ entries' \in Seq(Entry) /\ entries' # <<>>
        /\ \A e \in DOMAIN entries' : entries'[e].subdirs \subseteq (e + 1)..Len(entries')
        /\ DOMAIN entries' = DOMAIN entries \cup {new} /\ new \notin DOMAIN entries
        /\ entries'[new] = x
        /\ \A e \in DOMAIN entries :
              /\ entries'[e].name = entries[e].name
              /\ entries'[e].releases = entries[e].releases
              /\ e # d => entries'[e].subdirs = entries[e].subdirs
        /\ entries'[d].subdirs = entries[d].subdirs \cup {new}
    BY <2>1, Grows
  <2> HIDE DEF new
  <2>3. NamesAreUnique'
    <3>1. SUFFICES ASSUME NEW a \in DOMAIN entries', NEW e \in entries'[a].subdirs,
                          NEW f \in entries'[a].subdirs, entries'[e].name = entries'[f].name
                   PROVE  e = f
      BY DEF NamesAreUnique
    <3>2. CASE a = new
      BY <2>1, <2>2, <3>1, <3>2
    <3>3. CASE a \in DOMAIN entries /\ a # d
      BY <1>0, <2>2, <3>1, <3>3 DEF NamesAreUnique
    <3>4. CASE a = d
      <4>1. \A g \in entries[d].subdirs : entries[g].name # x.name
        BY <1>2 DEF NewEntry, Named
      <4>2. \A g \in entries[d].subdirs : entries'[g].name = entries[g].name
        BY <1>0, <2>1, <2>2
      <4> QED
        BY <2>1, <2>2, <3>1, <3>4, <4>1, <4>2 DEF NamesAreUnique
    <3> QED
      BY <2>2, <3>2, <3>3, <3>4
  <2>4. NoRevisionTwice'
    <3>1. \A r \in DOMAIN x.releases : ~ r > 1
      <4>1. Len(x.releases) \in Nat /\ DOMAIN x.releases = 1..Len(x.releases)
        BY <2>1, LenProperties DEF Entry
      <4> QED
        BY <1>2, <4>1 DEF NewEntry
    <3> QED
      BY <2>2, <3>1 DEF NoRevisionTwice
  <2> QED
    BY <2>2, <2>3, <2>4
<1>3. ASSUME NEW e, NEW data, NewRevision(e, data)
      PROVE  /\ entries' \in Seq(Entry) /\ entries' # <<>>
             /\ \A d \in DOMAIN entries' : entries'[d].subdirs \subseteq (d + 1)..Len(entries')
             /\ DOMAIN entries \subseteq DOMAIN entries'
             /\ NamesAreUnique' /\ NoRevisionTwice'
  <2>1. /\ entries' \in Seq(Entry) /\ entries' # <<>> /\ Len(entries') = Len(entries)
        /\ DOMAIN entries' = DOMAIN entries
        /\ \A d \in DOMAIN entries :
              /\ entries'[d].name = entries[d].name /\ entries'[d].subdirs = entries[d].subdirs
              /\ d # e => entries'[d].releases = entries[d].releases
        /\ entries'[e].releases = Append(entries[e].releases, data)
    BY <1>3, Revised
  <2>2. NamesAreUnique'
    BY <1>0, <2>1 DEF NamesAreUnique
  <2>3. NoRevisionTwice'
    <3> DEFINE rs == entries[e].releases
    <3>1. rs \in Seq(Data) /\ data \in Data /\ e \in DOMAIN entries
      BY <1>0, <1>3 DEF NewRevision, Entry
    <3>2. /\ Len(Append(rs, data)) = Len(rs) + 1 /\ Append(rs, data) \in Seq(Data)
          /\ \A i \in 1..Len(rs) : Append(rs, data)[i] = rs[i]
          /\ Append(rs, data)[Len(rs) + 1] = data
      BY <3>1, AppendProperties
    <3>3. /\ Len(rs) \in Nat /\ DOMAIN rs = 1..Len(rs)
          /\ DOMAIN Append(rs, data) = 1..(Len(rs) + 1)
      BY <3>1, <3>2, LenProperties
    <3>4. ASSUME NEW r \in 1..(Len(rs) + 1), r > 1
          PROVE  Append(rs, data)[r] # Append(rs, data)[r - 1]
      <4>1. CASE r <= Len(rs)
        <5>1. r \in 1..Len(rs) /\ r - 1 \in 1..Len(rs)
          BY <3>3, <3>4, <4>1
        <5> QED
          BY <3>1, <3>2, <3>3, <3>4, <5>1 DEF NoRevisionTwice
      <4>2. CASE r = Len(rs) + 1
        <5>1. r - 1 = Len(rs) /\ Len(rs) \in 1..Len(rs)
          BY <3>3, <3>4, <4>2
        <5>2. rs # <<>>
          BY <5>1, EmptySeq
        <5>3. rs[Len(rs)] # data
          BY <1>3, <5>2 DEF NewRevision
        <5> QED
          BY <3>2, <4>2, <5>1, <5>3
      <4> QED
        BY <3>3, <3>4, <4>1, <4>2
    <3>5. \A r \in DOMAIN entries'[e].releases :
             r > 1 => entries'[e].releases[r] # entries'[e].releases[r - 1]
      BY <2>1, <3>3, <3>4
    <3> HIDE DEF rs
    <3> QED
      BY <2>1, <3>5 DEF NoRevisionTwice
  <2>4. \A d \in DOMAIN entries' : entries'[d].subdirs \subseteq (d + 1)..Len(entries')
    BY <2>1 DEF TypeOK
  <2> QED
    BY <2>1, <2>2, <2>3, <2>4
<1> QED
  BY <1>1, <1>2, <1>3, EntriesMove

-----------------------------------------------------------------------------
(* The walks: each step *)

ClientOK(c) ==
    /\ client[c].at \in {"idle", "other", "data", "answered"} \cup Walking
    /\ client[c].at = "data" => client[c].request \in Requests
    /\ client[c].at \in Walking => WalkOK(client[c])

\* A walk goes on to a directory of the one that it holds.
LEMMA ClientMove ==
    ASSUME TypeOK, NamesAreUnique, NoRevisionTwice, NEW c \in Clients, Moves(c)
    PROVE  /\ DOMAIN client' = Clients /\ \A d \in Clients \ {c} : client'[d] = client[d]
           /\ ClientOK(c)'
<1>0. /\ DOMAIN client = Clients /\ ClientOK(c) /\ DOMAIN entries \subseteq DOMAIN entries'
  BY SMTT(30), EntriesStep DEF TypeOK, ClientOK
<1>1. DOMAIN client' = Clients /\ \A d \in Clients \ {c} : client'[d] = client[d]
  BY <1>0 DEF Moves, Step, Claim, Enter, Descend, MakeDir, Misses, Get, Commit, Create, List,
              Describe, Listed, Finish, Usage, HaveData, Rest, Ask
<1> DEFINE w == client[c]
<1>2. w.at \in Walking =>
         /\ DOMAIN w = {"at", "request", "held", "want", "rest", "found", "todo"}
         /\ w.request \in Requests \ {NotValid} /\ w.rest \in Seq(Names)
         /\ w.held \in DOMAIN entries' \cup {Nowhere} /\ w.want \in DOMAIN entries'
         /\ w.rest \in Seq(Names) /\ (w.request.op = "put" => w.rest # <<>>)
         /\ w.at \in {"want", "claimed"} => w.held < w.want
         /\ w.at \in {"in", "collect"} => w.held = w.want
  BY <1>0 DEF ClientOK, WalkOK, Walk, Writes
<1>3. /\ DOMAIN entries = 1..Len(entries) /\ Len(entries) \in Nat
  BY LenProperties DEF TypeOK
<1>4. CASE Claim(c)
  <2>1. w.at = "want" /\ client' = [client EXCEPT ![c].at = "claimed"]
    BY <1>4 DEF Claim
  <2>2. client'[c] = [w EXCEPT !.at = "claimed"]
    BY <1>0, <2>1
  <2> HIDE DEF w
  <2> QED
    BY <1>1, <1>2, <2>1, <2>2 DEF ClientOK, WalkOK, Walk, Writes, Walking
<1>5. CASE Enter(c)
  <2>1. w.at \in {"want", "claimed"}
        /\ client' = [client EXCEPT ![c].at = "in", ![c].held = w.want]
    BY <1>5 DEF Enter
  <2>2. client'[c] = [w EXCEPT !.at = "in", !.held = w.want]
    BY <1>0, <2>1
  <2>3. w.at \in Walking
    BY <2>1 DEF Walking
  <2> HIDE DEF w
  <2>4. /\ client'[c].at = "in" /\ client'[c].held = w.want /\ client'[c].want = w.want
        /\ client'[c].request = w.request /\ client'[c].rest = w.rest
        /\ DOMAIN client'[c] = DOMAIN w
    BY <1>2, <2>2, <2>3
  <2>5. WalkOK(client[c])'
    BY <1>2, <2>3, <2>4 DEF WalkOK, Walk, Writes
  <2> QED
    BY <1>1, <2>4, <2>5 DEF ClientOK, Walking
<1>6. CASE Descend(c)
  <2>1. w.at = "in" /\ Ahead(w)
    BY <1>6 DEF Descend
  <2>2. PICK e \in Named(w.held, Head(w.rest)) :
            client' = [client EXCEPT ![c].at = "want", ![c].want = e, ![c].rest = Tail(w.rest)]
    BY <1>6 DEF Descend
  <2>3. client'[c] = [w EXCEPT !.at = "want", !.want = e, !.rest = Tail(w.rest)]
    BY <1>0, <2>2
  <2>4. w.held \in DOMAIN entries /\ w.rest # <<>>
        /\ Tail(w.rest) \in Seq(Names) /\ (Len(w.rest) > 1 => Tail(w.rest) # <<>>)
    BY <2>1, InDirectory DEF Walking, Ahead
  <2>5. e \in (w.held + 1)..Len(entries)
    BY <2>2, <2>4 DEF Named, TypeOK
  <2>6. e \in DOMAIN entries' /\ w.held < e
    BY <1>0, <1>3, <2>4, <2>5
  <2>7. w.request.op = "put" => Tail(w.rest) # <<>>
    BY <2>1, <2>4 DEF Ahead
  <2> HIDE DEF w
  <2> QED
    BY <1>1, <1>2, <2>1, <2>3, <2>4, <2>6, <2>7 DEF ClientOK, WalkOK, Walk, Writes, Walking
<1>7. CASE MakeDir(c)
  <2> DEFINE new == Len(entries) + 1
  <2>0. w.at = "in"
    BY <1>7 DEF MakeDir
  <2>1. /\ w.at = "in" /\ Len(w.rest) > 1
        /\ client' = [client EXCEPT ![c].at = "want", ![c].want = new, ![c].rest = Tail(w.rest)]
        /\ entries' = Append([entries EXCEPT ![w.held].subdirs = @ \cup {Len(entries) + 1}],
                             [name |-> Head(w.rest), subdirs |-> {}, releases |-> <<>>])
    BY <1>7 DEF MakeDir
  <2>2. client'[c] = [w EXCEPT !.at = "want", !.want = new, !.rest = Tail(w.rest)]
    BY <1>0, <2>1
  <2>3. w.held \in DOMAIN entries /\ Head(w.rest) \in Names
        /\ Tail(w.rest) \in Seq(Names) /\ Tail(w.rest) # <<>>
    BY <2>1, InDirectory DEF Walking
  <2>4. [name |-> Head(w.rest), subdirs |-> {}, releases |-> <<>>] \in Entry
    BY <2>3, EmptySeq DEF Entry
  <2>5. new \in DOMAIN entries'
    BY <2>1, <2>3, <2>4, Grows
  <2>6. w.held < new
    BY <1>3, <2>3
  <2> HIDE DEF w, new
  <2> QED
    BY <1>1, <1>2, <2>0, <2>2, <2>3, <2>5, <2>6 DEF ClientOK, WalkOK, Walk, Writes, Walking
<1>8. CASE List(c)
  <2>1. w.at = "in" /\ client' = [client EXCEPT ![c].at = "collect", ![c].todo = entries[w.held].subdirs]
    BY <1>8 DEF List
  <2>2. client'[c] = [w EXCEPT !.at = "collect", !.todo = entries[w.held].subdirs]
    BY <1>0, <2>1
  <2>3. w.at \in Walking
    BY <2>1 DEF Walking
  <2> HIDE DEF w
  <2>4. /\ client'[c].at = "collect" /\ client'[c].held = w.held /\ client'[c].want = w.want
        /\ client'[c].request = w.request /\ client'[c].rest = w.rest
        /\ DOMAIN client'[c] = DOMAIN w
    BY <1>2, <2>2, <2>3
  <2>5. WalkOK(client[c])'
    BY <1>2, <2>1, <2>3, <2>4 DEF WalkOK, Walk, Writes
  <2> QED
    BY <1>1, <2>4, <2>5 DEF ClientOK, Walking
<1>9. CASE Describe(c)
  <2>1. /\ w.at = "collect"
        /\ \E T, F : client' = [client EXCEPT ![c].todo = T, ![c].found = F]
    BY <1>9 DEF Describe
  <2>2. \E T, F : client'[c] = [w EXCEPT !.todo = T, !.found = F]
    BY ZenonT(30), <1>0, <2>1
  <2> HIDE DEF w
  <2> QED
    BY <1>1, <1>2, <2>1, <2>2 DEF ClientOK, WalkOK, Walk, Writes, Walking
<1>10. ASSUME NEW q \in Requests \ {NotValid}, client' = [client EXCEPT ![c] = Walk(q)],
              q.op = "put" => q.path # <<>>
       PROVE  ClientOK(c)'
  <2>1. client'[c] = Walk(q)
    BY <1>0, <1>10
  <2>2. q.path \in Seq(Names)
    BY RequestTypes
  <2>3. Root \in DOMAIN entries
    BY <1>3, EmptySeq DEF TypeOK, Root
  <2>4. /\ DOMAIN Walk(q) = DOMAIN Walk(Walk(q).request)
        /\ Walk(q).request = q /\ Walk(q).held = Nowhere /\ Walk(q).want = Root
        /\ Walk(q).rest = q.path /\ Walk(q).at = "want"
    BY DEF Walk
  <2> QED
    BY <1>0, <1>10, <2>1, <2>2, <2>3, <2>4
       DEF ClientOK, WalkOK, Writes, Walking, Nowhere, Root
<1>11. CASE \E q \in Requests \cup {Other} : Ask(c, q)
  <2>1. PICK q \in Requests \cup {Other} : Ask(c, q)
    BY <1>11
  <2>2. CASE q.op \in {"other", "put"}
    <3>1. client'[c] = [at |-> "other"]
           \/ (client'[c] = [at |-> "data", request |-> q] /\ q.op = "put")
      BY <1>0, <2>1, <2>2 DEF Ask
    <3>2. q.op = "put" => q \in Requests
      BY DEF Other
    <3> QED
      BY <1>1, <3>1, <3>2 DEF ClientOK, Walking
  <2>3. CASE q.op \notin {"other", "put"}
    <3>1. q \in Requests \ {NotValid}
      BY <2>3, RequestTypes DEF Other
    <3>2. client' = [client EXCEPT ![c] = Walk(q)]
      BY <2>1, <2>3 DEF Ask
    <3> QED
      BY <1>1, <1>10, <2>3, <3>1, <3>2
  <2> QED
    BY <2>2, <2>3
<1>12. CASE HaveData(c)
  <2>1. w.at = "data" /\ w.request \in Requests
    BY <1>0, <1>12 DEF HaveData, ClientOK
  <2>2. CASE client' = [client EXCEPT ![c] = Answered(Promise!Error)]
    BY <1>0, <2>2 DEF Answered, ClientOK, Walking
  <2>3. CASE w.request.valid /\ client' = [client EXCEPT ![c] = Walk(w.request)]
    <3>1. w.request.op = "put" => w.request # NotValid /\ w.request.path # <<>>
      BY <2>1, <2>3, RequestTypes
    <3>2. w.request # NotValid
      BY <2>3 DEF NotValid
    <3> HIDE DEF w
    <3> QED
      BY <1>1, <1>10, <2>1, <2>3, <3>1, <3>2
  <2> QED
    BY <1>12, <2>2, <2>3 DEF HaveData
<1>13. CASE Misses(c) \/ Get(c) \/ Commit(c) \/ Create(c) \/ Listed(c) \/ Usage(c)
  <2>1. \E answer : client' = [client EXCEPT ![c] = Answered(answer)]
    BY <1>13 DEF Misses, Get, Commit, Create, Listed, Usage, Finish
  <2> QED
    BY <1>0, <2>1 DEF Answered, ClientOK, Walking
<1>14. CASE Rest(c)
  BY <1>0, <1>14 DEF Rest, Idle, ClientOK, Walking
<1> QED
  BY <1>1, <1>4, <1>5, <1>6, <1>7, <1>8, <1>9, <1>11, <1>12, <1>13, <1>14 DEF Moves, Step

-----------------------------------------------------------------------------
(* The locks: each step *)

\* What c does to the locks leaves alone what others have of them.
LeavesOthers(c) ==
    \A e \in DOMAIN lock : \A d \in Clients \ {c} :
        /\ lock[e].writer = d => lock'[e].writer = d
        /\ d \in lock[e].readers => d \in lock'[e].readers
        /\ lock[e].writer = d /\ lock[e].readers = {} => lock'[e].readers = {}

\* What c has of them itself, once it has moved.
OwnLock(c) ==
    /\ Holds(c) /\ Writes(client[c]) =>
          lock[client[c].held].writer = c /\ lock[client[c].held].readers = {}
    /\ Holds(c) /\ ~ Writes(client[c]) => c \in lock[client[c].held].readers
    /\ client[c].at = "claimed" => Writes(client[c]) /\ lock[client[c].want].writer = c

LEMMA OwnLocks == LockInv <=> \A c \in Clients : OwnLock(c)
  BY DEF LockInv, OwnLock

\* A lock for the new entry.
LEMMA LockGrows ==
    ASSUME NEW L \in Seq(Lock)
    PROVE  /\ Append(L, Free) \in Seq(Lock) /\ Len(Append(L, Free)) = Len(L) + 1
           /\ \A e \in 1..Len(L) : Append(L, Free)[e] = L[e]
<1>1. Free \in Lock
  BY DEF Free, Lock
<1> QED
  BY <1>1, AppendProperties

LEMMA LockReleased ==
    ASSUME TypeOK, NEW c \in Clients, lock' = Release(c, client[c].held),
           Len(entries') = Len(entries), client'[c].at \notin Walking
    PROVE  /\ lock' \in Seq(Lock) /\ Len(lock') = Len(entries')
           /\ LeavesOthers(c) /\ OwnLock(c)'
<1>1. lock' \in Seq(Lock) /\ Len(lock') = Len(lock)
  BY ReleaseOK
<1>2. Len(lock) = Len(entries)
  BY DEF TypeOK
<1>3. LeavesOthers(c)
  BY ReleaseOK DEF LeavesOthers
<1>4. OwnLock(c)'
  BY DEF OwnLock, Holds, Walking
<1> QED
  BY <1>1, <1>2, <1>3, <1>4

LEMMA LockMove ==
    ASSUME TypeOK, LockInv, NEW c \in Clients, Moves(c)
    PROVE  /\ lock' \in Seq(Lock) /\ Len(lock') = Len(entries')
           /\ LeavesOthers(c) /\ OwnLock(c)'
<1> DEFINE w == client[c]
           Goal == /\ lock' \in Seq(Lock) /\ Len(lock') = Len(entries')
                   /\ LeavesOthers(c) /\ OwnLock(c)'
<1>0. /\ lock \in Seq(Lock) /\ Len(lock) = Len(entries) /\ OwnLock(c) /\ DOMAIN client = Clients
      /\ DOMAIN lock = 1..Len(lock) /\ Len(lock) \in Nat
      /\ \A e \in DOMAIN lock : lock[e] \in Lock
      /\ lock \in [1..Len(lock) -> Lock]
      /\ Nobody \notin Clients
  BY OwnLocks, LenProperties, ElementOfSeq, ClientsAssumption DEF TypeOK, Nobody
<1>1. w.at \in Walking =>
         /\ DOMAIN w = {"at", "request", "held", "want", "rest", "found", "todo"}
         /\ w.want \in DOMAIN lock /\ DOMAIN lock = DOMAIN entries
         /\ w.at \in {"want", "claimed"} => w.held < w.want
  BY InDirectory DEF WalkOK, Walk
<1>2. CASE Claim(c)
  <2>1. /\ w.at = "want" /\ Writes(w) /\ lock[w.want].writer = Nobody /\ UNCHANGED entries
        /\ lock' = [lock EXCEPT ![w.want].writer = c]
        /\ client' = [client EXCEPT ![c].at = "claimed"]
    BY <1>2 DEF Claim
  <2>2. client'[c] = [w EXCEPT !.at = "claimed"]
    BY <1>0, <2>1
  <2>3. w.want \in DOMAIN lock /\ w.held # w.want
    <3>1. w.held < w.want /\ w.want \in Nat
      BY <1>0, <1>1, <2>1 DEF Walking
    <3>2. w.held \in Nat
      BY <1>0, <1>1, <2>1 DEF Walking, TypeOK, WalkOK, Nowhere
    <3> QED
      BY <1>1, <2>1, <3>1, <3>2 DEF Walking
  <2>4. \A e \in DOMAIN lock : /\ lock'[e].readers = lock[e].readers
                               /\ e # w.want => lock'[e] = lock[e]
                               /\ e = w.want => lock'[e].writer = c
    BY <1>0, <2>1 DEF Lock
  <2>5. lock' \in [1..Len(lock) -> Lock]
    <3>1. [lock[w.want] EXCEPT !.writer = c] \in Lock
      BY <1>0, <2>3 DEF Lock
    <3>2. lock' = [lock EXCEPT ![w.want] = [lock[w.want] EXCEPT !.writer = c]]
      BY <2>1
    <3> QED
      BY <1>0, <3>1, <3>2
  <2>6. lock' \in Seq(Lock) /\ Len(lock') = Len(entries')
    BY <1>0, <2>1, <2>5, SeqOfFunction
  <2>7. LeavesOthers(c)
    BY <1>0, <2>1, <2>4 DEF LeavesOthers
  <2>8. /\ client'[c].at = "claimed" /\ client'[c].held = w.held /\ client'[c].want = w.want
        /\ client'[c].request = w.request
    BY <1>1, <2>1, <2>2 DEF Walking
  <2>9. w.held # Nowhere => w.held \in DOMAIN lock
    BY <1>0, <1>1, <2>1 DEF Walking, TypeOK, WalkOK
  <2> HIDE DEF w
  <2>10. OwnLock(c)'
    <3>1. w.held # Nowhere => lock[w.held].writer = c /\ lock[w.held].readers = {}
      BY <1>0, <2>1 DEF OwnLock, Holds, Walking, w
    <3>2. w.held # Nowhere => lock'[w.held] = lock[w.held]
      BY <2>3, <2>4, <2>9
    <3>3. Writes(client[c])'
      BY <2>1, <2>8 DEF Writes
    <3> QED
      BY <2>3, <2>4, <2>8, <3>1, <3>2, <3>3 DEF OwnLock, Holds
  <2> QED
    BY <2>6, <2>7, <2>10
<1>3. CASE Enter(c)
  <2> DEFINE left == Release(c, w.held)
  <2>1. /\ w.at \in {"want", "claimed"} /\ UNCHANGED entries
        /\ client' = [client EXCEPT ![c].at = "in", ![c].held = w.want]
        /\ \/ w.at = "claimed" /\ lock[w.want].readers = {} /\ lock' = left
           \/ /\ w.at = "want" /\ ~ Writes(w) /\ lock[w.want].writer = Nobody
              /\ lock' = [left EXCEPT ![w.want].readers = @ \cup {c}]
    BY <1>3 DEF Enter
  <2>2. client'[c] = [w EXCEPT !.at = "in", !.held = w.want]
    BY <1>0, <2>1
  <2>3. w.want \in DOMAIN lock /\ w.held # w.want
    <3>1. w.held < w.want /\ w.want \in Nat
      BY <1>0, <1>1, <2>1 DEF Walking
    <3>2. w.held \in Nat
      BY <1>0, <1>1, <2>1 DEF Walking, TypeOK, WalkOK, Nowhere
    <3> QED
      BY <1>1, <2>1, <3>1, <3>2 DEF Walking
  <2>4. /\ left \in Seq(Lock) /\ Len(left) = Len(lock)
        /\ \A e \in DOMAIN lock : e # w.held => left[e] = lock[e]
        /\ w.held \in DOMAIN lock =>
              /\ left[w.held].readers = lock[w.held].readers \ {c}
              /\ left[w.held].writer = IF lock[w.held].writer = c THEN Nobody
                                       ELSE lock[w.held].writer
    BY ReleaseOK
  <2>5. left \in [1..Len(lock) -> Lock]
    BY <2>4, LenProperties
  <2>6. /\ client'[c].at = "in" /\ client'[c].held = w.want /\ client'[c].request = w.request
    <3>1. DOMAIN w = {"at", "request", "held", "want", "rest", "found", "todo"}
      BY <1>1, <2>1 DEF Walking
    <3> HIDE DEF w
    <3> QED
      BY <2>2, <3>1
  <2> HIDE DEF left
  <2>7. CASE w.at = "claimed" /\ lock[w.want].readers = {} /\ lock' = left
    <3>1. lock'[w.want].writer = c /\ lock'[w.want].readers = {} /\ Writes(w)
      BY <1>0, <2>3, <2>4, <2>7 DEF OwnLock
    <3>2. Writes(client[c])'
      BY <2>6, <3>1 DEF Writes
    <3>3. OwnLock(c)'
      BY <2>6, <3>1, <3>2 DEF OwnLock, Holds
    <3>4. LeavesOthers(c)
      BY <1>0, <2>4, <2>7 DEF LeavesOthers
    <3> QED
      BY <1>0, <2>1, <2>4, <2>7, <3>3, <3>4
  <2>8. CASE /\ w.at = "want" /\ ~ Writes(w) /\ lock[w.want].writer = Nobody
             /\ lock' = [left EXCEPT ![w.want].readers = @ \cup {c}]
    <3>1. \A e \in DOMAIN lock : /\ lock'[e].writer = left[e].writer
                                 /\ e # w.want => lock'[e] = left[e]
                                 /\ e = w.want => lock'[e].readers = left[e].readers \cup {c}
      BY <1>0, <2>5, <2>8 DEF Lock
    <3>2. lock' \in [1..Len(lock) -> Lock]
      <4>1. left[w.want] \in Lock
        BY <1>0, <2>3, <2>5
      <4>2. [left[w.want] EXCEPT !.readers = left[w.want].readers \cup {c}] \in Lock
        BY <4>1 DEF Lock
      <4>3. lock' = [left EXCEPT ![w.want] =
                        [left[w.want] EXCEPT !.readers = left[w.want].readers \cup {c}]]
        BY <2>8
      <4> QED
        BY <1>0, <2>5, <4>2, <4>3
    <3>3. lock' \in Seq(Lock) /\ Len(lock') = Len(entries')
      BY <1>0, <2>1, <3>2, SeqOfFunction
    <3>4. LeavesOthers(c)
      BY <1>0, <2>4, <2>8, <3>1 DEF LeavesOthers
    <3>5. ~ Writes(client[c])' /\ c \in lock'[w.want].readers
      BY <2>3, <2>6, <2>8, <3>1 DEF Writes
    <3> QED
      BY <2>6, <3>3, <3>4, <3>5 DEF OwnLock, Holds
  <2> QED
    BY <2>1, <2>7, <2>8
<1>4. CASE Descend(c) \/ List(c) \/ Describe(c)
  <2>1. /\ w.at \in {"in", "collect"} /\ UNCHANGED <<lock, entries>>
        /\ \/ \E e, r : client' = [client EXCEPT ![c].at = "want", ![c].want = e, ![c].rest = r]
           \/ \E t : client' = [client EXCEPT ![c].at = "collect", ![c].todo = t]
           \/ \E t, f : client' = [client EXCEPT ![c].todo = t, ![c].found = f]
    BY <1>4 DEF Descend, List, Describe
  <2>2. /\ client'[c].at # "claimed" /\ client'[c].held = w.held /\ client'[c].request = w.request
    <3>1. DOMAIN w = {"at", "request", "held", "want", "rest", "found", "todo"}
      BY <1>1, <2>1 DEF Walking
    <3> DEFINE Same(v) == /\ v.at # "claimed" /\ v.held = w.held /\ v.request = w.request
    <3>2. ASSUME NEW e, NEW r,
                 client' = [client EXCEPT ![c].at = "want", ![c].want = e, ![c].rest = r]
          PROVE  Same(client'[c])
      <4>1. client'[c] = [w EXCEPT !.at = "want", !.want = e, !.rest = r]
        BY <1>0, <3>2
      <4> HIDE DEF w
      <4> QED
        BY <3>1, <4>1
    <3>3. ASSUME NEW t, client' = [client EXCEPT ![c].at = "collect", ![c].todo = t]
          PROVE  Same(client'[c])
      <4>1. client'[c] = [w EXCEPT !.at = "collect", !.todo = t]
        BY <1>0, <3>3
      <4> HIDE DEF w
      <4> QED
        BY <3>1, <4>1
    <3>4. ASSUME NEW t, NEW f, client' = [client EXCEPT ![c].todo = t, ![c].found = f]
          PROVE  Same(client'[c])
      <4>1. client'[c] = [w EXCEPT !.todo = t, !.found = f]
        BY <1>0, <3>4
      <4> HIDE DEF w
      <4> QED
        BY <2>1, <3>1, <4>1
    <3> QED
      BY <2>1, <3>2, <3>3, <3>4
  <2>3. w.at \in Walking
    BY <2>1 DEF Walking
  <2> HIDE DEF w
  <2>4. OwnLock(c)'
    BY <1>0, <2>1, <2>2, <2>3 DEF OwnLock, Holds, Writes, w
  <2>5. LeavesOthers(c)
    BY <2>1 DEF LeavesOthers
  <2> QED
    BY ZenonT(30), <1>0, <2>1, <2>4, <2>5
<1>5. CASE MakeDir(c)
  <2>1. /\ w.at = "in" /\ lock' = Append(lock, Free)
        /\ \E e, r : client' = [client EXCEPT ![c].at = "want", ![c].want = e, ![c].rest = r]
    BY <1>5 DEF MakeDir
  <2>2. Len(entries') = Len(entries) + 1
    BY <1>5, MakesEntry, Lengthens
  <2>3. /\ lock' \in Seq(Lock) /\ Len(lock') = Len(entries')
        /\ \A e \in DOMAIN lock : lock'[e] = lock[e]
    BY <1>0, <2>1, <2>2, LockGrows
  <2>4. /\ client'[c].at = "want" /\ client'[c].held = w.held /\ client'[c].request = w.request
    <3>1. DOMAIN w = {"at", "request", "held", "want", "rest", "found", "todo"}
      BY <1>1, <2>1 DEF Walking
    <3>2. PICK e, r : client' = [client EXCEPT ![c].at = "want", ![c].want = e, ![c].rest = r]
      BY <2>1
    <3>3. client'[c] = [w EXCEPT !.at = "want", !.want = e, !.rest = r]
      BY <1>0, <3>2
    <3> HIDE DEF w
    <3> QED
      BY <3>1, <3>3
  <2>5. LeavesOthers(c)
    BY <2>3 DEF LeavesOthers
  <2>6. w.at \in Walking /\ w.held \in DOMAIN lock
    BY <1>1, <2>1, InDirectory DEF Walking
  <2>7. OwnLock(c)'
    BY <1>0, <2>3, <2>4, <2>6 DEF OwnLock, Holds, Writes
  <2> QED
    BY <2>3, <2>5, <2>7
<1>6. CASE Create(c)
  <2>1. /\ lock' = Append(Release(c, w.held), Free)
        /\ \E a : client' = [client EXCEPT ![c] = Answered(a)]
    BY <1>6 DEF Create
  <2>2. Len(entries') = Len(entries) + 1
    BY <1>6, MakesEntry, Lengthens
  <2> DEFINE left == Release(c, w.held)
  <2>3. /\ left \in Seq(Lock) /\ Len(left) = Len(lock)
        /\ \A e \in DOMAIN lock : e # w.held => left[e] = lock[e]
        /\ w.held \in DOMAIN lock =>
              /\ left[w.held].readers = lock[w.held].readers \ {c}
              /\ left[w.held].writer = IF lock[w.held].writer = c THEN Nobody
                                       ELSE lock[w.held].writer
    BY ReleaseOK
  <2>4. /\ lock' \in Seq(Lock) /\ Len(lock') = Len(entries')
        /\ \A e \in DOMAIN lock : lock'[e] = left[e]
    BY <1>0, <2>1, <2>2, <2>3, LockGrows
  <2> HIDE DEF left
  <2>5. LeavesOthers(c)
    BY <1>0, <2>3, <2>4 DEF LeavesOthers
  <2>6. OwnLock(c)'
    BY <1>0, <2>1 DEF OwnLock, Holds, Walking, Answered
  <2> QED
    BY <2>4, <2>5, <2>6
<1>7. CASE Misses(c) \/ Get(c) \/ Commit(c) \/ Listed(c)
  <2>1. /\ lock' = Release(c, w.held)
        /\ \E a : client' = [client EXCEPT ![c] = Answered(a)]
    BY <1>7 DEF Misses, Get, Commit, Listed, Finish
  <2>2. client'[c].at \notin Walking
    BY <1>0, <2>1 DEF Walking, Answered
  <2>3. Len(entries') = Len(entries)
    <3>1. CASE UNCHANGED entries
      BY <3>1
    <3>2. CASE Commit(c)
      BY <3>2, Revised, CommitsEntry
    <3> QED
      BY <1>7, <3>1, <3>2 DEF Misses, Get, Listed
  <2> QED
    BY <2>1, <2>2, <2>3, LockReleased
<1>8. CASE Usage(c) \/ HaveData(c) \/ Rest(c) \/ \E q \in Requests \cup {Other} : Ask(c, q)
  <2>1. UNCHANGED <<lock, entries>>
    BY <1>8 DEF Usage, HaveData, Rest, Ask
  <2>2. /\ client'[c].at # "claimed"
        /\ client'[c].at \in Walking => client'[c].held = Nowhere
    BY <1>0, <1>8 DEF Usage, HaveData, Rest, Ask, Walk, Answered, Idle, Walking
  <2> QED
    BY <1>0, <2>1, <2>2 DEF LeavesOthers, OwnLock, Holds
<1> QED
  BY <1>2, <1>3, <1>4, <1>5, <1>6, <1>7, <1>8 DEF Moves, Step

-----------------------------------------------------------------------------
(* The theorems *)

LEMMA MoveStep ==
    ASSUME Inv, NEW c \in Clients, Moves(c)
    PROVE  Inv'
<1>0. TypeOK /\ LockInv /\ NamesAreUnique /\ NoRevisionTwice
  BY DEF Inv
<1>1. /\ entries' \in Seq(Entry) /\ entries' # <<>>
      /\ \A e \in DOMAIN entries' : entries'[e].subdirs \subseteq (e + 1)..Len(entries')
      /\ DOMAIN entries \subseteq DOMAIN entries'
      /\ NamesAreUnique' /\ NoRevisionTwice'
  BY <1>0, EntriesStep
<1>2. /\ lock' \in Seq(Lock) /\ Len(lock') = Len(entries')
      /\ LeavesOthers(c) /\ OwnLock(c)'
  BY <1>0, LockMove
<1>3. /\ DOMAIN client' = Clients /\ \A d \in Clients \ {c} : client'[d] = client[d]
      /\ ClientOK(c)'
  BY <1>0, ClientMove
<1>4. \A d \in Clients : ClientOK(d)'
  <2>1. ASSUME NEW d \in Clients \ {c} PROVE ClientOK(d)'
    <3>1. ClientOK(d) /\ client'[d] = client[d]
      BY <1>0, <1>3 DEF TypeOK, ClientOK
    <3> QED
      BY <1>1, <3>1 DEF ClientOK, WalkOK
  <2> QED
    BY <1>3, <2>1
<1>5. puts' \in 0..MaxPuts
  <2>1. puts' = puts \/ (puts < MaxPuts /\ puts' = puts + 1)
    BY DEF Moves, Step, Claim, Enter, Descend, MakeDir, Misses, Get, Commit, Create, List,
           Describe, Listed, Usage, HaveData, Rest, Ask
  <2> QED
    BY SMTT(30), <1>0, <2>1, MaxPutsAssumption DEF TypeOK
<1>6. TypeOK'
  BY <1>1, <1>2, <1>3, <1>4, <1>5 DEF TypeOK, ClientOK
<1>7. LockInv'
  <2>1. ASSUME NEW d \in Clients \ {c} PROVE OwnLock(d)'
    <3>1. client'[d] = client[d] /\ OwnLock(d)
      BY <1>0, <1>3, OwnLocks
    <3>2. client[d].at \in Walking =>
             /\ client[d].held # Nowhere => client[d].held \in DOMAIN lock
             /\ client[d].want \in DOMAIN lock
      BY <1>0, InDirectory DEF WalkOK
    <3>3. client[d].at = "claimed" => client[d].at \in Walking
      BY DEF Walking
    <3> QED
      BY <1>2, <3>1, <3>2, <3>3 DEF OwnLock, Holds, LeavesOthers
  <2> QED
    BY <1>2, <2>1 DEF LockInv, OwnLock
<1> QED
  BY <1>1, <1>6, <1>7 DEF Inv

LEMMA InvInit == Init => Inv
<1> SUFFICES ASSUME Init PROVE Inv
  OBVIOUS
<1> DEFINE root == [name |-> "/", subdirs |-> {}, releases |-> <<>>]
<1>1. entries = <<root>> /\ lock = <<Free>> /\ client = [c \in Clients |-> Idle] /\ puts = 0
  BY DEF Init
<1>2. root \in Entry /\ root.subdirs = {} /\ root.releases = <<>> /\ Free \in Lock
  BY EmptySeq DEF Entry, Free, Lock
<1> HIDE DEF root
<1>3. /\ entries \in Seq(Entry) /\ Len(entries) = 1 /\ DOMAIN entries = {1} /\ entries[1] = root
      /\ entries # <<>>
  BY <1>1, <1>2
<1>4. lock \in Seq(Lock) /\ Len(lock) = 1
  BY <1>1, <1>2
<1>5. \A c \in Clients : client[c].at = "idle"
  BY <1>1 DEF Idle
<1>6. TypeOK
  <2>1. puts \in 0..MaxPuts
    BY <1>1, MaxPutsAssumption
  <2>2. DOMAIN client = Clients
    BY <1>1
  <2> QED
    BY <1>2, <1>3, <1>4, <1>5, <2>1, <2>2 DEF TypeOK, Walking
<1>7. LockInv
  BY <1>5 DEF LockInv, Holds, Walking
<1>8. NamesAreUnique /\ NoRevisionTwice
  BY <1>2, <1>3 DEF NamesAreUnique, NoRevisionTwice
<1> QED
  BY <1>6, <1>7, <1>8 DEF Inv

LEMMA InvStep == Inv /\ [Next]_vars => Inv'
<1> SUFFICES ASSUME Inv, [Next]_vars PROVE Inv'
  OBVIOUS
<1>1. CASE Next
  BY <1>1, MoveStep DEF Next, Moves
<1>2. CASE UNCHANGED vars
  BY <1>2 DEF vars, Inv, TypeOK, WalkOK, LockInv, Holds, NamesAreUnique, NoRevisionTwice
<1> QED
  BY <1>1, <1>2

\* The invariant that the others follow from: the walks have the locks that they say.
THEOREM Invariance == Spec => []Inv
  BY InvInit, InvStep, PTL DEF Spec

\* Every variable keeps its type, and walks only go down the tree.
THEOREM TypeCorrect == Spec => []TypeOK
<1>1. Inv => TypeOK
  BY DEF Inv
<1> QED
  BY <1>1, Invariance, PTL

\* Two entries of one directory never have one name (vcs.rs:201-213).
THEOREM UniqueNames == Spec => []NamesAreUnique
<1>1. Inv => NamesAreUnique
  BY DEF Inv
<1> QED
  BY <1>1, Invariance, PTL

\* No revision repeats the one before it (vcs.rs:217-232).
THEOREM NewRevisions == Spec => []NoRevisionTwice
<1>1. Inv => NoRevisionTwice
  BY DEF Inv
<1> QED
  BY <1>1, Invariance, PTL

\* A put has the directory it walks for itself (vcs.rs:195-236): what makes one
\* step of its look at the entries and its change to them.
THEOREM PutsAlone == Spec => []AloneInDirectory
<1>1. Inv => AloneInDirectory
  BY DEF Inv, LockInv, AloneInDirectory
<1> QED
  BY <1>1, Invariance, PTL

-----------------------------------------------------------------------------
(* The walks implement the board.  A request takes effect on the store that  *)
(* is promised when its walk enters the root, and on the tree when the walk   *)
(* arrives.  In between, walks of puts and of other requests follow each      *)
(* other down the tree, and none overtakes another.  So each directory d on   *)
(* the way of a file q sees the file as it will be once all the puts that     *)
(* have passed d have arrived: view[q][k], for the d at depth k.  At the root *)
(* it is the file that is promised, at the end what the tree holds, and it    *)
(* changes by one put only where a walk holds the directory in between.       *)

Prefix(q, k) == SubSeq(q, 1, k)

\* Path q is below p, or p itself.
Under(p, q) == Len(q) >= Len(p) /\ SubSeq(q, 1, Len(p)) = p

\* What the requests are answered on a store st, and what a put makes of a file.
ExistsIn(st, p) == p = <<>> \/ \E q \in Paths : Under(p, q) /\ st[q] # <<>>

ChildrenIn(st, p) ==
    {q \in Paths : Len(q) = Len(p) + 1 /\ SubSeq(q, 1, Len(p)) = p /\ ExistsIn(st, q)}

EntryIn(st, q) == IF st[q] = <<>>
                  THEN [name |-> q[Len(q)], kind |-> "DIR",
                        count |-> Cardinality(ChildrenIn(st, q))]
                  ELSE [name |-> q[Len(q)], kind |-> "file", count |-> Len(st[q])]

IsLastOf(r, d) == r # <<>> /\ r[Len(r)] = d

Put(r, d) == IF IsLastOf(r, d) THEN r ELSE Append(r, d)

AnswerIn(st, q) ==
    CASE q.op = "list" -> IF ExistsIn(st, q.path)
                          THEN Promise!Listing({EntryIn(st, p) : p \in ChildrenIn(st, q.path)})
                          ELSE Promise!Error
      [] q.op = "get"  -> IF q.rev \in DOMAIN st[q.path]
                          THEN Promise!Content(st[q.path][q.rev]) ELSE Promise!Error
      [] q.op = "last" -> IF st[q.path] # <<>>
                          THEN Promise!Content(st[q.path][Len(st[q.path])]) ELSE Promise!Error
      [] q.op = "put"  -> IF q.valid
                          THEN Promise!Numbered(Len(st[q.path])
                                   + IF IsLastOf(st[q.path], q.data) THEN 0 ELSE 1)
                          ELSE Promise!Error
      [] q.op = "other" -> Promise!Error

-----------------------------------------------------------------------------
(* The tree *)

\* where[e] is the path of the entry e.
Tree(where) ==
    /\ where \in [DOMAIN entries -> Paths]
    /\ where[Root] = <<>> /\ entries[Root].releases = <<>>
    /\ \A e, f \in DOMAIN entries : where[e] = where[f] => e = f
    /\ \A d \in DOMAIN entries : \A e \in entries[d].subdirs :
          where[e] = Append(where[d], entries[e].name)
    /\ \A e \in DOMAIN entries \ {Root} : \E d \in DOMAIN entries : e \in entries[d].subdirs

\* Where the walk w is on the way of its request.
Depth(w) == Len(w.request.path) - Len(w.rest)

WayOf(w, where) ==
    /\ Len(w.rest) <= Len(w.request.path)
    /\ where[w.want] = Prefix(w.request.path, Depth(w))
    /\ \A i \in 1 .. Len(w.rest) : w.rest[i] = w.request.path[Depth(w) + i]
    /\ w.at \in {"want", "claimed"} =>
          IF w.held = Nowhere THEN w.want = Root ELSE w.want \in entries[w.held].subdirs
    /\ w.at \in {"in", "collect"} => w.held # Nowhere
    /\ w.request.op = "list" \/ w.request.path = <<>> \/ w.rest # <<>>
    /\ IF w.at = "collect" THEN w.request.op = "list" /\ w.rest = <<>> ELSE w.found = {}

Ways(where) == \A c \in Clients : client[c].at \in Walking => WayOf(client[c], where)

-----------------------------------------------------------------------------
(* The views *)

\* Of each path q, and each directory on its way at depth k, the file as it will
\* be found by a walk that is there now: view[q][k].

\* The walk of c will put at q, and holds the directory d.
PutsFrom(c, q, d) ==
    Holds(c) /\ Writes(client[c]) /\ client[c].request.path = q /\ client[c].held = d

\* The walk of c is about to enter e, made for it or not.
ComesTo(c, e) ==
    Holds(c) /\ Writes(client[c]) /\ client[c].at \in {"want", "claimed"} /\ client[c].want = e

ViewOK(where, view) ==
    /\ \A q \in Paths : view[q][0] = store[q]
    /\ \A e \in DOMAIN entries : view[where[e]][Len(where[e])] = entries[e].releases
    /\ \A q \in Paths : \A k \in 0 .. Len(q) :
          view[q][k] # <<>> => \E e \in DOMAIN entries : where[e] = Prefix(q, k)
    /\ \A q \in Paths : \A k \in 0 .. Len(q) - 1 :
          \/ view[q][k] = view[q][k + 1]
          \/ \E c \in Clients : \E d \in DOMAIN entries : PutsFrom(c, q, d) /\ where[d] = Prefix(q, k)
    /\ \A c \in Clients : \A q \in Paths : \A d \in DOMAIN entries : PutsFrom(c, q, d) =>
          view[q][Len(where[d])] = Put(view[q][Len(where[d]) + 1], client[c].request.data)
    /\ \A e \in DOMAIN entries \ {Root} :
          \/ /\ \E c \in Clients : ComesTo(c, e)
             /\ \A c \in Clients : Holds(c) => client[c].held # e
          \/ \E q \in Paths : Under(where[e], q) /\ view[q][Len(where[e])] # <<>>

-----------------------------------------------------------------------------
(* The promises *)

Seen(view, k) == [q \in Paths |-> view[q][k]]

Level(c, where) == Len(where[client[c].held]) + IF Writes(client[c]) THEN 1 ELSE 0

Kept(c, where, view) ==
    /\ client[c].at = "idle" => promised[c].at = "idle"
    /\ client[c].at = "data" => Writes(client[c])
    /\ client[c].at = "other" => promised[c] = [at |-> "asked", request |-> Other]
    /\ client[c].at = "data" \/ (client[c].at \in Walking /\ ~ Holds(c)) =>
          promised[c] = [at |-> "asked", request |-> client[c].request]
    /\ Holds(c) =>
          promised[c] = Answered(AnswerIn(Seen(view, Level(c, where)), client[c].request))
    /\ client[c].at = "answered" => promised[c] = client[c]
    /\ client[c].at = "collect" =>
          LET subdirs == entries[client[c].held].subdirs IN
          /\ client[c].todo \subseteq subdirs
          /\ client[c].found = {EntryIn(Seen(view, Level(c, where)), where[e]) :
                                   e \in subdirs \ client[c].todo}

Promises(where, view) == \A c \in Clients : Kept(c, where, view)

-----------------------------------------------------------------------------
(* Paths *)

\* What is known of a path and of its prefixes.
LEMMA PathTypes ==
    ASSUME NEW q \in Paths
    PROVE  q \in Seq(Names) /\ Len(q) \in Nat /\ DOMAIN q = 1 .. Len(q)
<1>1. q \in Seq(Names)
  BY PathsAssumption
<1> QED
  BY <1>1, LenProperties

LEMMA PrefixIs ==
    ASSUME NEW S, NEW q \in Seq(S), NEW k \in 0 .. Len(q)
    PROVE  /\ Prefix(q, k) \in Seq(S) /\ Len(Prefix(q, k)) = k
           /\ \A i \in 1 .. k : Prefix(q, k)[i] = q[i]
<1>1. Len(q) \in Nat /\ k \in Int /\ 1 \in Int
  BY LenProperties
<1>2. \A i \in 1 .. k : q[i] \in S
  BY <1>1, LenProperties
<1>3. /\ SubSeq(q, 1, k) \in Seq(S)
      /\ Len(SubSeq(q, 1, k)) = IF 1 <= k THEN k - 1 + 1 ELSE 0
      /\ \A i \in 1 .. k - 1 + 1 : SubSeq(q, 1, k)[i] = q[1 + i - 1]
  BY <1>1, <1>2, SubSeqProperties
<1> DEFINE p == SubSeq(q, 1, k)
<1>4. Len(p) = k /\ \A i \in 1 .. k : p[i] = q[i]
  <2> HIDE DEF p
  <2>1. Len(p) = IF 1 <= k THEN k - 1 + 1 ELSE 0
    BY <1>3 DEF p
  <2>2. \A i \in 1 .. k - 1 + 1 : p[i] = q[1 + i - 1]
    BY <1>3 DEF p
  <2>3. ASSUME NEW i \in 1 .. k PROVE p[i] = q[i]
    <3>1. i \in 1 .. k - 1 + 1 /\ 1 + i - 1 = i
      BY <1>1
    <3> QED
      BY <2>2, <3>1
  <2> QED
    BY <1>1, <2>1, <2>3
<1> QED
  BY <1>3, <1>4 DEF Prefix

LEMMA PrefixEnds ==
    ASSUME NEW S, NEW q \in Seq(S)
    PROVE  Prefix(q, Len(q)) = q /\ Prefix(q, 0) = <<>>
BY SubSeqFull, SubSeqEmpty DEF Prefix

LEMMA PrefixOfPrefix ==
    ASSUME NEW S, NEW q \in Seq(S), NEW k \in 0 .. Len(q), NEW j \in 0 .. k
    PROVE  Prefix(Prefix(q, k), j) = Prefix(q, j)
<1>1. Len(q) \in Nat /\ j \in 0 .. Len(q)
  BY LenProperties
<1>2. /\ Prefix(q, k) \in Seq(S) /\ Len(Prefix(q, k)) = k
      /\ \A i \in 1 .. k : Prefix(q, k)[i] = q[i]
  BY PrefixIs
<1>3. /\ Prefix(Prefix(q, k), j) \in Seq(S) /\ Len(Prefix(Prefix(q, k), j)) = j
      /\ \A i \in 1 .. j : Prefix(Prefix(q, k), j)[i] = Prefix(q, k)[i]
  BY <1>2, PrefixIs
<1>4. /\ Prefix(q, j) \in Seq(S) /\ Len(Prefix(q, j)) = j
      /\ \A i \in 1 .. j : Prefix(q, j)[i] = q[i]
  BY <1>1, PrefixIs
<1>5. \A i \in 1 .. j : Prefix(Prefix(q, k), j)[i] = Prefix(q, j)[i]
  BY <1>2, <1>3, <1>4
<1> QED
  BY <1>3, <1>4, <1>5, SeqEqual

LEMMA PrefixGrows ==
    ASSUME NEW S, NEW q \in Seq(S), NEW k \in 0 .. Len(q) - 1
    PROVE  Prefix(q, k + 1) = Append(Prefix(q, k), q[k + 1]) /\ q[k + 1] \in S
<1>1. Len(q) \in Nat /\ k \in 0 .. Len(q) /\ k + 1 \in 0 .. Len(q) /\ k + 1 \in 1 .. Len(q)
  BY LenProperties
<1>2. q[k + 1] \in S
  BY <1>1, ElementOfSeq
<1> DEFINE p == Prefix(q, k)
           r == Append(p, q[k + 1])
<1>3. p \in Seq(S) /\ Len(p) = k /\ \A i \in 1 .. k : p[i] = q[i]
  BY <1>1, PrefixIs
<1>4. /\ r \in Seq(S) /\ Len(r) = Len(p) + 1
      /\ \A i \in 1 .. Len(p) : r[i] = p[i]
      /\ r[Len(p) + 1] = q[k + 1]
  BY <1>2, <1>3, AppendProperties
<1>5. /\ Prefix(q, k + 1) \in Seq(S) /\ Len(Prefix(q, k + 1)) = k + 1
      /\ \A i \in 1 .. k + 1 : Prefix(q, k + 1)[i] = q[i]
  BY <1>1, PrefixIs
<1> HIDE DEF p, r
<1>6. \A i \in 1 .. k + 1 : Prefix(q, k + 1)[i] = r[i]
  <2>1. \A i \in 1 .. k + 1 : i = k + 1 \/ i \in 1 .. k
    BY <1>1
  <2> QED
    BY <1>3, <1>4, <1>5, <2>1
<1>7. Prefix(q, k + 1) = r
  BY <1>3, <1>4, <1>5, <1>6, SeqEqual
<1> QED
  BY <1>2, <1>7 DEF p, r

LEMMA PrefixIsPath ==
    ASSUME NEW q \in Paths, NEW k \in 0 .. Len(q)
    PROVE  /\ Prefix(q, k) \in Paths /\ Len(Prefix(q, k)) = k
           /\ Under(Prefix(q, k), q)
<1>1. Prefix(q, k) \in Paths
  BY PathsAreClosed DEF Prefix
<1>2. Len(Prefix(q, k)) = k /\ k <= Len(q)
  BY PathTypes, PrefixIs
<1> QED
  BY <1>1, <1>2 DEF Under, Prefix

LEMMA UnderIs ==
    ASSUME NEW p \in Paths, NEW q \in Paths
    PROVE  Under(p, q) <=> Len(p) \in 0 .. Len(q) /\ Prefix(q, Len(p)) = p
BY PathTypes DEF Under, Prefix

LEMMA UnderItself ==
    ASSUME NEW p \in Paths
    PROVE  Under(p, p)
BY SMTT(30), PathTypes, PrefixEnds, UnderIs

LEMMA UnderUnder ==
    ASSUME NEW p \in Paths, NEW q \in Paths, NEW r \in Paths, Under(p, q), Under(q, r)
    PROVE  Under(p, r)
<1>1. /\ Len(p) \in 0 .. Len(q) /\ Prefix(q, Len(p)) = p
      /\ Len(q) \in 0 .. Len(r) /\ Prefix(r, Len(q)) = q
  BY UnderIs
<1>2. Prefix(Prefix(r, Len(q)), Len(p)) = Prefix(r, Len(p))
  BY <1>1, PathTypes, PrefixOfPrefix
<1>3. Len(p) \in 0 .. Len(r)
  BY <1>1, PathTypes
<1> QED
  BY <1>1, <1>2, <1>3, UnderIs

\* Two directories on one way.
LEMMA OneWay ==
    ASSUME NEW p \in Paths, NEW q \in Paths, NEW r \in Paths,
           Under(p, r), Under(q, r), Len(p) <= Len(q)
    PROVE  Under(p, q)
<1>1. /\ Len(p) \in 0 .. Len(r) /\ Prefix(r, Len(p)) = p
      /\ Len(q) \in 0 .. Len(r) /\ Prefix(r, Len(q)) = q
  BY UnderIs
<1>2. Len(p) \in 0 .. Len(q)
  BY <1>1, PathTypes
<1>3. Prefix(Prefix(r, Len(q)), Len(p)) = Prefix(r, Len(p))
  BY <1>1, <1>2, PathTypes, PrefixOfPrefix
<1> QED
  BY <1>1, <1>2, <1>3, UnderIs

LEMMA SameDepth ==
    ASSUME NEW p \in Paths, NEW q \in Paths, Under(p, q), Len(p) = Len(q)
    PROVE  p = q
BY PathTypes, PrefixEnds, UnderIs

-----------------------------------------------------------------------------
(* The answers *)

LEMMA AnswersAre == \A q : Promise!Answer(q) = AnswerIn(store, q)
<1>1. \A p : Promise!Exists(p) = ExistsIn(store, p)
  BY DEF Promise!Exists, ExistsIn, Under
<1>2. \A p : Promise!Children(p) = ChildrenIn(store, p)
  BY <1>1 DEF Promise!Children, ChildrenIn
<1>3. \A q : Promise!Entry(q) = EntryIn(store, q)
  <2>1. \A S : Promise!Cardinality(S) = Cardinality(S)
    BY DEF Promise!Cardinality, Cardinality
  <2> QED
    BY <1>2, <2>1 DEF Promise!Entry, EntryIn
<1>4. \A p, d : Promise!IsLast(p, d) = IsLastOf(store[p], d)
  BY DEF Promise!IsLast, IsLastOf
<1>5. ASSUME NEW q PROVE Promise!Answer(q) = AnswerIn(store, q)
  <2>1. Promise!Exists(q.path) = ExistsIn(store, q.path)
    BY <1>1
  <2>2. {Promise!Entry(p) : p \in Promise!Children(q.path)}
           = {EntryIn(store, p) : p \in ChildrenIn(store, q.path)}
    BY <1>2, <1>3
  <2>3. Promise!IsLast(q.path, q.data) = IsLastOf(store[q.path], q.data)
    BY <1>4
  <2> QED
    BY <2>1, <2>2, <2>3 DEF Promise!Answer, AnswerIn
<1> QED
  BY <1>5

\* get and put look at their file only.
LEMMA FileAnswer ==
    ASSUME NEW st, NEW tt, NEW q, st[q.path] = tt[q.path], q.op \in {"get", "last", "put"}
    PROVE  AnswerIn(st, q) = AnswerIn(tt, q)
<1>1. CASE q.op = "get"
  BY <1>1 DEF AnswerIn
<1>2. CASE q.op = "last"
  BY <1>2 DEF AnswerIn
<1>3. CASE q.op = "put"
  BY <1>3 DEF AnswerIn
<1> QED
  BY <1>1, <1>2, <1>3

LEMMA SameBelow ==
    ASSUME NEW st, NEW tt, NEW p \in Paths,
           \A r \in Paths : Under(p, r) => st[r] = tt[r]
    PROVE  /\ ExistsIn(st, p) <=> ExistsIn(tt, p)
           /\ ChildrenIn(st, p) = ChildrenIn(tt, p)
           /\ EntryIn(st, p) = EntryIn(tt, p)
<1>1. ExistsIn(st, p) <=> ExistsIn(tt, p)
  BY DEF ExistsIn
<1>2. ASSUME NEW q \in Paths, Under(p, q)
      PROVE  ExistsIn(st, q) <=> ExistsIn(tt, q)
  BY <1>2, UnderUnder DEF ExistsIn
<1>3. ChildrenIn(st, p) = ChildrenIn(tt, p)
  <2>1. \A q \in Paths : Len(q) = Len(p) + 1 /\ SubSeq(q, 1, Len(p)) = p => Under(p, q)
    BY PathTypes DEF Under
  <2> QED
    BY <1>2, <2>1 DEF ChildrenIn
<1>4. st[p] = tt[p]
  BY UnderItself
<1> QED
  BY <1>1, <1>3, <1>4 DEF EntryIn

\* list looks at what is below its directory, and whether that is there.
LEMMA ListAnswer ==
    ASSUME NEW st, NEW tt, NEW q, q.path \in Paths, q.op = "list",
           \A r \in Paths : Under(q.path, r) /\ r # q.path => st[r] = tt[r],
           ExistsIn(st, q.path) <=> ExistsIn(tt, q.path)
    PROVE  AnswerIn(st, q) = AnswerIn(tt, q)
<1> DEFINE p == q.path
<1>1. ASSUME NEW r \in Paths, Len(r) = Len(p) + 1, SubSeq(r, 1, Len(p)) = p
      PROVE  /\ ExistsIn(st, r) <=> ExistsIn(tt, r)
             /\ EntryIn(st, r) = EntryIn(tt, r)
  <2>1. Under(p, r) /\ Len(p) \in Nat
    BY <1>1, PathTypes DEF Under
  <2>2. ASSUME NEW t \in Paths, Under(r, t) PROVE st[t] = tt[t]
    <3>1. Under(p, t)
      BY <2>1, <2>2, UnderUnder
    <3>2. t # p
      BY <1>1, <2>1, <2>2, PathTypes DEF Under
    <3> QED
      BY <3>1, <3>2
  <2> QED
    BY <2>2, SameBelow
<1>2. ChildrenIn(st, p) = ChildrenIn(tt, p)
  BY <1>1 DEF ChildrenIn
<1>3. {EntryIn(st, r) : r \in ChildrenIn(st, p)} = {EntryIn(tt, r) : r \in ChildrenIn(tt, p)}
  BY <1>1, <1>2 DEF ChildrenIn
<1> QED
  BY <1>3 DEF AnswerIn

\* Every answer is about what is at the path and below.
LEMMA AnswerBelow ==
    ASSUME NEW st, NEW tt, NEW q, q.path \in Paths, q.op \in {"list", "get", "last", "put"},
           \A r \in Paths : Under(q.path, r) => st[r] = tt[r]
    PROVE  AnswerIn(st, q) = AnswerIn(tt, q)
<1>1. CASE q.op = "list"
  BY <1>1, SameBelow, ListAnswer
<1>2. CASE q.op # "list"
  BY <1>2, UnderItself, FileAnswer
<1> QED
  BY <1>1, <1>2

-----------------------------------------------------------------------------
(* The walks in the tree *)

\* What relates the store to the store that is promised.
Sim(where, view) ==
    /\ Tree(where) /\ Ways(where)
    /\ view \in [Paths -> [Nat -> Seq(Data)]]
    /\ store \in [Paths -> Seq(Data)]
    /\ DOMAIN promised = Clients
    /\ ViewOK(where, view)
    /\ Promises(where, view)

LEMMA TreeTypes ==
    ASSUME TypeOK
    PROVE  /\ DOMAIN entries = 1 .. Len(entries) /\ Len(entries) \in Nat
           /\ Root \in DOMAIN entries
           /\ \A e \in DOMAIN entries :
                 /\ entries[e] \in Entry
                 /\ entries[e].subdirs \subseteq DOMAIN entries \ {Root}
<1>1. DOMAIN entries = 1 .. Len(entries) /\ Len(entries) \in Nat
  BY LenProperties DEF TypeOK
<1>2. Root \in DOMAIN entries
  BY <1>1, EmptySeq DEF TypeOK, Root
<1>3. \A e \in DOMAIN entries : entries[e] \in Entry
  BY <1>1, ElementOfSeq DEF TypeOK
<1>4. ASSUME NEW e \in DOMAIN entries PROVE entries[e].subdirs \subseteq DOMAIN entries \ {Root}
  <2>1. entries[e].subdirs \subseteq (e + 1) .. Len(entries) /\ e \in Nat /\ e >= 1
    BY <1>1 DEF TypeOK
  <2> QED
    BY <1>1, <2>1 DEF Root
<1> QED
  BY <1>1, <1>2, <1>3, <1>4

\* The path of an entry of a directory is one longer.
LEMMA ChildPath ==
    ASSUME TypeOK, NEW where, Tree(where), NEW d \in DOMAIN entries, NEW e \in entries[d].subdirs
    PROVE  /\ where[d] \in Paths /\ where[e] \in Paths /\ e \in DOMAIN entries
           /\ Len(where[d]) \in Nat /\ Len(where[e]) = Len(where[d]) + 1
           /\ Prefix(where[e], Len(where[d])) = where[d] /\ Under(where[d], where[e])
           /\ where[e][Len(where[d]) + 1] = entries[e].name
           /\ where[e][Len(where[e])] = entries[e].name
<1>1. e \in DOMAIN entries
  BY TreeTypes
<1>2. where[d] \in Paths /\ where[e] \in Paths /\ where[e] = Append(where[d], entries[e].name)
  BY <1>1 DEF Tree
<1> DEFINE p == where[d]
           n == entries[e].name
           k == Len(p)
<1>3. p \in Seq(Names \cup {"/"}) /\ n \in Names \cup {"/"} /\ k \in Nat
  <2>1. p \in Seq(Names) /\ k \in Nat
    BY <1>2, PathTypes
  <2>2. n \in Names \cup {"/"}
    BY <1>1, TreeTypes DEF Entry
  <2>3. p \in Seq(Names \cup {"/"})
    BY <2>1, SeqMonotonic
  <2> QED
    BY <2>1, <2>2, <2>3
<1> DEFINE r == where[e]
<1>4. r = Append(p, n)
  BY <1>2
<1> HIDE DEF p, n, r
<1>5. /\ r \in Seq(Names \cup {"/"}) /\ Len(r) = Len(p) + 1
      /\ \A i \in 1 .. Len(p) : r[i] = p[i]
      /\ r[Len(p) + 1] = n
  BY <1>3, <1>4, AppendProperties
<1>6. k \in 0 .. Len(r)
  BY <1>3, <1>5
<1>7. /\ Prefix(r, k) \in Seq(Names \cup {"/"}) /\ Len(Prefix(r, k)) = k
      /\ \A i \in 1 .. k : Prefix(r, k)[i] = r[i]
  BY <1>5, <1>6, PrefixIs
<1>8. Prefix(r, k) = p
  BY <1>3, <1>5, <1>7, SeqEqual
<1> QED
  BY <1>1, <1>2, <1>3, <1>5, <1>6, <1>8 DEF p, n, r, Under, Prefix

\* The entry at the next step of the way of q, if any, is in the directory.
LEMMA NextOnTheWay ==
    ASSUME TypeOK, NEW where, Tree(where), NEW d \in DOMAIN entries, NEW q \in Paths,
           Under(where[d], q), Len(where[d]) < Len(q)
    PROVE  /\ \A e \in Named(d, q[Len(where[d]) + 1]) :
                 /\ e \in DOMAIN entries /\ e \in entries[d].subdirs
                 /\ where[e] = Prefix(q, Len(where[d]) + 1)
           /\ \A e \in DOMAIN entries : where[e] = Prefix(q, Len(where[d]) + 1) =>
                 e \in Named(d, q[Len(where[d]) + 1])
<1> DEFINE k == Len(where[d])
<1>1. /\ where[d] \in Paths /\ k \in Nat /\ Len(q) \in Nat
      /\ k \in 0 .. Len(q) - 1 /\ q \in Seq(Names)
  BY PathTypes DEF Tree
<1>2. Prefix(q, k) = where[d]
  BY DEF Under, Prefix
<1>3. Prefix(q, k + 1) = Append(where[d], q[k + 1]) /\ q[k + 1] \in Names
  BY <1>1, <1>2, PrefixGrows
<1>4. ASSUME NEW e \in Named(d, q[k + 1])
      PROVE  e \in DOMAIN entries /\ e \in entries[d].subdirs /\ where[e] = Prefix(q, k + 1)
  <2>1. e \in entries[d].subdirs /\ entries[e].name = q[k + 1]
    BY DEF Named
  <2>2. e \in DOMAIN entries
    BY <2>1, TreeTypes
  <2>3. where[e] = Append(where[d], entries[e].name)
    BY <2>1 DEF Tree
  <2> QED
    BY <1>3, <2>1, <2>2, <2>3
<1>5. ASSUME NEW e \in DOMAIN entries, where[e] = Prefix(q, k + 1)
      PROVE  e \in Named(d, q[k + 1])
  <2>1. k + 1 \in 0 .. Len(q) /\ Len(Prefix(q, k + 1)) = k + 1
    BY <1>1, PrefixIs
  <2>2. e # Root
    <3>1. where[Root] = <<>> /\ Len(<<>>) = 0
      BY EmptySeq DEF Tree
    <3> QED
      BY <1>1, <1>5, <2>1, <3>1
  <2>3. PICK f \in DOMAIN entries : e \in entries[f].subdirs
    BY <2>2 DEF Tree
  <2>4. /\ Len(where[f]) \in Nat /\ Len(where[e]) = Len(where[f]) + 1
        /\ Prefix(where[e], Len(where[f])) = where[f]
        /\ where[e][Len(where[f]) + 1] = entries[e].name
    BY <2>3, ChildPath
  <2>5. Len(where[f]) = k
    BY <1>1, <1>5, <2>1, <2>4
  <2>6. where[f] = Prefix(q, k)
    <3>1. k \in 0 .. k + 1
      BY <1>1
    <3> QED
      BY <1>1, <1>5, <2>1, <2>4, <2>5, <3>1, PrefixOfPrefix
  <2>7. f = d
    BY <1>2, <2>6 DEF Tree
  <2>8. Prefix(q, k + 1)[k + 1] = q[k + 1]
    <3>1. k + 1 \in 1 .. k + 1
      BY <1>1
    <3> QED
      BY <1>1, <2>1, <3>1, PrefixIs
  <2> QED
    BY <1>5, <2>3, <2>4, <2>5, <2>7, <2>8 DEF Named
<1> QED
  BY <1>4, <1>5

LEMMA Between ==
    ASSUME NEW m \in Nat, NEW n \in Nat, m <= n
    PROVE  n - m \in 0 .. n /\ (m > 0 => n - m < n)
OBVIOUS

\* Where a walk is that is in the tree.
LEMMA WalkIs ==
    ASSUME Inv, NEW where, Tree(where), Ways(where), NEW c \in Clients, client[c].at \in Walking
    PROVE  LET w == client[c]
               path == w.request.path
           IN /\ w.request \in Requests \ {NotValid} /\ path \in Paths /\ Len(path) \in Nat
              /\ w.rest \in Seq(Names) /\ Len(w.rest) \in Nat
              /\ Depth(w) \in 0 .. Len(path)
              /\ w.want \in DOMAIN entries /\ Len(where[w.want]) = Depth(w)
              /\ where[w.want] = Prefix(path, Depth(w)) /\ Under(where[w.want], path)
              /\ w.rest # <<>> => Depth(w) < Len(path) /\ Head(w.rest) = path[Depth(w) + 1]
              /\ w.rest = <<>> => Depth(w) = Len(path)
              /\ Writes(w) => w.rest # <<>>
              /\ WayOf(w, where)
<1> DEFINE w == client[c]
           path == w.request.path
<1>1. /\ w.request \in Requests \ {NotValid} /\ w.want \in DOMAIN entries
      /\ w.rest \in Seq(Names) /\ (Writes(w) => w.rest # <<>>)
  BY DEF Inv, TypeOK, WalkOK
<1>2. path \in Paths /\ Len(path) \in Nat /\ path \in Seq(Names)
  BY <1>1, RequestTypes, PathTypes
<1>3. WayOf(w, where) /\ Len(w.rest) \in Nat
  BY <1>1, LenProperties DEF Ways
<1> HIDE DEF w
<1>4. Depth(w) \in 0 .. Len(path)
  <2>1. Len(w.rest) <= Len(path)
    BY <1>3 DEF WayOf
  <2> QED
    BY <1>2, <1>3, <2>1, Between DEF Depth
<1>5. where[w.want] = Prefix(path, Depth(w))
  BY <1>3 DEF WayOf
<1>6. Len(where[w.want]) = Depth(w) /\ Under(where[w.want], path)
  BY <1>2, <1>4, <1>5, PrefixIsPath
<1>7. ASSUME w.rest # <<>> PROVE Depth(w) < Len(path) /\ Head(w.rest) = path[Depth(w) + 1]
  <2>1. Len(w.rest) > 0
    BY <1>1, <1>3, <1>7, EmptySeq
  <2>2. Head(w.rest) = w.rest[1]
    BY <1>1, <1>7
  <2>3. Depth(w) < Len(path)
    <3>1. Len(w.rest) <= Len(path)
      BY <1>3 DEF WayOf
    <3> QED
      BY <1>2, <1>3, <2>1, <3>1, Between DEF Depth
  <2>4. 1 \in 1 .. Len(w.rest)
    BY <1>3, <2>1
  <2>5. w.rest[1] = path[Depth(w) + 1]
    BY <1>3, <2>4 DEF WayOf
  <2> QED
    BY <2>2, <2>3, <2>5
<1>8. w.rest = <<>> => Depth(w) = Len(path)
  <2>1. w.rest = <<>> => Len(w.rest) = 0
    BY EmptySeq
  <2> QED
    BY <1>2, <2>1 DEF Depth
<1> QED
  BY <1>1, <1>2, <1>3, <1>4, <1>5, <1>6, <1>7, <1>8 DEF w

\* The directory that a walk holds is on its way.
LEMMA HeldIs ==
    ASSUME Inv, NEW where, Tree(where), Ways(where), NEW c \in Clients, Holds(c)
    PROVE  LET w == client[c]
               path == w.request.path
               k == Len(where[w.held])
           IN /\ w.held \in DOMAIN entries /\ where[w.held] \in Paths
              /\ path \in Paths /\ k \in 0 .. Len(path)
              /\ where[w.held] = Prefix(path, k) /\ Under(where[w.held], path)
              /\ Writes(w) => k < Len(path)
              /\ w.at \in {"in", "collect"} => w.held = w.want /\ k = Depth(w)
              /\ w.at \in {"want", "claimed"} =>
                    /\ w.want \in entries[w.held].subdirs
                    /\ k + 1 = Depth(w) /\ k < Len(path)
              /\ w.request.op = "list" \/ path = <<>> \/ k < Len(path)
<1> DEFINE w == client[c]
           path == w.request.path
           k == Len(where[w.held])
<1>1. w.at \in Walking /\ w.held # Nowhere /\ TypeOK
  BY DEF Holds, Inv
<1>2. /\ path \in Paths /\ Len(path) \in Nat /\ Depth(w) \in 0 .. Len(path)
      /\ w.want \in DOMAIN entries /\ Len(where[w.want]) = Depth(w)
      /\ where[w.want] = Prefix(path, Depth(w)) /\ Under(where[w.want], path)
      /\ w.rest # <<>> => Depth(w) < Len(path)
      /\ Writes(w) => w.rest # <<>>
      /\ WayOf(w, where)
  BY <1>1, WalkIs
<1>3. w.held \in DOMAIN entries /\ where[w.held] \in Paths
  BY <1>1 DEF TypeOK, WalkOK, Tree
<1>4. \/ w.at \in {"in", "collect"} /\ w.held = w.want
      \/ w.at \in {"want", "claimed"}
  BY <1>1 DEF Walking, TypeOK, WalkOK
<1> HIDE DEF w
<1>5. CASE w.at \in {"in", "collect"} /\ w.held = w.want
  BY <1>2, <1>3, <1>5 DEF WayOf, w
<1>6. CASE w.at \in {"want", "claimed"}
  <2>1. w.want \in entries[w.held].subdirs
    BY <1>1, <1>2, <1>6 DEF WayOf
  <2>2. /\ k \in Nat /\ Len(where[w.want]) = k + 1
        /\ Prefix(where[w.want], k) = where[w.held] /\ Under(where[w.held], where[w.want])
    BY <1>1, <1>3, <2>1, ChildPath
  <2>3. k + 1 = Depth(w) /\ k < Len(path) /\ k \in 0 .. Len(path) /\ k \in 0 .. Depth(w)
    BY <1>2, <2>2
  <2>4. Prefix(path, k) = where[w.held]
    BY <1>2, <2>2, <2>3, PathTypes, PrefixOfPrefix
  <2>5. Under(where[w.held], path)
    BY <1>2, <1>3, <2>2, UnderUnder DEF Tree
  <2> QED
    BY <1>2, <1>3, <1>6, <2>1, <2>3, <2>4, <2>5 DEF w
<1> QED
  BY <1>4, <1>5, <1>6 DEF w

-----------------------------------------------------------------------------
(* The views of a directory *)

\* No put holds the directory d.
Unheld(d) == \A c \in Clients : Holds(c) /\ client[c].held = d => ~ Writes(client[c])

\* Where no put is, the walks find what they will find one step on.
LEMMA NothingOnTheWay ==
    ASSUME Inv, NEW where, NEW view, Sim(where, view), NEW d \in DOMAIN entries,
           NEW q \in Paths, Under(where[d], q), Len(where[d]) < Len(q),
           \A c \in Clients : Holds(c) /\ client[c].held = d =>
               ~ Writes(client[c]) \/ client[c].request.path # q
    PROVE  view[q][Len(where[d])] = view[q][Len(where[d]) + 1]
<1> DEFINE k == Len(where[d])
<1>1. where[d] \in Paths /\ Len(where[d]) \in Nat /\ Len(q) \in Nat
  BY PathTypes DEF Sim, Tree
<1>2. k \in 0 .. Len(q) - 1
  BY <1>1
<1>3. where[d] = Prefix(q, k)
  BY DEF Under, Prefix
<1>4. ASSUME view[q][k] # view[q][k + 1] PROVE FALSE
  <2>1. PICK c \in Clients, f \in DOMAIN entries : PutsFrom(c, q, f) /\ where[f] = Prefix(q, k)
    BY <1>2, <1>4 DEF Sim, ViewOK
  <2>2. f = d
    BY <1>3, <2>1 DEF Sim, Tree
  <2> QED
    BY <2>1, <2>2 DEF PutsFrom
<1> QED
  BY <1>4

\* What the parts of ViewOK say, one at a time.
LEMMA ViewIs ==
    ASSUME NEW where, NEW view, Sim(where, view)
    PROVE  /\ \A q \in Paths : \A k \in 0 .. Len(q) :
                 view[q][k] # <<>> => \E e \in DOMAIN entries : where[e] = Prefix(q, k)
           /\ \A e \in DOMAIN entries \ {Root} :
                 \/ \E c \in Clients : ComesTo(c, e)
                 \/ \E q \in Paths : Under(where[e], q) /\ view[q][Len(where[e])] # <<>>
           /\ \A e \in DOMAIN entries : view[where[e]][Len(where[e])] = entries[e].releases
BY DEF Sim, ViewOK

\* What is found in a directory without a put is what its entries hold.
LEMMA DirectoryHolds ==
    ASSUME Inv, NEW where, NEW view, Sim(where, view), NEW d \in DOMAIN entries, Unheld(d)
    PROVE  ChildrenIn(Seen(view, Len(where[d])), where[d]) = {where[e] : e \in entries[d].subdirs}
<1> DEFINE p == where[d]
           k == Len(p)
           st == Seen(view, k)
<1>1. TypeOK /\ Tree(where) /\ Ways(where)
  BY DEF Inv, Sim
<1>2. p \in Paths /\ k \in Nat
  BY PathTypes DEF Sim, Tree
<1>3. \A q \in Paths : st[q] = view[q][k]
  BY DEF Seen
<1>4. ASSUME NEW q \in Paths, Under(p, q), k < Len(q)
      PROVE  st[q] = view[q][k + 1]
  BY <1>3, <1>4, NothingOnTheWay DEF Unheld
<1> HIDE DEF st
<1>5. ASSUME NEW e \in entries[d].subdirs PROVE where[e] \in ChildrenIn(st, p)
  <2>1. /\ where[e] \in Paths /\ Len(where[e]) = k + 1 /\ SubSeq(where[e], 1, k) = p
        /\ Under(p, where[e]) /\ e \in DOMAIN entries
    BY <1>1, ChildPath DEF Prefix
  <2>2. e # Root
    BY <1>1, TreeTypes
  <2>3. ASSUME NEW c \in Clients, ComesTo(c, e) PROVE FALSE
    <3>1. Holds(c) /\ Writes(client[c]) /\ client[c].at \in {"want", "claimed"} /\ client[c].want = e
      BY <2>3 DEF ComesTo
    <3>2. /\ client[c].held \in DOMAIN entries /\ e \in entries[client[c].held].subdirs
      BY <1>1, <3>1, HeldIs
    <3>3. where[e] = Append(where[client[c].held], entries[e].name)
          /\ where[e] = Append(where[d], entries[e].name)
      BY <1>1, <3>2 DEF Tree
    <3>4. /\ Prefix(where[e], Len(where[client[c].held])) = where[client[c].held]
          /\ Len(where[e]) = Len(where[client[c].held]) + 1 /\ Len(where[client[c].held]) \in Nat
      BY <1>1, <3>2, ChildPath
    <3>5. where[client[c].held] = where[d]
      BY SMTT(30), <1>2, <2>1, <3>4 DEF Prefix
    <3>6. client[c].held = d
      BY <1>1, <3>2, <3>5 DEF Tree
    <3> QED
      BY <3>1, <3>6 DEF Unheld
  <2>4. PICK q \in Paths : Under(where[e], q) /\ view[q][k + 1] # <<>>
    <3>1. e \in DOMAIN entries \ {Root} /\ ~ \E c \in Clients : ComesTo(c, e)
      BY <2>1, <2>2, <2>3
    <3>2. \E q \in Paths : Under(where[e], q) /\ view[q][Len(where[e])] # <<>>
      BY <3>1, ViewIs
    <3> QED
      BY <2>1, <3>2
  <2>5. Under(p, q) /\ k < Len(q)
    BY <1>2, <2>1, <2>4, UnderUnder, PathTypes DEF Under
  <2>6. st[q] # <<>>
    BY <1>4, <2>4, <2>5
  <2>7. ExistsIn(st, where[e])
    BY <2>4, <2>6 DEF ExistsIn
  <2> QED
    BY <2>1, <2>7 DEF ChildrenIn
<1>6. ASSUME NEW q \in ChildrenIn(st, p) PROVE \E e \in entries[d].subdirs : q = where[e]
  <2>1. q \in Paths /\ Len(q) = k + 1 /\ SubSeq(q, 1, k) = p /\ ExistsIn(st, q)
    BY DEF ChildrenIn
  <2>2. q # <<>>
    BY <1>2, <2>1, EmptySeq
  <2>3. PICK r \in Paths : Under(q, r) /\ st[r] # <<>>
    BY <2>1, <2>2 DEF ExistsIn
  <2>4. Under(p, q) /\ k < Len(q)
    BY <1>2, <2>1 DEF Under
  <2>5. Under(p, r) /\ k < Len(r) /\ Len(q) \in 0 .. Len(r) /\ Prefix(r, k + 1) = q
    BY <1>2, <2>1, <2>3, <2>4, UnderUnder, UnderIs, PathTypes
  <2>6. view[r][k + 1] # <<>>
    BY <1>4, <2>3, <2>5
  <2>7. PICK e \in DOMAIN entries : where[e] = Prefix(r, k + 1)
    <3>1. k + 1 \in 0 .. Len(r)
      BY <2>1, <2>5
    <3> QED
      BY <2>6, <3>1, ViewIs
  <2>8. e \in Named(d, r[k + 1])
    BY <1>1, <2>5, <2>7, NextOnTheWay
  <2> QED
    BY <2>5, <2>7, <2>8 DEF Named
<1> QED
  BY <1>5, <1>6 DEF st

\* A walk that reads a directory has no put in it, a put no other walk.
LEMMA ReadersAreIn ==
    ASSUME Inv, NEW c \in Clients, Holds(c), ~ Writes(client[c])
    PROVE  Unheld(client[c].held)
BY DEF Inv, LockInv, Unheld

LEMMA PutsAreAlone ==
    ASSUME Inv, NEW c \in Clients, Holds(c), Writes(client[c]),
           NEW d \in Clients, Holds(d), client[d].held = client[c].held
    PROVE  d = c
BY DEF Inv, LockInv

LEMMA SameNumber ==
    ASSUME NEW S, IsFiniteSet(S), NEW f, \A x, y \in S : f[x] = f[y] => x = y
    PROVE  Cardinality({f[x] : x \in S}) = Cardinality(S)
<1> DEFINE T == {f[x] : x \in S}
           g == [x \in S |-> f[x]]
<1>1. g \in [S -> T]
  OBVIOUS
<1>2. \A x, y \in S : g[x] = g[y] => x = y
  OBVIOUS
<1>3. \A t \in T : \E x \in S : g[x] = t
  OBVIOUS
<1>4. g \in Bijection(S, T)
  BY <1>1, <1>2, <1>3 DEF Bijection, Injection, Surjection, IsInjective
<1>5. ExistsBijection(S, T)
  BY <1>4 DEF ExistsBijection
<1> QED
  BY <1>5, FS_Bijection

\* The entry e of a directory without a put is found as it is, when no put is in it.
LEMMA EntryIs ==
    ASSUME Inv, NEW where, NEW view, Sim(where, view), NEW d \in DOMAIN entries, Unheld(d),
           NEW e \in entries[d].subdirs, entries[e].releases = <<>> => Unheld(e)
    PROVE  EntryIn(Seen(view, Len(where[d])), where[e]) =
               IF entries[e].releases = <<>>
               THEN [name |-> entries[e].name, kind |-> "DIR",
                     count |-> Cardinality(entries[e].subdirs)]
               ELSE [name |-> entries[e].name, kind |-> "file",
                     count |-> Len(entries[e].releases)]
<1> DEFINE p == where[d]
           k == Len(p)
           q == where[e]
           st == Seen(view, k)
           tt == Seen(view, k + 1)
<1>1. TypeOK /\ Tree(where)
  BY DEF Inv, Sim
<1>2. /\ p \in Paths /\ q \in Paths /\ e \in DOMAIN entries /\ k \in Nat /\ Len(q) = k + 1
      /\ Under(p, q) /\ q[Len(q)] = entries[e].name
  BY <1>1, ChildPath
<1>3. \A r \in Paths : st[r] = view[r][k] /\ tt[r] = view[r][k + 1]
  BY DEF Seen
<1>4. ASSUME NEW r \in Paths, Under(q, r) PROVE st[r] = tt[r]
  <2>1. Under(p, r) /\ k < Len(r)
    BY <1>2, <1>4, UnderUnder, PathTypes DEF Under
  <2>2. view[r][k] = view[r][k + 1]
    BY <2>1, NothingOnTheWay DEF Unheld
  <2> QED
    BY <1>3, <2>2
<1>5. st[q] = entries[e].releases
  <2>1. st[q] = tt[q]
    BY <1>2, <1>4, UnderItself
  <2>2. view[q][Len(q)] = entries[e].releases
    BY <1>2 DEF Sim, ViewOK
  <2> QED
    BY <1>2, <1>3, <2>1, <2>2
<1> HIDE DEF st, tt
<1>6. ASSUME entries[e].releases = <<>>
      PROVE  Cardinality(ChildrenIn(st, q)) = Cardinality(entries[e].subdirs)
  <2>1. ChildrenIn(st, q) = ChildrenIn(tt, q)
    BY <1>2, <1>4, SameBelow
  <2>2. ChildrenIn(tt, q) = {where[f] : f \in entries[e].subdirs}
    <3>1. Unheld(e)
      BY <1>6
    <3>2. ChildrenIn(Seen(view, Len(q)), q) = {where[f] : f \in entries[e].subdirs}
      BY ZenonT(30), <1>2, <3>1, DirectoryHolds
    <3>3. tt = Seen(view, Len(q))
      BY <1>2 DEF tt
    <3> QED
      BY <3>2, <3>3
  <2>3. IsFiniteSet(entries[e].subdirs)
    <3>1. entries[e].subdirs \subseteq 1 .. Len(entries) /\ Len(entries) \in Int
      BY <1>1, <1>2, TreeTypes
    <3>2. IsFiniteSet(1 .. Len(entries))
      BY <3>1, FS_Interval
    <3> QED
      BY <3>1, <3>2, FS_Subset
  <2>4. \A f, g \in entries[e].subdirs : where[f] = where[g] => f = g
    BY <1>1, <1>2, TreeTypes DEF Tree
  <2>5. Cardinality({where[f] : f \in entries[e].subdirs}) = Cardinality(entries[e].subdirs)
    BY <2>3, <2>4, SameNumber
  <2> QED
    BY <2>1, <2>2, <2>5
<1>7. EntryIn(st, q) =
               IF entries[e].releases = <<>>
               THEN [name |-> entries[e].name, kind |-> "DIR",
                     count |-> Cardinality(entries[e].subdirs)]
               ELSE [name |-> entries[e].name, kind |-> "file",
                     count |-> Len(entries[e].releases)]
  <2> HIDE DEF q
  <2> QED
    BY <1>2, <1>5, <1>6 DEF EntryIn
<1> QED
  BY <1>7 DEF st

-----------------------------------------------------------------------------
(* A step of one walk and the other walks *)

\* What a step of c leaves of the others, where no path of an entry changes.
Frame(c, where, w2) ==
    /\ \A x \in Clients \ {c} : client'[x] = client[x] /\ promised'[x] = promised[x]
    /\ \A e \in DOMAIN entries :
          /\ e \in DOMAIN entries' /\ w2[e] = where[e]
          /\ entries[e].subdirs \subseteq entries'[e].subdirs
          /\ \A x \in Clients \ {c} : Holds(x) /\ client[x].held = e =>
                entries'[e].subdirs = entries[e].subdirs

LEMMA WaysStay ==
    ASSUME Inv, NEW where, NEW w2, Tree(where), Ways(where), NEW c \in Clients,
           Frame(c, where, w2), (client[c].at \in Walking => WayOf(client[c], w2))'
    PROVE  Ways(w2)'
<1>1. ASSUME NEW x \in Clients \ {c}, client[x].at \in Walking PROVE WayOf(client[x], w2)
  <2>1. client[x].want \in DOMAIN entries /\ WayOf(client[x], where)
    BY <1>1, WalkIs
  <2>2. w2[client[x].want] = where[client[x].want]
    BY <2>1 DEF Frame
  <2> QED
    BY <2>1, <2>2 DEF WayOf
<1>2. ASSUME NEW x \in Clients \ {c}, client[x].at \in Walking PROVE WayOf(client[x], w2)'
  <2>1. client'[x] = client[x]
    BY DEF Frame
  <2>2. WayOf(client[x], w2)
    BY <1>1, <1>2
  <2>3. client[x].at \in {"want", "claimed"} /\ client[x].held # Nowhere =>
           client[x].held \in DOMAIN entries
    BY <1>2, HeldIs DEF Holds
  <2> QED
    BY <2>1, <2>2, <2>3 DEF WayOf, Frame
<1>3. \A x \in Clients \ {c} : client'[x] = client[x]
  BY DEF Frame
<1> QED
  BY <1>2, <1>3 DEF Ways

\* The walks of the others put where they did.
LEMMA OthersPut ==
    ASSUME NEW where, NEW w2, NEW c \in Clients, Frame(c, where, w2), NEW x \in Clients \ {c}
    PROVE  /\ \A q, d : PutsFrom(x, q, d)' <=> PutsFrom(x, q, d)
           /\ \A e : ComesTo(x, e)' <=> ComesTo(x, e)
           /\ Holds(x)' <=> Holds(x)
           /\ client'[x] = client[x] /\ promised'[x] = promised[x]
<1>1. client'[x] = client[x] /\ promised'[x] = promised[x]
  BY DEF Frame
<1> QED
  BY <1>1 DEF PutsFrom, ComesTo, Holds, Writes

\* What is found nowhere changes.
LEMMA ViewStays ==
    ASSUME Inv, NEW where, NEW w2, NEW view, Sim(where, view), NEW c \in Clients,
           Frame(c, where, w2), Tree(w2)', UNCHANGED store,
           \A e \in DOMAIN entries : entries'[e].releases = entries[e].releases,
           \A e \in DOMAIN entries' \ DOMAIN entries :
              /\ entries'[e].releases = <<>> /\ view[w2[e]][Len(w2[e])] = <<>>
              /\ ComesTo(c, e)' /\ \A x \in Clients : Holds(x)' => client'[x].held # e,
           \A q \in Paths : \A d :
              /\ PutsFrom(c, q, d)' =>
                    PutsFrom(c, q, d) /\ client'[c].request.data = client[c].request.data
              /\ PutsFrom(c, q, d) =>
                    PutsFrom(c, q, d)' \/ view[q][Len(where[d])] = view[q][Len(where[d]) + 1],
           \A e : ComesTo(c, e) => ComesTo(c, e)',
           \A e \in DOMAIN entries \ {Root} : Holds(c)' /\ client'[c].held = e =>
              (Holds(c) /\ client[c].held = e) \/ \A x \in Clients : ~ ComesTo(x, e)
    PROVE  ViewOK(w2, view)'
<1>1. ViewOK(where, view) /\ Tree(where) /\ Ways(where) /\ TypeOK
  BY DEF Sim, Inv
<1>2. \A e \in DOMAIN entries : e \in DOMAIN entries' /\ w2[e] = where[e]
  BY DEF Frame
<1>3. \A x \in Clients \ {c} :
         /\ \A q, d : PutsFrom(x, q, d)' <=> PutsFrom(x, q, d)
         /\ \A e : ComesTo(x, e)' <=> ComesTo(x, e)
         /\ Holds(x)' <=> Holds(x)
         /\ client'[x] = client[x]
  BY OthersPut
<1>4. \A q \in Paths : view[q][0] = store'[q]
  BY <1>1 DEF ViewOK
<1>5. \A e \in DOMAIN entries' : view[w2[e]][Len(w2[e])] = entries'[e].releases
  BY <1>1, <1>2 DEF ViewOK
<1>6. \A q \in Paths : \A k \in 0 .. Len(q) :
         view[q][k] # <<>> => \E e \in DOMAIN entries' : w2[e] = Prefix(q, k)
  BY <1>1, <1>2 DEF ViewOK
<1>7. ASSUME NEW q \in Paths, NEW k \in 0 .. Len(q) - 1, view[q][k] # view[q][k + 1]
      PROVE  \E x \in Clients : \E d \in DOMAIN entries' :
                 PutsFrom(x, q, d)' /\ w2[d] = Prefix(q, k)
  <2>1. PICK x \in Clients, d \in DOMAIN entries : PutsFrom(x, q, d) /\ where[d] = Prefix(q, k)
    BY <1>1, <1>7 DEF ViewOK
  <2>2. d \in DOMAIN entries' /\ w2[d] = Prefix(q, k)
    BY <1>2, <2>1
  <2>3. Len(where[d]) = k
    <3>1. k \in 0 .. Len(q)
      BY PathTypes
    <3> QED
      BY <2>1, <3>1, PrefixIsPath
  <2>4. PutsFrom(x, q, d)'
    BY <1>3, <1>7, <2>1, <2>3
  <2> QED
    BY <2>2, <2>4
<1>8. ASSUME NEW x \in Clients, NEW q \in Paths, NEW d \in DOMAIN entries', PutsFrom(x, q, d)'
      PROVE  view[q][Len(w2[d])] = Put(view[q][Len(w2[d]) + 1], client'[x].request.data)
  <2>1. PutsFrom(x, q, d) /\ client'[x].request.data = client[x].request.data
    BY <1>3, <1>8
  <2>2. d \in DOMAIN entries
    BY <1>1, <2>1, HeldIs DEF PutsFrom
  <2>3. view[q][Len(where[d])] = Put(view[q][Len(where[d]) + 1], client[x].request.data)
    BY <1>1, <2>1, <2>2 DEF ViewOK
  <2> QED
    BY <1>2, <2>1, <2>2, <2>3
<1>9. ASSUME NEW e \in DOMAIN entries' \ {Root}
      PROVE  \/ /\ \E x \in Clients : ComesTo(x, e)'
                /\ \A x \in Clients : Holds(x)' => client'[x].held # e
             \/ \E q \in Paths : Under(w2[e], q) /\ view[q][Len(w2[e])] # <<>>
  <2>1. CASE e \notin DOMAIN entries
    BY <2>1
  <2>2. CASE e \in DOMAIN entries
    <3>1. CASE \E q \in Paths : Under(where[e], q) /\ view[q][Len(where[e])] # <<>>
      BY <1>2, <2>2, <3>1
    <3>2. CASE /\ \E x \in Clients : ComesTo(x, e)
               /\ \A x \in Clients : Holds(x) => client[x].held # e
      <4>1. \E x \in Clients : ComesTo(x, e)'
        BY <1>3, <3>2
      <4>2. ~ (Holds(c)' /\ client'[c].held = e)
        BY <2>2, <3>2
      <4> QED
        BY <1>3, <3>2, <4>1, <4>2
    <3> QED
      BY <1>1, <2>2, <3>1, <3>2 DEF ViewOK
  <2> QED
    BY <2>1, <2>2
<1> QED
  BY <1>4, <1>5, <1>6, <1>7, <1>8, <1>9 DEF ViewOK

\* The file at P is found as X at depth m of its way, and as before elsewhere.
Pushed(view, v2, P, m, X) ==
    /\ v2 \in [Paths -> [Nat -> Seq(Data)]]
    /\ P \in Paths /\ m \in 0 .. Len(P) /\ X # <<>> /\ v2[P][m] = X
    /\ \A q \in Paths : \A k \in Nat : ~ (q = P /\ k = m) => v2[q][k] = view[q][k]

\* The entries are where the view has their releases after the step of c.
Shown(c, where, w2, v2, P, m) ==
    /\ Frame(c, where, w2)
    /\ \A q \in Paths : v2[q][0] = store'[q]
    /\ \A e \in DOMAIN entries' : v2[w2[e]][Len(w2[e])] = entries'[e].releases
    /\ \E e \in DOMAIN entries' : w2[e] = Prefix(P, m)
    /\ \A e \in DOMAIN entries' :
          e \notin DOMAIN entries \/ (Holds(c)' /\ client'[c].held = e) \/ ComesTo(c, e) =>
             w2[e] = Prefix(P, m)

\* Who puts where before and after the step of c.
Putting(c, where, w2, view, P, m, X) ==
    /\ \A q \in Paths : \A d : PutsFrom(c, q, d) => q = P /\ Len(where[d]) = m - 1
    /\ \A x \in Clients \ {c} : \A d : PutsFrom(x, P, d) =>
          Len(where[d]) # m /\ Len(where[d]) # m - 1
    /\ \A q \in Paths : \A d : PutsFrom(c, q, d)' =>
          /\ q = P /\ d \in DOMAIN entries' /\ w2[d] = Prefix(P, m) /\ m < Len(P)
          /\ X = Put(view[P][m + 1], client'[c].request.data)
    /\ m < Len(P) => \E d \in DOMAIN entries' : PutsFrom(c, P, d)' /\ w2[d] = Prefix(P, m)
    /\ m > 0 => view[P][m - 1] = X

\* What a put takes with it, one directory on, or leaves in its file.
LEMMA ViewPush ==
    ASSUME Inv, NEW where, NEW w2, NEW view, NEW v2, Sim(where, view), NEW c \in Clients,
           NEW P, NEW m, NEW X, Pushed(view, v2, P, m, X),
           Shown(c, where, w2, v2, P, m), Putting(c, where, w2, view, P, m, X)
    PROVE  ViewOK(w2, v2)'
<1>a. /\ Frame(c, where, w2)
      /\ \A q \in Paths : v2[q][0] = store'[q]
      /\ \A e \in DOMAIN entries' : v2[w2[e]][Len(w2[e])] = entries'[e].releases
      /\ \E e \in DOMAIN entries' : w2[e] = Prefix(P, m)
      /\ \A e \in DOMAIN entries' :
            e \notin DOMAIN entries \/ (Holds(c)' /\ client'[c].held = e) \/ ComesTo(c, e) =>
               w2[e] = Prefix(P, m)
  BY DEF Shown
<1>b. /\ \A q \in Paths : \A d : PutsFrom(c, q, d) => q = P /\ Len(where[d]) = m - 1
      /\ \A x \in Clients \ {c} : \A d : PutsFrom(x, P, d) =>
            Len(where[d]) # m /\ Len(where[d]) # m - 1
      /\ \A q \in Paths : \A d : PutsFrom(c, q, d)' =>
            /\ q = P /\ d \in DOMAIN entries' /\ w2[d] = Prefix(P, m) /\ m < Len(P)
            /\ X = Put(view[P][m + 1], client'[c].request.data)
      /\ m < Len(P) => \E d \in DOMAIN entries' : PutsFrom(c, P, d)' /\ w2[d] = Prefix(P, m)
      /\ m > 0 => view[P][m - 1] = X
  BY DEF Putting
<1> USE <1>a, <1>b
<1>1. ViewOK(where, view) /\ Tree(where) /\ Ways(where) /\ TypeOK
  BY DEF Sim, Inv
<1>2. \A e \in DOMAIN entries : e \in DOMAIN entries' /\ w2[e] = where[e]
  BY DEF Frame
<1>3. \A x \in Clients \ {c} :
         /\ \A q, d : PutsFrom(x, q, d)' <=> PutsFrom(x, q, d)
         /\ \A e : ComesTo(x, e)' <=> ComesTo(x, e)
         /\ Holds(x)' <=> Holds(x)
         /\ client'[x] = client[x]
  BY OthersPut
<1>4. /\ P \in Paths /\ m \in 0 .. Len(P) /\ m \in Nat /\ Len(P) \in Nat
      /\ X # <<>> /\ v2[P][m] = X
      /\ \A q \in Paths : \A k \in Nat : ~ (q = P /\ k = m) => v2[q][k] = view[q][k]
  BY PathTypes DEF Pushed
<1>5. \A q \in Paths : Len(q) \in Nat
  BY PathTypes
<1>6. ASSUME NEW q \in Paths, NEW k \in 0 .. Len(q), v2[q][k] # <<>>
      PROVE  \E e \in DOMAIN entries' : w2[e] = Prefix(q, k)
  <2>1. CASE q = P /\ k = m
    BY <2>1
  <2>2. CASE ~ (q = P /\ k = m)
    <3>1. view[q][k] # <<>>
      BY <1>4, <1>5, <1>6, <2>2
    <3> QED
      BY <1>1, <1>2, <3>1 DEF ViewOK
  <2> QED
    BY <2>1, <2>2
<1>7. ASSUME NEW q \in Paths, NEW k \in 0 .. Len(q) - 1, v2[q][k] # v2[q][k + 1]
      PROVE  \E x \in Clients : \E d \in DOMAIN entries' :
                 PutsFrom(x, q, d)' /\ w2[d] = Prefix(q, k)
  <2>0. k \in Nat /\ k + 1 \in Nat /\ k \in 0 .. Len(q) /\ (q = P => k < Len(P))
    BY <1>5
  <2>1. CASE q = P /\ k = m
    BY <2>0, <2>1
  <2>2. CASE q = P /\ k + 1 = m
    <3>1. m > 0 /\ k = m - 1 /\ k # m
      BY <1>4, <2>0, <2>2
    <3>2. v2[q][k] = view[P][m - 1]
      BY <1>4, <2>0, <2>2, <3>1
    <3>3. FALSE
      BY <1>4, <1>7, <2>2, <3>1, <3>2
    <3> QED
      BY <3>3
  <2>3. CASE ~ (q = P /\ k = m) /\ ~ (q = P /\ k + 1 = m)
    <3>1. view[q][k] # view[q][k + 1]
      BY <1>4, <1>7, <2>0, <2>3
    <3>2. PICK x \in Clients, d \in DOMAIN entries : PutsFrom(x, q, d) /\ where[d] = Prefix(q, k)
      BY <1>1, <3>1 DEF ViewOK
    <3>3. Len(where[d]) = k
      BY <2>0, <3>2, PrefixIsPath
    <3>4. x # c
      <4>1. ASSUME x = c PROVE FALSE
        <5>1. q = P /\ k = m - 1
          BY <3>2, <3>3, <4>1
        <5> QED
          BY <1>4, <2>3, <5>1
      <4> QED
        BY <4>1
    <3> QED
      BY <1>2, <1>3, <3>2, <3>4
  <2> QED
    BY <2>1, <2>2, <2>3
<1>8. ASSUME NEW x \in Clients, NEW q \in Paths, NEW d \in DOMAIN entries', PutsFrom(x, q, d)'
      PROVE  v2[q][Len(w2[d])] = Put(v2[q][Len(w2[d]) + 1], client'[x].request.data)
  <2>1. CASE x = c
    <3>1. /\ q = P /\ w2[d] = Prefix(P, m) /\ m < Len(P)
          /\ X = Put(view[P][m + 1], client'[c].request.data)
      BY <1>8, <2>1
    <3>2. Len(w2[d]) = m
      BY <1>4, <3>1, PrefixIsPath
    <3>3. v2[P][m + 1] = view[P][m + 1]
      BY <1>4
    <3> QED
      BY <1>4, <2>1, <3>1, <3>2, <3>3
  <2>2. CASE x # c
    <3>1. PutsFrom(x, q, d) /\ client'[x] = client[x]
      BY <1>3, <1>8, <2>2
    <3>2. d \in DOMAIN entries /\ Len(where[d]) \in Nat
      BY <1>1, <1>5, <3>1, HeldIs DEF PutsFrom
    <3>3. view[q][Len(where[d])] = Put(view[q][Len(where[d]) + 1], client[x].request.data)
      BY <1>1, <3>1, <3>2 DEF ViewOK
    <3>4. q = P => Len(where[d]) # m /\ Len(where[d]) + 1 # m
      <4>1. q = P => Len(where[d]) # m /\ Len(where[d]) # m - 1
        BY <2>2, <3>1
      <4> QED
        BY <1>4, <3>2, <4>1
    <3>5. /\ v2[q][Len(where[d])] = view[q][Len(where[d])]
          /\ v2[q][Len(where[d]) + 1] = view[q][Len(where[d]) + 1]
      <4>1. Len(where[d]) + 1 \in Nat
        BY <3>2
      <4> QED
        BY <1>4, <3>2, <3>4, <4>1
    <3> QED
      BY <1>2, <3>1, <3>2, <3>3, <3>5
  <2> QED
    BY <2>1, <2>2
<1>9. ASSUME NEW e \in DOMAIN entries' \ {Root}
      PROVE  \/ /\ \E x \in Clients : ComesTo(x, e)'
                /\ \A x \in Clients : Holds(x)' => client'[x].held # e
             \/ \E q \in Paths : Under(w2[e], q) /\ v2[q][Len(w2[e])] # <<>>
  <2>1. CASE w2[e] = Prefix(P, m)
    <3>1. Under(w2[e], P) /\ Len(w2[e]) = m
      BY <1>4, <2>1, PrefixIsPath
    <3> QED
      BY <1>4, <3>1
  <2>2. CASE w2[e] # Prefix(P, m)
    <3>1. e \in DOMAIN entries /\ ~ (Holds(c)' /\ client'[c].held = e) /\ ~ ComesTo(c, e)
      BY <2>2
    <3>2. CASE \E q \in Paths : Under(where[e], q) /\ view[q][Len(where[e])] # <<>>
      <4>1. PICK q \in Paths : Under(where[e], q) /\ view[q][Len(where[e])] # <<>>
        BY <3>2
      <4>2. Len(where[e]) \in Nat
        BY <1>1, <1>5, <3>1 DEF Tree
      <4>3. v2[q][Len(where[e])] # <<>>
        BY <1>4, <4>1, <4>2
      <4> QED
        BY <1>2, <3>1, <4>1, <4>3
    <3>3. CASE /\ \E x \in Clients : ComesTo(x, e)
               /\ \A x \in Clients : Holds(x) => client[x].held # e
      BY <1>3, <3>1, <3>3
    <3> QED
      BY <1>1, <3>1, <3>2, <3>3 DEF ViewOK
  <2> QED
    BY <2>1, <2>2
<1> QED
  BY <1>6, <1>7, <1>8, <1>9 DEF ViewOK

\* What the others were promised they still find: nothing they look at changes.
LEMMA KeptStays ==
    ASSUME Inv, NEW where, NEW w2, NEW view, Sim(where, view), NEW c \in Clients,
           Frame(c, where, w2), NEW x \in Clients \ {c}
    PROVE  Kept(x, w2, view)'
<1>1. client'[x] = client[x] /\ promised'[x] = promised[x]
  BY DEF Frame
<1>2. Kept(x, where, view) /\ Tree(where) /\ Ways(where) /\ TypeOK
  BY DEF Sim, Promises, Inv
<1>3. Holds(x) => client[x].held \in DOMAIN entries
  BY <1>2, HeldIs
<1>4. Holds(x) => Level(x, w2) = Level(x, where)
  BY <1>3 DEF Level, Frame
<1>5. Holds(x) => entries'[client[x].held].subdirs = entries[client[x].held].subdirs
  BY <1>3 DEF Frame
<1>6. client[x].at = "collect" => Holds(x)
  BY <1>2 DEF Holds, Walking, Ways, WayOf
<1>7. Holds(x) => \A e \in entries[client[x].held].subdirs : w2[e] = where[e]
  BY <1>2, <1>3, TreeTypes DEF Frame
<1>8. Kept(x, w2, view)
  <2>1. ASSUME client[x].at = "collect"
        PROVE  LET subdirs == entries[client[x].held].subdirs IN
               client[x].found = {EntryIn(Seen(view, Level(x, w2)), w2[e]) :
                                     e \in subdirs \ client[x].todo}
    BY <1>2, <1>4, <1>6, <1>7, <2>1 DEF Kept
  <2> QED
    BY <1>2, <1>4, <2>1 DEF Kept
<1>9. (Holds(x)' <=> Holds(x)) /\ Level(x, w2)' = Level(x, w2)
  BY <1>1 DEF Holds, Level, Writes
<1> QED
  BY <1>1, <1>5, <1>6, <1>8, <1>9 DEF Kept

\* Nor does what a put takes with it, or leaves in its file: no other is there.
LEMMA SeenPushed ==
    ASSUME NEW view, NEW v2, NEW P, NEW m, NEW X, Pushed(view, v2, P, m, X), NEW k \in Nat
    PROVE  /\ k # m => Seen(v2, k) = Seen(view, k)
           /\ \A q \in Paths : q # P => Seen(v2, k)[q] = Seen(view, k)[q]
           /\ Seen(v2, m)[P] = X
<1>1. \A q \in Paths : ~ (q = P /\ k = m) => v2[q][k] = view[q][k]
  BY DEF Pushed
<1> QED
  BY <1>1 DEF Seen, Pushed

LEMMA LevelIs ==
    ASSUME NEW where, NEW x, Len(where[client[x].held]) \in Nat
    PROVE  /\ Writes(client[x]) => Level(x, where) = Len(where[client[x].held]) + 1
           /\ ~ Writes(client[x]) => Level(x, where) = Len(where[client[x].held])
<1>1. CASE Writes(client[x])
  BY <1>1 DEF Level
<1>2. CASE ~ Writes(client[x])
  BY <1>2 DEF Level
<1> QED
  BY <1>1, <1>2

LEMMA AnswerPushed ==
    ASSUME Inv, NEW where, NEW view, NEW v2, Sim(where, view), NEW x \in Clients, Holds(x),
           NEW P, NEW m, NEW X, Pushed(view, v2, P, m, X),
           \A d : PutsFrom(x, P, d) => Len(where[d]) # m - 1,
           ~ Writes(client[x]) /\ where[client[x].held] = Prefix(P, m) => m = Len(P),
           P # <<>>
    PROVE  AnswerIn(Seen(v2, Level(x, where)), client[x].request) =
               AnswerIn(Seen(view, Level(x, where)), client[x].request)
<1> DEFINE w == client[x]
           Q == w.request.path
           h == where[w.held]
           L == Level(x, where)
<1>1. ViewOK(where, view) /\ Tree(where) /\ Ways(where) /\ TypeOK
  BY DEF Sim, Inv
<1>2. /\ w.held \in DOMAIN entries /\ h \in Paths /\ Q \in Paths
      /\ Len(h) \in 0 .. Len(Q) /\ h = Prefix(Q, Len(h)) /\ Under(h, Q)
      /\ w.request.op = "list" \/ Q = <<>> \/ Len(h) < Len(Q)
  BY <1>1, HeldIs
<1>3. /\ w.request \in Requests \ {NotValid} /\ w.request.op \in {"list", "get", "last", "put"}
  <2>1. w.request \in Requests \ {NotValid}
    BY <1>1, WalkIs DEF Holds
  <2> QED
    BY <2>1 DEF Requests
<1>4. P \in Paths /\ m \in 0 .. Len(P) /\ Len(P) \in Nat /\ Len(Q) \in Nat /\ Len(h) \in Nat
  BY <1>2, PathTypes DEF Pushed
<1>5. (Writes(w) => L = Len(h) + 1) /\ (~ Writes(w) => L = Len(h))
  BY <1>4, LevelIs
<1>6. L \in Nat
  BY <1>4, <1>5
<1>7. /\ L # m => Seen(v2, L) = Seen(view, L)
      /\ \A q \in Paths : q # P => Seen(v2, L)[q] = Seen(view, L)[q]
      /\ Seen(v2, m)[P] = X
  BY <1>6, SeenPushed
<1> HIDE DEF L
<1>8. CASE L # m
  BY <1>7, <1>8 DEF L
<1>9. CASE Writes(w) /\ L = m
  <2>1. Q # P
    <3>1. ASSUME Q = P PROVE FALSE
      <4>1. PutsFrom(x, P, w.held)
        BY <1>9, <3>1 DEF PutsFrom
      <4>2. Len(h) # m - 1
        BY <4>1
      <4> QED
        BY <1>4, <1>5, <1>9, <4>2
    <3> QED
      BY <3>1
  <2>2. w.request.op = "put"
    BY <1>9 DEF Writes
  <2> QED
    BY <1>2, <1>7, <2>1, <2>2, FileAnswer DEF L
<1>10. CASE ~ Writes(w) /\ L = m /\ ~ Under(Q, P)
  <2>1. \A r \in Paths : Under(Q, r) => Seen(v2, L)[r] = Seen(view, L)[r]
    BY <1>7, <1>10
  <2> QED
    BY <1>2, <1>3, <2>1, AnswerBelow DEF L
<1>11. CASE ~ Writes(w) /\ L = m /\ Under(Q, P)
  <2>1. Len(h) = m
    BY <1>4, <1>5, <1>11
  <2>2. h = Prefix(P, m)
    <3>1. Under(h, P)
      BY <1>2, <1>4, <1>11, UnderUnder
    <3> QED
      BY <1>2, <1>4, <2>1, <3>1, UnderIs
  <2>3. m = Len(P) /\ h = P
    <3>1. m = Len(P)
      BY <1>11, <2>2
    <3> QED
      BY <1>4, <2>2, <3>1, PathTypes, PrefixEnds
  <2>4. Q = P
    BY <1>2, <1>4, <1>11, <2>1, <2>3, UnderIs, PathTypes, PrefixEnds
  <2>5. w.request.op = "list"
    BY <1>2, <1>4, <2>1, <2>3, <2>4
  <2>6. ExistsIn(Seen(v2, L), P)
    BY <1>4, <1>7, <1>11, UnderItself DEF ExistsIn, Pushed
  <2>7. ExistsIn(Seen(view, L), P)
    <3>1. w.held # Root
      BY <1>1, <2>3 DEF Tree
    <3>2. PICK q \in Paths : Under(h, q) /\ view[q][Len(h)] # <<>>
      BY <1>1, <1>2, <3>1 DEF ViewOK
    <3>3. Seen(view, L)[q] # <<>>
      BY <1>11, <2>1, <3>2 DEF Seen
    <3> QED
      BY <2>3, <3>2, <3>3 DEF ExistsIn
  <2>8. \A r \in Paths : Under(Q, r) /\ r # Q => Seen(v2, L)[r] = Seen(view, L)[r]
    BY <1>7, <2>4
  <2> QED
    BY <1>2, <2>4, <2>5, <2>6, <2>7, <2>8, ListAnswer DEF L
<1> QED
  BY <1>8, <1>9, <1>10, <1>11

LEMMA KeptPush ==
    ASSUME Inv, NEW where, NEW w2, NEW view, NEW v2, Sim(where, view), NEW c \in Clients,
           Frame(c, where, w2), NEW x \in Clients \ {c},
           NEW P, NEW m, NEW X, Pushed(view, v2, P, m, X), P # <<>>,
           \A d : PutsFrom(x, P, d) => Len(where[d]) # m - 1,
           Holds(x) /\ ~ Writes(client[x]) /\ where[client[x].held] = Prefix(P, m) => m = Len(P)
    PROVE  Kept(x, w2, v2)'
<1>1. client'[x] = client[x] /\ promised'[x] = promised[x]
  BY DEF Frame
<1>2. Kept(x, where, view) /\ Tree(where) /\ Ways(where) /\ TypeOK
  BY DEF Sim, Promises, Inv
<1>3. Holds(x) => client[x].held \in DOMAIN entries
  BY <1>2, HeldIs
<1>4. Holds(x) => Level(x, w2) = Level(x, where)
  BY <1>3 DEF Level, Frame
<1>5. Holds(x) => entries'[client[x].held].subdirs = entries[client[x].held].subdirs
  BY <1>3 DEF Frame
<1>6. client[x].at = "collect" => Holds(x)
  BY <1>2 DEF Holds, Walking, Ways, WayOf
<1>7. Holds(x) => \A e \in entries[client[x].held].subdirs : w2[e] = where[e]
  BY <1>2, <1>3, TreeTypes DEF Frame
<1>8. Holds(x) => AnswerIn(Seen(v2, Level(x, where)), client[x].request) =
                     AnswerIn(Seen(view, Level(x, where)), client[x].request)
  BY AnswerPushed
<1>9. ASSUME client[x].at = "collect", NEW e \in entries[client[x].held].subdirs
      PROVE  EntryIn(Seen(v2, Level(x, where)), where[e]) =
                 EntryIn(Seen(view, Level(x, where)), where[e])
  <2> DEFINE h == where[client[x].held]
             L == Level(x, where)
  <2>1. Holds(x) /\ client[x].held \in DOMAIN entries /\ h \in Paths
    BY <1>2, <1>3, <1>6, <1>9 DEF Tree
  <2>2. ~ Writes(client[x])
    BY <1>2, <1>9 DEF Ways, WayOf, Writes, Walking
  <2>3. /\ where[e] \in Paths /\ Len(where[e]) = Len(h) + 1 /\ Len(h) \in Nat
        /\ Under(h, where[e])
    BY <1>2, <1>9, <2>1, ChildPath
  <2>4. L = Len(h) /\ P \in Paths /\ m \in 0 .. Len(P) /\ Len(P) \in Nat
    BY <2>2, <2>3, PathTypes DEF Level, Pushed
  <2>5. CASE L # m
    BY <2>3, <2>4, <2>5, SeenPushed
  <2>6. CASE L = m
    <3>1. ~ Under(where[e], P)
      <4>1. ASSUME Under(where[e], P) PROVE FALSE
        <5>1. Under(h, P)
          BY <2>1, <2>3, <2>4, <4>1, UnderUnder
        <5>2. Len(where[e]) <= Len(P) /\ h = Prefix(P, m)
          BY <2>1, <2>3, <2>4, <2>6, <4>1, <5>1, UnderIs DEF Under
        <5> QED
          BY <2>1, <2>2, <2>3, <2>4, <2>6, <5>2
      <4> QED
        BY <4>1
    <3>2. \A r \in Paths : Under(where[e], r) => Seen(v2, L)[r] = Seen(view, L)[r]
      BY <2>3, <2>4, <3>1, SeenPushed
    <3> QED
      BY <2>3, <3>2, SameBelow
  <2> QED
    BY <2>5, <2>6
<1>10. Kept(x, w2, v2)
  <2>1. ASSUME client[x].at = "collect"
        PROVE  LET subdirs == entries[client[x].held].subdirs IN
               client[x].found = {EntryIn(Seen(v2, Level(x, w2)), w2[e]) :
                                     e \in subdirs \ client[x].todo}
    BY <1>2, <1>4, <1>6, <1>7, <1>9, <2>1 DEF Kept
  <2> QED
    BY <1>2, <1>4, <1>8, <2>1 DEF Kept
<1>11. (Holds(x)' <=> Holds(x)) /\ Level(x, w2)' = Level(x, w2)
  BY <1>1 DEF Holds, Level, Writes
<1> QED
  BY <1>1, <1>5, <1>6, <1>10, <1>11 DEF Kept

-----------------------------------------------------------------------------
(* The tree and the others, at each step *)

LEMMA PromisedMove ==
    ASSUME Inv, DOMAIN promised = Clients, NEW c \in Clients, Moves(c)
    PROVE  DOMAIN promised' = Clients /\ \A x \in Clients \ {c} : promised'[x] = promised[x]
<1>1. \/ promised' = promised
      \/ \E r : promised' = [promised EXCEPT ![c] = r]
  BY DEF Moves, Step, Claim, Enter, Descend, MakeDir, Misses, Get, Commit, Create, List,
         Describe, Listed, Finish, Usage, HaveData, Rest, Ask, Promise!Do, Promise!Rest
<1> QED
  BY SMTT(30), <1>1

LEMMA OthersMove ==
    ASSUME Inv, DOMAIN promised = Clients, NEW c \in Clients, Moves(c)
    PROVE  \A x \in Clients \ {c} : client'[x] = client[x] /\ promised'[x] = promised[x]
BY PromisedMove, ClientMove DEF Inv

\* The path of an entry that is new in the directory p.
LEMMA NewPath ==
    ASSUME NEW p \in Paths, NEW n \in Names, Append(p, n) \in Paths
    PROVE  LET q == Append(p, n) IN
           /\ Len(p) \in Nat /\ Len(q) = Len(p) + 1 /\ q[Len(p) + 1] = n
           /\ Under(p, q) /\ Prefix(q, Len(p) + 1) = q
<1> DEFINE q == Append(p, n)
           k == Len(p)
<1>1. p \in Seq(Names) /\ k \in Nat
  BY PathTypes
<1>2. /\ q \in Seq(Names) /\ Len(q) = k + 1
      /\ \A i \in 1 .. k : q[i] = p[i]
      /\ q[k + 1] = n
  BY <1>1, AppendProperties
<1> HIDE DEF q
<1>3. k \in 0 .. Len(q)
  BY <1>1, <1>2
<1>4. /\ Prefix(q, k) \in Seq(Names) /\ Len(Prefix(q, k)) = k
      /\ \A i \in 1 .. k : Prefix(q, k)[i] = q[i]
  BY <1>2, <1>3, PrefixIs
<1>5. Prefix(q, k) = p
  BY <1>1, <1>2, <1>4, SeqEqual
<1>6. Prefix(q, k + 1) = q
  BY <1>2, PrefixEnds
<1> QED
  BY <1>1, <1>2, <1>5, <1>6 DEF q, Under, Prefix

LEMMA TreeGrows ==
    ASSUME Inv, NEW where, Tree(where), NEW d, NEW x, NewEntry(d, x), x.name \in Names,
           Append(where[d], x.name) \in Paths,
           NEW w2, w2 \in [DOMAIN entries' -> Paths],
           \A e \in DOMAIN entries : w2[e] = where[e],
           w2[Len(entries) + 1] = Append(where[d], x.name)
    PROVE  Tree(w2)'
<1> DEFINE new == Len(entries) + 1
<1>0. TypeOK
  BY DEF Inv
<1>1. /\ d \in DOMAIN entries /\ x \in Entry /\ x.subdirs = {} /\ Named(d, x.name) = {}
      /\ entries' = Append([entries EXCEPT ![d].subdirs = @ \cup {Len(entries) + 1}], x)
  BY DEF NewEntry
<1>2. /\ DOMAIN entries' = DOMAIN entries \cup {new} /\ new \notin DOMAIN entries
      /\ entries'[new] = x
      /\ \A e \in DOMAIN entries :
            /\ entries'[e].name = entries[e].name
            /\ entries'[e].releases = entries[e].releases
            /\ e # d => entries'[e].subdirs = entries[e].subdirs
      /\ entries'[d].subdirs = entries[d].subdirs \cup {new}
  BY <1>0, <1>1, Grows
<1>3. Root \in DOMAIN entries /\ \A e \in DOMAIN entries : entries[e].subdirs \subseteq DOMAIN entries
  BY <1>0, TreeTypes
<1> DEFINE q == Append(where[d], x.name)
<1>4. /\ where[d] \in Paths /\ Len(where[d]) \in Nat /\ Len(q) = Len(where[d]) + 1
      /\ q[Len(where[d]) + 1] = x.name /\ Under(where[d], q) /\ Prefix(q, Len(where[d]) + 1) = q
  BY <1>1, NewPath DEF Tree
<1>5. \A e \in DOMAIN entries : where[e] # q
  <2>1. ASSUME NEW e \in DOMAIN entries, where[e] = q PROVE FALSE
    <3>1. q \in Paths /\ Len(where[d]) < Len(q)
      BY <1>4
    <3>2. e \in Named(d, q[Len(where[d]) + 1])
      BY <1>0, <1>1, <1>4, <2>1, <3>1, NextOnTheWay
    <3> QED
      BY <1>1, <1>4, <3>2
  <2> QED
    BY <2>1
<1> HIDE DEF new, q
<1>6. w2[new] = q
  BY DEF new, q
<1>7. w2[Root] = <<>> /\ entries'[Root].releases = <<>>
  BY <1>2, <1>3 DEF Tree
<1>8. \A e, f \in DOMAIN entries' : w2[e] = w2[f] => e = f
  BY <1>2, <1>5, <1>6 DEF Tree
<1>9. ASSUME NEW a \in DOMAIN entries', NEW e \in entries'[a].subdirs
      PROVE  w2[e] = Append(w2[a], entries'[e].name)
  <2>1. a # new
    BY <1>1, <1>2, <1>9
  <2>2. a \in DOMAIN entries
    BY <1>2, <2>1
  <2>3. CASE e = new
    <3>1. a = d
      BY <1>2, <1>3, <1>9, <2>2, <2>3
    <3> QED
      BY <1>1, <1>2, <1>6, <2>3, <3>1 DEF q
  <2>4. CASE e # new
    <3>1. e \in entries[a].subdirs /\ e \in DOMAIN entries
      BY <1>2, <1>3, <1>9, <2>2, <2>4
    <3> QED
      BY <1>2, <2>2, <3>1 DEF Tree
  <2> QED
    BY <2>3, <2>4
<1>10. ASSUME NEW e \in DOMAIN entries' \ {Root}
       PROVE  \E a \in DOMAIN entries' : e \in entries'[a].subdirs
  <2>1. CASE e = new
    BY <1>1, <1>2, <2>1
  <2>2. CASE e \in DOMAIN entries
    <3>1. PICK a \in DOMAIN entries : e \in entries[a].subdirs
      BY <2>2 DEF Tree
    <3>2. e \in entries'[a].subdirs
      BY <1>2, <3>1
    <3> QED
      BY <1>2, <3>1, <3>2
  <2> QED
    BY <1>2, <2>1, <2>2
<1> QED
  BY <1>7, <1>8, <1>9, <1>10 DEF Tree

\* A new entry in the directory that the walk of a put holds.
LEMMA GrowsThere ==
    ASSUME Inv, NEW where, Tree(where), DOMAIN promised = Clients,
           NEW c \in Clients, Moves(c), Holds(c), Writes(client[c]),
           NEW x, NewEntry(client[c].held, x), x.name \in Names,
           Append(where[client[c].held], x.name) \in Paths
    PROVE  \E w2 : /\ Tree(w2)' /\ Frame(c, where, w2)
                   /\ w2[Len(entries) + 1] = Append(where[client[c].held], x.name)
<1> DEFINE d == client[c].held
           new == Len(entries) + 1
<1>0. TypeOK
  BY DEF Inv
<1>1. /\ d \in DOMAIN entries /\ x \in Entry /\ x.subdirs = {}
      /\ entries' = Append([entries EXCEPT ![d].subdirs = @ \cup {Len(entries) + 1}], x)
  BY DEF NewEntry
<1>2. /\ DOMAIN entries' = DOMAIN entries \cup {new} /\ new \notin DOMAIN entries
      /\ \A e \in DOMAIN entries : e # d => entries'[e].subdirs = entries[e].subdirs
      /\ entries'[d].subdirs = entries[d].subdirs \cup {new}
  BY <1>0, <1>1, Grows
<1>3. PICK D : D = DOMAIN entries'
  OBVIOUS
<1>4. PICK n : n = new
  OBVIOUS
<1>5. PICK q : q = Append(where[d], x.name)
  OBVIOUS
<1> DEFINE w2 == [e \in D |-> IF e = n THEN q ELSE where[e]]
<1>6. /\ w2 \in [DOMAIN entries' -> Paths] /\ w2[new] = q
      /\ \A e \in DOMAIN entries : w2[e] = where[e]
  BY <1>2, <1>3, <1>4, <1>5 DEF Tree
<1> HIDE DEF w2
<1>7. Tree(w2)'
  BY <1>5, <1>6, TreeGrows
<1>8. Frame(c, where, w2)
  <2>1. \A y \in Clients \ {c} : client'[y] = client[y] /\ promised'[y] = promised[y]
    BY OthersMove
  <2>2. \A y \in Clients \ {c} : ~ (Holds(y) /\ client[y].held = d)
    BY PutsAreAlone
  <2> QED
    BY <1>2, <1>6, <2>1, <2>2 DEF Frame
<1> QED
  BY <1>5, <1>6, <1>7, <1>8

\* No new entry, but perhaps a new revision of one that is not the root.
LEMMA TreeStays ==
    ASSUME Inv, NEW where, Tree(where), DOMAIN promised = Clients, NEW c \in Clients, Moves(c),
           DOMAIN entries' = DOMAIN entries, entries'[Root].releases = <<>>,
           \A e \in DOMAIN entries : /\ entries'[e].name = entries[e].name
                                     /\ entries'[e].subdirs = entries[e].subdirs
    PROVE  Tree(where)' /\ Frame(c, where, where)
<1>1. \A e \in DOMAIN entries : entries[e].subdirs \subseteq DOMAIN entries
  BY TreeTypes DEF Inv
<1>2. Tree(where)'
  BY <1>1 DEF Tree
<1>3. Frame(c, where, where)
  BY OthersMove DEF Frame
<1> QED
  BY <1>2, <1>3

-----------------------------------------------------------------------------
(* What a walk finds is what it was promised *)

LEMMA UpTo ==
    ASSUME NEW n \in Nat, NEW k \in 0 .. n
    PROVE  k \in Nat /\ k <= n
OBVIOUS

LEMMA ReaderIsIn ==
    ASSUME Inv, NEW where, NEW view, Sim(where, view), NEW c \in Clients,
           client[c].at \in {"in", "collect"}
    PROVE  LET w == client[c]
               Q == w.request.path
               h == where[w.held]
           IN /\ Holds(c) /\ w.held \in DOMAIN entries /\ h \in Paths
              /\ Q \in Paths /\ Len(Q) \in Nat /\ Len(h) \in Nat /\ Len(h) <= Len(Q)
              /\ Under(h, Q) /\ h = Prefix(Q, Len(h)) /\ w.held = w.want /\ Len(h) = Depth(w)
              /\ w.rest \in Seq(Names) /\ Len(w.rest) \in Nat /\ Len(h) = Len(Q) - Len(w.rest)
              /\ w.rest = <<>> => Len(h) = Len(Q) /\ h = Q
              /\ w.rest # <<>> => Len(h) < Len(Q) /\ Head(w.rest) = Q[Len(h) + 1]
              /\ w.request \in Requests \ {NotValid}
              /\ ~ Writes(w) => Level(c, where) = Len(h) /\ Unheld(w.held)
              /\ Writes(w) => Level(c, where) = Len(h) + 1
<1> DEFINE w == client[c]
           Q == w.request.path
           h == where[w.held]
<1>1. ViewOK(where, view) /\ Tree(where) /\ Ways(where) /\ TypeOK /\ w.at \in Walking
  BY DEF Sim, Inv, Walking
<1>2. /\ w.request \in Requests \ {NotValid} /\ Q \in Paths /\ Len(Q) \in Nat
      /\ w.rest \in Seq(Names) /\ Len(w.rest) \in Nat
      /\ w.rest # <<>> => Depth(w) < Len(Q) /\ Head(w.rest) = Q[Depth(w) + 1]
      /\ w.rest = <<>> => Depth(w) = Len(Q)
      /\ WayOf(w, where)
  BY <1>1, WalkIs
<1>3. Holds(c)
  BY <1>1, <1>2 DEF Holds, WayOf
<1>4. /\ w.held \in DOMAIN entries /\ h \in Paths
      /\ Len(h) \in 0 .. Len(Q) /\ h = Prefix(Q, Len(h)) /\ Under(h, Q)
      /\ w.held = w.want /\ Len(h) = Depth(w)
  BY <1>1, <1>3, HeldIs
<1>5. Len(h) \in Nat /\ Len(h) <= Len(Q) /\ Len(h) = Len(Q) - Len(w.rest)
  <2>1. Len(h) = Len(Q) - Len(w.rest)
    BY <1>4 DEF Depth
  <2> QED
    BY <1>2, <1>4, <2>1, UpTo
<1>6. w.rest = <<>> => h = Q
  BY <1>2, <1>4, PathTypes, PrefixEnds
<1>7. /\ ~ Writes(w) => Level(c, where) = Len(h) /\ Unheld(w.held)
      /\ Writes(w) => Level(c, where) = Len(h) + 1
  BY <1>3, <1>5, LevelIs, ReadersAreIn
<1> QED
  BY <1>2, <1>3, <1>4, <1>5, <1>6, <1>7

LEMMA MissesAnswer ==
    ASSUME Inv, NEW where, NEW view, Sim(where, view), NEW c \in Clients,
           client[c].at = "in", ~ Writes(client[c]),
           \/ client[c].rest = <<>> /\ client[c].request.op # "list"
           \/ client[c].rest # <<>> /\ Named(client[c].held, Head(client[c].rest)) = {}
    PROVE  AnswerIn(Seen(view, Level(c, where)), client[c].request) = Promise!Error
<1> DEFINE w == client[c]
           Q == w.request.path
           h == where[w.held]
           k == Len(h)
<1>1. ViewOK(where, view) /\ Tree(where) /\ Ways(where) /\ TypeOK
  BY DEF Sim, Inv
<1>2. /\ Holds(c) /\ w.held \in DOMAIN entries /\ h \in Paths
      /\ Q \in Paths /\ Len(Q) \in Nat /\ k \in Nat /\ k <= Len(Q)
      /\ Under(h, Q) /\ h = Prefix(Q, k)
      /\ w.rest = <<>> => k = Len(Q) /\ h = Q
      /\ w.rest # <<>> => k < Len(Q) /\ Head(w.rest) = Q[k + 1]
      /\ w.request \in Requests \ {NotValid}
      /\ Level(c, where) = k /\ Unheld(w.held)
  BY ReaderIsIn
<1>3. w.request.op \in {"list", "get", "last"}
  BY <1>2 DEF Requests, Writes
<1> DEFINE st == Seen(view, k)
<1>4. \A r \in Paths : st[r] = view[r][k]
  BY DEF Seen
<1>5. CASE w.rest = <<>> /\ w.request.op # "list"
  <2>1. w.request.path = <<>>
    <3>1. WayOf(w, where)
      BY <1>1, <1>2, WalkIs DEF Holds
    <3> QED
      BY <1>5, <3>1 DEF WayOf
  <2>2. where[Root] = Q /\ Root \in DOMAIN entries /\ entries[Root].releases = <<>>
    BY <1>1, <2>1, TreeTypes DEF Tree
  <2>3. st[Q] = <<>>
    <3>1. view[where[Root]][Len(where[Root])] = <<>>
      BY <1>1, <2>2 DEF ViewOK
    <3> QED
      BY <1>2, <1>4, <1>5, <2>2, <3>1
  <2> HIDE DEF st
  <2>4. AnswerIn(st, w.request) = Promise!Error
    BY <1>3, <1>5, <2>3 DEF AnswerIn
  <2> QED
    BY <1>2, <2>4 DEF st
<1>6. CASE w.rest # <<>> /\ Named(w.held, Head(w.rest)) = {}
  <2>1. k < Len(Q) /\ Named(w.held, Q[k + 1]) = {}
    BY <1>2, <1>6
  <2>2. ASSUME NEW r \in Paths, Under(Q, r) PROVE st[r] = <<>>
    <3>1. Under(h, r) /\ k < Len(r) /\ Len(Q) \in 0 .. Len(r) /\ Prefix(r, Len(Q)) = Q
      BY <1>2, <2>1, <2>2, UnderUnder, UnderIs, PathTypes
    <3>2. view[r][k] = view[r][k + 1]
      BY SMTT(30), <1>2, <3>1, NothingOnTheWay DEF Unheld
    <3>3. Prefix(r, k + 1) = Prefix(Q, k + 1)
      <4>1. k + 1 \in 0 .. Len(Q)
        BY <1>2, <2>1
      <4> QED
        BY <3>1, <4>1, PathTypes, PrefixOfPrefix
    <3>4. ~ \E e \in DOMAIN entries : where[e] = Prefix(r, k + 1)
      BY <1>1, <1>2, <2>1, <3>3, NextOnTheWay
    <3>5. k + 1 \in 0 .. Len(r)
      BY <1>2, <3>1, PathTypes
    <3>6. view[r][k + 1] = <<>>
      BY <1>1, <3>4, <3>5 DEF ViewOK
    <3> QED
      BY <1>4, <3>2, <3>6
  <2>3. st[Q] = <<>>
    BY <1>2, <2>2, UnderItself
  <2>4. ~ ExistsIn(st, Q)
    <3>1. Q # <<>>
      BY <1>2, <2>1, EmptySeq
    <3> QED
      BY <2>2, <3>1 DEF ExistsIn
  <2> HIDE DEF st
  <2>5. AnswerIn(st, w.request) = Promise!Error
    BY <1>3, <2>3, <2>4 DEF AnswerIn
  <2> QED
    BY <1>2, <2>5 DEF st
<1> QED
  BY <1>5, <1>6

\* The file of a request is the last on its way.
LEMMA LastStep ==
    ASSUME Inv, NEW where, NEW view, Sim(where, view), NEW c \in Clients,
           client[c].at = "in", Len(client[c].rest) = 1
    PROVE  LET w == client[c]
               Q == w.request.path
           IN /\ Q \in Paths /\ Len(Q) \in Nat /\ Len(where[w.held]) + 1 = Len(Q)
              /\ Seen(view, Level(c, where))[Q] = view[Q][Len(Q)]
              /\ \A e \in Named(w.held, Head(w.rest)) :
                    e \in DOMAIN entries /\ where[e] = Q /\ view[Q][Len(Q)] = entries[e].releases
              /\ Named(w.held, Head(w.rest)) = {} => view[Q][Len(Q)] = <<>>
<1> DEFINE w == client[c]
           Q == w.request.path
           h == where[w.held]
           k == Len(h)
<1>1. ViewOK(where, view) /\ Tree(where) /\ Ways(where) /\ TypeOK
  BY DEF Sim, Inv
<1>2. /\ Holds(c) /\ w.held \in DOMAIN entries /\ h \in Paths
      /\ Q \in Paths /\ Len(Q) \in Nat /\ k \in Nat /\ k <= Len(Q)
      /\ Under(h, Q) /\ h = Prefix(Q, k) /\ w.rest \in Seq(Names)
      /\ k = Len(Q) - Len(w.rest)
      /\ w.rest # <<>> => k < Len(Q) /\ Head(w.rest) = Q[k + 1]
      /\ ~ Writes(w) => Level(c, where) = k /\ Unheld(w.held)
      /\ Writes(w) => Level(c, where) = k + 1
  BY ReaderIsIn
<1>3. k + 1 = Len(Q) /\ Head(w.rest) = Q[k + 1] /\ k < Len(Q)
  <2>1. w.rest # <<>>
    BY <1>2, Rests
  <2> QED
    BY <1>2, <2>1
<1>4. Prefix(Q, k + 1) = Q
  BY <1>2, <1>3, PathTypes, PrefixEnds
<1>5. Seen(view, Level(c, where))[Q] = view[Q][Len(Q)]
  <2>1. CASE Writes(w)
    BY <1>2, <1>3, <2>1 DEF Seen
  <2>2. CASE ~ Writes(w)
    <3>1. \A x \in Clients : Holds(x) /\ client[x].held = w.held =>
             ~ Writes(client[x]) \/ client[x].request.path # Q
      BY <1>2, <2>2 DEF Unheld
    <3>2. w.held \in DOMAIN entries /\ Q \in Paths /\ Under(h, Q) /\ k < Len(Q)
      BY <1>2, <1>3
    <3>3. view[Q][k] = view[Q][k + 1]
      BY ZenonT(30), <3>1, <3>2, NothingOnTheWay
    <3>4. Level(c, where) = k
      BY <1>2, <2>2
    <3>5. Seen(view, k)[Q] = view[Q][k]
      BY <3>2 DEF Seen
    <3> QED
      BY <1>3, <3>3, <3>4, <3>5
  <2> QED
    BY <2>1, <2>2
<1>6. ASSUME NEW e \in Named(w.held, Head(w.rest))
      PROVE  e \in DOMAIN entries /\ where[e] = Q /\ view[Q][Len(Q)] = entries[e].releases
  <2>1. e \in DOMAIN entries /\ where[e] = Q
    BY SMTT(30), <1>1, <1>2, <1>3, <1>4, NextOnTheWay
  <2>2. view[where[e]][Len(where[e])] = entries[e].releases
    BY <2>1, ViewIs
  <2> QED
    BY <2>1, <2>2
<1>7. ASSUME Named(w.held, Head(w.rest)) = {} PROVE view[Q][Len(Q)] = <<>>
  <2>1. ~ \E e \in DOMAIN entries : where[e] = Prefix(Q, k + 1)
    <3>1. Named(w.held, Q[k + 1]) = {}
      BY <1>3, <1>7
    <3>2. \A e \in DOMAIN entries : where[e] = Prefix(Q, k + 1) => e \in Named(w.held, Q[k + 1])
      BY <1>1, <1>2, <1>3, NextOnTheWay
    <3> QED
      BY <3>1, <3>2
  <2>2. Len(Q) \in 0 .. Len(Q)
    BY <1>2
  <2> QED
    BY <1>1, <1>2, <1>3, <2>1, <2>2 DEF ViewOK
<1> QED
  BY <1>2, <1>3, <1>5, <1>6, <1>7

LEMMA GetAnswer ==
    ASSUME Inv, NEW where, NEW view, Sim(where, view), NEW c \in Clients,
           client[c].at = "in", client[c].request.op \in {"get", "last"}, Len(client[c].rest) = 1,
           NEW e \in Named(client[c].held, Head(client[c].rest))
    PROVE  LET releases == entries[e].releases
               r == IF client[c].request.op = "last" THEN Len(releases)
                    ELSE client[c].request.rev
           IN AnswerIn(Seen(view, Level(c, where)), client[c].request) =
                  IF r \in DOMAIN releases THEN Promise!Content(releases[r]) ELSE Promise!Error
<1> DEFINE w == client[c]
           Q == w.request.path
           st == Seen(view, Level(c, where))
           releases == entries[e].releases
<1>1. st[Q] = releases /\ e \in DOMAIN entries
  BY LastStep
<1>2. /\ Len(releases) \in Nat /\ DOMAIN releases = 1 .. Len(releases)
      /\ releases # <<>> <=> Len(releases) # 0
  <2>1. releases \in Seq(Data)
    BY <1>1, TreeTypes DEF Inv, Entry
  <2> QED
    BY <2>1, LenProperties, EmptySeq
<1> HIDE DEF st, releases
<1>3. CASE w.request.op = "last"
  <2>1. releases # <<>> <=> Len(releases) \in DOMAIN releases
    BY <1>2
  <2> QED
    BY <1>1, <1>3, <2>1 DEF AnswerIn, st, releases
<1>4. CASE w.request.op = "get"
  BY <1>1, <1>4 DEF AnswerIn, st, releases
<1> QED
  BY <1>3, <1>4

LEMMA ListedAnswer ==
    ASSUME Inv, NEW where, NEW view, Sim(where, view), NEW c \in Clients,
           client[c].at = "collect", client[c].todo = {}
    PROVE  AnswerIn(Seen(view, Level(c, where)), client[c].request) =
               Promise!Listing(client[c].found)
<1> DEFINE w == client[c]
           Q == w.request.path
           h == where[w.held]
           k == Len(h)
           st == Seen(view, k)
           subdirs == entries[w.held].subdirs
<1>1. ViewOK(where, view) /\ Tree(where) /\ Ways(where) /\ TypeOK /\ Kept(c, where, view)
  BY DEF Sim, Inv, Promises
<1>2. w.request.op = "list" /\ w.rest = <<>>
  BY <1>1 DEF Ways, WayOf, Walking
<1>3. /\ Holds(c) /\ w.held \in DOMAIN entries /\ h \in Paths
      /\ Q \in Paths /\ k \in Nat /\ h = Q
      /\ Level(c, where) = k /\ Unheld(w.held)
  BY <1>2, ReaderIsIn DEF Writes
<1>4. ChildrenIn(st, Q) = {where[e] : e \in subdirs}
  <2>1. ChildrenIn(Seen(view, Len(where[w.held])), where[w.held]) =
           {where[e] : e \in entries[w.held].subdirs}
    BY <1>3, DirectoryHolds
  <2> QED
    BY <1>3, <2>1
<1>5. w.found = {EntryIn(st, where[e]) : e \in subdirs}
  BY <1>1, <1>3 DEF Kept
<1>6. {EntryIn(st, p) : p \in ChildrenIn(st, Q)} = w.found
  BY <1>4, <1>5
<1>7. ExistsIn(st, Q)
  <2>1. CASE Q = <<>>
    BY <2>1 DEF ExistsIn
  <2>2. CASE Q # <<>>
    <3>1. w.held # Root
      BY <1>1, <1>3, <2>2 DEF Tree
    <3>2. PICK q \in Paths : Under(h, q) /\ view[q][k] # <<>>
      BY <1>1, <1>3, <3>1 DEF ViewOK
    <3>3. st[q] # <<>>
      BY <3>2 DEF Seen
    <3> QED
      BY <1>3, <3>2, <3>3 DEF ExistsIn
  <2> QED
    BY <2>1, <2>2
<1> HIDE DEF st
<1>8. AnswerIn(st, w.request) = Promise!Listing(w.found)
  BY <1>2, <1>6, <1>7 DEF AnswerIn
<1> QED
  BY <1>3, <1>8 DEF st

LEMMA PutAnswer ==
    ASSUME Inv, NEW where, NEW view, Sim(where, view), NEW c \in Clients,
           client[c].at = "in", Len(client[c].rest) = 1, Writes(client[c])
    PROVE  LET w == client[c]
               Q == w.request.path
               releases == view[Q][Len(Q)]
           IN /\ AnswerIn(Seen(view, Level(c, where)), w.request) =
                     Promise!Numbered(Len(releases)
                         + IF IsLastOf(releases, w.request.data) THEN 0 ELSE 1)
              /\ view[Q][Len(Q) - 1] = Put(releases, w.request.data)
<1> DEFINE w == client[c]
           Q == w.request.path
           st == Seen(view, Level(c, where))
<1>1. /\ Q \in Paths /\ Len(Q) \in Nat /\ Len(where[w.held]) + 1 = Len(Q)
      /\ st[Q] = view[Q][Len(Q)]
  BY LastStep
<1>2. /\ Holds(c) /\ w.held \in DOMAIN entries /\ w.request \in Requests \ {NotValid}
      /\ Len(where[w.held]) \in Nat
  BY ReaderIsIn
<1>3. w.request.op = "put" /\ w.request.valid
  <2>1. w.request.op = "put"
    BY DEF Writes
  <2> QED
    BY <1>2, <2>1 DEF Requests
<1>4. PutsFrom(c, Q, w.held)
  BY <1>2 DEF PutsFrom
<1>5. view[Q][Len(where[w.held])] = Put(view[Q][Len(where[w.held]) + 1], w.request.data)
  BY <1>1, <1>2, <1>4 DEF Sim, ViewOK
<1>6. Len(where[w.held]) = Len(Q) - 1
  BY <1>1, <1>2
<1>7. view[Q][Len(Q) - 1] = Put(view[Q][Len(Q)], w.request.data)
  BY <1>1, <1>5, <1>6
<1> HIDE DEF st
<1>8. AnswerIn(st, w.request) =
         Promise!Numbered(Len(st[Q]) + IF IsLastOf(st[Q], w.request.data) THEN 0 ELSE 1)
  BY <1>3 DEF AnswerIn
<1> QED
  BY <1>1, <1>7, <1>8 DEF st

-----------------------------------------------------------------------------
(* The steps that leave everything as it is found *)

OwnOK(c, where, view) ==
    (client[c].at \in Walking => WayOf(client[c], where)) /\ Kept(c, where, view)

LEMMA SimIs ==
    ASSUME Inv, NEW where, NEW view, Sim(where, view), NEW c \in Clients, Moves(c),
           NEW w2, NEW v2, Frame(c, where, w2), Tree(w2)', ViewOK(w2, v2)',
           v2 \in [Paths -> [Nat -> Seq(Data)]], store' \in [Paths -> Seq(Data)],
           OwnOK(c, w2, v2)', \A x \in Clients \ {c} : Kept(x, w2, v2)'
    PROVE  Sim(w2, v2)'
<1>1. Tree(where) /\ Ways(where) /\ DOMAIN promised = Clients
  BY DEF Sim
<1>2. Ways(w2)'
  BY <1>1, WaysStay DEF OwnOK
<1>3. DOMAIN promised' = Clients
  BY <1>1, PromisedMove
<1>4. Promises(w2, v2)'
  BY DEF Promises, OwnOK
<1> QED
  BY <1>2, <1>3, <1>4 DEF Sim

LEMMA StillStep ==
    ASSUME Inv, NEW where, NEW view, Sim(where, view), NEW c \in Clients, Moves(c),
           UNCHANGED <<entries, store>>,
           \A q \in Paths : \A d :
              /\ PutsFrom(c, q, d)' =>
                    PutsFrom(c, q, d) /\ client'[c].request.data = client[c].request.data
              /\ PutsFrom(c, q, d) =>
                    PutsFrom(c, q, d)' \/ view[q][Len(where[d])] = view[q][Len(where[d]) + 1],
           \A e : ComesTo(c, e) => ComesTo(c, e)',
           Holds(c)' => \/ Holds(c) /\ client[c].held = client'[c].held
                        \/ client'[c].held = Root
                        \/ \A x \in Clients : ~ ComesTo(x, client'[c].held),
           OwnOK(c, where, view)'
    PROVE  Sim(where, view)'
<1>1. /\ Tree(where) /\ DOMAIN promised = Clients /\ entries[Root].releases = <<>>
      /\ view \in [Paths -> [Nat -> Seq(Data)]] /\ store \in [Paths -> Seq(Data)]
  BY DEF Sim, Tree
<1>2. Tree(where)' /\ Frame(c, where, where)
  BY <1>1, TreeStays
<1>3. ViewOK(where, view)'
  BY <1>2, ViewStays
<1>4. \A x \in Clients \ {c} : Kept(x, where, view)'
  BY <1>2, KeptStays
<1> QED
  BY <1>1, <1>2, <1>3, <1>4, SimIs

\* A step that is not in the tree before or after.
LEMMA OutsideStep ==
    ASSUME Inv, NEW where, NEW view, Sim(where, view), NEW c \in Clients, Moves(c),
           UNCHANGED <<entries, store>>,
           ~ (Holds(c) /\ Writes(client[c])), ~ Holds(c)', OwnOK(c, where, view)'
    PROVE  Sim(where, view)'
<1>1. \A q, d : ~ PutsFrom(c, q, d) /\ ~ PutsFrom(c, q, d)'
  BY DEF PutsFrom
<1>2. \A e : ~ ComesTo(c, e)
  BY DEF ComesTo
<1> QED
  BY <1>1, <1>2, StillStep

\* A step in a directory that the walk goes on to hold.
LEMMA InsideStep ==
    ASSUME Inv, NEW where, NEW view, Sim(where, view), NEW c \in Clients, Moves(c),
           UNCHANGED <<entries, store>>, client[c].at \in {"in", "collect", "want"},
           client'[c].held = client[c].held, client'[c].request = client[c].request,
           client'[c].at \in Walking,
           client[c].at = "want" => client'[c].at = "claimed" /\ client'[c].want = client[c].want,
           OwnOK(c, where, view)'
    PROVE  Sim(where, view)'
<1>1. (Holds(c)' <=> Holds(c)) /\ (Writes(client[c])' <=> Writes(client[c]))
  BY DEF Holds, Writes, Walking
<1>2. \A q, d : PutsFrom(c, q, d)' <=> PutsFrom(c, q, d)
  BY <1>1 DEF PutsFrom
<1>3. \A e : ComesTo(c, e) => ComesTo(c, e)'
  BY <1>1 DEF ComesTo
<1> QED
  BY <1>1, <1>2, <1>3, StillStep

LEMMA ClaimSim ==
    ASSUME Inv, NEW where, NEW view, Sim(where, view), NEW c \in Clients, Claim(c)
    PROVE  \E w2, v2 : Sim(w2, v2)'
<1> DEFINE w == client[c]
<1>1. /\ w.at = "want" /\ Writes(w) /\ client' = [client EXCEPT ![c].at = "claimed"]
      /\ UNCHANGED <<entries, puts, store, promised>>
  BY DEF Claim
<1>2. /\ TypeOK /\ Ways(where) /\ Tree(where) /\ Kept(c, where, view) /\ w.at \in Walking
      /\ DOMAIN client = Clients
  BY <1>1 DEF Inv, Sim, Promises, Walking, TypeOK
<1>3. DOMAIN w = {"at", "request", "held", "want", "rest", "found", "todo"}
  BY <1>2, InDirectory DEF WalkOK, Walk
<1>4. client'[c] = [w EXCEPT !.at = "claimed"]
  BY <1>1, <1>2
<1>5. WayOf(w, where)
  BY <1>2 DEF Ways
<1> HIDE DEF w
<1>6. /\ client'[c].at = "claimed" /\ client'[c].held = w.held /\ client'[c].request = w.request
      /\ client'[c].want = w.want /\ client'[c].rest = w.rest /\ client'[c].found = w.found
  BY <1>3, <1>4
<1>7. WayOf(client[c], where)'
  BY <1>1, <1>5, <1>6 DEF WayOf, Depth
<1>8. Kept(c, where, view)'
  <2>1. (Holds(c)' <=> Holds(c)) /\ (Level(c, where)' = Level(c, where))
    BY <1>2, <1>6 DEF Holds, Level, Writes, Walking, w
  <2> QED
    BY <1>1, <1>2, <1>6, <2>1 DEF Kept, w
<1>9. Sim(where, view)'
  BY <1>1, <1>6, <1>7, <1>8, InsideStep DEF OwnOK, w, Walking, Moves, Step
<1> QED
  BY <1>9

\* A walk that goes on to want an entry e of the directory it holds.
LEMMA WayOn ==
    ASSUME Inv, NEW where, NEW view, Sim(where, view), NEW c \in Clients,
           client[c].at = "in", client[c].rest # <<>>,
           Len(client[c].rest) > 1 \/ client[c].request.op = "list",
           NEW e, NEW w2, NEW v, DOMAIN v = DOMAIN client[c],
           w2[e] = Prefix(client[c].request.path, Len(where[client[c].held]) + 1),
           v.at = "want", v.want = e, v.rest = Tail(client[c].rest), v.held = client[c].held,
           v.request = client[c].request, v.found = client[c].found,
           e \in entries'[v.held].subdirs
    PROVE  WayOf(v, w2)'
<1> DEFINE w == client[c]
           Q == w.request.path
           r == w.rest
           k == Len(where[w.held])
<1>1. /\ Holds(c) /\ k = Depth(w) /\ k = Len(Q) - Len(r) /\ k \in Nat /\ Len(Q) \in Nat
      /\ r \in Seq(Names) /\ Len(r) \in Nat /\ k < Len(Q)
  BY ReaderIsIn
<1>2. WayOf(w, where)
  BY DEF Sim, Ways, Walking
<1>3. /\ Tail(r) \in Seq(Names) /\ Len(Tail(r)) = Len(r) - 1
      /\ \A i \in 1 .. Len(Tail(r)) : Tail(r)[i] = r[i + 1]
  BY <1>1, HeadTailProperties
<1>4. Len(r) > 1 => Tail(r) # <<>>
  BY <1>1, Rests
<1> DEFINE t == Tail(r)
           n == Len(r)
           N == Len(Q)
<1>5. /\ \A i \in 1 .. n : r[i] = Q[k + i] /\ n <= N
      /\ w.found = {}
  BY <1>1, <1>2 DEF WayOf
<1>6. w.held # Nowhere
  BY <1>1 DEF Holds
<1>7. /\ v.rest = t /\ Depth(v) = Len(Q) - Len(t) /\ v.request.path = Q
  BY DEF Depth
<1> HIDE DEF t, n, N, w, Q, k, r
<1>8. Depth(v) = k + 1 /\ Len(t) <= N
  BY <1>1, <1>3, <1>5, <1>7 DEF t, n, N
<1>9. \A i \in 1 .. Len(t) : t[i] = Q[k + 1 + i]
  <2>1. ASSUME NEW i \in 1 .. Len(t) PROVE t[i] = Q[k + 1 + i]
    <3>1. i + 1 \in 1 .. n /\ k + (i + 1) = k + 1 + i
      BY <1>1, <1>3 DEF t, n
    <3> QED
      BY <1>3, <1>5, <3>1 DEF t
  <2> QED
    BY <2>1
<1>10. w2[e] = Prefix(Q, k + 1) /\ v.held = w.held /\ v.found = {} /\ v.request = w.request
  BY <1>5 DEF w, Q, k
<1>11. w.request.op = "list" \/ t # <<>>
  BY <1>4 DEF w, t, r
<1>12. v.at = "want" /\ v.want = e /\ e \in entries'[v.held].subdirs
  OBVIOUS
<1> QED
  BY <1>6, <1>7, <1>8, <1>9, <1>10, <1>11, <1>12 DEF WayOf, N

LEMMA DescendSim ==
    ASSUME Inv, NEW where, NEW view, Sim(where, view), NEW c \in Clients, Descend(c)
    PROVE  \E w2, v2 : Sim(w2, v2)'
<1> DEFINE w == client[c]
<1>1. /\ w.at = "in" /\ Ahead(w) /\ UNCHANGED <<entries, lock, puts, store, promised>>
  BY DEF Descend
<1>2. PICK e \in Named(w.held, Head(w.rest)) :
          client' = [client EXCEPT ![c].at = "want", ![c].want = e, ![c].rest = Tail(w.rest)]
  BY DEF Descend
<1>3. /\ TypeOK /\ Ways(where) /\ Tree(where) /\ Kept(c, where, view) /\ w.at \in Walking
      /\ DOMAIN client = Clients
  BY <1>1 DEF Inv, Sim, Promises, Walking, TypeOK
<1>4. DOMAIN w = {"at", "request", "held", "want", "rest", "found", "todo"}
  BY <1>3, InDirectory DEF WalkOK, Walk
<1>5. client'[c] = [w EXCEPT !.at = "want", !.want = e, !.rest = Tail(w.rest)]
  BY <1>2, <1>3
<1>6. w.rest # <<>> /\ (Len(w.rest) > 1 \/ w.request.op = "list")
  BY <1>1 DEF Ahead
<1>7. /\ w.held \in DOMAIN entries /\ w.request.path \in Paths /\ Under(where[w.held], w.request.path)
      /\ Len(where[w.held]) < Len(w.request.path)
      /\ Head(w.rest) = w.request.path[Len(where[w.held]) + 1]
  BY <1>1, <1>6, ReaderIsIn
<1>8. e \in entries[w.held].subdirs /\ where[e] = Prefix(w.request.path, Len(where[w.held]) + 1)
  BY <1>3, <1>7, NextOnTheWay
<1>9. PICK v : v = client'[c]
  OBVIOUS
<1>10. /\ v.at = "want" /\ v.held = w.held /\ v.request = w.request
       /\ v.want = e /\ v.rest = Tail(w.rest) /\ v.found = w.found /\ DOMAIN v = DOMAIN w
  <2> HIDE DEF w
  <2> QED
    BY <1>4, <1>5, <1>9
<1>11. WayOf(v, where)'
  BY <1>1, <1>6, <1>8, <1>10, WayOn
<1>12. WayOf(client[c], where)'
  BY <1>9, <1>11
<1>13. Kept(c, where, view)'
  <2>1. (Holds(c)' <=> Holds(c)) /\ (Level(c, where)' = Level(c, where))
    BY <1>3, <1>9, <1>10 DEF Holds, Level, Writes, Walking
  <2> QED
    BY <1>1, <1>3, <1>9, <1>10, <2>1 DEF Kept, Walking
<1>14. Sim(where, view)'
  BY <1>1, <1>9, <1>10, <1>12, <1>13, InsideStep DEF OwnOK, Walking, Moves, Step
<1> QED
  BY <1>14

LEMMA ListSim ==
    ASSUME Inv, NEW where, NEW view, Sim(where, view), NEW c \in Clients, List(c)
    PROVE  \E w2, v2 : Sim(w2, v2)'
<1> DEFINE w == client[c]
           subdirs == entries[w.held].subdirs
<1>1. /\ w.at = "in" /\ w.request.op = "list" /\ w.rest = <<>>
      /\ UNCHANGED <<entries, lock, puts, store, promised>>
      /\ client' = [client EXCEPT ![c].at = "collect", ![c].todo = subdirs]
  BY DEF List
<1>3. /\ TypeOK /\ Ways(where) /\ Tree(where) /\ Kept(c, where, view) /\ w.at \in Walking
      /\ DOMAIN client = Clients
  BY <1>1 DEF Inv, Sim, Promises, Walking, TypeOK
<1>4. DOMAIN w = {"at", "request", "held", "want", "rest", "found", "todo"}
  BY <1>3, InDirectory DEF WalkOK, Walk
<1>5. client'[c] = [w EXCEPT !.at = "collect", !.todo = subdirs]
  BY <1>1, <1>3
<1>6. PICK v : v = client'[c]
  OBVIOUS
<1>7. /\ v.at = "collect" /\ v.held = w.held /\ v.request = w.request
      /\ v.want = w.want /\ v.rest = w.rest /\ v.found = w.found /\ v.todo = subdirs
  <2> HIDE DEF w, subdirs
  <2> QED
    BY <1>4, <1>5, <1>6
<1>8. WayOf(w, where)
  BY <1>3 DEF Ways
<1>9. w.found = {}
  BY <1>1, <1>8 DEF WayOf
<1>10. WayOf(client[c], where)'
  BY ZenonT(30), <1>1, <1>6, <1>7, <1>8 DEF WayOf, Depth
<1>11. Kept(c, where, view)'
  <2>1. (Holds(c)' <=> Holds(c)) /\ (Level(c, where)' = Level(c, where))
    BY <1>3, <1>6, <1>7 DEF Holds, Level, Writes, Walking
  <2>2. v.found = {EntryIn(Seen(view, Level(c, where)), where[e]) : e \in subdirs \ v.todo}
    BY <1>7, <1>9
  <2> QED
    BY <1>1, <1>3, <1>6, <1>7, <2>1, <2>2 DEF Kept, Walking
<1>12. Sim(where, view)'
  BY <1>1, <1>6, <1>7, <1>10, <1>11, InsideStep DEF OwnOK, Walking, Moves, Step
<1> QED
  BY <1>12

\* Of a set of numbers that is not empty, the least.
LEMMA Least ==
    ASSUME NEW S \in SUBSET Nat, S # {}
    PROVE  (CHOOSE x \in S : \A y \in S : x <= y) \in S
<1>1. PICK x \in S : \A y \in S : ~ (<<y, x>> \in OpToRel(<, Nat))
  BY NatLessThanWellFounded, WFMin
<1>2. \A y \in S : ~ (y < x)
  BY <1>1 DEF OpToRel
<1>3. \A y \in S : x <= y
  BY <1>2
<1> QED
  BY <1>3

LEMMA DescribeSim ==
    ASSUME Inv, NEW where, NEW view, Sim(where, view), NEW c \in Clients, Describe(c)
    PROVE  \E w2, v2 : Sim(w2, v2)'
<1> DEFINE w == client[c]
           e == CHOOSE x \in w.todo : \A y \in w.todo : x <= y
           entry == entries[e]
           described ==
               IF entry.releases = <<>>
               THEN [name |-> entry.name, kind |-> "DIR", count |-> Cardinality(entry.subdirs)]
               ELSE [name |-> entry.name, kind |-> "file", count |-> Len(entry.releases)]
           subdirs == entries[w.held].subdirs
           st == Seen(view, Level(c, where))
<1>1. /\ w.at = "collect" /\ w.todo # {} /\ (entry.releases = <<>> => lock[e].writer = Nobody)
      /\ UNCHANGED <<entries, lock, puts, store, promised>>
      /\ client' = [client EXCEPT ![c].todo = @ \ {e}, ![c].found = @ \cup {described}]
  BY DEF Describe
<1>2. /\ TypeOK /\ Ways(where) /\ Tree(where) /\ Kept(c, where, view) /\ w.at \in Walking
      /\ DOMAIN client = Clients /\ LockInv /\ Nobody \notin Clients
  BY <1>1, ClientsAssumption DEF Inv, Sim, Promises, Walking, TypeOK, Nobody
<1>3. DOMAIN w = {"at", "request", "held", "want", "rest", "found", "todo"}
  BY <1>2, InDirectory DEF WalkOK, Walk
<1>4. WayOf(w, where) /\ w.request.op = "list"
  BY <1>1, <1>2 DEF Ways, WayOf
<1>5. /\ Holds(c) /\ w.held \in DOMAIN entries /\ Level(c, where) = Len(where[w.held])
      /\ Unheld(w.held)
  BY <1>1, <1>4, ReaderIsIn DEF Writes
<1>6. /\ w.todo \subseteq subdirs /\ w.found = {EntryIn(st, where[x]) : x \in subdirs \ w.todo}
      /\ subdirs \in SUBSET Nat
  BY <1>1, <1>2, <1>5, TreeTypes DEF Kept, Entry
<1>7. e \in w.todo /\ e \in subdirs
  BY <1>1, <1>6, Least
<1>8. entry.releases = <<>> => Unheld(e)
  <2> HIDE DEF e
  <2>1. ASSUME entry.releases = <<>>, NEW x \in Clients, Holds(x), client[x].held = e
        PROVE  ~ Writes(client[x])
    BY <1>1, <1>2, <2>1 DEF LockInv
  <2> QED
    BY <2>1 DEF Unheld
<1>9. EntryIn(st, where[e]) = described
  BY ZenonT(30), <1>5, <1>7, <1>8, EntryIs
<1>10. client'[c] = [w EXCEPT !.todo = w.todo \ {e}, !.found = w.found \cup {described}]
  BY <1>1, <1>2
<1>11. PICK v : v = client'[c]
  OBVIOUS
<1> HIDE DEF e, described
<1>12. /\ v.at = "collect" /\ v.held = w.held /\ v.request = w.request
       /\ v.want = w.want /\ v.rest = w.rest
       /\ v.found = w.found \cup {described} /\ v.todo = w.todo \ {e}
  <2>1. w.at = "collect"
    BY <1>1
  <2> HIDE DEF w
  <2> QED
    BY <1>3, <1>10, <1>11, <2>1
<1>13. WayOf(client[c], where)'
  BY ZenonT(30), <1>1, <1>4, <1>11, <1>12 DEF WayOf, Depth
<1>14. v.found = {EntryIn(st, where[x]) : x \in subdirs \ v.todo}
  <2>1. subdirs \ v.todo = (subdirs \ w.todo) \cup {e}
    BY <1>7, <1>12
  <2> HIDE DEF st, subdirs, w
  <2> QED
    BY <1>6, <1>9, <1>12, <2>1
<1>15. Kept(c, where, view)'
  <2>1. (Holds(c)' <=> Holds(c)) /\ (Level(c, where)' = Level(c, where))
    BY <1>2, <1>11, <1>12 DEF Holds, Level, Writes, Walking
  <2>2. v.todo \subseteq subdirs
    BY <1>6, <1>12
  <2> QED
    BY <1>1, <1>2, <1>11, <1>12, <1>14, <2>1, <2>2 DEF Kept, Walking
<1>16. Sim(where, view)'
  BY <1>1, <1>11, <1>12, <1>13, <1>15, InsideStep DEF OwnOK, Walking, Moves, Step
<1> QED
  BY <1>16

-----------------------------------------------------------------------------
(* The steps that begin and end a request *)

LEMMA OwnAnswered ==
    ASSUME NEW c, NEW a, client'[c] = Answered(a), promised'[c] = Answered(a), NEW w2, NEW v2
    PROVE  OwnOK(c, w2, v2)' /\ ~ Holds(c)'
BY DEF OwnOK, Kept, Holds, Answered, Walking

\* A walk that ends answers what it was promised.
LEMMA FinishSim ==
    ASSUME Inv, NEW where, NEW view, Sim(where, view), NEW c \in Clients, Moves(c),
           Holds(c), ~ Writes(client[c]), UNCHANGED <<entries, store, promised>>,
           NEW a, client' = [client EXCEPT ![c] = Answered(a)],
           AnswerIn(Seen(view, Level(c, where)), client[c].request) = a
    PROVE  Sim(where, view)'
<1>1. promised[c] = Answered(a)
  BY DEF Sim, Promises, Kept
<1>2. client'[c] = Answered(a) /\ promised'[c] = Answered(a)
  BY <1>1 DEF Inv, TypeOK
<1>3. OwnOK(c, where, view)' /\ ~ Holds(c)'
  BY <1>2, OwnAnswered
<1> QED
  BY <1>3, OutsideStep

LEMMA MissesSim ==
    ASSUME Inv, NEW where, NEW view, Sim(where, view), NEW c \in Clients, Misses(c)
    PROVE  \E w2, v2 : Sim(w2, v2)'
<1>1. /\ client[c].at = "in" /\ ~ Writes(client[c])
      /\ \/ client[c].rest = <<>> /\ client[c].request.op # "list"
         \/ client[c].rest # <<>> /\ Named(client[c].held, Head(client[c].rest)) = {}
      /\ client' = [client EXCEPT ![c] = Answered(Promise!Error)]
      /\ UNCHANGED <<entries, store, promised>>
  BY DEF Misses, Finish
<1>2. AnswerIn(Seen(view, Level(c, where)), client[c].request) = Promise!Error
  BY <1>1, MissesAnswer
<1>3. Holds(c) /\ Moves(c)
  BY <1>1, ReaderIsIn DEF Moves, Step
<1>4. Sim(where, view)'
  BY <1>1, <1>2, <1>3, FinishSim
<1> QED
  BY <1>4

LEMMA GetSim ==
    ASSUME Inv, NEW where, NEW view, Sim(where, view), NEW c \in Clients, Get(c)
    PROVE  \E w2, v2 : Sim(w2, v2)'
<1>1. /\ client[c].at = "in" /\ client[c].request.op \in {"get", "last"}
      /\ Len(client[c].rest) = 1
      /\ UNCHANGED <<entries, puts, store, promised>>
  BY SMTT(30) DEF Get
<1>2. PICK e \in Named(client[c].held, Head(client[c].rest)) :
        LET releases == entries[e].releases
            r == IF client[c].request.op = "last" THEN Len(releases) ELSE client[c].request.rev
        IN Finish(c, IF r \in DOMAIN releases THEN Promise!Content(releases[r])
                                              ELSE Promise!Error)
  BY DEF Get
<1> DEFINE releases == entries[e].releases
           r == IF client[c].request.op = "last" THEN Len(releases) ELSE client[c].request.rev
           a == IF r \in DOMAIN releases THEN Promise!Content(releases[r]) ELSE Promise!Error
<1>3. client' = [client EXCEPT ![c] = Answered(a)]
  BY <1>2 DEF Finish
<1>4. AnswerIn(Seen(view, Level(c, where)), client[c].request) = a
  BY <1>1, GetAnswer
<1>5. Holds(c) /\ ~ Writes(client[c]) /\ Moves(c)
  BY <1>1, ReaderIsIn DEF Moves, Step, Writes
<1> HIDE DEF a
<1>6. Sim(where, view)'
  BY <1>1, <1>3, <1>4, <1>5, FinishSim
<1> QED
  BY <1>6

LEMMA ListedSim ==
    ASSUME Inv, NEW where, NEW view, Sim(where, view), NEW c \in Clients, Listed(c)
    PROVE  \E w2, v2 : Sim(w2, v2)'
<1>1. /\ client[c].at = "collect" /\ client[c].todo = {}
      /\ client' = [client EXCEPT ![c] = Answered(Promise!Listing(client[c].found))]
      /\ UNCHANGED <<entries, store, promised>>
  BY DEF Listed, Finish
<1>2. AnswerIn(Seen(view, Level(c, where)), client[c].request) = Promise!Listing(client[c].found)
  BY <1>1, ListedAnswer
<1>3. ~ Writes(client[c])
  BY <1>1 DEF Sim, Ways, WayOf, Walking, Writes
<1>4. Holds(c) /\ Moves(c)
  BY <1>1, ReaderIsIn DEF Moves, Step
<1>5. Sim(where, view)'
  BY <1>1, <1>2, <1>3, <1>4, FinishSim
<1> QED
  BY <1>5

\* A walk that sets out.
LEMMA OwnWalk ==
    ASSUME Inv, NEW where, NEW view, Sim(where, view), NEW c \in Clients,
           NEW q \in Requests \ {NotValid},
           client'[c] = Walk(q), promised'[c] = [at |-> "asked", request |-> q]
    PROVE  OwnOK(c, where, view)' /\ ~ Holds(c)'
<1>1. q.path \in Paths /\ q.path \in Seq(Names) /\ Len(q.path) \in Nat
  BY RequestTypes, PathTypes
<1>2. where[Root] = <<>>
  BY DEF Sim, Tree
<1>3. Prefix(q.path, 0) = <<>>
  BY <1>1, PrefixEnds
<1>4. PICK v : v = client'[c]
  OBVIOUS
<1>5. /\ v.at = "want" /\ v.request = q /\ v.held = Nowhere /\ v.want = Root /\ v.rest = q.path
      /\ v.found = {}
  BY <1>4 DEF Walk
<1>6. Depth(v) = 0
  BY <1>1, <1>5 DEF Depth
<1>7. \A i \in 1 .. Len(q.path) : 0 + i = i
  OBVIOUS
<1>8. WayOf(v, where)'
  BY <1>1, <1>2, <1>3, <1>5, <1>6, <1>7 DEF WayOf
<1>9. ~ Holds(c)'
  BY <1>4, <1>5 DEF Holds
<1>10. Kept(c, where, view)'
  BY <1>4, <1>5, <1>9 DEF Kept, Walking
<1> QED
  BY <1>4, <1>8, <1>9, <1>10 DEF OwnOK

LEMMA AskSim ==
    ASSUME Inv, NEW where, NEW view, Sim(where, view), NEW c \in Clients,
           NEW q \in Requests \cup {Other}, Ask(c, q)
    PROVE  \E w2, v2 : Sim(w2, v2)'
<1>1. client[c].at = "idle" /\ UNCHANGED <<entries, store>> /\ DOMAIN client = Clients
      /\ DOMAIN promised = Clients
  BY DEF Ask, Inv, TypeOK, Sim
<1>2. promised'[c] = [at |-> "asked", request |-> q]
  BY <1>1 DEF Ask
<1>3. client'[c] = CASE q.op = "other" -> [at |-> "other"]
                     [] q.op = "put" -> [at |-> "data", request |-> q]
                     [] OTHER -> Walk(q)
  BY <1>1 DEF Ask
<1>4. OwnOK(c, where, view)' /\ ~ Holds(c)'
  <2>1. CASE q.op = "other"
    <3>1. client'[c] = [at |-> "other"]
      BY <1>3, <2>1
    <3>2. q = Other
      <4>1. q # NotValid
        BY <2>1 DEF NotValid
      <4>2. q \notin Requests \ {NotValid}
        BY <2>1 DEF Requests
      <4> QED
        BY <4>1, <4>2
    <3> QED
      BY <1>2, <3>1, <3>2 DEF OwnOK, Kept, Holds, Walking
  <2>2. CASE q.op = "put"
    <3>1. client'[c] = [at |-> "data", request |-> q]
      BY <1>3, <2>2
    <3> QED
      BY <1>2, <2>2, <3>1 DEF OwnOK, Kept, Holds, Walking, Writes
  <2>3. CASE q.op # "other" /\ q.op # "put"
    <3>1. client'[c] = Walk(q)
      BY <1>3, <2>3
    <3>2. q \in Requests \ {NotValid}
      BY <2>3 DEF Other, NotValid
    <3> QED
      BY <1>2, <3>1, <3>2, OwnWalk
  <2> QED
    BY <2>1, <2>2, <2>3
<1>5. ~ Holds(c) /\ Moves(c)
  BY <1>1 DEF Holds, Walking, Moves
<1>6. Sim(where, view)'
  BY <1>1, <1>4, <1>5, OutsideStep
<1> QED
  BY <1>6

LEMMA RestSim ==
    ASSUME Inv, NEW where, NEW view, Sim(where, view), NEW c \in Clients, Rest(c)
    PROVE  \E w2, v2 : Sim(w2, v2)'
<1>1. /\ client[c].at \in {"data", "answered"} /\ UNCHANGED <<entries, store>>
      /\ DOMAIN client = Clients /\ DOMAIN promised = Clients
  BY DEF Rest, Promise!Rest, Inv, TypeOK, Sim
<1>2. client'[c] = Idle /\ promised'[c] = [at |-> "idle"]
  BY <1>1 DEF Rest, Promise!Rest
<1>3. OwnOK(c, where, view)' /\ ~ Holds(c)'
  BY <1>2 DEF OwnOK, Kept, Holds, Walking, Idle
<1>4. ~ Holds(c) /\ Moves(c)
  BY <1>1 DEF Holds, Walking, Moves
<1>5. Sim(where, view)'
  BY <1>1, <1>3, <1>4, OutsideStep
<1> QED
  BY <1>5

\* A request that takes effect, and is none that changes the store.
LEMMA DoesNothing ==
    ASSUME DOMAIN promised = Clients, NEW c \in Clients, Promise!Do(c),
           NEW q, promised[c] = [at |-> "asked", request |-> q], q.op # "put" \/ ~ q.valid
    PROVE  UNCHANGED store /\ promised'[c] = Answered(AnswerIn(store, q))
<1>1. promised[c].request = q
  OBVIOUS
<1>2. promised'[c] = [at |-> "answered", answer |-> Promise!Answer(q)]
  BY <1>1 DEF Promise!Do
<1>3. UNCHANGED store
  BY <1>1 DEF Promise!Do
<1> QED
  BY <1>2, <1>3, AnswersAre DEF Answered

LEMMA UsageSim ==
    ASSUME Inv, NEW where, NEW view, Sim(where, view), NEW c \in Clients, Usage(c)
    PROVE  \E w2, v2 : Sim(w2, v2)'
<1>1. /\ client[c].at = "other" /\ UNCHANGED entries /\ Promise!Do(c)
      /\ client' = [client EXCEPT ![c] = Answered(Promise!Error)]
      /\ DOMAIN client = Clients /\ DOMAIN promised = Clients
  BY DEF Usage, Inv, TypeOK, Sim
<1>2. promised[c] = [at |-> "asked", request |-> Other]
  BY <1>1 DEF Sim, Promises, Kept
<1>3. Other.op = "other"
  BY DEF Other
<1>4. UNCHANGED store /\ promised'[c] = Answered(AnswerIn(store, Other))
  BY <1>1, <1>2, <1>3, DoesNothing
<1>5. AnswerIn(store, Other) = Promise!Error
  BY <1>3 DEF AnswerIn
<1>6. client'[c] = Answered(Promise!Error)
  BY <1>1
<1>7. OwnOK(c, where, view)' /\ ~ Holds(c)'
  BY <1>4, <1>5, <1>6, OwnAnswered
<1>8. ~ Holds(c) /\ Moves(c)
  BY <1>1 DEF Holds, Walking, Moves, Step
<1>9. Sim(where, view)'
  BY <1>1, <1>4, <1>7, <1>8, OutsideStep
<1> QED
  BY <1>9

LEMMA HaveDataSim ==
    ASSUME Inv, NEW where, NEW view, Sim(where, view), NEW c \in Clients, HaveData(c)
    PROVE  \E w2, v2 : Sim(w2, v2)'
<1> DEFINE q == client[c].request
<1>1. /\ client[c].at = "data" /\ UNCHANGED entries /\ q \in Requests
      /\ DOMAIN client = Clients /\ DOMAIN promised = Clients
  BY DEF HaveData, Inv, TypeOK, Sim
<1>2. promised[c] = [at |-> "asked", request |-> q] /\ q.op = "put"
  BY <1>1 DEF Sim, Promises, Kept, Writes
<1>3. UNCHANGED store /\ OwnOK(c, where, view)' /\ ~ Holds(c)'
  <2>1. CASE q.valid
    <3>1. client'[c] = Walk(q) /\ UNCHANGED <<store, promised>>
      BY <1>1, <2>1 DEF HaveData
    <3>2. q \in Requests \ {NotValid}
      BY <1>1, <2>1 DEF NotValid
    <3> HIDE DEF q
    <3> QED
      BY <1>2, <3>1, <3>2, OwnWalk
  <2>2. CASE ~ q.valid
    <3>1. client'[c] = Answered(Promise!Error) /\ Promise!Do(c)
      BY <1>1, <2>2 DEF HaveData
    <3>2. UNCHANGED store /\ promised'[c] = Answered(AnswerIn(store, q))
      BY <1>1, <1>2, <2>2, <3>1, DoesNothing
    <3>3. AnswerIn(store, q) = Promise!Error
      BY <1>2, <2>2 DEF AnswerIn
    <3> QED
      BY <3>1, <3>2, <3>3, OwnAnswered
  <2> QED
    BY <2>1, <2>2
<1>4. ~ Holds(c) /\ Moves(c)
  BY <1>1 DEF Holds, Walking, Moves, Step
<1>5. Sim(where, view)'
  BY <1>1, <1>3, <1>4, OutsideStep
<1> QED
  BY <1>5

-----------------------------------------------------------------------------
(* The steps into a directory *)

LEMMA SameParent ==
    ASSUME TypeOK, NEW where, Tree(where), NEW d \in DOMAIN entries, NEW f \in DOMAIN entries,
           NEW e, e \in entries[d].subdirs, e \in entries[f].subdirs
    PROVE  d = f
<1>1. /\ Prefix(where[e], Len(where[d])) = where[d] /\ Len(where[d]) \in Nat
      /\ Len(where[e]) = Len(where[d]) + 1
  BY ChildPath
<1>2. /\ Prefix(where[e], Len(where[f])) = where[f] /\ Len(where[f]) \in Nat
      /\ Len(where[e]) = Len(where[f]) + 1
  BY ChildPath
<1>3. Len(where[d]) = Len(where[f])
  BY <1>1, <1>2
<1>4. where[d] = where[f]
  BY <1>1, <1>2, <1>3
<1> QED
  BY <1>4 DEF Tree

LEMMA EnterIs ==
    ASSUME Inv, NEW where, NEW view, Sim(where, view), NEW c \in Clients, Enter(c)
    PROVE  LET w == client[c]
               Q == w.request.path
               m == Depth(w)
           IN /\ w.at \in {"want", "claimed"} /\ UNCHANGED <<entries, puts>>
              /\ w.want \in DOMAIN entries /\ w.want # Nowhere /\ w.held # w.want
              /\ w.request \in Requests \ {NotValid} /\ Q \in Paths /\ Len(Q) \in Nat
              /\ m \in Nat /\ m \in 0 .. Len(Q) /\ Len(where[w.want]) = m
              /\ where[w.want] = Prefix(Q, m) /\ Under(where[w.want], Q)
              /\ Writes(w) => m < Len(Q)
              /\ w.want = Root <=> m = 0
              /\ w.want = Root => ~ Holds(c) /\ promised[c] = [at |-> "asked", request |-> w.request]
              /\ w.want # Root =>
                    /\ Holds(c) /\ w.held \in DOMAIN entries /\ w.want \in entries[w.held].subdirs
                    /\ Len(where[w.held]) \in Nat /\ Len(where[w.held]) + 1 = m
                    /\ UNCHANGED <<store, promised>>
                    /\ promised[c] = Answered(AnswerIn(Seen(view, Level(c, where)), w.request))
              /\ Holds(c)' /\ client'[c].at = "in" /\ client'[c].held = w.want
              /\ client'[c].request = w.request /\ client'[c].want = w.want
              /\ WayOf(client[c], where)'
<1> DEFINE w == client[c]
           Q == w.request.path
           m == Depth(w)
<1>1. /\ w.at \in {"want", "claimed"} /\ UNCHANGED <<entries, puts>>
      /\ client' = [client EXCEPT ![c].at = "in", ![c].held = w.want]
      /\ IF w.want = Root THEN Promise!Do(c) ELSE UNCHANGED <<store, promised>>
  BY DEF Enter
<1>2. /\ TypeOK /\ Ways(where) /\ Tree(where) /\ Kept(c, where, view) /\ w.at \in Walking
      /\ DOMAIN client = Clients
  BY <1>1 DEF Inv, Sim, Promises, Walking, TypeOK
<1>3. DOMAIN w = {"at", "request", "held", "want", "rest", "found", "todo"} /\ w.held < w.want
  BY <1>1, <1>2, InDirectory DEF WalkOK, Walk
<1>4. /\ w.request \in Requests \ {NotValid} /\ Q \in Paths /\ Len(Q) \in Nat
      /\ m \in 0 .. Len(Q) /\ w.want \in DOMAIN entries /\ Len(where[w.want]) = m
      /\ where[w.want] = Prefix(Q, m) /\ Under(where[w.want], Q)
      /\ w.rest # <<>> => m < Len(Q)
      /\ Writes(w) => w.rest # <<>>
      /\ WayOf(w, where)
  BY <1>2, WalkIs
<1>5. /\ DOMAIN entries = 1 .. Len(entries) /\ Len(entries) \in Nat /\ Root \in DOMAIN entries
      /\ \A e \in DOMAIN entries : entries[e].subdirs \subseteq DOMAIN entries \ {Root}
  BY <1>2, TreeTypes
<1>6. w.want # Nowhere /\ w.want \in Nat
  BY <1>4, <1>5 DEF Nowhere
<1>7. w.held \in DOMAIN entries \cup {Nowhere}
  BY <1>2 DEF TypeOK, WalkOK
<1>8. w.held # w.want
  <2>1. w.held \in Nat
    BY <1>5, <1>7 DEF Nowhere
  <2> QED
    BY <1>3, <1>6, <2>1
<1>9. w.held # Nowhere => w.held \in DOMAIN entries /\ w.want \in entries[w.held].subdirs
  BY <1>1, <1>4, <1>7 DEF WayOf
<1>10. w.held = Nowhere => w.want = Root
  BY <1>1, <1>4 DEF WayOf
<1>11. w.want = Root <=> w.held = Nowhere
  BY <1>5, <1>9, <1>10
<1>12. Holds(c) <=> w.held # Nowhere
  BY <1>2 DEF Holds
<1>13. w.held # Nowhere => Len(where[w.held]) \in Nat /\ Len(where[w.held]) + 1 = m
  <2>1. ASSUME w.held # Nowhere PROVE Len(where[w.held]) \in Nat /\ m = Len(where[w.held]) + 1
    BY <1>2, <1>4, <1>9, <2>1, ChildPath
  <2> QED
    BY <2>1
<1>14. w.want = Root => m = 0
  <2>1. where[Root] = <<>> /\ Len(<<>>) = 0
    BY <1>2, EmptySeq DEF Tree
  <2> QED
    BY <1>4, <2>1
<1>15. w.want # Root => m # 0
  BY <1>11, <1>13
<1>16. m \in Nat
  BY <1>4, UpTo
<1>17. PICK v : v = client'[c]
  OBVIOUS
<1>18. client'[c] = [w EXCEPT !.at = "in", !.held = w.want]
  BY <1>1, <1>2
<1>19. /\ v.at = "in" /\ v.held = w.want /\ v.want = w.want /\ v.request = w.request
       /\ v.rest = w.rest /\ v.found = w.found
  <2> HIDE DEF w
  <2> QED
    BY <1>3, <1>17, <1>18
<1>20. WayOf(client[c], where)'
  BY <1>1, <1>4, <1>6, <1>17, <1>19 DEF WayOf, Depth
<1>21. Holds(c)'
  BY <1>6, <1>17, <1>19 DEF Holds, Walking
<1>22. /\ w.want = Root => promised[c] = [at |-> "asked", request |-> w.request]
       /\ w.want # Root =>
             promised[c] = Answered(AnswerIn(Seen(view, Level(c, where)), w.request))
  BY <1>2, <1>11, <1>12 DEF Kept
<1> QED
  BY <1>1, <1>4, <1>6, <1>8, <1>9, <1>11, <1>12, <1>13, <1>14, <1>15, <1>16, <1>17, <1>19,
     <1>20, <1>21, <1>22

LEMMA NothingThere ==
    ASSUME Inv, NEW where, NEW view, Sim(where, view), NEW d \in DOMAIN entries, Unheld(d),
           NEW q \in Paths, Under(where[d], q), Len(where[d]) < Len(q)
    PROVE  view[q][Len(where[d])] = view[q][Len(where[d]) + 1]
BY NothingOnTheWay DEF Unheld

LEMMA StoreIsSeen ==
    ASSUME NEW where, NEW view, Sim(where, view)
    PROVE  Seen(view, 0) = store
BY DEF Sim, ViewOK, Seen

LEMMA ReadsFrom ==
    ASSUME Inv, NEW where, NEW view, Sim(where, view), NEW c \in Clients, Enter(c),
           ~ Writes(client[c])
    PROVE  Sim(where, view)'
<1> DEFINE w == client[c]
           Q == w.request.path
           m == Depth(w)
<1>1. /\ w.at \in {"want", "claimed"} /\ UNCHANGED <<entries, puts>>
      /\ w.want \in DOMAIN entries
      /\ w.request \in Requests \ {NotValid} /\ Q \in Paths /\ Len(Q) \in Nat
      /\ m \in Nat /\ m \in 0 .. Len(Q) /\ Len(where[w.want]) = m
      /\ where[w.want] = Prefix(Q, m) /\ Under(where[w.want], Q)
      /\ w.want = Root <=> m = 0
      /\ w.want = Root => ~ Holds(c) /\ promised[c] = [at |-> "asked", request |-> w.request]
      /\ w.want # Root =>
            /\ Holds(c) /\ w.held \in DOMAIN entries /\ w.want \in entries[w.held].subdirs
            /\ Len(where[w.held]) \in Nat /\ Len(where[w.held]) + 1 = m
            /\ UNCHANGED <<store, promised>>
            /\ promised[c] = Answered(AnswerIn(Seen(view, Level(c, where)), w.request))
      /\ Holds(c)' /\ client'[c].at = "in" /\ client'[c].held = w.want
      /\ client'[c].request = w.request
      /\ WayOf(client[c], where)'
  BY EnterIs
<1>2. TypeOK /\ Tree(where) /\ Ways(where) /\ DOMAIN promised = Clients
  BY DEF Inv, Sim
<1>3. w.request.op \in {"list", "get", "last"}
  BY <1>1 DEF Requests, Writes
<1>4. UNCHANGED store /\ promised'[c] = Answered(AnswerIn(Seen(view, m), w.request))
  <2>1. CASE w.want = Root
    <3>1. Promise!Do(c)
      BY <2>1 DEF Enter
    <3>2. w.request.op # "put"
      BY <1>3
    <3>3. UNCHANGED store /\ promised'[c] = Answered(AnswerIn(store, w.request))
      BY <1>1, <1>2, <2>1, <3>1, <3>2, DoesNothing
    <3> QED
      BY <1>1, <2>1, <3>3, StoreIsSeen
  <2>2. CASE w.want # Root
    <3> DEFINE k == Len(where[w.held])
    <3>1. Level(c, where) = k /\ Unheld(w.held) /\ k + 1 = m /\ k \in Nat
      BY <1>1, <2>2, LevelIs, ReadersAreIn
    <3>2. ASSUME NEW r \in Paths, Under(Q, r) PROVE Seen(view, k)[r] = Seen(view, m)[r]
      <4>1. /\ where[w.held] \in Paths /\ where[w.want] \in Paths
            /\ Under(where[w.held], where[w.want])
        BY <1>1, <1>2, <2>2, ChildPath
      <4>2. Under(where[w.held], r) /\ k < Len(r)
        <5>1. Len(Q) <= Len(r) /\ Len(r) \in Nat
          BY <3>2, PathTypes DEF Under
        <5>2. k < Len(Q)
          BY <1>1, <3>1
        <5>3. Under(where[w.want], r)
          BY <1>1, <3>2, <4>1, UnderUnder
        <5>4. Under(where[w.held], r)
          BY <4>1, <5>3, UnderUnder
        <5> QED
          BY <1>1, <3>1, <5>1, <5>2, <5>4
      <4>3. view[r][k] = view[r][k + 1]
        BY <1>1, <2>2, <3>1, <4>2, NothingThere
      <4> QED
        BY <3>1, <4>3 DEF Seen
    <3>3. AnswerIn(Seen(view, k), w.request) = AnswerIn(Seen(view, m), w.request)
      BY <1>1, <1>3, <3>2, AnswerBelow
    <3> QED
      BY <1>1, <2>2, <3>1, <3>3
  <2> QED
    BY <2>1, <2>2
<1>5. ~ Writes(client[c])'
  BY <1>1 DEF Writes
<1>6. Level(c, where)' = m
  <2>1. PICK v : v = client'[c]
    OBVIOUS
  <2>2. v.held = w.want /\ v.request = w.request
    BY <1>1, <2>1
  <2>3. Len(where[v.held]) + 0 = m
    BY <1>1, <2>2
  <2> QED
    BY <1>5, <2>1, <2>3 DEF Level
<1>7. Kept(c, where, view)'
  BY <1>1, <1>4, <1>6 DEF Kept, Walking, Holds
<1>8. \A x \in Clients : w.want # Root => ~ ComesTo(x, w.want)
  <2>1. ASSUME NEW x \in Clients, w.want # Root, ComesTo(x, w.want) PROVE FALSE
    <3>1. Holds(x) /\ Writes(client[x]) /\ client[x].at \in {"want", "claimed"}
          /\ client[x].want = w.want
      BY <2>1 DEF ComesTo
    <3>2. client[x].held \in DOMAIN entries /\ w.want \in entries[client[x].held].subdirs
      BY <1>2, <3>1, HeldIs
    <3>3. client[x].held = w.held
      BY <1>1, <1>2, <2>1, <3>2, SameParent
    <3> QED
      BY <1>1, <2>1, <3>1, <3>3, PutsAreAlone
  <2> QED
    BY <2>1
<1>9. /\ \A q, d : ~ PutsFrom(c, q, d) /\ ~ PutsFrom(c, q, d)'
      /\ \A e : ~ ComesTo(c, e)
  BY <1>5 DEF PutsFrom, ComesTo
<1>10. OwnOK(c, where, view)' /\ Moves(c)
  BY <1>1, <1>7 DEF OwnOK, Moves, Step
<1> QED
  BY <1>1, <1>4, <1>8, <1>9, <1>10, StillStep

LEMMA EnterAlone ==
    ASSUME Inv, NEW c \in Clients, Enter(c), Writes(client[c]), NEW x \in Clients \ {c}
    PROVE  ~ (Holds(x) /\ client[x].held = client[c].want)
<1>1. client[c].at = "claimed" /\ lock[client[c].want].readers = {}
  BY DEF Enter
<1>2. lock[client[c].want].writer = c
  BY <1>1 DEF Inv, LockInv
<1> QED
  BY <1>1, <1>2 DEF Inv, LockInv

LEMMA OnePath ==
    ASSUME NEW where, Tree(where), NEW d \in DOMAIN entries, NEW e \in DOMAIN entries,
           where[d] = where[e]
    PROVE  d = e
BY DEF Tree

LEMMA PutsOnWay ==
    ASSUME Inv, NEW where, Tree(where), Ways(where), NEW x \in Clients, NEW P, NEW d,
           PutsFrom(x, P, d)
    PROVE  /\ d \in DOMAIN entries /\ P \in Paths /\ Len(where[d]) \in 0 .. Len(P)
           /\ where[d] = Prefix(P, Len(where[d])) /\ Len(where[d]) < Len(P)
<1>1. Holds(x) /\ Writes(client[x]) /\ client[x].request.path = P /\ client[x].held = d
  BY DEF PutsFrom
<1> QED
  BY <1>1, HeldIs

LEMMA PutIs ==
    ASSUME NEW r \in Seq(Data), NEW d \in Data
    PROVE  Put(r, d) \in Seq(Data) /\ Put(r, d) # <<>>
<1>1. /\ Append(r, d) \in Seq(Data) /\ Len(Append(r, d)) = Len(r) + 1 /\ Len(r) \in Nat
  BY AppendProperties, LenProperties
<1>2. Append(r, d) # <<>>
  BY <1>1, EmptySeq
<1> QED
  BY <1>1, <1>2 DEF Put, IsLastOf

\* A put enters a directory at depth m of its way: what it puts is found as X there.
LEMMA EnterPut ==
    ASSUME Inv, NEW where, NEW view, Sim(where, view), NEW c \in Clients, Enter(c),
           Writes(client[c]), NEW P, NEW m, NEW X,
           P = client[c].request.path, m = Depth(client[c]),
           X = Put(view[P][m + 1], client[c].request.data),
           store' \in [Paths -> Seq(Data)],
           \A q \in Paths : store'[q] = IF q = P /\ m = 0 THEN X ELSE store[q],
           m > 0 => view[P][m - 1] = X,
           promised'[c] = Answered(AnswerIn(Seen(view, m + 1), client[c].request))
    PROVE  \E w2, v2 : Sim(w2, v2)'
<1> DEFINE w == client[c]
<1>1. /\ UNCHANGED <<entries, puts>>
      /\ w.want \in DOMAIN entries /\ w.held # w.want
      /\ w.request \in Requests \ {NotValid} /\ P \in Paths /\ Len(P) \in Nat
      /\ m \in Nat /\ m \in 0 .. Len(P) /\ Len(where[w.want]) = m
      /\ where[w.want] = Prefix(P, m) /\ Under(where[w.want], P)
      /\ m < Len(P)
      /\ w.want = Root <=> m = 0
      /\ w.want = Root => ~ Holds(c)
      /\ w.want # Root =>
            /\ Holds(c) /\ w.held \in DOMAIN entries /\ w.want \in entries[w.held].subdirs
            /\ Len(where[w.held]) \in Nat /\ Len(where[w.held]) + 1 = m
      /\ Holds(c)' /\ client'[c].at = "in" /\ client'[c].held = w.want
      /\ client'[c].request = w.request
      /\ WayOf(client[c], where)'
  BY ZenonT(30), EnterIs
<1>2. /\ TypeOK /\ Tree(where) /\ Ways(where) /\ DOMAIN promised = Clients /\ ViewOK(where, view)
      /\ view \in [Paths -> [Nat -> Seq(Data)]]
  BY DEF Inv, Sim
<1>3. w.request.data \in Data /\ P # <<>>
  <2>1. w.request.op = "put"
    BY DEF Writes
  <2> QED
    BY <1>1, <2>1, RequestTypes
<1>4. X \in Seq(Data) /\ X # <<>>
  <2>1. m + 1 \in Nat
    BY <1>1
  <2>2. view[P][m + 1] \in Seq(Data)
    BY <1>1, <1>2, <2>1
  <2> QED
    BY <1>3, <2>2, PutIs
<1> DEFINE v2 == [view EXCEPT ![P][m] = X]
<1>5. Pushed(view, v2, P, m, X)
  <2>1. v2 \in [Paths -> [Nat -> Seq(Data)]]
    BY <1>1, <1>2, <1>4
  <2>2. v2[P][m] = X
    BY <1>1, <1>2
  <2>3. \A q \in Paths : \A k \in Nat : ~ (q = P /\ k = m) => v2[q][k] = view[q][k]
    BY <1>1, <1>2
  <2> QED
    BY <1>1, <1>4, <2>1, <2>2, <2>3 DEF Pushed
<1> HIDE DEF v2
<1>6. /\ v2 \in [Paths -> [Nat -> Seq(Data)]] /\ v2[P][m] = X
      /\ \A q \in Paths : \A k \in Nat : ~ (q = P /\ k = m) => v2[q][k] = view[q][k]
  BY <1>5 DEF Pushed
<1>7. Moves(c) /\ entries[Root].releases = <<>>
  BY <1>2 DEF Moves, Step, Tree
<1>8. Tree(where)' /\ Frame(c, where, where)
  BY <1>1, <1>2, <1>7, TreeStays
<1>9. \A q \in Paths : v2[q][0] = store'[q]
  <2>1. \A q \in Paths : view[q][0] = store[q]
    BY <1>2 DEF ViewOK
  <2>2. ASSUME NEW q \in Paths PROVE v2[q][0] = store'[q]
    <3>1. CASE q = P /\ m = 0
      BY <1>6, <3>1
    <3>2. CASE ~ (q = P /\ m = 0)
      <4>1. v2[q][0] = view[q][0]
        BY <1>6, <3>2
      <4>2. store'[q] = store[q]
        BY <3>2
      <4> QED
        BY <2>1, <4>1, <4>2
    <3> QED
      BY <3>1, <3>2
  <2> QED
    BY <2>2
<1>10. \A e \in DOMAIN entries' : v2[where[e]][Len(where[e])] = entries'[e].releases
  <2>1. ASSUME NEW e \in DOMAIN entries PROVE v2[where[e]][Len(where[e])] = entries[e].releases
    <3>1. where[e] \in Paths /\ Len(where[e]) \in Nat
      BY <1>2, PathTypes DEF Tree
    <3>2. ~ (where[e] = P /\ Len(where[e]) = m)
      BY <1>1
    <3>3. v2[where[e]][Len(where[e])] = view[where[e]][Len(where[e])]
      BY <1>6, <3>1, <3>2
    <3> QED
      BY <1>2, <3>3 DEF ViewOK
  <2> QED
    BY <1>1, <2>1
<1>11. \E e \in DOMAIN entries' : where[e] = Prefix(P, m)
  BY <1>1
<1>12. \A e \in DOMAIN entries' :
          e \notin DOMAIN entries \/ (Holds(c)' /\ client'[c].held = e) \/ ComesTo(c, e) =>
             where[e] = Prefix(P, m)
  BY <1>1 DEF ComesTo
<1>13. \A q \in Paths : \A d : PutsFrom(c, q, d) => q = P /\ Len(where[d]) = m - 1
  <2>1. ASSUME NEW q \in Paths, NEW d, PutsFrom(c, q, d)
        PROVE  q = P /\ Len(where[d]) = m - 1
    <3>1. Holds(c) /\ q = P /\ d = w.held
      BY <2>1 DEF PutsFrom
    <3>2. Len(where[w.held]) \in Nat /\ Len(where[w.held]) + 1 = m
      BY <1>1, <3>1
    <3>3. Len(where[w.held]) = m - 1
      BY <1>1, <3>2
    <3> QED
      BY <3>1, <3>3
  <2> QED
    BY <2>1
<1>14. ASSUME NEW x \in Clients \ {c}, NEW d, PutsFrom(x, P, d)
       PROVE  Len(where[d]) # m /\ Len(where[d]) # m - 1
  <2>1. /\ Holds(x) /\ Writes(client[x]) /\ client[x].held = d
        /\ client[x].request.path = P
    BY <1>14 DEF PutsFrom
  <2>2. d \in DOMAIN entries /\ Len(where[d]) \in 0 .. Len(P) /\ where[d] = Prefix(P, Len(where[d]))
    BY SMTT(30), <1>2, <1>14, PutsOnWay
  <2>3. ASSUME Len(where[d]) = m PROVE FALSE
    <3>1. where[d] = where[w.want]
      BY <1>1, <2>2, <2>3
    <3>2. d = w.want
      BY <1>1, <1>2, <2>2, <3>1, OnePath
    <3> QED
      BY <2>1, <3>2, EnterAlone
  <2>4. ASSUME Len(where[d]) = m - 1 PROVE FALSE
    <3>1. m # 0
      BY <1>1, <2>2, <2>4
    <3>2. /\ Holds(c) /\ w.held \in DOMAIN entries /\ Len(where[w.held]) = m - 1
      BY <1>1, <3>1
    <3>3. where[w.held] = Prefix(P, Len(where[w.held]))
      BY <1>2, <3>2, HeldIs
    <3>4. where[d] = where[w.held]
      BY <2>2, <2>4, <3>2, <3>3
    <3>5. d = w.held
      BY <1>2, <2>2, <3>2, <3>4, OnePath
    <3> QED
      BY <2>1, <3>2, <3>5, PutsAreAlone
  <2> QED
    BY <2>3, <2>4
<1>15. \A q \in Paths : \A d : PutsFrom(c, q, d)' =>
          /\ q = P /\ d \in DOMAIN entries' /\ where[d] = Prefix(P, m) /\ m < Len(P)
          /\ X = Put(view[P][m + 1], client'[c].request.data)
  BY <1>1 DEF PutsFrom
<1>16. \E d \in DOMAIN entries' : PutsFrom(c, P, d)' /\ where[d] = Prefix(P, m)
  <2>1. Writes(client[c])'
    BY SMTT(30), <1>1 DEF Writes
  <2> QED
    BY <1>1, <2>1 DEF PutsFrom
<1>17. ViewOK(where, v2)'
  <2> HIDE DEF w
  <2>1. Shown(c, where, where, v2, P, m)
    BY SMTT(30), <1>8, <1>9, <1>10, <1>11, <1>12 DEF Shown
  <2>2. Putting(c, where, where, view, P, m, X)
    BY <1>13, <1>14, <1>15, <1>16 DEF Putting
  <2> QED
    BY <1>5, <2>1, <2>2, ViewPush
<1>18. ASSUME NEW x \in Clients \ {c} PROVE Kept(x, where, v2)'
  <2>1. \A d : PutsFrom(x, P, d) => Len(where[d]) # m - 1
    BY <1>14
  <2>2. ~ (Holds(x) /\ where[client[x].held] = Prefix(P, m))
    <3>1. ASSUME Holds(x), where[client[x].held] = Prefix(P, m) PROVE FALSE
      <4>1. client[x].held \in DOMAIN entries
        BY <1>2, <3>1, HeldIs
      <4>2. client[x].held = w.want
        BY <1>1, <1>2, <3>1, <4>1, OnePath
      <4> QED
        BY <3>1, <4>2, EnterAlone
    <3> QED
      BY <3>1
  <2> QED
    BY <1>3, <1>5, <1>8, <2>1, <2>2, KeptPush
<1>19. OwnOK(c, where, v2)'
  <2>1. Writes(client[c])'
    BY <1>1 DEF Writes
  <2>2. Level(c, where)' = m + 1
    <3>1. PICK u : u = client'[c]
      OBVIOUS
    <3>2. u.held = w.want /\ u.request = w.request
      BY <1>1, <3>1
    <3>3. Len(where[u.held]) + 1 = m + 1
      BY <1>1, <3>2
    <3> QED
      BY <2>1, <3>1, <3>3 DEF Level
  <2>3. AnswerIn(Seen(v2, m + 1), w.request) = AnswerIn(Seen(view, m + 1), w.request)
    <3>1. m + 1 \in Nat /\ m + 1 # m
      BY <1>1
    <3> QED
      BY <1>5, <3>1, SeenPushed
  <2>4. Kept(c, where, v2)'
    BY <1>1, <2>2, <2>3 DEF Kept, Walking, Holds
  <2> QED
    BY <1>1, <2>4 DEF OwnOK
<1>20. Sim(where, v2)'
  BY <1>6, <1>7, <1>8, <1>17, <1>18, <1>19, SimIs
<1> QED
  BY <1>20

LEMMA DoesPut ==
    ASSUME DOMAIN promised = Clients, NEW c \in Clients, Promise!Do(c),
           NEW q, promised[c] = [at |-> "asked", request |-> q], q.op = "put", q.valid,
           q.path \in Paths, q.data \in Data, store \in [Paths -> Seq(Data)]
    PROVE  /\ promised'[c] = Answered(AnswerIn(store, q))
           /\ store' \in [Paths -> Seq(Data)]
           /\ \A p \in Paths : store'[p] = IF p = q.path THEN Put(store[q.path], q.data)
                                           ELSE store[p]
<1>1. promised[c].request = q
  OBVIOUS
<1>2. promised'[c] = [at |-> "answered", answer |-> Promise!Answer(q)]
  BY <1>1 DEF Promise!Do
<1>3. Promise!IsLast(q.path, q.data) <=> IsLastOf(store[q.path], q.data)
  BY DEF Promise!IsLast, IsLastOf
<1>4. IF IsLastOf(store[q.path], q.data) THEN store' = store
      ELSE store' = [store EXCEPT ![q.path] = Append(@, q.data)]
  BY <1>1, <1>3 DEF Promise!Do
<1>5. Append(store[q.path], q.data) \in Seq(Data)
  BY AppendProperties
<1>6. CASE IsLastOf(store[q.path], q.data)
  BY <1>2, <1>4, <1>6, AnswersAre DEF Answered, Put
<1>7. CASE ~ IsLastOf(store[q.path], q.data)
  <2>1. store' = [store EXCEPT ![q.path] = Append(@, q.data)]
    BY <1>4, <1>7
  <2>2. /\ store' \in [Paths -> Seq(Data)]
        /\ \A p \in Paths : store'[p] = IF p = q.path THEN Append(store[q.path], q.data)
                                        ELSE store[p]
    BY <1>5, <2>1
  <2> QED
    BY <1>2, <1>7, <2>2, AnswersAre DEF Answered, Put
<1> QED
  BY <1>6, <1>7

LEMMA EnterSim ==
    ASSUME Inv, NEW where, NEW view, Sim(where, view), NEW c \in Clients, Enter(c)
    PROVE  \E w2, v2 : Sim(w2, v2)'
<1> DEFINE w == client[c]
<1>1. CASE ~ Writes(w)
  <2>1. Sim(where, view)'
    BY <1>1, ReadsFrom
  <2> QED
    BY <2>1
<1>2. CASE Writes(w)
  <2>1. PICK P : P = w.request.path
    OBVIOUS
  <2>2. PICK m : m = Depth(w)
    OBVIOUS
  <2>3. PICK X : X = Put(view[P][m + 1], w.request.data)
    OBVIOUS
  <2>4. /\ w.want \in DOMAIN entries /\ w.want # Nowhere /\ w.held # w.want
        /\ w.request \in Requests \ {NotValid} /\ P \in Paths /\ Len(P) \in Nat
        /\ m \in Nat /\ m \in 0 .. Len(P) /\ Len(where[w.want]) = m
        /\ where[w.want] = Prefix(P, m) /\ Under(where[w.want], P)
        /\ m < Len(P)
        /\ w.want = Root <=> m = 0
        /\ w.want = Root => ~ Holds(c) /\ promised[c] = [at |-> "asked", request |-> w.request]
        /\ w.want # Root =>
              /\ Holds(c) /\ w.held \in DOMAIN entries /\ w.want \in entries[w.held].subdirs
              /\ Len(where[w.held]) \in Nat /\ Len(where[w.held]) + 1 = m
              /\ UNCHANGED <<store, promised>>
              /\ promised[c] = Answered(AnswerIn(Seen(view, Level(c, where)), w.request))
    BY <1>2, <2>1, <2>2, EnterIs
  <2>5. /\ DOMAIN promised = Clients /\ ViewOK(where, view) /\ store \in [Paths -> Seq(Data)]
    BY DEF Inv, Sim
  <2>6. w.request.op = "put" /\ w.request.valid /\ w.request.data \in Data
    <3>1. w.request.op = "put"
      BY <1>2 DEF Writes
    <3>2. w.request.valid
      BY <2>4, <3>1 DEF Requests
    <3> QED
      BY <2>4, <3>1, <3>2, RequestTypes
  <2>7. view[P][m] = view[P][m + 1]
    <3>1. \A x \in Clients : Holds(x) /\ client[x].held = w.want =>
             ~ Writes(client[x]) \/ client[x].request.path # P
      <4>1. \A x \in Clients \ {c} : ~ (Holds(x) /\ client[x].held = w.want)
        BY <1>2, EnterAlone
      <4> QED
        BY <2>4, <4>1
    <3>2. /\ w.want \in DOMAIN entries /\ P \in Paths /\ Under(where[w.want], P)
          /\ Len(where[w.want]) = m
      BY <2>4
    <3>3. m < Len(P)
      BY <2>4
    <3>4. view[P][Len(where[w.want])] = view[P][Len(where[w.want]) + 1]
      BY <3>1, <3>2, <3>3, NothingOnTheWay
    <3> QED
      BY <3>2, <3>4
  <2>8. \A k \in Nat : Seen(view, k)[P] = view[P][k]
    BY <2>4 DEF Seen
  <2>9. m + 1 \in Nat
    BY <2>4
  <2>10. AnswerIn(Seen(view, m), w.request) = AnswerIn(Seen(view, m + 1), w.request)
    BY <2>1, <2>4, <2>6, <2>7, <2>8, <2>9, FileAnswer
  <2>11. CASE w.want = Root
    <3>1. Promise!Do(c)
      BY <2>11 DEF Enter
    <3>2. /\ promised'[c] = Answered(AnswerIn(store, w.request))
          /\ store' \in [Paths -> Seq(Data)]
          /\ \A p \in Paths : store'[p] = IF p = P THEN Put(store[P], w.request.data)
                                          ELSE store[p]
      BY <2>1, <2>4, <2>5, <2>6, <2>11, <3>1, DoesPut
    <3>3. m = 0 /\ Seen(view, 0) = store /\ store[P] = view[P][m]
      BY <2>4, <2>8, <2>11, StoreIsSeen
    <3>4. \A q \in Paths : store'[q] = IF q = P /\ m = 0 THEN X ELSE store[q]
      BY <2>3, <2>7, <3>2, <3>3
    <3>5. promised'[c] = Answered(AnswerIn(Seen(view, m + 1), w.request))
      BY <2>10, <3>2, <3>3
    <3>6. m > 0 => view[P][m - 1] = X
      BY <3>3
    <3>7. store' \in [Paths -> Seq(Data)]
      BY <3>2
    <3> QED
      BY <1>2, <2>1, <2>2, <2>3, <3>4, <3>5, <3>6, <3>7, EnterPut
  <2>12. CASE w.want # Root
    <3>1. /\ Holds(c) /\ w.held \in DOMAIN entries /\ Len(where[w.held]) \in Nat
          /\ Len(where[w.held]) + 1 = m /\ UNCHANGED <<store, promised>> /\ m # 0
          /\ promised[c] = Answered(AnswerIn(Seen(view, Level(c, where)), w.request))
      BY <2>4, <2>12
    <3>2. Level(c, where) = m
      BY <1>2, <3>1, LevelIs
    <3>3. promised'[c] = Answered(AnswerIn(Seen(view, m + 1), w.request))
      BY <2>10, <3>1, <3>2
    <3>4. view[P][m - 1] = X
      <4>1. PutsFrom(c, P, w.held)
        BY <1>2, <2>1, <3>1 DEF PutsFrom
      <4>2. view[P][Len(where[w.held])] = Put(view[P][Len(where[w.held]) + 1], w.request.data)
        BY <2>4, <2>5, <3>1, <4>1 DEF ViewOK
      <4>3. Len(where[w.held]) = m - 1
        BY <3>1
      <4>4. view[P][Len(where[w.held])] = Put(view[P][m], w.request.data)
        BY <3>1, <4>2
      <4> QED
        BY <2>3, <2>7, <4>3, <4>4
    <3>5. \A q \in Paths : store'[q] = IF q = P /\ m = 0 THEN X ELSE store[q]
      BY <3>1
    <3>6. store' \in [Paths -> Seq(Data)]
      BY <2>5, <3>1
    <3> QED
      BY <1>2, <2>1, <2>2, <2>3, <3>3, <3>4, <3>5, <3>6, EnterPut
  <2> QED
    BY <2>11, <2>12
<1> QED
  BY <1>1, <1>2

-----------------------------------------------------------------------------
(* The steps of a put *)

\* A put leaves X in its file.
LEMMA CommitPut ==
    ASSUME Inv, NEW where, NEW view, Sim(where, view), NEW c \in Clients, Moves(c),
           client[c].at = "in", Len(client[c].rest) = 1, Writes(client[c]),
           UNCHANGED <<store, promised>>,
           NEW w2, Frame(c, where, w2), Tree(w2)', NEW P, NEW X, P = client[c].request.path,
           X = Put(view[P][Len(P)], client[c].request.data),
           \A e \in DOMAIN entries' :
              /\ w2[e] = P => entries'[e].releases = X
              /\ w2[e] # P => e \in DOMAIN entries /\ entries'[e].releases = entries[e].releases,
           \E e \in DOMAIN entries' : w2[e] = P,
           NEW a, client'[c] = Answered(a),
           AnswerIn(Seen(view, Level(c, where)), client[c].request) = a
    PROVE  \E u2, v2 : Sim(u2, v2)'
<1> DEFINE w == client[c]
<1>1. /\ P \in Paths /\ Len(P) \in Nat /\ Len(where[w.held]) + 1 = Len(P)
      /\ Holds(c) /\ w.held \in DOMAIN entries /\ w.request \in Requests \ {NotValid}
      /\ Len(where[w.held]) \in Nat /\ where[w.held] = Prefix(P, Len(where[w.held]))
  <2>1. P \in Paths /\ Len(P) \in Nat /\ Len(where[w.held]) + 1 = Len(P)
    BY LastStep
  <2>2. w.at \in {"in", "collect"}
    BY SMTT(30)
  <2>3. /\ Holds(c) /\ w.held \in DOMAIN entries /\ w.request \in Requests \ {NotValid}
        /\ Len(where[w.held]) \in Nat /\ where[w.held] = Prefix(P, Len(where[w.held]))
    BY <2>2, ReaderIsIn
  <2> QED
    BY SMTT(30), <2>1, <2>3
<1>2. PICK m : m = Len(P)
  OBVIOUS
<1>3. m \in Nat /\ m \in 0 .. Len(P) /\ m # 0 /\ Len(where[w.held]) = m - 1
  BY <1>1, <1>2
<1>4. /\ TypeOK /\ Tree(where) /\ Ways(where) /\ DOMAIN promised = Clients /\ ViewOK(where, view)
      /\ view \in [Paths -> [Nat -> Seq(Data)]] /\ store \in [Paths -> Seq(Data)]
  BY DEF Inv, Sim
<1>5. w.request.data \in Data /\ P # <<>>
  <2>1. w.request.op = "put"
    BY DEF Writes
  <2> QED
    BY <1>1, <2>1, RequestTypes
<1>6. X \in Seq(Data) /\ X # <<>>
  <2>1. view[P] \in [Nat -> Seq(Data)]
    BY <1>1, <1>4
  <2>2. view[P][Len(P)] \in Seq(Data)
    BY <1>1, <2>1
  <2> QED
    BY <1>5, <2>2, PutIs
<1> DEFINE v2 == [view EXCEPT ![P][m] = X]
<1>7. Pushed(view, v2, P, m, X)
  <2>1. v2 \in [Paths -> [Nat -> Seq(Data)]]
    BY <1>1, <1>3, <1>4, <1>6
  <2>2. v2[P][m] = X
    BY <1>1, <1>3, <1>4
  <2>3. \A q \in Paths : \A k \in Nat : ~ (q = P /\ k = m) => v2[q][k] = view[q][k]
    BY <1>1, <1>3, <1>4
  <2> QED
    BY <1>1, <1>3, <1>6, <2>1, <2>2, <2>3 DEF Pushed
<1> HIDE DEF v2
<1>8. /\ v2 \in [Paths -> [Nat -> Seq(Data)]] /\ v2[P][m] = X
      /\ \A q \in Paths : \A k \in Nat : ~ (q = P /\ k = m) => v2[q][k] = view[q][k]
  BY <1>7 DEF Pushed
<1>9. Prefix(P, m) = P
  BY <1>1, <1>2, PathTypes, PrefixEnds
<1>10. \A q \in Paths : v2[q][0] = store'[q]
  <2>1. \A q \in Paths : v2[q][0] = view[q][0]
    BY <1>3, <1>8
  <2> QED
    BY <1>4, <2>1 DEF ViewOK
<1>11. ASSUME NEW e \in DOMAIN entries' PROVE v2[w2[e]][Len(w2[e])] = entries'[e].releases
  <2>1. CASE w2[e] = P
    BY <1>2, <1>8, <2>1
  <2>2. CASE w2[e] # P
    <3>1. e \in DOMAIN entries /\ entries'[e].releases = entries[e].releases /\ w2[e] = where[e]
      BY <2>2 DEF Frame
    <3>2. where[e] \in Paths /\ Len(where[e]) \in Nat
      BY <1>4, <3>1, PathTypes DEF Tree
    <3>3. v2[where[e]][Len(where[e])] = view[where[e]][Len(where[e])]
      BY <1>8, <2>2, <3>1, <3>2
    <3> QED
      BY <1>4, <3>1, <3>3 DEF ViewOK
  <2> QED
    BY <2>1, <2>2
<1>12. \E e \in DOMAIN entries' : w2[e] = Prefix(P, m)
  BY <1>9
<1>13. OwnOK(c, w2, v2)' /\ ~ Holds(c)'
  <2>1. promised'[c] = Answered(a)
    BY <1>1 DEF Sim, Promises, Kept
  <2> QED
    BY <2>1, OwnAnswered
<1>14. \A e \in DOMAIN entries' :
          e \notin DOMAIN entries \/ (Holds(c)' /\ client'[c].held = e) \/ ComesTo(c, e) =>
             w2[e] = Prefix(P, m)
  BY <1>9, <1>13 DEF ComesTo
<1>15. \A q \in Paths : \A d : PutsFrom(c, q, d) => q = P /\ Len(where[d]) = m - 1
  BY <1>3 DEF PutsFrom
<1>16. ASSUME NEW x \in Clients \ {c}, NEW d, PutsFrom(x, P, d)
       PROVE  Len(where[d]) # m /\ Len(where[d]) # m - 1
  <2>1. Holds(x) /\ Writes(client[x]) /\ client[x].held = d
    BY <1>16 DEF PutsFrom
  <2>2. /\ d \in DOMAIN entries /\ Len(where[d]) < Len(P)
        /\ Len(where[d]) \in 0 .. Len(P) /\ where[d] = Prefix(P, Len(where[d]))
    BY SMTT(30), <1>4, <1>16, PutsOnWay
  <2>3. ASSUME Len(where[d]) = m - 1 PROVE FALSE
    <3>1. where[d] = where[w.held]
      BY <1>1, <1>3, <2>2, <2>3
    <3>2. d = w.held
      BY <1>1, <1>4, <2>2, <3>1, OnePath
    <3> QED
      BY <1>1, <2>1, <3>2, PutsAreAlone
  <2>4. Len(where[d]) # m
    BY <1>1, <1>2, <2>2
  <2> QED
    BY <2>3, <2>4
<1>17. \A q, d : ~ PutsFrom(c, q, d)'
  BY <1>13 DEF PutsFrom
<1>18. ~ m < Len(P)
  BY SMTT(30), <1>1, <1>2
<1>19. view[P][m - 1] = X
  BY <1>2, PutAnswer
<1>20. ViewOK(w2, v2)'
  <2> HIDE DEF w
  <2>1. Shown(c, where, w2, v2, P, m)
    BY SMTT(30), <1>10, <1>11, <1>12, <1>14 DEF Shown
  <2>2. Putting(c, where, w2, view, P, m, X)
    BY SMTT(30), <1>15, <1>16, <1>17, <1>18, <1>19 DEF Putting
  <2> QED
    BY <1>7, <2>1, <2>2, ViewPush
<1>21. ASSUME NEW x \in Clients \ {c} PROVE Kept(x, w2, v2)'
  <2>1. \A d : PutsFrom(x, P, d) => Len(where[d]) # m - 1
    BY <1>16
  <2> QED
    BY <1>2, <1>5, <1>7, <2>1, KeptPush
<1>22. Sim(w2, v2)'
  BY <1>4, <1>8, <1>13, <1>20, <1>21, SimIs
<1> QED
  BY <1>22

LEMMA CommitSim ==
    ASSUME Inv, NEW where, NEW view, Sim(where, view), NEW c \in Clients, Commit(c)
    PROVE  \E w2, v2 : Sim(w2, v2)'
<1> DEFINE w == client[c]
           data == w.request.data
<1>1. /\ w.at = "in" /\ Writes(w) /\ Len(w.rest) = 1 /\ UNCHANGED <<puts, store, promised>>
  BY DEF Commit
<1>2. PICK e \in Named(w.held, Head(w.rest)) :
        LET r == Len(entries[e].releases) IN
        IF r > 0 /\ entries[e].releases[r] = data
        THEN Finish(c, Promise!Numbered(r)) /\ UNCHANGED entries
        ELSE /\ entries' = [entries EXCEPT ![e].releases = Append(@, data)]
             /\ Finish(c, Promise!Numbered(r + 1))
  BY DEF Commit
<1>3. PICK P : P = w.request.path
  OBVIOUS
<1>4. PICK rs : rs = entries[e].releases
  OBVIOUS
<1>5. /\ P \in Paths /\ Len(P) \in Nat /\ Len(where[w.held]) + 1 = Len(P)
      /\ e \in DOMAIN entries /\ where[e] = P /\ view[P][Len(P)] = rs
  BY <1>1, <1>2, <1>3, <1>4, LastStep
<1>6. /\ Holds(c) /\ w.held \in DOMAIN entries /\ w.request \in Requests \ {NotValid}
      /\ Len(where[w.held]) \in Nat
  BY <1>1, ReaderIsIn
<1>7. /\ AnswerIn(Seen(view, Level(c, where)), w.request) =
            Promise!Numbered(Len(rs) + IF IsLastOf(rs, data) THEN 0 ELSE 1)
      /\ view[P][Len(P) - 1] = Put(rs, data)
  BY ZenonT(30), <1>1, <1>3, <1>5, PutAnswer
<1>8. /\ TypeOK /\ Tree(where) /\ DOMAIN promised = Clients /\ DOMAIN client = Clients /\ Moves(c)
  BY DEF Inv, Sim, TypeOK, Moves, Step
<1>9. rs \in Seq(Data) /\ Len(rs) \in Nat /\ (rs # <<>> <=> Len(rs) > 0)
  <2>1. rs \in Seq(Data)
    BY <1>4, <1>5, <1>8, TreeTypes DEF Entry
  <2> QED
    BY <2>1, LenProperties, EmptySeq
<1>10. IsLastOf(rs, data) <=> Len(rs) > 0 /\ rs[Len(rs)] = data
  BY <1>9 DEF IsLastOf
<1>11. CASE IsLastOf(rs, data)
  <2>1. UNCHANGED entries /\ client'[c] = Answered(Promise!Numbered(Len(rs)))
    BY <1>2, <1>4, <1>8, <1>10, <1>11 DEF Finish
  <2>2. AnswerIn(Seen(view, Level(c, where)), w.request) = Promise!Numbered(Len(rs))
    <3>1. Len(rs) + 0 = Len(rs)
      BY <1>9
    <3> QED
      BY <1>7, <1>11, <3>1
  <2>3. promised'[c] = Answered(Promise!Numbered(Len(rs)))
    BY <1>1, <1>6, <2>2 DEF Sim, Promises, Kept
  <2>4. OwnOK(c, where, view)' /\ ~ Holds(c)'
    BY SMTT(30), <2>1, <2>3, OwnAnswered
  <2>5. \A q \in Paths : \A d : PutsFrom(c, q, d) =>
           view[q][Len(where[d])] = view[q][Len(where[d]) + 1]
    <3>1. view[P][Len(where[w.held])] = view[P][Len(where[w.held]) + 1]
      <4>1. Len(where[w.held]) = Len(P) - 1
        BY <1>5, <1>6
      <4>2. Put(rs, data) = rs
        BY <1>11 DEF Put
      <4> QED
        BY <1>5, <1>7, <4>1, <4>2
    <3> QED
      BY <1>3, <3>1 DEF PutsFrom
  <2>6. /\ \A q, d : ~ PutsFrom(c, q, d)'
        /\ \A f : ~ ComesTo(c, f)
    BY <1>1, <2>4 DEF PutsFrom, ComesTo
  <2>7. Sim(where, view)'
    BY <1>1, <1>8, <2>1, <2>4, <2>5, <2>6, StillStep
  <2> QED
    BY <2>7
<1>12. CASE ~ IsLastOf(rs, data)
  <2>1. /\ entries' = [entries EXCEPT ![e].releases = Append(@, data)]
        /\ client'[c] = Answered(Promise!Numbered(Len(rs) + 1))
    BY <1>2, <1>4, <1>8, <1>10, <1>12 DEF Finish
  <2>2. NewRevision(e, data)
    <3>1. data \in Data
      BY <1>1, <1>6, RequestTypes DEF Writes
    <3>2. rs # <<>> => rs[Len(rs)] # data
      BY <1>12 DEF IsLastOf
    <3> QED
      BY <1>4, <1>5, <2>1, <3>1, <3>2 DEF NewRevision
  <2>3. /\ DOMAIN entries' = DOMAIN entries
        /\ \A d \in DOMAIN entries :
              /\ entries'[d].name = entries[d].name /\ entries'[d].subdirs = entries[d].subdirs
              /\ d # e => entries'[d].releases = entries[d].releases
        /\ entries'[e].releases = Append(rs, data)
    BY <1>4, <1>8, <2>2, Revised
  <2>4. e # Root
    BY <1>2, <1>6, <1>8, TreeTypes DEF Named
  <2>5. entries'[Root].releases = <<>>
    BY <1>8, <2>3, <2>4, TreeTypes DEF Tree
  <2>6. Tree(where)' /\ Frame(c, where, where)
    BY <1>8, <2>3, <2>5, TreeStays
  <2>7. PICK X : X = Put(rs, data)
    OBVIOUS
  <2>8. X = Append(rs, data)
    BY <1>12, <2>7 DEF Put
  <2>9. \A f \in DOMAIN entries' :
           /\ where[f] = P => entries'[f].releases = X
           /\ where[f] # P => f \in DOMAIN entries /\ entries'[f].releases = entries[f].releases
    BY <1>5, <1>8, <2>3, <2>8, OnePath
  <2>10. AnswerIn(Seen(view, Level(c, where)), w.request) = Promise!Numbered(Len(rs) + 1)
    BY <1>7, <1>12
  <2>11. \E f \in DOMAIN entries' : where[f] = P
    BY <1>5, <2>3
  <2>12. X = Put(view[P][Len(P)], w.request.data)
    BY <1>5, <2>7
  <2>13. PICK a : a = Promise!Numbered(Len(rs) + 1)
    OBVIOUS
  <2>14. client'[c] = Answered(a)
    BY <2>1, <2>13
  <2>15. AnswerIn(Seen(view, Level(c, where)), w.request) = a
    BY <2>10, <2>13
  <2> QED
    BY <1>1, <1>3, <1>8, <2>6, <2>9, <2>11, <2>12, <2>14, <2>15, CommitPut
<1> QED
  BY <1>11, <1>12

LEMMA NextUpTo ==
    ASSUME NEW n \in Nat, NEW k \in Nat, k < n
    PROVE  k \in 0 .. n - 1 /\ k + 1 \in 0 .. n
OBVIOUS

\* A put makes an entry in a directory, of the name that comes next.
Makes(c, rs) ==
    entries' = Append([entries EXCEPT ![client[c].held].subdirs = @ \cup {Len(entries) + 1}],
                      [name |-> Head(client[c].rest), subdirs |-> {}, releases |-> rs])

\* The paths w2 of the entries when it is there.
Made(c, where, view, w2, rs) ==
    LET new == Len(entries) + 1
        N == Prefix(client[c].request.path, Len(where[client[c].held]) + 1)
    IN /\ Tree(w2)' /\ Frame(c, where, w2)
       /\ N \in Paths /\ Len(N) = Len(where[client[c].held]) + 1
       /\ w2[new] = N /\ view[N][Len(N)] = <<>>
       /\ \A e \in DOMAIN entries : where[e] # N
       /\ DOMAIN entries' = DOMAIN entries \cup {new} /\ new \notin DOMAIN entries
       /\ \A e \in DOMAIN entries : entries'[e].releases = entries[e].releases
       /\ entries'[new].releases = rs
       /\ new \in entries'[client[c].held].subdirs

LEMMA NewThere ==
    ASSUME Inv, NEW where, NEW view, Sim(where, view), NEW c \in Clients, Moves(c),
           client[c].at = "in", client[c].rest # <<>>, Writes(client[c]),
           Named(client[c].held, Head(client[c].rest)) = {},
           NEW rs \in Seq(Data), Len(rs) <= 1, Makes(c, rs)
    PROVE  \E w2 : Made(c, where, view, w2, rs)
<1> DEFINE w == client[c]
           d == w.held
           Q == w.request.path
           k == Len(where[d])
           N == Prefix(Q, k + 1)
           new == Len(entries) + 1
           x == [name |-> Head(w.rest), subdirs |-> {}, releases |-> rs]
<1>1. /\ TypeOK /\ Tree(where) /\ DOMAIN promised = Clients /\ ViewOK(where, view)
  BY DEF Inv, Sim
<1>2. /\ Holds(c) /\ d \in DOMAIN entries /\ where[d] \in Paths
      /\ Q \in Paths /\ Len(Q) \in Nat /\ k \in Nat
      /\ Under(where[d], Q) /\ where[d] = Prefix(Q, k)
      /\ k < Len(Q) /\ Head(w.rest) = Q[k + 1] /\ w.rest \in Seq(Names)
  BY ReaderIsIn
<1>3. Head(w.rest) \in Names
  BY <1>2, Rests
<1>4. k \in 0 .. Len(Q) - 1 /\ k + 1 \in 0 .. Len(Q)
  BY <1>2, NextUpTo
<1>5. N = Append(where[d], Head(w.rest)) /\ N \in Paths /\ Len(N) = k + 1
  <2>1. Q \in Seq(Names)
    BY <1>2, PathTypes
  <2>2. N = Append(Prefix(Q, k), Q[k + 1])
    <3> HIDE DEF Q, k
    <3> QED
      BY <1>4, <2>1, PrefixGrows
  <2>3. Prefix(Q, k) = where[d] /\ Q[k + 1] = Head(w.rest)
    BY <1>2
  <2>4. N \in Paths /\ Len(N) = k + 1
    BY <1>2, <1>4, PrefixIsPath
  <2> QED
    BY <2>2, <2>3, <2>4
<1>6. \A e \in DOMAIN entries : where[e] # N
  <2>1. \A e \in DOMAIN entries : where[e] = N => e \in Named(d, Q[k + 1])
    BY <1>1, <1>2, NextOnTheWay
  <2> QED
    BY <1>2, <2>1
<1>7. view[N][Len(N)] = <<>>
  <2>1. PICK p : p = N
    OBVIOUS
  <2>2. PICK n : n = Len(p)
    OBVIOUS
  <2>3. p \in Paths /\ n \in Nat /\ Prefix(p, n) = p
    BY <1>5, <2>1, <2>2, PathTypes, PrefixEnds
  <2>4. n \in 0 .. Len(p)
    BY <2>2, <2>3
  <2>5. \A q \in Paths : \A i \in 0 .. Len(q) :
           view[q][i] # <<>> => \E e \in DOMAIN entries : where[e] = Prefix(q, i)
    BY <1>1 DEF ViewOK
  <2>6. \A e \in DOMAIN entries : where[e] # p
    BY <1>6, <2>1
  <2>7. view[p][n] = <<>>
    BY <2>3, <2>4, <2>5, <2>6
  <2> QED
    BY <2>1, <2>2, <2>7
<1>8. x \in Entry /\ x.subdirs = {} /\ x.releases = rs /\ x.name = Head(w.rest)
  BY <1>3 DEF Entry
<1>9. entries' = Append([entries EXCEPT ![d].subdirs = @ \cup {Len(entries) + 1}], x)
  BY SMTT(30) DEF Makes
<1> HIDE DEF x
<1>10. /\ DOMAIN entries' = DOMAIN entries \cup {new} /\ new \notin DOMAIN entries
       /\ entries'[new] = x
       /\ \A e \in DOMAIN entries : entries'[e].releases = entries[e].releases
       /\ entries'[d].subdirs = entries[d].subdirs \cup {new}
  BY <1>1, <1>2, <1>8, <1>9, Grows
<1>11. NewEntry(d, x)
  BY <1>2, <1>8, <1>9 DEF NewEntry
<1>12. PICK y : y = x
  OBVIOUS
<1>13. \E w2 : /\ Tree(w2)' /\ Frame(c, where, w2)
               /\ w2[new] = Append(where[d], y.name)
  <2>1. NewEntry(d, y) /\ y.name \in Names /\ Append(where[d], y.name) \in Paths
    BY <1>3, <1>5, <1>8, <1>11, <1>12
  <2> QED
    BY <1>1, <1>2, <2>1, GrowsThere
<1>14. PICK w2 : /\ Tree(w2)' /\ Frame(c, where, w2) /\ w2[new] = N
  BY <1>5, <1>8, <1>12, <1>13
<1> HIDE DEF N, new
<1>15. new \in entries'[d].subdirs /\ entries'[new].releases = rs
  BY <1>8, <1>10
<1> QED
  BY <1>5, <1>6, <1>7, <1>10, <1>14, <1>15 DEF N, new, Made

LEMMA MakeDirSim ==
    ASSUME Inv, NEW where, NEW view, Sim(where, view), NEW c \in Clients, MakeDir(c)
    PROVE  \E w2, v2 : Sim(w2, v2)'
<1> DEFINE w == client[c]
           new == Len(entries) + 1
           Q == w.request.path
<1>1. /\ w.at = "in" /\ Writes(w) /\ Len(w.rest) > 1 /\ Named(w.held, Head(w.rest)) = {}
      /\ entries' = Append([entries EXCEPT ![w.held].subdirs = @ \cup {Len(entries) + 1}],
                           [name |-> Head(w.rest), subdirs |-> {}, releases |-> <<>>])
      /\ client' = [client EXCEPT ![c].at = "want", ![c].want = new, ![c].rest = Tail(w.rest)]
      /\ UNCHANGED <<puts, store, promised>>
  BY DEF MakeDir
<1>2. /\ TypeOK /\ Ways(where) /\ Tree(where) /\ Kept(c, where, view) /\ w.at \in Walking
      /\ DOMAIN client = Clients /\ DOMAIN promised = Clients /\ Moves(c)
      /\ view \in [Paths -> [Nat -> Seq(Data)]] /\ store \in [Paths -> Seq(Data)]
  BY <1>1 DEF Inv, Sim, Promises, Walking, TypeOK, Moves, Step
<1>3. DOMAIN w = {"at", "request", "held", "want", "rest", "found", "todo"}
  BY <1>2, InDirectory DEF WalkOK, Walk
<1>4. client'[c] = [w EXCEPT !.at = "want", !.want = new, !.rest = Tail(w.rest)]
  BY <1>1, <1>2
<1>5. /\ w.rest \in Seq(Names) /\ Holds(c) /\ w.held \in DOMAIN entries
      /\ w.request \in Requests \ {NotValid} /\ Len(where[w.held]) \in Nat
  BY <1>1, ReaderIsIn
<1>6. w.rest # <<>>
  BY <1>1, <1>5, Rests
<1>7. <<>> \in Seq(Data) /\ Len(<<>>) <= 1
  BY EmptySeq
<1>8. PICK w2 :
         LET N == Prefix(Q, Len(where[w.held]) + 1)
         IN /\ Tree(w2)' /\ Frame(c, where, w2)
            /\ N \in Paths /\ Len(N) = Len(where[w.held]) + 1
            /\ w2[new] = N /\ view[N][Len(N)] = <<>>
            /\ DOMAIN entries' = DOMAIN entries \cup {new} /\ new \notin DOMAIN entries
            /\ \A e \in DOMAIN entries : entries'[e].releases = entries[e].releases
            /\ entries'[new].releases = <<>>
            /\ new \in entries'[w.held].subdirs
  <2>1. client[c].at = "in" /\ Writes(client[c]) /\ Named(client[c].held, Head(client[c].rest)) = {}
    BY <1>1
  <2>2. Makes(c, <<>>)
    BY <1>1 DEF Makes
  <2>3. client[c].rest # <<>> /\ Moves(c)
    BY <1>2, <1>6
  <2> HIDE DEF w
  <2>4. PICK w2 : Made(c, where, view, w2, <<>>)
    BY <1>7, <2>1, <2>2, <2>3, NewThere
  <2> QED
    BY <2>4 DEF Made, w
<1>9. PICK v : v = client'[c]
  OBVIOUS
<1>10. PICK n : n = new
  OBVIOUS
<1> HIDE DEF new
<1>11. /\ v.at = "want" /\ v.held = w.held /\ v.request = w.request
       /\ v.want = n /\ v.rest = Tail(w.rest) /\ v.found = w.found /\ DOMAIN v = DOMAIN w
  <2> HIDE DEF w
  <2> QED
    BY <1>3, <1>4, <1>9, <1>10
<1>12. WayOf(v, w2)'
  <2>1. w2[n] = Prefix(w.request.path, Len(where[w.held]) + 1)
    BY <1>8, <1>10
  <2>2. n \in entries'[v.held].subdirs
    BY <1>8, <1>10, <1>11
  <2>3. /\ v.at = "want" /\ v.held = w.held /\ v.request = w.request
        /\ v.want = n /\ v.rest = Tail(w.rest) /\ v.found = w.found /\ DOMAIN v = DOMAIN w
    BY <1>11
  <2> QED
    BY <1>1, <1>6, <2>1, <2>2, <2>3, WayOn
<1>13. WayOf(client[c], w2)'
  BY <1>9, <1>12
<1>14. Holds(c)' /\ Writes(client[c])'
  BY <1>1, <1>5, <1>9, <1>11 DEF Holds, Walking, Writes
<1>15. Level(c, w2)' = Level(c, where)
  <2>1. w2[w.held] = where[w.held]
    BY <1>5, <1>8 DEF Frame
  <2> QED
    BY <1>9, <1>11, <2>1 DEF Level, Writes
<1>16. Kept(c, w2, view)'
  BY <1>1, <1>2, <1>5, <1>9, <1>11, <1>14, <1>15 DEF Kept, Walking
<1>17. \A e \in DOMAIN entries' \ DOMAIN entries :
          /\ entries'[e].releases = <<>> /\ view[w2[e]][Len(w2[e])] = <<>>
          /\ ComesTo(c, e)' /\ \A x \in Clients : Holds(x)' => client'[x].held # e
  <2>1. ASSUME NEW e \in DOMAIN entries' \ DOMAIN entries
        PROVE  /\ entries'[e].releases = <<>> /\ view[w2[e]][Len(w2[e])] = <<>>
               /\ ComesTo(c, e)' /\ \A x \in Clients : Holds(x)' => client'[x].held # e
    <3>1. e = new
      BY <1>8
    <3>2. ComesTo(c, e)'
      BY <1>9, <1>10, <1>11, <1>14, <3>1 DEF ComesTo
    <3>3. \A x \in Clients : Holds(x)' => client'[x].held \in DOMAIN entries
      <4>1. \A x \in Clients \ {c} : client'[x] = client[x]
        BY <1>8 DEF Frame
      <4>2. \A x \in Clients \ {c} : Holds(x)' => Holds(x)
        BY <4>1 DEF Holds
      <4> QED
        BY <1>2, <1>5, <1>9, <1>11, <4>1, <4>2, HeldIs
    <3> QED
      BY <1>8, <3>1, <3>2, <3>3
  <2> QED
    BY <2>1
<1>18. \A q \in Paths : \A d :
          /\ PutsFrom(c, q, d)' =>
                PutsFrom(c, q, d) /\ client'[c].request.data = client[c].request.data
          /\ PutsFrom(c, q, d) =>
                PutsFrom(c, q, d)' \/ view[q][Len(where[d])] = view[q][Len(where[d]) + 1]
  BY <1>1, <1>5, <1>9, <1>11, <1>14 DEF PutsFrom
<1>19. \A e : ComesTo(c, e) => ComesTo(c, e)'
  BY <1>1 DEF ComesTo
<1>20. client'[c].held = client[c].held
  BY <1>9, <1>11
<1>21. ViewOK(w2, view)'
  <2>1. Frame(c, where, w2) /\ Tree(w2)' /\ UNCHANGED store
    BY <1>1, <1>8
  <2>2. \A e \in DOMAIN entries : entries'[e].releases = entries[e].releases
    BY <1>8
  <2>3. \A e \in DOMAIN entries \ {Root} : Holds(c)' /\ client'[c].held = e =>
           (Holds(c) /\ client[c].held = e) \/ \A x \in Clients : ~ ComesTo(x, e)
    BY <1>5, <1>20
  <2> QED
    BY <1>17, <1>18, <1>19, <2>1, <2>2, <2>3, ViewStays
<1>22. \A x \in Clients \ {c} : Kept(x, w2, view)'
  BY <1>8, KeptStays
<1>23. Sim(w2, view)'
  BY <1>1, <1>2, <1>8, <1>13, <1>16, <1>21, <1>22, SimIs DEF OwnOK
<1> QED
  BY <1>23

LEMMA CreateSim ==
    ASSUME Inv, NEW where, NEW view, Sim(where, view), NEW c \in Clients, Create(c)
    PROVE  \E w2, v2 : Sim(w2, v2)'
<1> DEFINE w == client[c]
           new == Len(entries) + 1
<1>1. /\ w.at = "in" /\ Writes(w) /\ Len(w.rest) = 1 /\ Named(w.held, Head(w.rest)) = {}
      /\ entries' = Append([entries EXCEPT ![w.held].subdirs = @ \cup {Len(entries) + 1}],
                           [name |-> Head(w.rest), subdirs |-> {},
                            releases |-> <<w.request.data>>])
      /\ client' = [client EXCEPT ![c] = Answered(Promise!Numbered(1))]
      /\ UNCHANGED <<puts, store, promised>>
  BY DEF Create
<1>2. PICK P : P = w.request.path
  OBVIOUS
<1>3. /\ TypeOK /\ Tree(where) /\ DOMAIN promised = Clients /\ DOMAIN client = Clients /\ Moves(c)
  BY DEF Inv, Sim, TypeOK, Moves, Step
<1>4. /\ P \in Paths /\ Len(P) \in Nat /\ Len(where[w.held]) + 1 = Len(P)
      /\ view[P][Len(P)] = <<>>
  BY <1>1, <1>2, LastStep
<1>5. /\ w.rest \in Seq(Names) /\ Holds(c) /\ w.held \in DOMAIN entries
      /\ w.request \in Requests \ {NotValid}
  BY <1>1, ReaderIsIn
<1>6. w.rest # <<>> /\ w.request.data \in Data
  BY <1>1, <1>5, Rests, RequestTypes DEF Writes
<1>7. PICK rs : rs = <<w.request.data>>
  OBVIOUS
<1>8. rs \in Seq(Data) /\ Len(rs) <= 1 /\ rs = Append(<<>>, w.request.data)
  BY <1>6, <1>7
<1>9. Prefix(P, Len(P)) = P
  BY <1>4, PathTypes, PrefixEnds
<1>10. PICK w2 :
         LET N == Prefix(P, Len(where[w.held]) + 1)
         IN /\ Tree(w2)' /\ Frame(c, where, w2)
            /\ w2[new] = N
            /\ \A e \in DOMAIN entries : where[e] # N
            /\ DOMAIN entries' = DOMAIN entries \cup {new} /\ new \notin DOMAIN entries
            /\ \A e \in DOMAIN entries : entries'[e].releases = entries[e].releases
            /\ entries'[new].releases = rs
  <2>1. client[c].at = "in" /\ Writes(client[c]) /\ Named(client[c].held, Head(client[c].rest)) = {}
    BY <1>1
  <2>2. Makes(c, rs)
    BY <1>1, <1>7 DEF Makes
  <2>3. client[c].rest # <<>> /\ Moves(c)
    BY <1>3, <1>6
  <2> HIDE DEF w
  <2>4. PICK w2 : Made(c, where, view, w2, rs)
    BY <1>8, <2>1, <2>2, <2>3, NewThere
  <2> QED
    BY <1>2, <2>4 DEF Made, w
<1> HIDE DEF new
<1>11. w2[new] = P /\ \A e \in DOMAIN entries : where[e] # P /\ w2[e] = where[e]
  BY <1>4, <1>9, <1>10 DEF Frame
<1>12. ~ IsLastOf(<<>>, w.request.data) /\ Put(<<>>, w.request.data) = rs
  BY <1>8 DEF IsLastOf, Put
<1>13. AnswerIn(Seen(view, Level(c, where)), w.request) = Promise!Numbered(1)
  <2>1. AnswerIn(Seen(view, Level(c, where)), w.request) =
           Promise!Numbered(Len(<<>>) + IF IsLastOf(<<>>, w.request.data) THEN 0 ELSE 1)
    <3>1. client[c].at = "in" /\ Len(client[c].rest) = 1 /\ Writes(client[c])
      BY <1>1
    <3>2. view[client[c].request.path][Len(client[c].request.path)] = <<>>
      BY <1>2, <1>4
    <3> QED
      BY <3>1, <3>2, PutAnswer
  <2>2. Len(<<>>) + 1 = 1
    BY EmptySeq
  <2> QED
    BY <1>12, <2>1, <2>2
<1>14. client'[c] = Answered(Promise!Numbered(1))
  BY <1>1, <1>3
<1>15. PICK a : a = Promise!Numbered(1)
  OBVIOUS
<1>16. rs = Put(view[P][Len(P)], w.request.data)
  BY <1>4, <1>12
<1>17. \A e \in DOMAIN entries' :
          /\ w2[e] = P => entries'[e].releases = rs
          /\ w2[e] # P => e \in DOMAIN entries /\ entries'[e].releases = entries[e].releases
  BY <1>10, <1>11
<1>18. \E e \in DOMAIN entries' : w2[e] = P
  BY <1>10, <1>11
<1>19. /\ client[c].at = "in" /\ Len(client[c].rest) = 1 /\ Writes(client[c]) /\ Moves(c)
      /\ UNCHANGED <<store, promised>> /\ Frame(c, where, w2)
  BY <1>1, <1>3, <1>10
<1>20. Tree(w2)'
  BY <1>10
<1>21. /\ P = client[c].request.path /\ rs = Put(view[P][Len(P)], client[c].request.data)
      /\ client'[c] = Answered(a) /\ AnswerIn(Seen(view, Level(c, where)), client[c].request) = a
  BY <1>2, <1>13, <1>14, <1>15, <1>16
<1> HIDE DEF w
<1> QED
  BY SMTT(30), <1>17, <1>18, <1>19, <1>20, <1>21, CommitPut

-----------------------------------------------------------------------------
(* The invariant of the requests *)

\* There are paths of the entries, and views of the files, that tell what the walks
\* will answer: what the requests were promised when they entered the root.
Foreseen == \E where, view : Sim(where, view)

LEMMA MoveSim ==
    ASSUME Inv, NEW where, NEW view, Sim(where, view), NEW c \in Clients, Moves(c)
    PROVE  Foreseen'
<1>1. CASE Claim(c)
  BY <1>1, ClaimSim DEF Foreseen
<1>2. CASE Enter(c)
  BY <1>2, EnterSim DEF Foreseen
<1>3. CASE Descend(c)
  BY <1>3, DescendSim DEF Foreseen
<1>4. CASE MakeDir(c)
  BY <1>4, MakeDirSim DEF Foreseen
<1>5. CASE Misses(c)
  BY <1>5, MissesSim DEF Foreseen
<1>6. CASE Get(c)
  BY <1>6, GetSim DEF Foreseen
<1>7. CASE Commit(c)
  BY <1>7, CommitSim DEF Foreseen
<1>8. CASE Create(c)
  BY <1>8, CreateSim DEF Foreseen
<1>9. CASE List(c)
  BY <1>9, ListSim DEF Foreseen
<1>10. CASE Describe(c)
  BY <1>10, DescribeSim DEF Foreseen
<1>11. CASE Listed(c)
  BY <1>11, ListedSim DEF Foreseen
<1>12. CASE Usage(c)
  BY <1>12, UsageSim DEF Foreseen
<1>13. CASE HaveData(c)
  BY <1>13, HaveDataSim DEF Foreseen
<1>14. CASE Rest(c)
  BY <1>14, RestSim DEF Foreseen
<1>15. CASE \E q \in Requests \cup {Other} : Ask(c, q)
  BY <1>15, AskSim DEF Foreseen
<1> QED
  BY <1>1, <1>2, <1>3, <1>4, <1>5, <1>6, <1>7, <1>8, <1>9, <1>10, <1>11, <1>12, <1>13,
     <1>14, <1>15 DEF Moves, Step

LEMMA StutterSim ==
    ASSUME NEW where, NEW view, Sim(where, view), UNCHANGED vars
    PROVE  Foreseen'
<1>1. entries' = entries /\ client' = client /\ store' = store /\ promised' = promised
  BY DEF vars
<1>2. Tree(where)' /\ Ways(where)'
  BY <1>1 DEF Sim, Tree, Ways, WayOf, Depth
<1>3. ViewOK(where, view)'
  BY <1>1 DEF Sim, ViewOK, PutsFrom, ComesTo, Holds, Writes
<1>4. ASSUME NEW c \in Clients PROVE Kept(c, where, view)'
  <2>1. Kept(c, where, view)
    BY DEF Sim, Promises
  <2>2. Level(c, where)' = Level(c, where) /\ (Holds(c)' <=> Holds(c))
    BY <1>1 DEF Level, Writes, Holds
  <2> QED
    BY <1>1, <2>1, <2>2 DEF Kept, Writes
<1>5. Promises(where, view)'
  BY <1>4 DEF Promises
<1>6. Sim(where, view)'
  BY <1>1, <1>2, <1>3, <1>5 DEF Sim
<1> QED
  BY <1>6 DEF Foreseen

LEMMA ForeseenStep == Inv /\ Foreseen /\ [Next]_vars => Foreseen'
<1> SUFFICES ASSUME Inv, Foreseen, [Next]_vars PROVE Foreseen'
  OBVIOUS
<1>1. PICK where, view : Sim(where, view)
  BY DEF Foreseen
<1>2. CASE Next
  <2>1. PICK c \in Clients : Moves(c)
    BY <1>2 DEF Next, Moves
  <2> QED
    BY <1>1, <2>1, MoveSim
<1>3. CASE UNCHANGED vars
  BY <1>1, <1>3, StutterSim
<1> QED
  BY <1>2, <1>3

LEMMA ForeseenInit == Init => Foreseen
<1> SUFFICES ASSUME Init PROVE Foreseen
  OBVIOUS
<1> DEFINE where == [e \in {1} |-> <<>>]
           view == [q \in Paths |-> [k \in Nat |-> <<>>]]
<1>1. /\ entries = <<[name |-> "/", subdirs |-> {}, releases |-> <<>>]>>
      /\ store = [p \in Paths |-> <<>>]
      /\ \A c \in Clients : client[c] = Idle /\ promised[c] = [at |-> "idle"]
      /\ DOMAIN promised = Clients
  BY DEF Init, Promise!Init
<1>2. /\ DOMAIN entries = {1} /\ entries[1].subdirs = {} /\ entries[1].releases = <<>>
  BY <1>1
<1>3. <<>> \in Paths /\ <<>> \in Seq(Data) /\ Len(<<>>) = 0
  BY PathsAssumption, EmptySeq
<1>4. /\ \A e \in DOMAIN entries : where[e] = <<>>
      /\ \A q \in Paths : \A k \in Nat : view[q][k] = <<>>
      /\ where \in [DOMAIN entries -> Paths]
      /\ view \in [Paths -> [Nat -> Seq(Data)]] /\ store \in [Paths -> Seq(Data)]
  BY <1>1, <1>2, <1>3
<1>5. \A c \in Clients : ~ Holds(c) /\ client[c].at = "idle" /\ promised[c].at = "idle"
  BY <1>1 DEF Idle, Holds, Walking
<1> HIDE DEF where, view
<1>6. Tree(where)
  BY <1>2, <1>4 DEF Tree, Root
<1>7. Ways(where)
  BY <1>5 DEF Ways, Walking
<1>8. ViewOK(where, view)
  <2>1. \A q \in Paths : view[q][0] = store[q]
    BY <1>1, <1>4
  <2>2. \A e \in DOMAIN entries : view[where[e]][Len(where[e])] = entries[e].releases
    <3>1. \A e \in DOMAIN entries : where[e] = <<>> /\ entries[e].releases = <<>>
      BY <1>2, <1>4
    <3>2. view[<<>>][0] = <<>> /\ Len(<<>>) = 0
      BY <1>3, <1>4
    <3> QED
      BY <3>1, <3>2
  <2>3. \A q \in Paths : \A k \in 0 .. Len(q) :
           view[q][k] # <<>> => \E e \in DOMAIN entries : where[e] = Prefix(q, k)
    BY <1>4
  <2>4. \A c \in Clients : \A q \in Paths : \A d \in DOMAIN entries : ~ PutsFrom(c, q, d)
    BY <1>5 DEF PutsFrom
  <2>5. DOMAIN entries \ {Root} = {}
    BY <1>2 DEF Root
  <2>6. ASSUME NEW q \in Paths, NEW k \in 0 .. Len(q) - 1 PROVE view[q][k] = view[q][k + 1]
    <3>1. k \in Nat /\ k + 1 \in Nat
      BY PathTypes
    <3> QED
      BY <1>4, <3>1
  <2>7. \A c \in Clients : \A q \in Paths : \A d \in DOMAIN entries : PutsFrom(c, q, d) =>
           view[q][Len(where[d])] = Put(view[q][Len(where[d]) + 1], client[c].request.data)
    BY <2>4
  <2>8. \A e \in DOMAIN entries \ {Root} :
           \/ /\ \E c \in Clients : ComesTo(c, e)
              /\ \A c \in Clients : Holds(c) => client[c].held # e
           \/ \E q \in Paths : Under(where[e], q) /\ view[q][Len(where[e])] # <<>>
    BY <2>5
  <2> QED
    BY ONLY <2>1, <2>2, <2>3, <2>6, <2>7, <2>8 DEF ViewOK
<1>9. Promises(where, view)
  BY <1>5 DEF Promises, Kept, Walking
<1>10. Sim(where, view)
  BY <1>1, <1>4, <1>6, <1>7, <1>8, <1>9 DEF Sim
<1> QED
  BY <1>10 DEF Foreseen

-----------------------------------------------------------------------------
(* The refinement *)

\* What is shown to the clients is what they are promised.
ShowsPromised == DOMAIN promised = Clients /\ shown = [c \in Clients |-> promised[c]]

LEMMA ShownIs == Foreseen => ShowsPromised
<1> SUFFICES ASSUME Foreseen PROVE ShowsPromised
  OBVIOUS
<1>1. PICK where, view : Sim(where, view)
  BY DEF Foreseen
<1>2. \A c \in Clients : client[c].at = "answered" => promised[c] = client[c]
  BY <1>1 DEF Sim, Promises, Kept
<1> QED
  BY <1>1, <1>2 DEF Sim, shown, ShowsPromised

LEMMA BoardAnswers == \A q : Board!Answer(q) = Promise!Answer(q)
<1>1. \A p : Board!Exists(p) = Promise!Exists(p)
  BY DEF Promise!Exists, Board!Exists
<1>2. \A p : Board!Children(p) = Promise!Children(p)
  BY <1>1 DEF Promise!Children, Board!Children
<1>3. \A q : Board!Entry(q) = Promise!Entry(q)
  <2>1. \A S : Board!Cardinality(S) = Promise!Cardinality(S)
    BY DEF Promise!Cardinality, Board!Cardinality
  <2> QED
    BY <1>2, <2>1 DEF Promise!Entry, Board!Entry
<1>4. \A p, d : Board!IsLast(p, d) = Promise!IsLast(p, d)
  BY DEF Promise!IsLast, Board!IsLast
<1>5. ASSUME NEW q PROVE Board!Answer(q) = Promise!Answer(q)
  <2>1. Board!Exists(q.path) = Promise!Exists(q.path)
    BY <1>1
  <2>2. {Board!Entry(p) : p \in Board!Children(q.path)}
           = {Promise!Entry(p) : p \in Promise!Children(q.path)}
    BY <1>2, <1>3
  <2>3. Board!IsLast(q.path, q.data) = Promise!IsLast(q.path, q.data)
    BY <1>4
  <2> QED
    BY <2>1, <2>2, <2>3 DEF Promise!Answer, Board!Answer, Board!Error, Board!Numbered,
       Board!Content, Board!Listing, Promise!Error, Promise!Numbered, Promise!Content,
       Promise!Listing
<1> QED
  BY <1>5

\* Where a request takes effect, and what is a step of the board.
LEMMA PromisedStep ==
    ASSUME NEW c \in Clients, Moves(c)
    PROVE  \/ UNCHANGED <<store, promised>>
           \/ Promise!Do(c) \/ Promise!Rest(c)
           \/ /\ client[c].at = "idle" /\ UNCHANGED store
              /\ \E q : promised' = [promised EXCEPT ![c] = [at |-> "asked", request |-> q]]
<1>1. CASE \/ Claim(c) \/ Descend(c) \/ MakeDir(c) \/ Misses(c) \/ Get(c) \/ Commit(c)
           \/ Create(c) \/ List(c) \/ Describe(c) \/ Listed(c)
  BY <1>1 DEF Claim, Descend, MakeDir, Misses, Get, Commit, Create, List, Describe, Listed
<1>2. CASE Enter(c) \/ Usage(c) \/ HaveData(c) \/ Rest(c)
  BY <1>2 DEF Enter, Usage, HaveData, Rest
<1>3. CASE \E q \in Requests \cup {Other} : Ask(c, q)
  BY <1>3 DEF Ask
<1> QED
  BY <1>1, <1>2, <1>3 DEF Moves, Step

LEMMA MoveImplements ==
    ASSUME Foreseen, ShowsPromised, ShowsPromised', NEW c \in Clients, Moves(c)
    PROVE  Board!Next \/ UNCHANGED <<store, shown>>
<1>1. /\ DOMAIN promised = Clients
      /\ shown = [x \in Clients |-> promised[x]] /\ shown' = [x \in Clients |-> promised'[x]]
  BY DEF ShowsPromised
<1>2. shown[c] = promised[c] /\ shown'[c] = promised'[c]
  BY <1>1
<1>3. \A r : promised' = [promised EXCEPT ![c] = r] => shown' = [shown EXCEPT ![c] = r]
  BY <1>1
<1>4. CASE UNCHANGED <<store, promised>>
  BY <1>1, <1>4
<1>5. CASE Promise!Do(c)
  <2>1. PICK r : r = [at |-> "answered", answer |-> Promise!Answer(promised[c].request)]
    OBVIOUS
  <2>2. promised' = [promised EXCEPT ![c] = r] /\ promised[c].at = "asked"
    BY <1>5, <2>1 DEF Promise!Do
  <2>3. shown' = [shown EXCEPT ![c] = r]
    BY <1>3, <2>2
  <2>4. r = [at |-> "answered", answer |-> Board!Answer(shown[c].request)]
    BY <1>2, <2>1, BoardAnswers
  <2>5. LET q == shown[c].request IN
           IF q.op = "put" /\ q.valid /\ ~ Board!IsLast(q.path, q.data)
           THEN store' = [store EXCEPT ![q.path] = Append(@, q.data)]
           ELSE UNCHANGED store
    BY <1>2, <1>5 DEF Promise!Do, Promise!IsLast, Board!IsLast
  <2>6. Board!Do(c)
    BY <1>2, <2>2, <2>3, <2>4, <2>5 DEF Board!Do
  <2> QED
    BY <2>6 DEF Board!Next
<1>6. CASE Promise!Rest(c)
  <2>1. Board!Rest(c)
    BY <1>3, <1>6 DEF Promise!Rest, Board!Rest
  <2> QED
    BY <2>1 DEF Board!Next
<1>7. ASSUME client[c].at = "idle", UNCHANGED store,
             NEW q, promised' = [promised EXCEPT ![c] = [at |-> "asked", request |-> q]]
      PROVE  Board!Next
  <2>1. shown[c].at = "idle"
    <3>1. PICK where, view : Sim(where, view)
      BY DEF Foreseen
    <3> QED
      BY <1>2, <1>7, <3>1 DEF Sim, Promises, Kept
  <2>2. PICK r : r = [at |-> "asked", request |-> q]
    OBVIOUS
  <2>3. shown' = [shown EXCEPT ![c] = r] /\ promised' = [promised EXCEPT ![c] = r]
    BY <1>3, <1>7, <2>2
  <2>4. shown'[c] = r /\ r.at = "asked"
    BY <1>1, <1>2, <2>2, <2>3
  <2>5. shown' = [shown EXCEPT ![c] = shown'[c]]
    BY <2>3, <2>4
  <2>6. shown'[c].at = "asked"
    BY <2>4
  <2>7. Board!Ask(c)
    BY <1>7, <2>1, <2>5, <2>6 DEF Board!Ask
  <2> QED
    BY <2>7 DEF Board!Next
<1> QED
  BY <1>4, <1>5, <1>6, <1>7, PromisedStep

LEMMA NextImplements ==
    Foreseen /\ ShowsPromised /\ ShowsPromised' /\ [Next]_vars => [Board!Next]_<<store, shown>>
<1> SUFFICES ASSUME Foreseen, ShowsPromised, ShowsPromised', [Next]_vars
             PROVE  [Board!Next]_<<store, shown>>
  OBVIOUS
<1>1. CASE Next
  <2>1. PICK c \in Clients : Moves(c)
    BY <1>1 DEF Next, Moves
  <2> QED
    BY <2>1, MoveImplements
<1>2. CASE UNCHANGED vars
  BY <1>2 DEF vars, shown
<1> QED
  BY <1>1, <1>2

LEMMA InitImplements == Init => Board!Init
<1> SUFFICES ASSUME Init PROVE Board!Init
  OBVIOUS
<1>1. /\ store = [p \in Paths |-> <<>>]
      /\ \A c \in Clients : client[c].at = "idle" /\ promised[c] = [at |-> "idle"]
  BY DEF Init, Promise!Init, Idle
<1>2. shown = [c \in Clients |-> [at |-> "idle"]]
  BY <1>1 DEF shown
<1> QED
  BY <1>1, <1>2 DEF Board!Init

\* Every answer that is still on its way was promised when its walk entered the root:
\* neither the puts before it nor those after it change it (vcs.rs:179-236, 310-413).
THEOREM AnswersForeseen == Spec => []Foreseen
  BY ForeseenInit, ForeseenStep, Invariance, PTL DEF Spec

\* The walks that go down the tree at once, each with the locks of one directory and
\* the next, answer as a store that does one request at a time (vcs.rs:179-236, 310-413).
THEOREM WalksImplementBoard == Spec => IsABoard
<1>1. Spec => [](Foreseen /\ ShowsPromised)
  BY AnswersForeseen, ShownIs, PTL
<1> QED
  BY <1>1, InitImplements, NextImplements, PTL DEF Spec, IsABoard, Board!Spec
=============================================================================
