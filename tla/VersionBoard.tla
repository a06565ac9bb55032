---------------------------- MODULE VersionBoard ----------------------------
(***************************************************************************)
(* What the version store promises its clients: "each revision of a file  *)
(* is identified by its filename and a revision number"                    *)
(* (src/rust/p10-voracious-code-storage/README.md:5-6).  Revisions are     *)
(* numbered from 1, and every request takes effect at once, some time      *)
(* between the question and the answer.                                    *)
(***************************************************************************)
EXTENDS Naturals, Sequences, FiniteSets

CONSTANTS Clients, Paths, Data

\* store[p] holds the revisions of file p, oldest first.
VARIABLES store, client

Error == [kind |-> "error"]
Numbered(r) == [kind |-> "revision", is |-> r]
Content(d) == [kind |-> "data", is |-> d]
Listing(entries) == [kind |-> "list", is |-> entries]

\* p is a directory, or a file, on the way to a file that was put.
Exists(p) == p = <<>> \/ \E q \in Paths : Len(q) >= Len(p) /\ SubSeq(q, 1, Len(p)) = p
                                          /\ store[q] # <<>>

\* The entries of directory p, those it holds itself.
Children(p) == {q \in Paths : Len(q) = Len(p) + 1 /\ SubSeq(q, 1, Len(p)) = p /\ Exists(q)}

Entry(q) == IF store[q] = <<>>
            THEN [name |-> q[Len(q)], kind |-> "DIR", count |-> Cardinality(Children(q))]
            ELSE [name |-> q[Len(q)], kind |-> "file", count |-> Len(store[q])]

\* A put of what the last revision holds is no new revision.
IsLast(p, d) == store[p] # <<>> /\ store[p][Len(store[p])] = d

Answer(q) ==
    LET revisions == store[q.path] IN
    CASE q.op = "list" -> IF Exists(q.path) THEN Listing({Entry(p) : p \in Children(q.path)})
                                            ELSE Error
      [] q.op = "get"  -> IF q.rev \in DOMAIN revisions THEN Content(revisions[q.rev]) ELSE Error
      [] q.op = "last" -> IF revisions # <<>> THEN Content(revisions[Len(revisions)]) ELSE Error
      [] q.op = "put"  -> IF q.valid
                          THEN Numbered(Len(revisions) + IF IsLast(q.path, q.data) THEN 0 ELSE 1)
                          ELSE Error
      [] q.op = "other" -> Error

Init ==
    /\ store = [p \in Paths |-> <<>>]
    /\ client = [c \in Clients |-> [at |-> "idle"]]

Ask(c) ==
    /\ client[c].at = "idle"
    /\ client'[c].at = "asked"
    /\ client' = [client EXCEPT ![c] = client'[c]]
    /\ UNCHANGED store

\* The request takes effect.
Do(c) ==
    /\ client[c].at = "asked"
    /\ client' = [client EXCEPT ![c] = [at |-> "answered", answer |-> Answer(client[c].request)]]
    /\ LET q == client[c].request IN
       IF q.op = "put" /\ q.valid /\ ~ IsLast(q.path, q.data)
       THEN store' = [store EXCEPT ![q.path] = Append(@, q.data)]
       ELSE UNCHANGED store

\* The client reads the answer, or leaves.
Rest(c) ==
    /\ client' = [client EXCEPT ![c] = [at |-> "idle"]]
    /\ UNCHANGED store

Next == \E c \in Clients : Ask(c) \/ Do(c) \/ Rest(c)

Spec == Init /\ [][Next]_<<store, client>>
=============================================================================
