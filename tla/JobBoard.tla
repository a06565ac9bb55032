------------------------------ MODULE JobBoard ------------------------------
(***************************************************************************)
(* What the job centre promises (src/rust/p09-job-centre/src/lib.rs,       *)
(* 50-161): a job waits in its queue or is worked on by one client, until  *)
(* somebody deletes it, for good.                                          *)
(***************************************************************************)
EXTENDS Integers, Sequences

CONSTANTS Workers, Queues

\* board[id] is a job: its queue, its priority, and where it is, which is
\* "waiting", "deleted" or the worker that works on it.
VARIABLE board

Ids == DOMAIN board

Waiting(i) == board[i].at = "waiting"

Init == board = <<>>

Put ==
    LET last == board'[Len(board')] IN
    /\ Len(board') = Len(board) + 1
    /\ last \in [queue : Queues, priority : Nat, at : {"waiting"}]
    /\ board' = Append(board, last)

\* A worker that names some queues is given the best job waiting in them.
Assign(w) == \E named \in SUBSET Queues : \E i \in Ids :
    /\ Waiting(i) /\ board[i].queue \in named
    /\ \A j \in Ids : Waiting(j) /\ board[j].queue \in named =>
          board[j].priority <= board[i].priority
    /\ board' = [board EXCEPT ![i].at = w]

\* A worker hands jobs back, one that it aborts or all when it leaves.
Return(w) == \E back \in SUBSET {i \in Ids : board[i].at = w} :
    board' = [i \in Ids |-> IF i \in back THEN [board[i] EXCEPT !.at = "waiting"]
                                          ELSE board[i]]

Delete == \E i \in Ids :
    /\ board[i].at # "deleted"
    /\ board' = [board EXCEPT ![i].at = "deleted"]

Next == Put \/ Delete \/ \E w \in Workers : Assign(w) \/ Return(w)

Spec == Init /\ [][Next]_board
=============================================================================
