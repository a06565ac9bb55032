----------------------------- MODULE LrcpStream -----------------------------
(***************************************************************************)
(* What LRCP promises: "a pair of reliable and in-order byte streams"      *)
(* (src/rust/p07-line-reversal/src/lib.rs:12-13), one in each direction,   *)
(* either of which may break.  Bytes are offsets, as in LrcpEndpoint.      *)
(***************************************************************************)
EXTENDS Integers, Sequences

CONSTANTS Party, Peer(_)

VARIABLES
    written,    \* written[e]: how many bytes the application of e wrote
    received,   \* received[e]: the bytes e was given, in the order it got them
    confirmed,  \* confirmed[e]: how many of its bytes e knows to have arrived
    status      \* status[e]: "open", "flushed", or "broken" for good

vars == <<written, received, confirmed, status>>

Init ==
    /\ written = [e \in Party |-> 0]
    /\ received = [e \in Party |-> <<>>]
    /\ confirmed = [e \in Party |-> 0]
    /\ status = [e \in Party |-> "open"]

Write(e) ==
    /\ status[e] # "broken"
    /\ written'[e] > written[e]
    /\ written' = [written EXCEPT ![e] = written'[e]]
    /\ status' = [status EXCEPT ![e] = "open"]
    /\ UNCHANGED <<received, confirmed>>

\* More of the peer's bytes arrive, in order and without gaps.
Deliver(e) ==
    /\ \E n \in Len(received[e]) + 1 .. written[Peer(e)] :
          received' = [received EXCEPT ![e] = [i \in 1..n |-> i - 1]]
    /\ UNCHANGED <<written, confirmed, status>>

\* e learns that more of its bytes have arrived: never more than have.
Confirm(e) ==
    /\ \E n \in confirmed[e] + 1 .. Len(received[Peer(e)]) :
          confirmed' = [confirmed EXCEPT ![e] = n]
    /\ UNCHANGED <<written, received, status>>

\* A flush succeeds only when every byte written is known to have arrived.
Flush(e) ==
    /\ status[e] = "open"
    /\ confirmed[e] = written[e]
    /\ status' = [status EXCEPT ![e] = "flushed"]
    /\ UNCHANGED <<written, received, confirmed>>

\* The application goes on to close the stream.
Leave(e) ==
    /\ status[e] = "flushed"
    /\ status' = [status EXCEPT ![e] = "open"]
    /\ UNCHANGED <<written, received, confirmed>>

Break(e) ==
    /\ status[e] # "broken"
    /\ status' = [status EXCEPT ![e] = "broken"]
    /\ UNCHANGED <<written, received, confirmed>>

Next == \E e \in Party :
    Write(e) \/ Deliver(e) \/ Confirm(e) \/ Flush(e) \/ Leave(e) \/ Break(e)

Spec == Init /\ [][Next]_vars
=============================================================================
