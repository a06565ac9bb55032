---------------------------- MODULE MCLrcpSession ---------------------------
(* Instances of LrcpSession small enough for TLC. *)
EXTENDS LrcpSession

TwoAndNone == [client |-> 2, server |-> 0]
OneAndNone == [client |-> 1, server |-> 0]
=============================================================================
