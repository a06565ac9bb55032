---------------------------- MODULE MCLrcpServer ----------------------------
(* Instances of LrcpServer small enough for TLC. *)
EXTENDS LrcpServer

OneEach == [client |-> 1, server |-> 1]
TwoAndTwo == [client |-> 2, server |-> 2]
NoneAndNone == [client |-> 0, server |-> 0]
ThreeAndNone == [client |-> 3, server |-> 0]
NoneAndThree == [client |-> 0, server |-> 3]
=============================================================================
