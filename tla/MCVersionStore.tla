--------------------------- MODULE MCVersionStore ---------------------------
(* A small instance of the version store. *)
EXTENDS VersionStore

\* A directory that may also become a file, with two entries in it.
MCPaths == {<<>>, <<"a">>, <<"a", "a">>, <<"a", "b">>}
=============================================================================
