--------------------------- MODULE MCPestControl ----------------------------
(* A small pest control for TLC. *)
EXTENDS PestControl

CONSTANTS rat, dog

\* What the visitors report: nothing, one species or both, and a conflict.
MCReports == {{}, {<<rat, 1>>}, {<<rat, 0>>, <<dog, 1>>}, {<<rat, 1>>, <<dog, 1>>},
              {<<rat, 0>>, <<rat, 1>>}}
=============================================================================
