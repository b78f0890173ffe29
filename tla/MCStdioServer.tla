--------------------------- MODULE MCStdioServer ---------------------------
(* Constants of the model-checking run of StdioServer. *)
EXTENDS StdioServer
CONSTANTS r1, r2, r3, e1, main, other
=============================================================================
