--------------------------- MODULE MCFileTransfer ---------------------------
(* Constants of the model-checking runs of FileTransfer: all downloads are to *)
(* one path, so that each meets what the earlier ones have left; the last is  *)
(* of another file.                                                           *)
EXTENDS FileTransfer, TLC
CONSTANTS p, f, g, d1, d2, d3

MCPathOf == [d \in Download |-> p]
MCFileOf == [d \in Download |-> IF d = d3 THEN g ELSE f]

Same == Permutations({d1, d2})
=============================================================================
