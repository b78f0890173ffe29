---------------------------- MODULE MCSharedDirs ----------------------------
(* A root, a directory below it and one below that; two callers. *)
EXTENDS SharedDirs

CONSTANTS c1, c2, root, sub, deep

MCCaller == {c1, c2}
MCDir    == {root, sub, deep}
MCParent == [d \in {sub, deep} |-> IF d = sub THEN root ELSE sub]
=============================================================================
