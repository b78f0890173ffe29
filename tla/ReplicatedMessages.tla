------------------------ MODULE ReplicatedMessages ------------------------
(***************************************************************************)
(* What a conversation replicated between nodes promises, whatever the     *)
(* trees, sessions, requests and messages in flight that carry it: a       *)
(* message comes into being at its author, a node only ever gains messages *)
(* that exist, and one node at a time gains any.  MerkleSync implements it. *)
(***************************************************************************)
CONSTANTS Node, Hlc, Author

VARIABLE held  \* the HLCs of the messages every node holds

Init == held = [n \in Node |-> {}]

\* The messages that exist: the author stores its own before anybody else can.
Written == {h \in Hlc : h \in held[Author[h]]}

Write(h) ==
  /\ h \notin Written
  /\ held' = [held EXCEPT ![Author[h]] = @ \cup {h}]

Gain(n, H) == held' = [held EXCEPT ![n] = @ \cup H]

Next == (\E h \in Hlc : Write(h)) \/ (\E n \in Node : \E H \in SUBSET Written : Gain(n, H))

Spec == Init /\ [][Next]_held
=============================================================================
