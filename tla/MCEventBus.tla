----------------------------- MODULE MCEventBus -----------------------------
(* Constants of the model-checking runs of EventBus. *)
EXTENDS EventBus
CONSTANTS h1, h2, p1, p2

\* The first publisher publishes twice, so that it has an order to keep.
TwoAndOne == [p \in Publisher |-> IF p = p1 THEN 2 ELSE 1]
=============================================================================
