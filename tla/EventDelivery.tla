--------------------------- MODULE EventDelivery ---------------------------
(***************************************************************************)
(* What a bus promises to its handlers, whatever its channels and loops    *)
(* are: it delivers what was published, and delivers it to a handler at    *)
(* most once.  EventBus implements it.                                     *)
(***************************************************************************)
EXTENDS Sequences

CONSTANTS Handler, Event

VARIABLES
  published,  \* the events that were handed to the bus
  received    \* what every handler was called with

deliveries == <<published, received>>

Init == published = {} /\ received = [h \in Handler |-> <<>>]

Publish(e) ==
  /\ e \notin published
  /\ published' = published \cup {e}
  /\ UNCHANGED received

Deliver(h, e) ==
  /\ e \in published /\ \A k \in DOMAIN received[h] : received[h][k] # e
  /\ received' = [received EXCEPT ![h] = Append(@, e)]
  /\ UNCHANGED published

Next == \E e \in Event : Publish(e) \/ \E h \in Handler : Deliver(h, e)

Spec == Init /\ [][Next]_deliveries
=============================================================================
