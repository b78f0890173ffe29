--------------------------- MODULE RequestServer ---------------------------
(***************************************************************************)
(* What a server of requests that can be stopped promises, whatever its    *)
(* goroutines, locks and buffers are: while it is open it takes requests,  *)
(* it answers what it took and nothing else, once each, and it closes when *)
(* it has answered everything, taking nothing new from the moment it began *)
(* to close.  StdioServer implements it.                                   *)
(***************************************************************************)
CONSTANT Request

VARIABLES accepted, answered, phase

state == <<accepted, answered, phase>>

Init == accepted = {} /\ answered = {} /\ phase = "open"

Accept(r) ==
  /\ phase = "open" /\ r \notin accepted
  /\ accepted' = accepted \cup {r}
  /\ UNCHANGED <<answered, phase>>

Answer(r) ==
  /\ phase # "closed" /\ r \in accepted \ answered
  /\ answered' = answered \cup {r}
  /\ UNCHANGED <<accepted, phase>>

BeginToClose ==
  /\ phase = "open" /\ phase' = "closing"
  /\ UNCHANGED <<accepted, answered>>

Close ==
  /\ phase = "closing" /\ answered = accepted
  /\ phase' = "closed"
  /\ UNCHANGED <<accepted, answered>>

Next == BeginToClose \/ Close \/ \E r \in Request : Accept(r) \/ Answer(r)

Spec == Init /\ [][Next]_state
=============================================================================
