---------------------------- MODULE MCMerkleSync ----------------------------
(* Constants of the model-checking runs of MerkleSync: two nodes, with the *)
(* author, the calendar and the bounds of every run.                       *)
EXTENDS MerkleSync
CONSTANTS a, b, c1, c2

MCAuthor == <<a, b, a, b>>
DaysAuthor == <<b, a, b, b>>
\* The ordinals of the year, month, day and hour of every HLC.
SameDay  == << <<0,0,0,0>>, <<0,0,0,0>>, <<0,0,0,0>>, <<0,0,1,2>> >>
TwoDays  == << <<0,0,0,0>>, <<0,0,0,0>>, <<0,0,1,1>>, <<0,1,2,2>> >>
SameDayCalendar == [l \in Level |-> [h \in Hlc |-> SameDay[l+1][h]]]
TwoDaysCalendar == [l \in Level |-> [h \in Hlc |-> TwoDays[l+1][h]]]
\* The callers' nodes: every session is started at a, or c1 starts them at a and
\* c2 at b (a handler of c1's and a session of c2's meet at b).
HomeA == [c \in Caller |-> a]
HomeAB == [c \in Caller |-> IF c = c1 THEN a ELSE b]
AuthorOf == [h \in Hlc |-> MCAuthor[h]]
DaysAuthorOf == [h \in Hlc |-> DaysAuthor[h]]
\* last and since are read by a linear request only; where MaxLinear is 0 none is ever
\* sent, and states that differ in nothing else behave alike.
Seen == <<store, tree, [c \in Caller |-> [sess[c] EXCEPT !.since = NoHlc]], build, net, clock>>
=============================================================================
