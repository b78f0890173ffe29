-------------------------- MODULE EventBusProofs --------------------------
(***************************************************************************)
(* Proofs about EventBus, for every set of handlers and publishers, every  *)
(* capacity and any number of loops.  The argument: a publisher's events   *)
(* move from its counter to a channel, from there to the hands of the loop *)
(* and on to the handlers, and whatever is further on is older.            *)
(***************************************************************************)
EXTENDS EventBus, SequenceTheorems, TLAPS

LEMMA EventType ==
  /\ \A e \in Event : e[1] \in Publisher /\ e[2] \in Nat
  /\ \A p \in Publisher : \A n \in 1 .. MaxEvents[p] : <<p, n>> \in Event
  <1>1. ASSUME NEW e \in Event PROVE e[1] \in Publisher /\ e[2] \in Nat
    <2>1. PICK p \in Publisher : e \in {p} \X (1 .. MaxEvents[p])
      BY DEF Event
    <2> QED
      BY <2>1, BusAssumption
  <1>2. ASSUME NEW p \in Publisher, NEW n \in 1 .. MaxEvents[p] PROVE <<p, n>> \in Event
    BY <1>2 DEF Event
  <1> QED
    BY <1>1, <1>2

\* A loop has an event where it needs one, and so has a publisher that sends.
Places ==
  /\ \A i \in Loop : /\ loop[i].pc \in {"lookup", "call"} => loop[i].event \in Event
                     /\ loop[i].todo # {} => loop[i].pc = "call"
  /\ \A p \in Publisher : publish[p].ch # NoLoop => publish[p].count >= 1

NotBorn == \A i \in Loop : i > started => loop[i].pc = "none"

Typed == TypeOK /\ Places /\ NotBorn

Rec == [pc : {"none", "select", "lookup", "call", "exited"}, event : Event \cup {Idle},
        todo : SUBSET Handler]

\* What Places says of one loop.
Placed(r) ==
  /\ r \in Rec
  /\ r.pc \in {"lookup", "call"} => r.event \in Event
  /\ r.todo # {} => r.pc = "call"

LEMMA LoopsPlaced ==
  ASSUME Typed, NEW i \in Loop, NEW r, Placed(r), loop' = [loop EXCEPT ![i] = r],
         UNCHANGED publish, i <= started', started <= started', started' \in Nat
  PROVE  loop' \in [Loop -> Rec] /\ Places' /\ NotBorn'
  <1>1. loop' \in [Loop -> Rec] /\ Places'
    BY DEF Typed, TypeOK, Places, Placed, Rec
  <1>2. NotBorn'
    BY BusAssumption DEF Typed, TypeOK, NotBorn, Loop
  <1> QED
    BY <1>1, <1>2

LEMMA InitTyped == Init => Typed
  <1> SUFFICES ASSUME Init PROVE Typed
    OBVIOUS
  <1>1. channel \in [Loop -> Seq(Event)] /\ seen \in [Handler -> Seq(Event \X Loop)]
    BY EmptySeq DEF Init
  <1>2. \A i \in Loop : Len(channel[i]) <= Capacity
    BY BusAssumption, EmptySeq DEF Init
  <1>3. loop \in [Loop -> Rec]
    BY DEF Init, Rec
  <1>4. /\ publish \in [Publisher -> [count : Nat, ch : Loop \cup {NoLoop}]]
        /\ \A p \in Publisher : publish[p].count <= MaxEvents[p]
    BY BusAssumption DEF Init
  <1>5. Places /\ NotBorn
    BY DEF Init, Places, NotBorn
  <1> QED
    BY <1>1, <1>2, <1>3, <1>4, <1>5, BusAssumption DEF Init, Typed, TypeOK, Rec

LEMMA SubscribeTyped ==
  ASSUME Typed, NEW h \in Handler, Subscribe(h)
  PROVE  Typed'
  <1>1. UNCHANGED <<cancelled, channel, publish, seen>> /\ handlers' = handlers \cup {h}
    BY DEF Subscribe
  <1>2. CASE topicCh # NoLoop /\ UNCHANGED <<topicCh, started, loop>>
    BY <1>1, <1>2 DEF Typed, TypeOK, Places, NotBorn
  <1>3. CASE /\ topicCh = NoLoop /\ started < MaxLoops /\ topicCh' = started + 1
             /\ started' = started + 1 /\ loop' = [loop EXCEPT ![started + 1].pc = "select"]
    <2>1. started \in Nat /\ started + 1 \in Loop /\ started + 1 # NoLoop
      BY <1>3, BusAssumption DEF Typed, TypeOK, Loop, NoLoop
    <2> DEFINE r == [loop[started + 1] EXCEPT !.pc = "select"]
    <2>2. loop[started + 1] \in Rec
      BY <2>1 DEF Typed, TypeOK, Rec
    <2>3. r \in Rec /\ r.pc = "select" /\ r.todo = loop[started + 1].todo
      BY <2>2 DEF Rec
    <2>4. loop[started + 1].todo = {}
      BY <2>1 DEF Typed, Places, NotBorn
    <2>5. Placed(r)
      BY <2>3, <2>4 DEF Placed
    <2>6. loop' = [loop EXCEPT ![started + 1] = r]
      BY <1>3, <2>1 DEF Typed, TypeOK
    <2> HIDE DEF r
    <2>7. started + 1 <= started' /\ started <= started' /\ started' \in 0 .. MaxLoops
      BY <1>3, <2>1, BusAssumption
    <2>8. loop' \in [Loop -> Rec] /\ Places' /\ NotBorn'
      <3>1. started' \in Nat /\ publish' = publish
        BY <1>1, <2>7, BusAssumption
      <3> QED
        BY <2>1, <2>5, <2>6, <2>7, <3>1, LoopsPlaced
    <2>9. topicCh' \in Loop /\ topicCh' # NoLoop /\ handlers' \in SUBSET Handler /\ handlers' # {}
      BY <1>1, <1>3, <2>1 DEF Typed, TypeOK
    <2> QED
      BY <1>1, <2>7, <2>8, <2>9 DEF Typed, TypeOK, Rec
  <1> QED
    BY <1>2, <1>3 DEF Subscribe

LEMMA UnsubscribeTyped ==
  ASSUME Typed, NEW h \in Handler, Unsubscribe(h)
  PROVE  Typed'
  <1>1. UNCHANGED <<started, channel, loop, publish, seen>> /\ handlers' = handlers \ {h}
    BY DEF Unsubscribe
  <1>2. /\ topicCh' \in Loop \cup {NoLoop} /\ (topicCh' = NoLoop <=> handlers' = {})
        /\ cancelled' \subseteq Loop
    BY DEF Unsubscribe, Typed, TypeOK
  <1> QED
    BY <1>1, <1>2 DEF Typed, TypeOK, Places, NotBorn

LEMMA LookupChannelTyped ==
  ASSUME Typed, NEW p \in Publisher, LookupChannel(p)
  PROVE  Typed'
  <1>1. publish' = [publish EXCEPT ![p] = [count |-> publish[p].count + 1, ch |-> topicCh]]
    BY DEF LookupChannel, Typed, TypeOK
  <1>2. publish[p].count \in Nat /\ publish[p].count + 1 <= MaxEvents[p]
    <2>1. publish[p] \in [count : Nat, ch : Loop \cup {NoLoop}] /\ MaxEvents[p] \in Nat
      BY BusAssumption DEF Typed, TypeOK
    <2>2. publish[p].count < MaxEvents[p]
      BY DEF LookupChannel
    <2> QED
      BY <2>1, <2>2
  <1>3. /\ publish' \in [Publisher -> [count : Nat, ch : Loop \cup {NoLoop}]]
        /\ \A q \in Publisher : publish'[q].count <= MaxEvents[q]
        /\ \A q \in Publisher : publish'[q].ch # NoLoop => publish'[q].count >= 1
    BY <1>1, <1>2 DEF Typed, TypeOK, Places
  <1> QED
    BY <1>3 DEF LookupChannel, Typed, TypeOK, Places, NotBorn

\* What a publisher holds when it sends.
LEMMA Held ==
  ASSUME Typed, NEW p \in Publisher, publish[p].ch # NoLoop
  PROVE  <<p, publish[p].count>> \in Event /\ publish[p].ch \in Loop
  BY EventType, BusAssumption DEF Typed, TypeOK, Places

LEMMA SendChannel ==
  ASSUME Typed, NEW p \in Publisher, Send(p)
  PROVE  LET i == publish[p].ch
             e == <<p, publish[p].count>>
         IN  /\ i \in Loop /\ e \in Event
             /\ \A j \in Loop : j # i => channel'[j] = channel[j]
             /\ channel' \in [Loop -> Seq(Event)]
             /\ \/ channel'[i] = channel[i]
                \/ /\ Len(channel[i]) < Capacity /\ Len(channel'[i]) = Len(channel[i]) + 1
                   /\ channel'[i][Len(channel[i]) + 1] = e
                   /\ \A k \in 1 .. Len(channel[i]) : channel'[i][k] = channel[i][k]
  <1> DEFINE i == publish[p].ch
             e == <<p, publish[p].count>>
  <1>1. i \in Loop /\ e \in Event
    BY Held DEF Send
  <1>2. channel[i] \in Seq(Event)
    BY <1>1 DEF Typed, TypeOK
  <1>3. channel' = [channel EXCEPT ![i] =
           IF Len(channel[i]) < Capacity THEN Append(channel[i], e) ELSE channel[i]]
    BY DEF Send
  <1> HIDE DEF i, e
  <1>4. /\ Append(channel[i], e) \in Seq(Event)
        /\ Len(Append(channel[i], e)) = Len(channel[i]) + 1
        /\ Append(channel[i], e)[Len(channel[i]) + 1] = e
        /\ \A k \in 1 .. Len(channel[i]) : Append(channel[i], e)[k] = channel[i][k]
    BY <1>1, <1>2
  <1>5. channel \in [Loop -> Seq(Event)]
    BY DEF Typed, TypeOK
  <1>6. /\ i \in Loop /\ e \in Event
        /\ \A j \in Loop : j # i => channel'[j] = channel[j]
        /\ channel' \in [Loop -> Seq(Event)]
        /\ \/ channel'[i] = channel[i]
           \/ /\ Len(channel[i]) < Capacity /\ Len(channel'[i]) = Len(channel[i]) + 1
              /\ channel'[i][Len(channel[i]) + 1] = e
              /\ \A k \in 1 .. Len(channel[i]) : channel'[i][k] = channel[i][k]
    BY <1>1, <1>2, <1>3, <1>4, <1>5
  <1> QED
    BY <1>6 DEF i, e

LEMMA SendTyped ==
  ASSUME Typed, NEW p \in Publisher, Send(p)
  PROVE  Typed'
  <1>1. channel' \in [Loop -> Seq(Event)] /\ \A i \in Loop : Len(channel'[i]) <= Capacity
    <2>1. \A i \in Loop : Len(channel[i]) \in Nat /\ Len(channel[i]) <= Capacity
      BY LenProperties DEF Typed, TypeOK
    <2>2. Capacity \in Nat /\ publish[p].ch \in Loop
      BY BusAssumption, SendChannel
    <2>3. /\ \A i \in Loop : i # publish[p].ch => channel'[i] = channel[i]
          /\ channel' \in [Loop -> Seq(Event)]
      BY SendChannel
    <2>4. Len(channel'[publish[p].ch]) <= Capacity
      <3>1. \/ channel'[publish[p].ch] = channel[publish[p].ch]
            \/ /\ Len(channel[publish[p].ch]) < Capacity
               /\ Len(channel'[publish[p].ch]) = Len(channel[publish[p].ch]) + 1
        BY SendChannel
      <3> QED
        BY <2>1, <2>2, <3>1
    <2> QED
      BY <2>1, <2>2, <2>3, <2>4
  <1>2. publish' = [publish EXCEPT ![p].ch = NoLoop]
    BY DEF Send
  <1>3. /\ publish' \in [Publisher -> [count : Nat, ch : Loop \cup {NoLoop}]]
        /\ \A q \in Publisher : publish'[q].count = publish[q].count
        /\ \A q \in Publisher : publish'[q].ch = publish[q].ch \/ publish'[q].ch = NoLoop
    BY <1>2 DEF Typed, TypeOK
  <1> QED
    BY <1>1, <1>3 DEF Send, Typed, TypeOK, Places, NotBorn

LEMMA LoopTyped ==
  ASSUME Typed, NEW i \in Loop, loop[i].pc # "none", NEW r, Placed(r),
         loop' = [loop EXCEPT ![i] = r],
         UNCHANGED <<handlers, topicCh, cancelled, started, publish>>,
         channel' \in [Loop -> Seq(Event)],
         \A j \in Loop : Len(channel'[j]) <= Capacity,
         seen' \in [Handler -> Seq(Event \X Loop)]
  PROVE  Typed'
  <1>1. started \in Nat /\ i <= started
    BY BusAssumption DEF Typed, TypeOK, NotBorn, Loop
  <1>2. loop' \in [Loop -> Rec] /\ Places' /\ NotBorn'
    <2>1. i <= started' /\ started <= started' /\ started' \in Nat /\ publish' = publish
      BY <1>1
    <2> QED
      BY <2>1, LoopsPlaced
  <1> QED
    BY <1>2 DEF Typed, TypeOK, Rec

\* A step of a loop that takes nothing and calls nobody.
LEMMA QuietTyped ==
  ASSUME Typed, NEW i \in Loop, loop[i].pc # "none", NEW r, Placed(r),
         loop' = [loop EXCEPT ![i] = r],
         UNCHANGED <<handlers, topicCh, cancelled, started, channel, publish, seen>>
  PROVE  Typed'
  BY LoopTyped DEF Typed, TypeOK

LEMMA Taken ==
  ASSUME Typed, NEW i \in Loop, TakeEvent(i)
  PROVE  /\ Len(channel[i]) \in Nat \ {0} /\ channel[i][1] \in Event
         /\ loop' = [loop EXCEPT ![i] = [pc |-> "lookup", event |-> channel[i][1], todo |-> {}]]
         /\ channel' \in [Loop -> Seq(Event)]
         /\ \A j \in Loop : j # i => channel'[j] = channel[j]
         /\ Len(channel'[i]) = Len(channel[i]) - 1
         /\ \A k \in 1 .. Len(channel'[i]) : channel'[i][k] = channel[i][k + 1]
  <1>1. channel[i] \in Seq(Event) /\ channel[i] # <<>> /\ channel \in [Loop -> Seq(Event)]
    BY DEF TakeEvent, Typed, TypeOK
  <1>2. /\ Tail(channel[i]) \in Seq(Event) /\ Len(Tail(channel[i])) = Len(channel[i]) - 1
        /\ \A k \in 1 .. Len(Tail(channel[i])) : Tail(channel[i])[k] = channel[i][k + 1]
    BY <1>1, HeadTailProperties
  <1>3. Len(channel[i]) \in Nat \ {0}
    BY <1>1, EmptySeq
  <1>4. channel[i][1] \in Event /\ Head(channel[i]) = channel[i][1]
    BY <1>1, <1>3, ElementOfSeq
  <1> QED
    BY <1>1, <1>2, <1>3, <1>4 DEF TakeEvent

LEMMA Called ==
  ASSUME Typed, NEW i \in Loop, NEW h \in Handler, CallHandler(i, h)
  PROVE  LET c == <<loop[i].event, i>>
         IN  /\ loop[i].pc = "call" /\ loop[i].event \in Event
             /\ seen' \in [Handler -> Seq(Event \X Loop)]
             /\ \A g \in Handler : g # h => seen'[g] = seen[g]
             /\ Len(seen[h]) \in Nat /\ Len(seen'[h]) = Len(seen[h]) + 1
             /\ seen'[h][Len(seen[h]) + 1] = c
             /\ \A k \in 1 .. Len(seen[h]) : seen'[h][k] = seen[h][k]
  <1> DEFINE c == <<loop[i].event, i>>
  <1>1. loop[i].pc = "call" /\ loop[i].event \in Event
    BY DEF CallHandler, Typed, Places
  <1>2. c \in Event \X Loop
    BY <1>1
  <1>3. seen' = [seen EXCEPT ![h] = Append(seen[h], c)]
    BY DEF CallHandler
  <1>4. seen[h] \in Seq(Event \X Loop) /\ seen \in [Handler -> Seq(Event \X Loop)]
    BY DEF Typed, TypeOK
  <1> HIDE DEF c
  <1>5. /\ Append(seen[h], c) \in Seq(Event \X Loop)
        /\ Len(seen[h]) \in Nat /\ Len(Append(seen[h], c)) = Len(seen[h]) + 1
        /\ Append(seen[h], c)[Len(seen[h]) + 1] = c
        /\ \A k \in 1 .. Len(seen[h]) : Append(seen[h], c)[k] = seen[h][k]
    BY <1>2, <1>4
  <1>6. /\ seen' \in [Handler -> Seq(Event \X Loop)]
        /\ \A g \in Handler : g # h => seen'[g] = seen[g]
        /\ Len(seen[h]) \in Nat /\ Len(seen'[h]) = Len(seen[h]) + 1
        /\ seen'[h][Len(seen[h]) + 1] = c
        /\ \A k \in 1 .. Len(seen[h]) : seen'[h][k] = seen[h][k]
    BY <1>3, <1>4, <1>5
  <1> QED
    BY <1>1, <1>6 DEF c

LEMMA LoopStepTyped ==
  ASSUME Typed, NEW i \in Loop, LoopStep(i)
  PROVE  Typed'
  <1>1. loop[i] \in Rec /\ channel \in [Loop -> Seq(Event)] /\ loop \in [Loop -> Rec]
    BY DEF Typed, TypeOK, Rec
  <1>2. CASE TakeEvent(i)
    <2> DEFINE r == [pc |-> "lookup", event |-> channel[i][1], todo |-> {}]
    <2>1. Placed(r)
      BY <1>2, Taken DEF Placed, Rec
    <2>2. \A j \in Loop : Len(channel'[j]) <= Capacity
      <3>1. \A j \in Loop : Len(channel[j]) \in Nat /\ Len(channel[j]) <= Capacity
        BY LenProperties DEF Typed, TypeOK
      <3>2. ASSUME NEW j \in Loop PROVE Len(channel'[j]) <= Capacity
        <4>1. Len(channel'[j]) = Len(channel[j]) \/ Len(channel'[j]) = Len(channel[j]) - 1
          BY <1>2, Taken
        <4> QED
          BY <3>1, <4>1, BusAssumption
      <3> QED
        BY <3>2
    <2>3. /\ UNCHANGED <<handlers, topicCh, cancelled, started, publish, seen>>
          /\ loop[i].pc # "none"
      BY <1>2 DEF TakeEvent
    <2>4. loop' = [loop EXCEPT ![i] = r] /\ channel' \in [Loop -> Seq(Event)]
      BY <1>2, Taken
    <2> HIDE DEF r
    <2> QED
      BY <2>1, <2>2, <2>3, <2>4, LoopTyped DEF Typed, TypeOK
  <1>3. CASE Exit(i)
    <2> DEFINE r == [loop[i] EXCEPT !.pc = "exited"]
    <2>1. r \in Rec /\ r.pc = "exited" /\ r.todo = loop[i].todo
      BY <1>1 DEF Rec
    <2>2. Placed(r) /\ loop[i].pc # "none" /\ loop' = [loop EXCEPT ![i] = r]
      BY <1>1, <1>3, <2>1 DEF Exit, Placed, Typed, Places
    <2> HIDE DEF r
    <2> QED
      BY <1>3, <2>2, QuietTyped DEF Exit
  <1>4. CASE LookupHandlers(i)
    <2> DEFINE r == [loop[i] EXCEPT !.pc = "call", !.todo = handlers]
    <2>1. r \in Rec /\ r.pc = "call" /\ r.event = loop[i].event
      BY <1>1 DEF Rec, Typed, TypeOK
    <2>2. loop[i].event \in Event
      BY <1>4 DEF LookupHandlers, Typed, Places
    <2>3. Placed(r) /\ loop[i].pc # "none" /\ loop' = [loop EXCEPT ![i] = r]
      BY <1>1, <1>4, <2>1, <2>2 DEF LookupHandlers, Placed
    <2> HIDE DEF r
    <2> QED
      BY <1>4, <2>3, QuietTyped DEF LookupHandlers
  <1>5. CASE EndDispatch(i)
    <2> DEFINE r == [pc |-> "select", event |-> Idle, todo |-> {}]
    <2>1. Placed(r) /\ loop[i].pc # "none" /\ loop' = [loop EXCEPT ![i] = r]
      BY <1>5 DEF EndDispatch, Placed, Rec
    <2> HIDE DEF r
    <2> QED
      BY <1>5, <2>1, QuietTyped DEF EndDispatch
  <1>6. ASSUME NEW h \in Handler, CallHandler(i, h) PROVE Typed'
    <2> DEFINE r == [loop[i] EXCEPT !.todo = @ \ {h}]
    <2>1. r \in Rec /\ r.pc = loop[i].pc /\ r.event = loop[i].event
      BY <1>1 DEF Rec
    <2>2. loop[i].pc = "call" /\ loop[i].event \in Event
      BY <1>6, Called
    <2>3. Placed(r) /\ loop' = [loop EXCEPT ![i] = r]
      BY <1>1, <1>6, <2>1, <2>2 DEF CallHandler, Placed
    <2> HIDE DEF r
    <2>4. UNCHANGED <<handlers, topicCh, cancelled, started, channel, publish>>
      BY <1>6 DEF CallHandler
    <2>5. seen' \in [Handler -> Seq(Event \X Loop)]
      BY <1>6, Called
    <2> QED
      BY <2>2, <2>3, <2>4, <2>5, LoopTyped DEF Typed, TypeOK
  <1> QED
    BY <1>2, <1>3, <1>4, <1>5, <1>6 DEF LoopStep

LEMMA TypedStep == Typed /\ [Next]_vars => Typed'
  <1>1. CASE UNCHANGED vars
    BY <1>1 DEF vars, Typed, TypeOK, Places, NotBorn
  <1> QED
    BY <1>1, SubscribeTyped, UnsubscribeTyped, LookupChannelTyped, SendTyped, LoopStepTyped DEF Next

\* The types of all variables: in particular there is a channel exactly while there are
\* handlers (Subscribe, Unsubscribe), and no channel holds more than it can.
THEOREM TypeCorrect == Spec => []TypeOK
  <1>1. Typed => TypeOK
    BY DEF Typed
  <1> QED
    BY <1>1, InitTyped, TypedStep, PTL DEF Spec
-----------------------------------------------------------------------------
(* Order: what is further on its way from a publisher to a handler is older. *)

\* The number of the next event that p may send.
Bound == [p \in Publisher |->
            IF publish[p].ch = NoLoop THEN publish[p].count + 1 ELSE publish[p].count]

Older(e, f) == e[1] = f[1] => e[2] < f[2]

\* An event has left the channel of loop i, or was never in it, for good.
Ahead(e, i) ==
  /\ e[2] < Bound[e[1]]
  /\ \A k \in 1 .. Len(channel[i]) : Older(e, channel[i][k])

\* Loop i has still to call h with the event in its hands.
InHand(i) == loop[i].pc \in {"lookup", "call"}
Due(i, h) == loop[i].pc = "lookup" \/ (loop[i].pc = "call" /\ h \in loop[i].todo)

ChannelOrder ==
  \A i \in Loop :
    /\ \A k \in 1 .. Len(channel[i]) : channel[i][k][2] < Bound[channel[i][k][1]]
    /\ \A k, l \in 1 .. Len(channel[i]) : k < l => Older(channel[i][k], channel[i][l])

HandOrder == \A i \in Loop : InHand(i) => Ahead(loop[i].event, i)

SeenOrder ==
  \A h \in Handler : \A m \in 1 .. Len(seen[h]) :
    LET e == seen[h][m][1]
        i == seen[h][m][2]
    IN  Ahead(e, i) /\ (Due(i, h) => Older(e, loop[i].event))

CallOrder ==
  \A h \in Handler : \A k, l \in 1 .. Len(seen[h]) :
    k < l /\ seen[h][k][2] = seen[h][l][2] => Older(seen[h][k][1], seen[h][l][1])

Order == ChannelOrder /\ HandOrder /\ SeenOrder /\ CallOrder

LEMMA BoundType == ASSUME Typed, NEW p \in Publisher PROVE Bound[p] \in Nat
  BY DEF Bound, Typed, TypeOK

LEMMA BoundTypeNext == ASSUME Typed', NEW p \in Publisher PROVE Bound'[p] \in Nat
  BY DEF Bound, Typed, TypeOK

\* The pairs that a handler has seen.
LEMMA SeenType ==
  ASSUME Typed, NEW h \in Handler, NEW m \in 1 .. Len(seen[h])
  PROVE  seen[h][m][1] \in Event /\ seen[h][m][2] \in Loop
  <1>1. seen[h] \in Seq(Event \X Loop)
    BY DEF Typed, TypeOK
  <1>2. seen[h][m] \in Event \X Loop
    BY <1>1, ElementOfSeq
  <1> QED
    BY <1>2

LEMMA ChannelType ==
  ASSUME Typed, NEW i \in Loop
  PROVE  Len(channel[i]) \in Nat /\ \A k \in 1 .. Len(channel[i]) : channel[i][k] \in Event
  <1>1. channel[i] \in Seq(Event)
    BY DEF Typed, TypeOK
  <1> QED
    BY <1>1, LenProperties, ElementOfSeq

\* A step that moves no event.
LEMMA QuietOrder ==
  ASSUME Typed, Typed', Order, UNCHANGED <<channel, seen>>,
         \A p \in Publisher : Bound'[p] >= Bound[p],
         \A i \in Loop : InHand(i)' => InHand(i) /\ loop'[i].event = loop[i].event,
         \A i \in Loop, h \in Handler : Due(i, h)' => Due(i, h)
  PROVE  Order'
  <1>1. \A e \in Event : e[2] < Bound[e[1]] => e[2] < Bound'[e[1]]
    <2> SUFFICES ASSUME NEW e \in Event, e[2] < Bound[e[1]]
                 PROVE  e[2] < Bound'[e[1]]
      OBVIOUS
    <2>1. e[1] \in Publisher /\ e[2] \in Nat
      BY EventType
    <2>2. Bound[e[1]] \in Nat /\ Bound'[e[1]] \in Nat
      BY <2>1, BoundType, BoundTypeNext
    <2>3. Bound'[e[1]] >= Bound[e[1]]
      BY <2>1
    <2> QED
      BY <2>1, <2>2, <2>3
  <1>2. \A e \in Event : \A i \in Loop : Ahead(e, i) => Ahead(e, i)'
    BY <1>1 DEF Ahead, Older
  <1>3. ChannelOrder'
    BY <1>1, ChannelType DEF Order, ChannelOrder, Older
  <1>4. HandOrder'
    <2>1. \A i \in Loop : InHand(i) => loop[i].event \in Event
      BY DEF InHand, Typed, Places
    <2> QED
      BY <1>2, <2>1 DEF Order, HandOrder
  <1>5. SeenOrder'
    <2>1. \A i \in Loop, h \in Handler : Due(i, h)' => InHand(i)'
      BY DEF Due, InHand
    <2> SUFFICES ASSUME NEW h \in Handler, NEW m \in 1 .. Len(seen[h])
                 PROVE  /\ Ahead(seen[h][m][1], seen[h][m][2])'
                        /\ Due(seen[h][m][2], h)' =>
                             Older(seen[h][m][1], loop'[seen[h][m][2]].event)
      BY DEF SeenOrder, Older
    <2>2. seen[h][m][1] \in Event /\ seen[h][m][2] \in Loop
      BY SeenType
    <2>3. /\ Ahead(seen[h][m][1], seen[h][m][2])
          /\ Due(seen[h][m][2], h) => Older(seen[h][m][1], loop[seen[h][m][2]].event)
      BY DEF Order, SeenOrder
    <2> QED
      BY <1>2, <2>1, <2>2, <2>3
  <1>6. CallOrder'
    BY DEF Order, CallOrder, Older
  <1> QED
    BY <1>3, <1>4, <1>5, <1>6 DEF Order

\* What is ahead of a loop's channel stays ahead when an event is sent.
LEMMA SendOrder ==
  ASSUME Typed, Typed', Order, NEW p \in Publisher, Send(p)
  PROVE  Order'
  <1>0. PICK i \in Loop, n \in Nat, f \in Event :
          i = publish[p].ch /\ n = publish[p].count /\ f = <<p, n>>
    BY Held DEF Send, Typed, TypeOK
  <1>1. /\ i \in Loop /\ f \in Event
        /\ \A j \in Loop : j # i => channel'[j] = channel[j]
        /\ \/ channel'[i] = channel[i]
           \/ /\ Len(channel'[i]) = Len(channel[i]) + 1
              /\ channel'[i][Len(channel[i]) + 1] = f
              /\ \A k \in 1 .. Len(channel[i]) : channel'[i][k] = channel[i][k]
    BY <1>0, SendChannel
  <1>2. UNCHANGED <<loop, seen>>
    BY DEF Send
  <1>3. /\ n \in Nat /\ Bound[p] = n /\ Bound'[p] = n + 1
        /\ \A q \in Publisher : q # p => Bound'[q] = Bound[q]
    BY <1>0 DEF Send, Bound, Typed, TypeOK
  <1>4. f[1] = p /\ f[2] = n
    BY <1>0
  <1>5. \A e \in Event : e[2] < Bound[e[1]] => e[2] < Bound'[e[1]] /\ Older(e, f)
    <2> SUFFICES ASSUME NEW e \in Event, e[2] < Bound[e[1]]
                 PROVE  e[2] < Bound'[e[1]] /\ Older(e, f)
      OBVIOUS
    <2>1. e[1] \in Publisher /\ e[2] \in Nat
      BY EventType
    <2>2. CASE e[1] = p
      <3>1. e[2] < n
        BY <1>3, <2>2
      <3>2. e[2] < n + 1
        BY <1>3, <2>1, <3>1
      <3> QED
        BY <1>3, <1>4, <2>2, <3>1, <3>2 DEF Older
    <2>3. CASE e[1] # p
      BY <1>3, <1>4, <2>1, <2>3 DEF Older
    <2> QED
      BY <2>2, <2>3
  <1>6. f[2] < Bound'[f[1]]
    BY <1>3, <1>4
  <1>7. \A j \in Loop : Len(channel[j]) \in Nat /\ \A k \in 1 .. Len(channel[j]) : channel[j][k] \in Event
    BY ChannelType
  <1>8. \A j \in Loop : \A k \in 1 .. Len(channel'[j]) :
          \/ k \in 1 .. Len(channel[j]) /\ channel'[j][k] = channel[j][k]
          \/ channel'[j][k] = f /\ k = Len(channel[j]) + 1
    BY <1>1, <1>7
  <1>9. ASSUME NEW e \in Event, NEW j \in Loop, Ahead(e, j) PROVE Ahead(e, j)'
    <2>1. e[2] < Bound'[e[1]] /\ Older(e, f)
      BY <1>5, <1>9 DEF Ahead
    <2>2. \A k \in 1 .. Len(channel'[j]) : Older(e, channel'[j][k])
      BY <1>8, <1>9, <2>1 DEF Ahead
    <2> QED
      BY <2>1, <2>2 DEF Ahead, Older
  <1>10. ChannelOrder'
    <2> SUFFICES ASSUME NEW j \in Loop
                 PROVE  /\ \A k \in 1 .. Len(channel'[j]) : channel'[j][k][2] < Bound'[channel'[j][k][1]]
                        /\ \A k, l \in 1 .. Len(channel'[j]) :
                             k < l => Older(channel'[j][k], channel'[j][l])
      BY DEF ChannelOrder, Older
    <2>1. \A k \in 1 .. Len(channel[j]) : channel[j][k][2] < Bound[channel[j][k][1]]
      BY DEF Order, ChannelOrder
    <2>2. \A k \in 1 .. Len(channel'[j]) : channel'[j][k][2] < Bound'[channel'[j][k][1]]
      BY <1>5, <1>6, <1>7, <1>8, <2>1
    <2>3. ASSUME NEW k \in 1 .. Len(channel'[j]), NEW l \in 1 .. Len(channel'[j]), k < l
          PROVE  Older(channel'[j][k], channel'[j][l])
      <3>1. k \in 1 .. Len(channel[j]) /\ channel'[j][k] = channel[j][k]
        BY <1>7, <1>8, <2>3
      <3>2. CASE l \in 1 .. Len(channel[j]) /\ channel'[j][l] = channel[j][l]
        BY <2>3, <3>1, <3>2 DEF Order, ChannelOrder
      <3>3. CASE channel'[j][l] = f
        BY <1>5, <1>7, <2>1, <3>1, <3>3
      <3> QED
        BY <1>8, <3>2, <3>3
    <2> QED
      BY <2>2, <2>3
  <1>11. HandOrder'
    <2>1. \A j \in Loop : InHand(j) => loop[j].event \in Event
      BY DEF InHand, Typed, Places
    <2>2. ASSUME NEW j \in Loop, InHand(j)' PROVE Ahead(loop[j].event, j)'
      <3>1. InHand(j) /\ loop[j].event \in Event
        BY <1>2, <2>1, <2>2 DEF InHand
      <3>2. PICK e \in Event : e = loop[j].event
        BY <3>1
      <3>3. Ahead(e, j)'
        BY <1>9, <3>1, <3>2 DEF Order, HandOrder
      <3> QED
        BY <1>2, <3>2, <3>3 DEF Ahead
    <2> QED
      BY <1>2, <2>2 DEF HandOrder
  <1>12. SeenOrder'
    <2> SUFFICES ASSUME NEW h \in Handler, NEW m \in 1 .. Len(seen[h])
                 PROVE  /\ Ahead(seen[h][m][1], seen[h][m][2])'
                        /\ Due(seen[h][m][2], h) =>
                             Older(seen[h][m][1], loop[seen[h][m][2]].event)
      BY <1>2 DEF SeenOrder, Older, Due
    <2>1. PICK e \in Event, j \in Loop : e = seen[h][m][1] /\ j = seen[h][m][2]
      BY SeenType
    <2>2. Ahead(e, j) /\ (Due(j, h) => Older(e, loop[j].event))
      BY <2>1 DEF Order, SeenOrder
    <2>3. Ahead(e, j)'
      BY <1>9, <2>2
    <2> QED
      BY <1>2, <2>1, <2>2, <2>3 DEF Ahead
  <1>13. CallOrder'
    BY <1>2 DEF Order, CallOrder, Older
  <1> QED
    BY <1>10, <1>11, <1>12, <1>13 DEF Order

\* The event a loop takes is ahead of what stays in its channel, and no
\* handler has seen it or a younger one from this loop.
LEMMA TakeOrder ==
  ASSUME Typed, Typed', Order, NEW i \in Loop, TakeEvent(i)
  PROVE  Order'
  <1>0. PICK f \in Event : f = channel[i][1]
    BY Taken
  <1>1. /\ Len(channel[i]) \in Nat \ {0} /\ f \in Event
        /\ \A j \in Loop : j # i => channel'[j] = channel[j]
        /\ Len(channel'[i]) = Len(channel[i]) - 1
        /\ \A k \in 1 .. Len(channel'[i]) : channel'[i][k] = channel[i][k + 1]
    BY <1>0, Taken
  <1>2. /\ UNCHANGED <<publish, seen>>
        /\ \A j \in Loop : j # i => loop'[j] = loop[j]
        /\ loop'[i] = [pc |-> "lookup", event |-> f, todo |-> {}]
    BY <1>0, Taken DEF TakeEvent, Typed, TypeOK
  <1>3. Bound' = Bound
    BY <1>2 DEF Bound
  <1>4. \A j \in Loop : Len(channel[j]) \in Nat
    BY ChannelType
  <1>5. \A j \in Loop : \A k \in 1 .. Len(channel'[j]) : \E l \in 1 .. Len(channel[j]) :
          channel'[j][k] = channel[j][l] /\ l = IF j = i THEN k + 1 ELSE k
    <2>1. ASSUME NEW k \in 1 .. Len(channel'[i]) PROVE k + 1 \in 1 .. Len(channel[i])
      BY <1>1
    <2> QED
      BY <1>1, <2>1
  <1>6. ASSUME NEW e, NEW j \in Loop, Ahead(e, j) PROVE Ahead(e, j)'
    <2>1. e[2] < Bound'[e[1]]
      BY <1>3, <1>6 DEF Ahead
    <2>2. ASSUME NEW k \in 1 .. Len(channel'[j]) PROVE Older(e, channel'[j][k])
      <3>1. PICK l \in 1 .. Len(channel[j]) : channel'[j][k] = channel[j][l]
        BY <1>5
      <3> QED
        BY <1>6, <3>1 DEF Ahead
    <2> QED
      BY <2>1, <2>2 DEF Ahead, Older
  <1>7. Ahead(f, i)'
    <2>1. f[2] < Bound[f[1]]
      BY <1>0, <1>1 DEF Order, ChannelOrder
    <2>2. ASSUME NEW k \in 1 .. Len(channel'[i]) PROVE Older(f, channel'[i][k])
      <3>1. k + 1 \in 1 .. Len(channel[i]) /\ 1 \in 1 .. Len(channel[i]) /\ 1 < k + 1
        BY <1>1
      <3>2. Older(channel[i][1], channel[i][k + 1])
        BY <3>1 DEF Order, ChannelOrder
      <3> QED
        BY <1>0, <1>1, <3>2
    <2> QED
      BY <1>3, <2>1, <2>2 DEF Ahead, Older
  <1>8. ChannelOrder'
    <2> SUFFICES ASSUME NEW j \in Loop
                 PROVE  /\ \A k \in 1 .. Len(channel'[j]) : channel'[j][k][2] < Bound'[channel'[j][k][1]]
                        /\ \A k, l \in 1 .. Len(channel'[j]) :
                             k < l => Older(channel'[j][k], channel'[j][l])
      BY DEF ChannelOrder, Older
    <2>1. \A k \in 1 .. Len(channel'[j]) : channel'[j][k][2] < Bound'[channel'[j][k][1]]
      BY <1>3, <1>5 DEF Order, ChannelOrder
    <2>2. ASSUME NEW k \in 1 .. Len(channel'[j]), NEW l \in 1 .. Len(channel'[j]), k < l
          PROVE  Older(channel'[j][k], channel'[j][l])
      <3>1. PICK a \in 1 .. Len(channel[j]) :
              channel'[j][k] = channel[j][a] /\ a = IF j = i THEN k + 1 ELSE k
        BY <1>5
      <3>2. PICK b \in 1 .. Len(channel[j]) :
              channel'[j][l] = channel[j][b] /\ b = IF j = i THEN l + 1 ELSE l
        BY <1>5
      <3>3. a < b
        BY <2>2, <3>1, <3>2
      <3> QED
        BY <3>1, <3>2, <3>3 DEF Order, ChannelOrder
    <2> QED
      BY <2>1, <2>2
  <1>9. HandOrder'
    <2>1. ASSUME NEW j \in Loop, InHand(j)' PROVE Ahead(loop[j].event, j)'
      <3>1. CASE j = i
        <4>1. loop'[i].event = f
          BY <1>2
        <4> QED
          BY <1>7, <3>1, <4>1 DEF Ahead, Older
      <3>2. CASE j # i
        <4>1. InHand(j) /\ loop'[j].event = loop[j].event
          BY <1>2, <2>1, <3>2 DEF InHand
        <4>2. Ahead(loop[j].event, j)
          BY <4>1 DEF Order, HandOrder
        <4>3. /\ loop[j].event[2] < Bound[loop[j].event[1]]
              /\ \A k \in 1 .. Len(channel[j]) : Older(loop[j].event, channel[j][k])
          BY <4>2 DEF Ahead
        <4>4. channel'[j] = channel[j]
          BY <1>1, <3>2
        <4> QED
          BY <1>3, <4>1, <4>3, <4>4 DEF Ahead, Older
      <3> QED
        BY <3>1, <3>2
    <2> QED
      BY <2>1 DEF HandOrder
  <1>10. SeenOrder'
    <2> SUFFICES ASSUME NEW h \in Handler, NEW m \in 1 .. Len(seen[h])
                 PROVE  /\ Ahead(seen[h][m][1], seen[h][m][2])'
                        /\ Due(seen[h][m][2], h)' =>
                             Older(seen[h][m][1], loop'[seen[h][m][2]].event)
      BY <1>2 DEF SeenOrder, Older
    <2>1. PICK e \in Event, j \in Loop : e = seen[h][m][1] /\ j = seen[h][m][2]
      BY SeenType
    <2>2. Ahead(e, j) /\ (Due(j, h) => Older(e, loop[j].event))
      BY <2>1 DEF Order, SeenOrder
    <2>3. e[2] < Bound'[e[1]] /\ \A k \in 1 .. Len(channel'[j]) : Older(e, channel'[j][k])
      BY <1>3, <1>5, <2>1, <2>2 DEF Ahead
    <2>4. Ahead(e, j)'
      BY <2>1, <2>3 DEF Ahead, Older
    <2>5. Due(j, h)' => Older(e, loop'[j].event)
      <3>1. CASE j = i
        <4>1. 1 \in 1 .. Len(channel[i])
          BY <1>1
        <4>2. Older(e, f)
          BY <1>0, <2>2, <3>1, <4>1 DEF Ahead
        <4> QED
          BY <1>2, <3>1, <4>2
      <3>2. CASE j # i
        BY <1>2, <2>1, <2>2, <3>2 DEF Due
      <3> QED
        BY <3>1, <3>2
    <2> QED
      BY <1>2, <2>1, <2>4, <2>5 DEF Ahead, Due
  <1>11. CallOrder'
    BY <1>2 DEF Order, CallOrder, Older
  <1> QED
    BY <1>8, <1>9, <1>10, <1>11 DEF Order

\* A call passes the event in the hands of a loop on to a handler that has
\* only seen older ones.
LEMMA CallHandlerOrder ==
  ASSUME Typed, Typed', Order, NEW i \in Loop, NEW h \in Handler, CallHandler(i, h)
  PROVE  Order'
  <1>1. /\ loop[i].pc = "call" /\ h \in loop[i].todo
        /\ UNCHANGED <<channel, publish>>
        /\ \A j \in Loop : j # i => loop'[j] = loop[j]
        /\ loop'[i] = [loop[i] EXCEPT !.todo = @ \ {h}]
    <2>1. loop \in [Loop -> Rec]
      BY DEF Typed, TypeOK, Rec
    <2>2. loop' = [loop EXCEPT ![i].todo = @ \ {h}] /\ h \in loop[i].todo
          /\ UNCHANGED <<channel, publish>>
      BY DEF CallHandler
    <2> QED
      BY <2>1, <2>2, Called
  <1>2. PICK e \in Event : e = loop[i].event
    BY Called
  <1>3. /\ \A g \in Handler : g # h => seen'[g] = seen[g]
        /\ Len(seen[h]) \in Nat /\ Len(seen'[h]) = Len(seen[h]) + 1
        /\ seen'[h][Len(seen[h]) + 1] = <<e, i>>
        /\ \A k \in 1 .. Len(seen[h]) : seen'[h][k] = seen[h][k]
    BY <1>2, Called
  <1>4. /\ loop'[i].pc = "call" /\ loop'[i].event = e /\ loop'[i].todo = loop[i].todo \ {h}
        /\ \A j \in Loop : loop'[j].event = loop[j].event /\ InHand(j)' = InHand(j)
        /\ \A j \in Loop, g \in Handler : Due(j, g)' => Due(j, g)
        /\ ~ Due(i, h)'
    <2>1. loop[i] \in Rec
      BY DEF Typed, TypeOK, Rec
    <2>2. /\ loop'[i].pc = "call" /\ loop'[i].event = e
          /\ loop'[i].todo = loop[i].todo \ {h}
      BY <1>1, <1>2, <2>1 DEF Rec
    <2>3. ~ Due(i, h)' /\ \A g \in Handler : Due(i, g)' => Due(i, g)
      BY <1>1, <2>2 DEF Due
    <2>4. \A j \in Loop : j # i => InHand(j)' = InHand(j)
      BY <1>1 DEF InHand
    <2>5. InHand(i)' = InHand(i)
      BY <1>1, <2>2 DEF InHand
    <2>6. \A j \in Loop : loop'[j].event = loop[j].event
      BY <1>1, <1>2, <2>2
    <2>7. \A j \in Loop, g \in Handler : j # i => Due(j, g)' = Due(j, g)
      BY <1>1 DEF Due
    <2> QED
      BY <2>2, <2>3, <2>4, <2>5, <2>6, <2>7
  <1>5. Bound' = Bound /\ \A f, j : Ahead(f, j)' <=> Ahead(f, j)
    BY <1>1 DEF Bound, Ahead, Older
  <1>6. Ahead(e, i)
    BY <1>1, <1>2 DEF Order, HandOrder, InHand
  <1>7. ChannelOrder'
    BY <1>1, <1>5 DEF Order, ChannelOrder, Older
  <1>8. HandOrder'
    <2>1. ASSUME NEW j \in Loop, InHand(j)' PROVE Ahead(loop[j].event, j)'
      <3>1. Ahead(loop[j].event, j)
        BY <1>4, <2>1 DEF Order, HandOrder
      <3> QED
        BY <1>1, <1>4, <1>5, <3>1 DEF Ahead
    <2> QED
      BY <2>1 DEF HandOrder
  <1>9. SeenOrder'
    <2> SUFFICES ASSUME NEW g \in Handler, NEW m \in 1 .. Len(seen'[g])
                 PROVE  /\ Ahead(seen[g][m][1], seen[g][m][2])'
                        /\ Due(seen[g][m][2], g)' =>
                             Older(seen'[g][m][1], loop'[seen'[g][m][2]].event)
      BY DEF SeenOrder, Older
    <2>1. CASE m \in 1 .. Len(seen[g]) /\ seen'[g][m] = seen[g][m]
      <3>1. PICK f \in Event, j \in Loop : f = seen[g][m][1] /\ j = seen[g][m][2]
        BY <2>1, SeenType
      <3>2. Ahead(f, j) /\ (Due(j, g) => Older(f, loop[j].event))
        BY <2>1, <3>1 DEF Order, SeenOrder
      <3>3. Ahead(f, j)' /\ (Due(j, g)' => Older(f, loop'[j].event))
        BY <1>4, <1>5, <3>2
      <3> QED
        BY <2>1, <3>1, <3>3 DEF Ahead, Due
    <2>2. CASE g = h /\ seen'[g][m] = <<e, i>>
      <3>1. seen'[g][m][1] = e /\ seen'[g][m][2] = i
        BY <2>2
      <3>2. Ahead(e, i)'
        BY <1>5, <1>6
      <3>3. Ahead(seen[g][m][1], seen[g][m][2])'
        BY <3>1, <3>2 DEF Ahead, Older
      <3>4. ~ Due(seen[g][m][2], g)'
        BY <1>4, <2>2, <3>1 DEF Due
      <3> QED
        BY <3>3, <3>4
    <2>3. \/ m \in 1 .. Len(seen[g]) /\ seen'[g][m] = seen[g][m]
          \/ g = h /\ seen'[g][m] = <<e, i>>
      BY <1>3
    <2> QED
      BY <2>1, <2>2, <2>3
  <1>10. CallOrder'
    <2> SUFFICES ASSUME NEW g \in Handler, NEW k \in 1 .. Len(seen'[g]),
                        NEW l \in 1 .. Len(seen'[g]), k < l, seen'[g][k][2] = seen'[g][l][2]
                 PROVE  Older(seen'[g][k][1], seen'[g][l][1])
      BY DEF CallOrder, Older
    <2>1. CASE g # h \/ l \in 1 .. Len(seen[h])
      <3>1. /\ k \in 1 .. Len(seen[g]) /\ l \in 1 .. Len(seen[g])
            /\ seen'[g][k] = seen[g][k] /\ seen'[g][l] = seen[g][l]
        BY <1>3, <2>1
      <3> QED
        BY <3>1 DEF Order, CallOrder
    <2>2. CASE g = h /\ l \notin 1 .. Len(seen[h])
      <3>1. k \in 1 .. Len(seen[h]) /\ seen'[h][k] = seen[h][k] /\ seen'[h][l] = <<e, i>>
        BY <1>3, <2>2
      <3>2. seen[h][k][2] = i /\ Due(i, h)
        BY <1>1, <2>2, <3>1 DEF Due
      <3>3. Older(seen[h][k][1], loop[i].event)
        BY <3>1, <3>2 DEF Order, SeenOrder
      <3> QED
        BY <1>2, <2>2, <3>1, <3>3
    <2> QED
      BY <2>1, <2>2
  <1> QED
    BY <1>7, <1>8, <1>9, <1>10 DEF Order

LEMMA QuietSteps ==
  ASSUME Typed, Typed', Order,
         \/ UNCHANGED vars
         \/ \E h \in Handler : Subscribe(h) \/ Unsubscribe(h)
         \/ \E p \in Publisher : LookupChannel(p)
         \/ \E i \in Loop : Exit(i) \/ LookupHandlers(i) \/ EndDispatch(i)
  PROVE  Order'
  <1> DEFINE SameBound == \A p \in Publisher : Bound'[p] >= Bound[p]
             LessInHand ==
               /\ \A i \in Loop : InHand(i)' => InHand(i) /\ loop'[i].event = loop[i].event
               /\ \A i \in Loop, h \in Handler : Due(i, h)' => Due(i, h)
             Still == UNCHANGED <<channel, seen>>
  <1>1. \A p \in Publisher : publish[p].count \in Nat
    BY DEF Typed, TypeOK
  <1>2. (publish' = publish) => SameBound
    BY <1>1 DEF Bound
  <1>3. (loop' = loop) => LessInHand
    BY DEF InHand, Due
  <1>4. CASE UNCHANGED vars
    <2>1. SameBound /\ LessInHand /\ Still
      BY <1>2, <1>3, <1>4 DEF vars
    <2> QED
      BY <2>1, QuietOrder
  <1>5. ASSUME NEW h \in Handler, Subscribe(h) PROVE Order'
    <2>1. LessInHand
      <3>1. CASE loop' = loop
        BY <1>3, <3>1
      <3>2. CASE started < MaxLoops /\ loop' = [loop EXCEPT ![started + 1].pc = "select"]
        BY <3>2 DEF InHand, Due, Typed, TypeOK
      <3> QED
        BY <1>5, <3>1, <3>2 DEF Subscribe
    <2>2. SameBound /\ Still
      BY <1>2, <1>5 DEF Subscribe
    <2> QED
      BY <2>1, <2>2, QuietOrder
  <1>6. ASSUME NEW h \in Handler, Unsubscribe(h) PROVE Order'
    <2>1. SameBound /\ LessInHand /\ Still
      BY <1>2, <1>3, <1>6 DEF Unsubscribe
    <2> QED
      BY <2>1, QuietOrder
  <1>7. ASSUME NEW p \in Publisher, LookupChannel(p) PROVE Order'
    <2>1. SameBound
      BY <1>1, <1>7 DEF LookupChannel, Bound, Typed, TypeOK
    <2>2. LessInHand /\ Still
      BY <1>3, <1>7 DEF LookupChannel
    <2> QED
      BY <2>1, <2>2, QuietOrder
  <1>8. ASSUME NEW i \in Loop, Exit(i) \/ LookupHandlers(i) \/ EndDispatch(i) PROVE Order'
    <2>1. LessInHand
      <3>0. loop \in [Loop -> Rec] /\ loop[i] \in Rec
        BY DEF Typed, TypeOK, Rec
      <3>1. \A j \in Loop : j # i => loop'[j] = loop[j]
        BY <1>8, <3>0 DEF Exit, LookupHandlers, EndDispatch
      <3>2. CASE Exit(i)
        <4>1. loop'[i].pc = "exited"
          BY <3>0, <3>2 DEF Exit, Rec
        <4> QED
          BY <3>1, <4>1 DEF InHand, Due
      <3>3. CASE LookupHandlers(i)
        <4>1. loop[i].pc = "lookup" /\ loop'[i].event = loop[i].event
          BY <3>0, <3>3 DEF LookupHandlers, Rec
        <4> QED
          BY <3>1, <4>1 DEF InHand, Due
      <3>4. CASE EndDispatch(i)
        <4>1. loop'[i].pc = "select"
          BY <3>0, <3>4 DEF EndDispatch, Rec
        <4> QED
          BY <3>1, <4>1 DEF InHand, Due
      <3> QED
        BY <1>8, <3>2, <3>3, <3>4
    <2>2. SameBound /\ Still
      BY <1>2, <1>8 DEF Exit, LookupHandlers, EndDispatch
    <2> QED
      BY <2>1, <2>2, QuietOrder
  <1> QED
    BY <1>4, <1>5, <1>6, <1>7, <1>8

LEMMA OrderStep == Typed /\ Typed' /\ Order /\ [Next]_vars => Order'
  BY QuietSteps, SendOrder, TakeOrder, CallHandlerOrder DEF Next, LoopStep

LEMMA InitOrder == Init => Order
  <1> SUFFICES ASSUME Init PROVE Order
    OBVIOUS
  <1>1. (\A i \in Loop : Len(channel[i]) = 0) /\ (\A h \in Handler : Len(seen[h]) = 0)
    BY EmptySeq DEF Init
  <1>2. \A i \in Loop : ~ InHand(i)
    BY DEF Init, InHand
  <1> QED
    BY <1>1, <1>2 DEF Order, ChannelOrder, HandOrder, SeenOrder, CallOrder

\* What one loop delivers to a handler are the events of a publisher in the order of their
\* publication and none twice (Publish sends after it released the lock, dispatch copies the
\* handlers after the event was taken).
THEOREM CallsInOrder == Spec => []LoopInOrder
  <1>1. ASSUME Typed, Order PROVE LoopInOrder
    <2>1. \A h \in Handler : DOMAIN seen[h] = 1 .. Len(seen[h])
      BY DEF Typed, TypeOK
    <2> QED
      BY <1>1, <2>1 DEF Order, CallOrder, Older, LoopInOrder, InOrder
  <1> QED
    BY <1>1, InitTyped, TypedStep, InitOrder, OrderStep, PTL DEF Spec
-----------------------------------------------------------------------------
(* Delivery: an event gets into one channel at most, so one loop only ever has it. *)

InChannel(e, i) == \E k \in 1 .. Len(channel[i]) : channel[i][k] = e
Calling(e, i)   == InHand(i) /\ loop[i].event = e
SeenFrom(e, i)  == \E h \in Handler : \E m \in 1 .. Len(seen[h]) : seen[h][m] = <<e, i>>

Reaches(e, i) == InChannel(e, i) \/ Calling(e, i) \/ SeenFrom(e, i)

OneLoop == \A e \in Event : \A i, j \in Loop : Reaches(e, i) /\ Reaches(e, j) => i = j

LEMMA ReachesOld ==
  ASSUME Typed, Order, NEW e \in Event, NEW i \in Loop, Reaches(e, i)
  PROVE  e[2] < Bound[e[1]]
  <1>1. CASE InChannel(e, i)
    BY <1>1 DEF InChannel, Order, ChannelOrder
  <1>2. CASE Calling(e, i)
    BY <1>2 DEF Calling, Order, HandOrder, Ahead
  <1>3. CASE SeenFrom(e, i)
    <2>1. PICK h \in Handler : \E m \in 1 .. Len(seen[h]) : seen[h][m] = <<e, i>>
      BY <1>3 DEF SeenFrom
    <2>2. PICK m \in 1 .. Len(seen[h]) : seen[h][m] = <<e, i>>
      BY <2>1
    <2>3. seen[h][m][1] = e
      BY <2>2
    <2> QED
      BY <2>3 DEF Order, SeenOrder, Ahead
  <1> QED
    BY <1>1, <1>2, <1>3 DEF Reaches

\* A loop comes to have an event when it is sent to its channel, and not otherwise.
LEMMA ReachesStep ==
  ASSUME Typed, [Next]_vars, NEW e \in Event, NEW i \in Loop, Reaches(e, i)'
  PROVE  \/ Reaches(e, i)
         \/ \E p \in Publisher : Send(p) /\ publish[p].ch = i /\ e = <<p, publish[p].count>>
  <1> DEFINE Sent == \E p \in Publisher :
               Send(p) /\ publish[p].ch = i /\ e = <<p, publish[p].count>>
  <1>0. loop \in [Loop -> Rec] /\ Len(channel[i]) \in Nat
    BY ChannelType DEF Typed, TypeOK, Rec
  <1>1. channel' = channel /\ seen' = seen => Reaches(e, i) \/ Calling(e, i)'
    BY DEF Reaches, InChannel, SeenFrom
  <1>2. ASSUME NEW p \in Publisher, Send(p)
        PROVE  Reaches(e, i) \/ Sent
    <2>1. UNCHANGED <<loop, seen>>
      BY <1>2 DEF Send
    <2>2. CASE InChannel(e, i)'
      <3>1. PICK k \in 1 .. Len(channel'[i]) : channel'[i][k] = e
        BY <2>2 DEF InChannel
      <3>2. CASE i # publish[p].ch \/ channel'[i] = channel[i]
        BY <1>2, <3>1, <3>2, SendChannel DEF Reaches, InChannel
      <3>3. CASE /\ i = publish[p].ch /\ Len(channel'[i]) = Len(channel[i]) + 1
                 /\ channel'[i][Len(channel[i]) + 1] = <<p, publish[p].count>>
                 /\ \A j \in 1 .. Len(channel[i]) : channel'[i][j] = channel[i][j]
        <4>1. k \in 1 .. Len(channel[i]) \/ k = Len(channel[i]) + 1
          BY <1>0, <3>1, <3>3
        <4>2. CASE k \in 1 .. Len(channel[i])
          BY <3>1, <3>3, <4>2 DEF Reaches, InChannel
        <4>3. CASE k = Len(channel[i]) + 1
          BY <1>2, <3>1, <3>3, <4>3
        <4> QED
          BY <4>1, <4>2, <4>3
      <3> QED
        BY <1>2, <3>2, <3>3, SendChannel
    <2>3. CASE Calling(e, i)' \/ SeenFrom(e, i)'
      BY <2>1, <2>3 DEF Reaches, Calling, SeenFrom, InHand
    <2> QED
      BY <2>2, <2>3 DEF Reaches
  <1>3. ASSUME NEW j \in Loop, TakeEvent(j)
        PROVE  Reaches(e, i)
    <2>1. /\ UNCHANGED seen /\ \A k \in Loop : k # j => loop'[k] = loop[k]
          /\ loop'[j].event = channel[j][1]
      BY <1>3, <1>0, Taken DEF TakeEvent
    <2>2. CASE InChannel(e, i)'
      <3>1. PICK k \in 1 .. Len(channel'[i]) : channel'[i][k] = e
        BY <2>2 DEF InChannel
      <3>2. CASE i # j
        BY <1>3, <3>1, <3>2, Taken DEF Reaches, InChannel
      <3>3. CASE i = j
        <4>1. Len(channel'[i]) = Len(channel[i]) - 1 /\ channel'[i][k] = channel[i][k + 1]
          BY <1>3, <3>1, <3>3, Taken
        <4>2. k + 1 \in 1 .. Len(channel[i])
          BY <1>0, <3>1, <4>1
        <4> QED
          BY <3>1, <4>1, <4>2 DEF Reaches, InChannel
      <3> QED
        BY <3>2, <3>3
    <2>3. CASE Calling(e, i)'
      <3>1. CASE i = j
        <4>1. channel[i][1] = e /\ 1 \in 1 .. Len(channel[i])
          BY <1>3, <2>1, <2>3, <3>1, Taken DEF Calling
        <4> QED
          BY <4>1 DEF Reaches, InChannel
      <3>2. CASE i # j
        BY <2>1, <2>3, <3>2 DEF Reaches, Calling, InHand
      <3> QED
        BY <3>1, <3>2
    <2>4. CASE SeenFrom(e, i)'
      BY <2>1, <2>4 DEF Reaches, SeenFrom
    <2> QED
      BY <2>2, <2>3, <2>4 DEF Reaches
  <1>4. ASSUME NEW j \in Loop, NEW h \in Handler, CallHandler(j, h)
        PROVE  Reaches(e, i)
    <2>1. UNCHANGED channel /\ loop'[i].event = loop[i].event /\ loop'[i].pc = loop[i].pc
      BY <1>4, <1>0 DEF CallHandler, Rec
    <2>2. CASE InChannel(e, i)' \/ Calling(e, i)'
      BY <2>1, <2>2 DEF Reaches, InChannel, Calling, InHand
    <2>3. CASE SeenFrom(e, i)'
      <3>0. PICK g \in Handler : \E m \in 1 .. Len(seen'[g]) : seen'[g][m] = <<e, i>>
        BY <2>3 DEF SeenFrom
      <3>1. PICK m \in 1 .. Len(seen'[g]) : seen'[g][m] = <<e, i>>
        BY <3>0
      <3>2. \/ m \in 1 .. Len(seen[g]) /\ seen'[g][m] = seen[g][m]
            \/ seen'[g][m] = <<loop[j].event, j>>
        BY <1>4, <3>1, Called
      <3>3. CASE m \in 1 .. Len(seen[g]) /\ seen'[g][m] = seen[g][m]
        BY <3>1, <3>3 DEF Reaches, SeenFrom
      <3>4. CASE seen'[g][m] = <<loop[j].event, j>>
        BY <1>4, <3>1, <3>4, Called DEF Reaches, Calling, InHand
      <3> QED
        BY <3>2, <3>3, <3>4
    <2> QED
      BY <2>2, <2>3 DEF Reaches
  <1>5. ASSUME NEW j \in Loop, Exit(j) \/ LookupHandlers(j) \/ EndDispatch(j)
        PROVE  Reaches(e, i)
    <2>1. UNCHANGED <<channel, seen>>
      BY <1>5 DEF Exit, LookupHandlers, EndDispatch
    <2>2. Exit(j) => (Calling(e, i)' => Calling(e, i))
      BY <1>0 DEF Exit, Calling, InHand, Rec
    <2>3. LookupHandlers(j) => (Calling(e, i)' => Calling(e, i))
      BY <1>0 DEF LookupHandlers, Calling, InHand, Rec
    <2>4. EndDispatch(j) => (Calling(e, i)' => Calling(e, i))
      BY <1>0 DEF EndDispatch, Calling, InHand
    <2> QED
      BY <1>1, <1>5, <2>1, <2>2, <2>3, <2>4 DEF Reaches
  <1>6. ASSUME NEW h \in Handler, Subscribe(h)
        PROVE  Reaches(e, i)
    <2>1. UNCHANGED <<channel, seen>>
      BY <1>6 DEF Subscribe
    <2>2. loop' = loop \/ loop' = [loop EXCEPT ![started + 1].pc = "select"]
      BY <1>6 DEF Subscribe
    <2>3. Calling(e, i)' => Calling(e, i)
      BY <1>0, <2>2 DEF Calling, InHand, Rec
    <2> QED
      BY <1>1, <2>1, <2>3 DEF Reaches
  <1>7. CASE \/ UNCHANGED vars \/ \E h \in Handler : Unsubscribe(h)
             \/ \E p \in Publisher : LookupChannel(p)
    <2>1. UNCHANGED <<channel, seen, loop>>
      BY <1>7 DEF vars, Unsubscribe, LookupChannel
    <2> QED
      BY <1>1, <2>1 DEF Reaches, Calling, InHand
  <1> QED
    BY <1>2, <1>3, <1>4, <1>5, <1>6, <1>7 DEF Next, LoopStep

\* What is sent is in no channel and in no loop yet.
LEMMA OneLoopStep ==
  ASSUME Typed, Order, OneLoop, [Next]_vars
  PROVE  OneLoop'
  <1>1. SUFFICES ASSUME NEW e \in Event, NEW i \in Loop, NEW j \in Loop,
                        Reaches(e, i)', Reaches(e, j)'
                 PROVE  i = j
    BY DEF OneLoop
  <1> DEFINE SentTo(k) ==
               \E p \in Publisher : Send(p) /\ publish[p].ch = k /\ e = <<p, publish[p].count>>
  <1>2. (Reaches(e, i) \/ SentTo(i)) /\ (Reaches(e, j) \/ SentTo(j))
    BY <1>1, ReachesStep
  <1>3. ASSUME NEW k \in Loop, SentTo(k), NEW l \in Loop PROVE ~ Reaches(e, l)
    <2>1. PICK p \in Publisher : Send(p) /\ publish[p].ch = k /\ e = <<p, publish[p].count>>
      BY <1>3
    <2>2. Bound[e[1]] = e[2] /\ e[2] \in Nat
      BY <2>1, EventType DEF Bound, Send
    <2> QED
      BY <2>2, ReachesOld
  <1>4. SentTo(i) /\ SentTo(j) => i = j
    OBVIOUS
  <1> HIDE DEF SentTo
  <1> QED
    BY <1>2, <1>3, <1>4 DEF OneLoop

\* A handler sees an event once, whatever loops call it.
NotTwice ==
  \A h \in Handler : \A k, l \in 1 .. Len(seen[h]) :
    k # l => seen[h][k][1] # seen[h][l][1]

LEMMA OnceEach ==
  ASSUME Typed, Order, OneLoop
  PROVE  NotTwice
  <1> SUFFICES ASSUME NEW h \in Handler
               PROVE  \A k, l \in 1 .. Len(seen[h]) : k < l => seen[h][k][1] # seen[h][l][1]
    <2>1. \A h \in Handler : Len(seen[h]) \in Nat
      BY LenProperties DEF Typed, TypeOK
    <2> QED
      BY <2>1 DEF NotTwice
  <1> SUFFICES ASSUME NEW k \in 1 .. Len(seen[h]), NEW l \in 1 .. Len(seen[h]), k < l,
                      seen[h][k][1] = seen[h][l][1]
               PROVE  FALSE
    OBVIOUS
  <1>1. seen[h] \in Seq(Event \X Loop)
    BY DEF Typed, TypeOK
  <1>2. seen[h][k] \in Event \X Loop /\ seen[h][l] \in Event \X Loop
    BY <1>1, ElementOfSeq
  <1>3. PICK e \in Event, i \in Loop : seen[h][k] = <<e, i>>
    BY <1>2
  <1>4. PICK j \in Loop : seen[h][l] = <<e, j>>
    BY <1>2, <1>3
  <1>5. i = j
    BY <1>3, <1>4 DEF OneLoop, Reaches, SeenFrom
  <1>6. Older(e, e)
    BY <1>3, <1>4, <1>5 DEF Order, CallOrder
  <1> QED
    BY <1>6, EventType DEF Older

DeliveryInv == Typed /\ Order /\ OneLoop /\ NotTwice

LEMMA DeliveryInvariant == Spec => []DeliveryInv
  <1>1. Init => OneLoop
    <2> SUFFICES ASSUME Init PROVE OneLoop
      OBVIOUS
    <2>1. (\A i \in Loop : Len(channel[i]) = 0) /\ (\A h \in Handler : Len(seen[h]) = 0)
      BY EmptySeq DEF Init
    <2>2. \A i \in Loop : ~ InHand(i)
      BY DEF Init, InHand
    <2> QED
      BY <2>1, <2>2 DEF OneLoop, Reaches, InChannel, Calling, SeenFrom
  <1>2. Typed /\ Order /\ OneLoop /\ [Next]_vars => OneLoop'
    BY OneLoopStep
  <1>3. Typed /\ Order /\ OneLoop => NotTwice
    BY OnceEach
  <1> QED
    BY <1>1, <1>2, <1>3, InitTyped, TypedStep, InitOrder, OrderStep, PTL DEF Spec, DeliveryInv

\* What a call does to what the handlers have received.
LEMMA ReceivedStep ==
  ASSUME DeliveryInv, DeliveryInv', NEW i \in Loop, NEW h \in Handler, CallHandler(i, h)
  PROVE  Deliveries!Deliver(h, loop[i].event) /\ loop[i].event \in Event
  <1>1. PICK e \in Event : e = loop[i].event
    BY Called DEF DeliveryInv
  <1>2. /\ \A g \in Handler : g # h => seen'[g] = seen[g]
        /\ Len(seen[h]) \in Nat /\ Len(seen'[h]) = Len(seen[h]) + 1
        /\ seen'[h][Len(seen[h]) + 1] = <<e, i>>
        /\ \A k \in 1 .. Len(seen[h]) : seen'[h][k] = seen[h][k]
        /\ loop[i].pc = "call"
    BY <1>1, Called DEF DeliveryInv
  <1>3. /\ \A g \in Handler : DOMAIN seen[g] = 1 .. Len(seen[g])
        /\ \A g \in Handler : DOMAIN seen'[g] = 1 .. Len(seen'[g])
    BY DEF DeliveryInv, Typed, TypeOK
  <1>4. e \in Published /\ Published' = Published
    <2>1. Calling(e, i)
      BY <1>1, <1>2 DEF Calling, InHand
    <2>2. e[2] < Bound[e[1]] /\ e[1] \in Publisher /\ e[2] \in Nat
      BY <2>1, ReachesOld, EventType DEF Reaches, DeliveryInv
    <2>3. publish[e[1]].count \in Nat
      BY <2>2 DEF DeliveryInv, Typed, TypeOK
    <2>4. e[2] <= publish[e[1]].count
      BY <2>2, <2>3 DEF Bound
    <2>5. publish' = publish
      BY DEF CallHandler
    <2> QED
      BY <2>4, <2>5 DEF Published
  <1>5. \A k \in DOMAIN Received[h] : Received[h][k] # e
    <2>1. NotTwice'
      BY DEF DeliveryInv
    <2>2. ASSUME NEW k \in 1 .. Len(seen[h]) PROVE seen[h][k][1] # e
      <3>1. k # Len(seen[h]) + 1 /\ k \in 1 .. Len(seen'[h])
            /\ Len(seen[h]) + 1 \in 1 .. Len(seen'[h])
        BY <1>2
      <3> QED
        BY <1>2, <2>1, <3>1 DEF NotTwice
    <2> QED
      BY <1>3, <2>2 DEF Received
  <1>6. Received' = [Received EXCEPT ![h] = Append(@, e)]
    <2>1. Received'[h] = Append(Received[h], e)
      <3>1. Received[h] = [k \in 1 .. Len(seen[h]) |-> seen[h][k][1]]
        BY <1>3 DEF Received
      <3>2. Received'[h] = [k \in 1 .. Len(seen[h]) + 1 |-> seen'[h][k][1]]
        BY <1>2, <1>3 DEF Received
      <3>3. Append(Received[h], e) =
              [k \in 1 .. Len(seen[h]) + 1 |->
                 IF k = Len(seen[h]) + 1 THEN e ELSE Received[h][k]]
        <4>1. Len(Received[h]) = Len(seen[h])
          BY <1>2, <3>1
        <4> QED
          BY <4>1 DEF Append
      <3> QED
        BY <1>2, <3>1, <3>2, <3>3
    <2>2. \A g \in Handler : g # h => Received'[g] = Received[g]
      BY <1>2 DEF Received
    <2> QED
      BY <2>1, <2>2 DEF Received
  <1> QED
    BY <1>1, <1>4, <1>5, <1>6 DEF Deliveries!Deliver

\* EventBus implements EventDelivery: nothing that was not published is delivered, and
\* nothing twice to one handler, whichever of its loops call it.
THEOREM BusDelivers == Spec => DeliversAtMostOnce
  <1>1. Init => Deliveries!Init
    <2> SUFFICES ASSUME Init PROVE Deliveries!Init
      OBVIOUS
    <2>1. Published = {}
      BY EventType DEF Published, Init, Event
    <2>2. Received = [h \in Handler |-> <<>>]
      BY DEF Received, Init
    <2> QED
      BY <2>1, <2>2 DEF Deliveries!Init
  <1>2. DeliveryInv /\ DeliveryInv' /\ [Next]_vars => [Deliveries!Next]_Deliveries!deliveries
    <2> SUFFICES ASSUME DeliveryInv, DeliveryInv', [Next]_vars
                 PROVE  Deliveries!Next \/ UNCHANGED Deliveries!deliveries
      OBVIOUS
    <2>1. CASE UNCHANGED seen /\ \A p \in Publisher : publish'[p].count = publish[p].count
      <3>1. Received' = Received
        BY <2>1 DEF Received
      <3>2. Published' = Published
        BY <2>1, EventType DEF Published
      <3> QED
        BY <3>1, <3>2 DEF Deliveries!deliveries
    <2>2. ASSUME NEW p \in Publisher, LookupChannel(p)
          PROVE  Deliveries!Next
      <3> DEFINE n == publish[p].count + 1
      <3>0. publish[p].count \in Nat /\ n \in 1 .. MaxEvents[p] /\ <<p, n>> \in Event
        BY <2>2, EventType, BusAssumption DEF LookupChannel, DeliveryInv, Typed, TypeOK
      <3>1. publish'[p].count = n /\ \A q \in Publisher : q # p => publish'[q] = publish[q]
        BY <2>2 DEF LookupChannel, DeliveryInv, Typed, TypeOK
      <3>2. Received' = Received
        BY <2>2 DEF LookupChannel, Received
      <3>3. <<p, n>> \notin Published
        BY <3>0 DEF Published
      <3>4. ASSUME NEW e \in Event PROVE e \in Published' <=> e \in Published \/ e = <<p, n>>
        <4>1. e[1] \in Publisher /\ e[2] \in Nat /\ e = <<e[1], e[2]>>
          BY EventType DEF Event
        <4>2. CASE e[1] = p
          <5>1. e[2] <= n <=> e[2] <= publish[p].count \/ e[2] = n
            BY <3>0, <4>1
          <5>2. e = <<p, n>> <=> e[2] = n
            BY <4>1, <4>2
          <5> HIDE DEF n
          <5> QED
            BY <3>1, <4>2, <5>1, <5>2 DEF Published
        <4>3. CASE e[1] # p
          BY <3>1, <4>1, <4>3 DEF Published
        <4> QED
          BY <4>2, <4>3
      <3>5. Published' = Published \cup {<<p, n>>}
        <4> HIDE DEF n
        <4>1. Published' \subseteq Event /\ Published \subseteq Event
          BY DEF Published
        <4> QED
          BY <3>0, <3>4, <4>1
      <3> QED
        BY <3>0, <3>2, <3>3, <3>5 DEF Deliveries!Next, Deliveries!Publish
    <2>3. ASSUME NEW i \in Loop, NEW h \in Handler, CallHandler(i, h)
          PROVE  Deliveries!Next
      BY <2>3, ReceivedStep DEF Deliveries!Next
    <2>4. ASSUME \/ UNCHANGED vars \/ \E h \in Handler : Subscribe(h) \/ Unsubscribe(h)
                 \/ \E p \in Publisher : Send(p)
                 \/ \E i \in Loop : TakeEvent(i) \/ Exit(i) \/ LookupHandlers(i) \/ EndDispatch(i)
          PROVE  UNCHANGED seen /\ \A p \in Publisher : publish'[p].count = publish[p].count
      <3>1. ASSUME NEW p \in Publisher, Send(p)
            PROVE  UNCHANGED seen /\ \A q \in Publisher : publish'[q].count = publish[q].count
        BY <3>1 DEF Send, DeliveryInv, Typed, TypeOK
      <3>2. ASSUME NEW h \in Handler, Subscribe(h) \/ Unsubscribe(h)
            PROVE  UNCHANGED <<seen, publish>>
        BY <3>2 DEF Subscribe, Unsubscribe
      <3>3. ASSUME NEW i \in Loop,
                   TakeEvent(i) \/ Exit(i) \/ LookupHandlers(i) \/ EndDispatch(i)
            PROVE  UNCHANGED <<seen, publish>>
        BY <3>3 DEF TakeEvent, Exit, LookupHandlers, EndDispatch
      <3>4. UNCHANGED vars => UNCHANGED <<seen, publish>>
        BY DEF vars
      <3> QED
        BY <2>4, <3>1, <3>2, <3>3, <3>4
    <2> QED
      BY <2>1, <2>2, <2>3, <2>4 DEF Next, LoopStep
  <1> QED
    BY <1>1, <1>2, DeliveryInvariant, PTL DEF Spec, DeliversAtMostOnce, Deliveries!Spec
=============================================================================
