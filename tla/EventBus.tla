------------------------------ MODULE EventBus ------------------------------
(***************************************************************************)
(* One topic of the in-process event bus (internal/core/eventbus).         *)
(*                                                                         *)
(* The first subscription of a topic makes a channel and starts a loop     *)
(* that takes events from it; the last unsubscription cancels the loop and *)
(* forgets the channel, and the next subscription starts over.  Publish    *)
(* looks the channel up under the lock and sends after it has released it, *)
(* and the loop takes an event before it looks the handlers up, so each of *)
(* them can act on a channel or a set of handlers that is gone.            *)
(***************************************************************************)
EXTENDS Integers, Sequences

CONSTANTS
  Handler,    \* the callbacks; each is subscribed at most once at a time
  Publisher,  \* the goroutines that publish
  Capacity,   \* of a channel (1024)
  MaxEvents,  \* bound: publisher p publishes MaxEvents[p] events
  MaxLoops    \* bound: the number of loops that are ever started

ASSUME BusAssumption ==
  Capacity \in Nat \ {0} /\ MaxEvents \in [Publisher -> Nat] /\ MaxLoops \in Nat

Loop == 1 .. MaxLoops
NoLoop == 0

\* The events of a publisher are numbered as it publishes them.
Event == UNION {{p} \X (1 .. MaxEvents[p]) : p \in Publisher}

VARIABLES
  handlers,   \* handlers[topic]
  topicCh,    \* the loop whose channel is topicChs[topic]
  cancelled,  \* the loops whose context was cancelled
  started,    \* the number of loops started so far
  channel,    \* the channel of every loop
  loop,       \* where every loop is: [pc, event, todo]
  publish,    \* what every publisher is about to send: [count, ch]
  seen        \* what every handler was called with, and by which loop

vars == <<handlers, topicCh, cancelled, started, channel, loop, publish, seen>>

\* The event of a loop that holds none.
Idle == <<>>

TypeOK ==
  /\ handlers \subseteq Handler
  /\ topicCh \in Loop \cup {NoLoop}
  /\ topicCh = NoLoop <=> handlers = {}
  /\ cancelled \subseteq Loop
  /\ started \in 0 .. MaxLoops
  /\ channel \in [Loop -> Seq(Event)]
  /\ \A i \in Loop : Len(channel[i]) <= Capacity
  /\ loop \in [Loop -> [pc : {"none", "select", "lookup", "call", "exited"},
                       event : Event \cup {Idle}, todo : SUBSET Handler]]
  /\ publish \in [Publisher -> [count : Nat, ch : Loop \cup {NoLoop}]]
  /\ \A p \in Publisher : publish[p].count <= MaxEvents[p]
  /\ seen \in [Handler -> Seq(Event \X Loop)]

Init ==
  /\ handlers = {} /\ topicCh = NoLoop /\ cancelled = {} /\ started = 0
  /\ channel = [i \in Loop |-> <<>>]
  /\ loop = [i \in Loop |-> [pc |-> "none", event |-> Idle, todo |-> {}]]
  /\ publish = [p \in Publisher |-> [count |-> 0, ch |-> NoLoop]]
  /\ seen = [h \in Handler |-> <<>>]
-----------------------------------------------------------------------------
Subscribe(h) ==
  /\ h \notin handlers
  /\ handlers' = handlers \cup {h}
  /\ \/ /\ topicCh # NoLoop
        /\ UNCHANGED <<topicCh, started, loop>>
     \/ /\ topicCh = NoLoop /\ started < MaxLoops
        /\ topicCh' = started + 1
        /\ started' = started + 1
        /\ loop' = [loop EXCEPT ![started + 1].pc = "select"]
  /\ UNCHANGED <<cancelled, channel, publish, seen>>

\* A bug Unsubscribe could have: the loop is not cancelled.
ForgetOnly(h) ==
  /\ h \in handlers
  /\ handlers' = handlers \ {h}
  /\ topicCh' = IF handlers' = {} THEN NoLoop ELSE topicCh
  /\ UNCHANGED <<cancelled, started, channel, loop, publish, seen>>

\* Another one: the channel stays although its loop is cancelled.
CancelOnly(h) ==
  /\ h \in handlers
  /\ handlers' = handlers \ {h}
  /\ cancelled' = IF handlers' = {} THEN cancelled \cup {topicCh} ELSE cancelled
  /\ UNCHANGED <<topicCh, started, channel, loop, publish, seen>>

Unsubscribe(h) ==
  /\ h \in handlers
  /\ handlers' = handlers \ {h}
  /\ \/ /\ handlers' = {}
        /\ cancelled' = cancelled \cup {topicCh}
        /\ topicCh' = NoLoop
     \/ /\ handlers' # {}
        /\ UNCHANGED <<cancelled, topicCh>>
  /\ UNCHANGED <<started, channel, loop, publish, seen>>

\* Publish looks the channel up; without one the event is dropped.
LookupChannel(p) ==
  /\ publish[p].ch = NoLoop /\ publish[p].count < MaxEvents[p]
  /\ publish' = [publish EXCEPT ![p] = [count |-> @.count + 1, ch |-> topicCh]]
  /\ UNCHANGED <<handlers, topicCh, cancelled, started, channel, loop, seen>>

\* A bug Send could have: an event for a channel that was forgotten goes to the
\* topic's new channel as well.
SendToBoth(p) ==
  /\ publish[p].ch # NoLoop
  /\ channel' = [i \in Loop |->
       IF i \in {publish[p].ch, topicCh} /\ Len(channel[i]) < Capacity
         THEN Append(channel[i], <<p, publish[p].count>>) ELSE channel[i]]
  /\ publish' = [publish EXCEPT ![p].ch = NoLoop]
  /\ UNCHANGED <<handlers, topicCh, cancelled, started, loop, seen>>

\* Publish sends without blocking; the event is dropped if the channel is
\* full, and lost if its loop has gone.
Send(p) ==
  /\ publish[p].ch # NoLoop
  /\ LET i == publish[p].ch
     IN  channel' = [channel EXCEPT ![i] =
           IF Len(@) < Capacity THEN Append(@, <<p, publish[p].count>>) ELSE @]
  /\ publish' = [publish EXCEPT ![p].ch = NoLoop]
  /\ UNCHANGED <<handlers, topicCh, cancelled, started, loop, seen>>
-----------------------------------------------------------------------------
(* The loop of a topic. *)

\* The select may take an event although the context is cancelled.
TakeEvent(i) ==
  /\ loop[i].pc = "select" /\ channel[i] # <<>>
  /\ loop' = [loop EXCEPT ![i] = [pc |-> "lookup", event |-> Head(channel[i]), todo |-> {}]]
  /\ channel' = [channel EXCEPT ![i] = Tail(@)]
  /\ UNCHANGED <<handlers, topicCh, cancelled, started, publish, seen>>

Exit(i) ==
  /\ loop[i].pc = "select" /\ i \in cancelled
  /\ loop' = [loop EXCEPT ![i].pc = "exited"]
  /\ UNCHANGED <<handlers, topicCh, cancelled, started, channel, publish, seen>>

\* dispatch copies the handlers that are subscribed now.
LookupHandlers(i) ==
  /\ loop[i].pc = "lookup"
  /\ loop' = [loop EXCEPT ![i].pc = "call", ![i].todo = handlers]
  /\ UNCHANGED <<handlers, topicCh, cancelled, started, channel, publish, seen>>

\* A bug CallHandler could have: the loop does not wait for its handlers.
CallInGoroutine(i, h) ==
  /\ h \in loop[i].todo
  /\ seen' = [seen EXCEPT ![h] = <<<<loop[i].event, i>>>> \o @]
  /\ loop' = [loop EXCEPT ![i].todo = @ \ {h}]
  /\ UNCHANGED <<handlers, topicCh, cancelled, started, channel, publish>>

\* Handlers are called one after the other, in any order.
CallHandler(i, h) ==
  /\ h \in loop[i].todo
  /\ seen' = [seen EXCEPT ![h] = Append(@, <<loop[i].event, i>>)]
  /\ loop' = [loop EXCEPT ![i].todo = @ \ {h}]
  /\ UNCHANGED <<handlers, topicCh, cancelled, started, channel, publish>>

EndDispatch(i) ==
  /\ loop[i].pc = "call" /\ loop[i].todo = {}
  /\ loop' = [loop EXCEPT ![i] = [pc |-> "select", event |-> Idle, todo |-> {}]]
  /\ UNCHANGED <<handlers, topicCh, cancelled, started, channel, publish, seen>>

LoopStep(i) ==
  \/ TakeEvent(i) \/ Exit(i) \/ LookupHandlers(i) \/ EndDispatch(i)
  \/ \E h \in Handler : CallHandler(i, h)

Next ==
  \/ \E h \in Handler : Subscribe(h) \/ Unsubscribe(h)
  \/ \E p \in Publisher : LookupChannel(p) \/ Send(p)
  \/ \E i \in Loop : LoopStep(i)

Spec == Init /\ [][Next]_vars

\* Goroutines run, and handlers return: the bus hands them a timeout but
\* waits for them.
FairSpec ==
  Spec /\ (\A i \in Loop : WF_vars(LoopStep(i))) /\ (\A p \in Publisher : WF_vars(Send(p)))
-----------------------------------------------------------------------------
\* The k-th call of handler h came before the l-th, both with events of one
\* publisher: those were published in this order.
InOrder(h, k, l) ==
  LET e == seen[h][k][1]
      f == seen[h][l][1]
  IN  e[1] = f[1] => e[2] < f[2]

\* What one loop delivers to a handler are the events of a publisher in the
\* order they were published, none of them twice, although publishers send
\* after they have released the lock.
LoopInOrder ==
  \A h \in Handler : \A k, l \in DOMAIN seen[h] :
    k < l /\ seen[h][k][2] = seen[h][l][2] => InOrder(h, k, l)

\* The events that were published so far, and what every handler received.
Published == {e \in Event : e[2] <= publish[e[1]].count}

Received == [h \in Handler |-> [k \in DOMAIN seen[h] |-> seen[h][k][1]]]

Deliveries == INSTANCE EventDelivery WITH published <- Published, received <- Received

\* No handler is ever called twice with one event, or with one that was not published,
\* although a handler that comes and goes is called by several loops, which may all be
\* running, and a publisher may send to a channel that the topic has forgotten
\* (EventDelivery).
DeliversAtMostOnce == Deliveries!Spec

\* An event in the channel of the topic is delivered to a handler that stays
\* subscribed, and a loop that is no longer the topic's exits, whatever is
\* published meanwhile: re-subscribing leaks no goroutine.
Delivered ==
  /\ \A i \in Loop, h \in Handler, e \in Event :
       topicCh = i /\ h \in handlers /\ (\E k \in DOMAIN channel[i] : channel[i][k] = e)
         ~> h \notin handlers \/ \E k \in DOMAIN seen[h] : seen[h][k][1] = e
  /\ \A i \in Loop : i <= started /\ topicCh # i ~> loop[i].pc = "exited"
=============================================================================
