----------------------------- MODULE MerkleSync -----------------------------
(***************************************************************************)
(* Synchronisation of one conversation between the nodes that take part in *)
(* it: live delivery of new messages, the level-by-level Merkle comparison *)
(* of SyncOrchestrator (internal/core/sync/sync.go), the freezing and      *)
(* pruning of day buckets (freeze.go) and the linear synchronisation that  *)
(* the application falls back to when a Merkle session fails (app.go).     *)
(*                                                                         *)
(* A message is the pair of its HLC and of the node that encrypted the     *)
(* copy: a live receiver encrypts the plaintext again with a fresh nonce,  *)
(* so its copy hashes differently from the author's, while a copy obtained *)
(* by synchronisation is byte for byte the peer's.  A hash is collision    *)
(* free here: the hash of a bucket IS the set of messages it was computed  *)
(* from.                                                                   *)
(*                                                                         *)
(* One request over the Merkle protocol, the handler that serves it and    *)
(* the processing of its response are one step; the request may also fail, *)
(* before or after the handler ran.  Building a tree is several steps, on  *)
(* either side: a look whether one is stored, a read of the messages and   *)
(* one step per row.                                                       *)
(***************************************************************************)
EXTENDS Integers, FiniteSets

CONSTANTS
  Node,          \* the peers that take part in the conversation
  MaxHlc,        \* hybrid logical clock readings are 1 .. MaxHlc, 0 is ""
  Author,        \* Author[h]: the node whose id HLC h ends with
  Calendar,      \* Calendar[l][h]: ordinal of the level-l bucket h falls in
  LastDay,       \* bound: the clock stops at this day
  FreezeWindow,  \* age in days at which frozen buckets are pruned (14)
  SyncLimit,     \* number of messages in one linear response (500)
  Unreliable,    \* whether requests can fail or lose their answer, and inserts fail
  Caller,        \* bound: the goroutines that run sessions, each one at a time
  Home,          \* Home[c]: the node that caller c runs on
  Interleaved,   \* bound: the nodes where other steps fall between those of a build
  MaxLive,       \* bound: a live message is lost when net holds this many
  MaxLinear      \* bound: a linear request is lost when net holds this many such messages

LevelYear  == 0
LevelMonth == 1
LevelDay   == 2
LevelHour  == 3
Level == LevelYear .. LevelHour

Hlc  == 1 .. MaxHlc
NoHlc == 0

ASSUME ConstantsOK ==
  /\ MaxHlc \in Nat /\ LastDay \in Nat /\ FreezeWindow \in Nat
  /\ SyncLimit \in Nat \ {0}
  /\ Calendar \in [Level -> [Hlc -> Nat]]
  /\ Author \in [Hlc -> Node]
  /\ Home \in [Caller -> Node]
  /\ Unreliable \in BOOLEAN /\ Interleaved \subseteq Node /\ MaxLive \in Nat /\ MaxLinear \in Nat

\* Bucket paths sort as time does, and a bucket lies inside one bucket of
\* every coarser level.
ASSUME CalendarOK ==
  \A l \in Level, g, h \in Hlc :
    /\ g <= h => Calendar[l][g] <= Calendar[l][h]
    /\ \A k \in 0 .. l :
         Calendar[l][g] = Calendar[l][h] => Calendar[k][g] = Calendar[k][h]

BucketPath(l, h) == <<l, Calendar[l][h]>>

Bucket == {BucketPath(l, h) : l \in Level, h \in Hlc}

Message == [hlc : Hlc, cipher : Node]

\* The messages of S that fall in bucket b.
InBucket(S, b) == {m \in S : BucketPath(b[1], m.hlc) = b}

\* Bucket c is b or lies below it: its path has b's path as a prefix.
Within(c, b) ==
  /\ b[1] <= c[1]
  /\ \E h \in Hlc : BucketPath(c[1], h) = c /\ BucketPath(b[1], h) = b

Hlcs(S) == {m.hlc : m \in S}

\* h is the HLC of the last message of a batch, which queries return in HLC
\* order.
IsLast(h, batch) == h \in Hlcs(batch) /\ \A g \in Hlcs(batch) : g <= h

\* Two bugs InsertMessages could have: no unique HLC, and DO UPDATE instead
\* of DO NOTHING.
InsertDuplicates(S, batch) == S \cup batch
InsertReplaces(S, batch) == {m \in S : m.hlc \notin Hlcs(batch)} \cup batch

\* ON CONFLICT(hlc) DO NOTHING: a message whose HLC is known is ignored.
InsertMessages(S, batch) == S \cup {m \in batch : m.hlc \notin Hlcs(S)}

-----------------------------------------------------------------------------
(***************************************************************************)
(* The Merkle tree of a conversation: the rows it has, each with its hash, *)
(* and which of them are frozen.  A row is written with a hash of some     *)
(* messages, so a bucket with no messages in its hash has no row.          *)
(***************************************************************************)
EmptyTree == [hash |-> [b \in Bucket |-> {}], frozen |-> {}]

Hash(t, b) == t.hash[b]

Nodes(t) == {b \in Bucket : Hash(t, b) # {}}

AtLevel(t, l) == {b \in Bucket : b[1] = l /\ Hash(t, b) # {}}

Tree ==
  {t \in [hash : [Bucket -> SUBSET Message], frozen : SUBSET Bucket] :
     t.frozen \subseteq Nodes(t)}

\* Only buckets that contain messages get a node.
BuildMerkleTree(S) ==
  [hash |-> [b \in Bucket |-> InBucket(S, b)], frozen |-> {}]

\* INSERT OR REPLACE of the rows B of a tree built from S: not frozen.
UpsertNodes(t, B, S) ==
  [hash   |-> [b \in Bucket |-> IF b \in B THEN InBucket(S, b) ELSE Hash(t, b)],
   frozen |-> t.frozen \ B]


\* A tree with a year is taken to be complete.
HasTree(t) == AtLevel(t, LevelYear) # {}

\* The root hash is that of the hashes of the years: the set of them, and {}
\* for an empty tree.
RootHash(t) == {Hash(t, b) : b \in AtLevel(t, LevelYear)}

\* An empty tree has no root on the initiator's side and is sent as a zero
\* hash by the responder: two empty trees do not match.
RootsMatch(t, remoteRoot) == RootHash(t) # {} /\ RootHash(t) = remoteRoot

\* The nodes of tree u a responder reports for the asked buckets of level l.
HandleBucketCompare(u, l, asked) ==
  (asked \cap Nodes(u)) \cup (IF asked # {} THEN AtLevel(u, l) ELSE {})

\* A bug it could have: a bucket that is frozen on one side only is skipped.
CompareSkipsFrozen(t, l, asked, u) ==
  LET remote == HandleBucketCompare(u, l, asked)
      both   == {b \in asked \cap remote : b \notin t.frozen /\ Hash(t, b) # Hash(u, b)}
      Tasks(B, act) == {[bucket |-> b, act |-> act] : b \in B}
  IN  Tasks(asked \ remote, "push")
        \cup Tasks(remote \ asked, "fetch")
        \cup Tasks(both \ u.frozen, IF l < LevelHour THEN "drill" ELSE "exchange")

\* What compareLevel does with every bucket of level l, given the initiator's
\* tree t, its buckets asked about and the responder's tree u.
CompareLevel(t, l, asked, u) ==
  LET remote == HandleBucketCompare(u, l, asked)
      both   == {b \in asked \cap remote : b \notin t.frozen /\ Hash(t, b) # Hash(u, b)}
      Tasks(B, act) == {[bucket |-> b, act |-> act] : b \in B}
  IN  Tasks(asked \ remote, "push")
        \cup Tasks(remote \ asked, "fetch")
        \cup Tasks(both \cap u.frozen, "fetch")
        \cup Tasks(both \ u.frozen, IF l < LevelHour THEN "drill" ELSE "exchange")

Task == [bucket : Bucket, act : {"push", "fetch", "drill", "exchange"}]

\* A bug it could have: days without a node are marked as well.
FreezeAnyDay(t, days) == [t EXCEPT !.frozen = @ \cup {<<LevelDay, d>> : d \in days}]

FreezeDays(t, days) ==
  [t EXCEPT !.frozen = @ \cup {b \in AtLevel(t, LevelDay) : b[2] \in days}]

\* Frozen days past the window go, together with their hours; their month
\* and year nodes stay.
PruneOldBuckets(t, day) ==
  LET old == {b \in t.frozen : b[2] + FreezeWindow <= day}
      del == {c \in Nodes(t) : \E b \in old : Within(c, b)}
  IN  [hash   |-> [b \in Bucket |-> IF b \in del THEN {} ELSE Hash(t, b)],
       frozen |-> t.frozen \ del]

-----------------------------------------------------------------------------
VARIABLES
  store,  \* the messages table of every node
  tree,   \* the merkle_tree_nodes table of every node
  last,   \* conversations.last_hlc of every node
  sess,   \* the session every caller runs
  build,  \* the tree every thread of a session is building: its caller's, and the
          \* handler's that serves its root request
  net,    \* live messages and linear sync messages in flight
  clock   \* the UTC day, and whether it is within its first two minutes

vars == <<store, tree, last, sess, build, net, clock>>

NoWork == [l \in Level |-> {}]

NoSession(c) ==
  [pc |-> "idle", peer |-> Home[c], since |-> NoHlc, local |-> EmptyTree,
   remoteRoot |-> {}, steady |-> FALSE, work |-> NoWork]

\* steady is history: no tree was being built at the peer when it sent its root.
Session ==
  [pc    : {"idle", "listed", "build", "root", "asked", "compare", "work", "done", "failed"},
   peer  : Node,
   since : Hlc \cup {NoHlc},
   local : Tree,
   remoteRoot : SUBSET SUBSET Message,
   steady : BOOLEAN,
   work  : [Level -> SUBSET Task]]

Thread == Caller \X {"session", "handler"}

NoBuild(th) == [pc |-> "idle", node |-> Home[th[1]], snap |-> {}, rows |-> {}]

\* snap is what was read of the messages, rows the buckets still to be stored.
Build == [pc : {"idle", "read", "store"}, node : Node, snap : SUBSET Message, rows : SUBSET Bucket]

BuildsAt(th, n) == build[th].pc # "idle" /\ build[th].node = n

LiveMessage     == [type : {"live"}, to : Node, hlc : Hlc]
RequestMessage  == [type : {"request"}, to : Node, from : Node, since : Hlc \cup {NoHlc}]
ResponseMessage == [type : {"response"}, to : Node, batch : SUBSET Message]

TypeOK ==
  /\ store \in [Node -> SUBSET Message]
  /\ tree \in [Node -> Tree]
  /\ last \in [Node -> Hlc \cup {NoHlc}]
  /\ sess \in [Caller -> Session]
  /\ build \in [Thread -> Build]
  /\ net \subseteq LiveMessage \cup RequestMessage \cup ResponseMessage
  /\ clock \in [day : Nat, midnight : BOOLEAN]

Init ==
  /\ store = [n \in Node |-> {}]
  /\ tree = [n \in Node |-> EmptyTree]
  /\ last = [n \in Node |-> NoHlc]
  /\ sess = [c \in Caller |-> NoSession(c)]
  /\ build = [th \in Thread |-> NoBuild(th)]
  /\ net = {}
  /\ clock = [day |-> 0, midnight |-> FALSE]
-----------------------------------------------------------------------------
(***************************************************************************)
(* Live messages (app.go).  The author stores its message, moves last_hlc  *)
(* and then hands the message to the network, which may lose it: a message *)
(* that is never delivered stays in net.                                   *)
(***************************************************************************)
\* A bug it could have: the message goes out although it could not be stored.
SendUnstored(n, h) ==
  /\ Author[h] = n
  /\ h \notin Hlcs(store[n])
  /\ Calendar[LevelDay][h] = clock.day
  /\ \/ store' = [store EXCEPT ![n] = InsertMessages(@, {[hlc |-> h, cipher |-> n]})]
     \/ UNCHANGED store
  /\ last' = [last EXCEPT ![n] = h]
  /\ \E sent \in {FALSE, Cardinality({m \in net : m.type = "live"}) < MaxLive} :
       net' = net \cup (IF sent THEN [type : {"live"}, to : Node \ {n}, hlc : {h}] ELSE {})
  /\ UNCHANGED <<tree, sess, build, clock>>

\* A message that cannot be stored is not sent.
SendMessage(n, h) ==
  /\ Author[h] = n
  /\ h \notin Hlcs(store[n])
  /\ Calendar[LevelDay][h] = clock.day
  /\ store' = [store EXCEPT ![n] = InsertMessages(@, {[hlc |-> h, cipher |-> n]})]
  /\ last' = [last EXCEPT ![n] = h]
  /\ \E sent \in {FALSE, Cardinality({m \in net : m.type = "live"}) < MaxLive} :
       net' = net \cup (IF sent THEN [type : {"live"}, to : Node \ {n}, hlc : {h}] ELSE {})
  /\ UNCHANGED <<tree, sess, build, clock>>

\* An insert that fails is logged, and last_hlc moves on nevertheless.
InsertFails == Unreliable /\ UNCHANGED store

ReceiveMessage(m) ==
  /\ m.type = "live"
  /\ net' = net \ {m}
  /\ \/ store' = [store EXCEPT ![m.to] =
                    InsertMessages(@, {[hlc |-> m.hlc, cipher |-> m.to]})]
     \/ InsertFails
  /\ last' = [last EXCEPT ![m.to] = m.hlc]
  /\ UNCHANGED <<tree, sess, build, clock>>

-----------------------------------------------------------------------------
(***************************************************************************)
(* A Merkle session of caller c (sync.go).  work[l] holds what the loop    *)
(* of compareLevel at level l has still to do; the deepest call runs first *)
(* and takes its buckets in path order.                                    *)
(***************************************************************************)

\* syncAllConversationsWithPeer: the conversation is listed, with its
\* last_hlc at this time.
ListConversation(c, p) ==
  /\ sess[c].pc = "idle" /\ p # Home[c]
  /\ sess' = [sess EXCEPT ![c] =
                [NoSession(c) EXCEPT !.pc = "listed", !.peer = p, !.since = last[Home[c]]]]
  /\ UNCHANGED <<store, tree, last, build, net, clock>>

\* buildLocalTree: the stored tree is loaded, its levels at one instant here.  The
\* session goes on with the copy in memory.
LoadLocalTree(c) ==
  /\ sess[c].pc = "listed"
  /\ HasTree(tree[Home[c]])
  /\ sess' = [sess EXCEPT ![c].pc = "root", ![c].local = tree[Home[c]]]
  /\ UNCHANGED <<store, tree, last, build, net, clock>>

BeginBuild(th, n) == build' = [build EXCEPT ![th] = [NoBuild(th) EXCEPT !.pc = "read", !.node = n]]

\* Or there is none yet, and one is built.
BuildLocalTree(c) ==
  /\ sess[c].pc = "listed"
  /\ ~ HasTree(tree[Home[c]])
  /\ BeginBuild(<<c, "session">>, Home[c])
  /\ sess' = [sess EXCEPT ![c].pc = "build"]
  /\ UNCHANGED <<store, tree, last, net, clock>>

\* The request fails, whatever the responder did with it.
AnswerLost(c) == Unreliable /\ sess' = [sess EXCEPT ![c].pc = "failed"]

\* The root of u is the answer.
AnswerRoot(c, u, steady) ==
  sess' = [sess EXCEPT
             ![c].pc = IF RootsMatch(sess[c].local, RootHash(u)) THEN "done" ELSE "compare",
             ![c].remoteRoot = RootHash(u),
             ![c].steady = steady]

\* HandleMerkleRootRequest: the responder has a tree stored, ...
RequestRoot(c) ==
  /\ sess[c].pc = "root"
  /\ LET p == sess[c].peer
     IN  /\ HasTree(tree[p])
         /\ \/ AnswerRoot(c, tree[p], \A th \in Thread : ~ BuildsAt(th, p))
            \/ AnswerLost(c)
  /\ UNCHANGED <<store, tree, last, build, net, clock>>

\* A bug it could have: the handler builds its tree anew for every request.
AskRootAnew(c) ==
  /\ sess[c].pc = "root"
  /\ build[<<c, "handler">>].pc = "idle"
  /\ BeginBuild(<<c, "handler">>, sess[c].peer)
  /\ sess' = [sess EXCEPT ![c].pc = "asked"]
  /\ UNCHANGED <<store, tree, last, net, clock>>

\* ... or it builds one first.  A handler goes on when its requester does not wait
\* any more; bound: one handler for every caller.
AskRoot(c) ==
  /\ sess[c].pc = "root"
  /\ ~ HasTree(tree[sess[c].peer])
  /\ build[<<c, "handler">>].pc = "idle"
  /\ BeginBuild(<<c, "handler">>, sess[c].peer)
  /\ sess' = [sess EXCEPT ![c].pc = "asked"]
  /\ UNCHANGED <<store, tree, last, net, clock>>

-----------------------------------------------------------------------------
(***************************************************************************)
(* The building of a tree by thread th.  Between its steps the node may    *)
(* receive messages, freeze days, restart and build the tree once more.    *)
(***************************************************************************)

ReadMessages(th) ==
  /\ build[th].pc = "read"
  /\ LET S == store[build[th].node]
     IN  build' = [build EXCEPT ![th].pc = "store", ![th].snap = S,
                                ![th].rows = Nodes(BuildMerkleTree(S))]
  /\ UNCHANGED <<store, tree, last, sess, net, clock>>

\* The rows are stored one at a time, in any order (all at once where builds are not
\* interleaved).
PersistNodes(th) ==
  /\ build[th].pc = "store" /\ build[th].rows # {}
  /\ LET n    == build[th].node
         rows == build[th].rows
     IN  \E B \in IF n \in Interleaved THEN {{b} : b \in rows} ELSE {rows} :
           /\ tree' = [tree EXCEPT ![n] = UpsertNodes(@, B, build[th].snap)]
           /\ build' = [build EXCEPT ![th].rows = @ \ B]
  /\ UNCHANGED <<store, last, sess, net, clock>>

\* The session goes on with the tree it built; the handler answers with its root,
\* which nobody may be waiting for.
FinishBuild(th) ==
  /\ build[th].pc = "store" /\ build[th].rows = {}
  /\ LET c == th[1]
         t == BuildMerkleTree(build[th].snap)
     IN  \/ /\ th[2] = "session"
            /\ sess' = [sess EXCEPT ![c].pc = "root", ![c].local = t]
         \/ /\ th[2] = "handler" /\ sess[c].pc = "asked"
            /\ \/ AnswerRoot(c, t, \A u \in Thread \ {th} : ~ BuildsAt(u, build[th].node))
               \/ AnswerLost(c)
         \/ th[2] = "handler" /\ sess[c].pc # "asked" /\ UNCHANGED sess
  /\ build' = [build EXCEPT ![th] = NoBuild(th)]
  /\ UNCHANGED <<store, tree, last, net, clock>>

\* A query fails or the session's context ends: what is stored stays.
BuildFails(th) ==
  /\ Unreliable
  /\ build[th].pc = "read" \/ build[th].rows # {}
  /\ build' = [build EXCEPT ![th] = NoBuild(th)]
  /\ sess' = [sess EXCEPT ![th[1]].pc =
       IF th[2] = "session" \/ @ = "asked" THEN "failed" ELSE @]
  /\ UNCHANGED <<store, tree, last, net, clock>>

BuildStep(th) ==
  ReadMessages(th) \/ PersistNodes(th) \/ FinishBuild(th) \/ BuildFails(th)

-----------------------------------------------------------------------------
(***************************************************************************)
(* The comparison of the trees.                                            *)
(***************************************************************************)

\* compareLevel(LevelYear, ""): every year of the local tree is compared.
CompareYears(c) ==
  /\ sess[c].pc = "compare"
  /\ LET t == sess[c].local
     IN  sess' = [sess EXCEPT
                    ![c].pc = "work",
                    ![c].work[LevelYear] =
                      CompareLevel(t, LevelYear, AtLevel(t, LevelYear), tree[sess[c].peer])]
  /\ UNCHANGED <<store, tree, last, build, net, clock>>

\* k is the task the running loops take next, in the call at level l.
NextTask(c, l, k) ==
  /\ sess[c].pc = "work"
  /\ k \in sess[c].work[l]
  /\ \A i \in l + 1 .. LevelHour : sess[c].work[i] = {}
  /\ \A j \in sess[c].work[l] : k.bucket[2] <= j.bucket[2]

\* Hashes differ: the children of the bucket are compared.
DrillDown(c, l, k) ==
  /\ NextTask(c, l, k) /\ k.act = "drill"
  /\ LET t     == sess[c].local
         asked == {b \in AtLevel(t, l + 1) : Within(b, k.bucket)}
     IN  sess' = [sess EXCEPT
                    ![c].work[l] = @ \ {k},
                    ![c].work[l + 1] = CompareLevel(t, l + 1, asked, tree[sess[c].peer])]
  /\ UNCHANGED <<store, tree, last, build, net, clock>>

\* last_hlc follows the last message of a batch, backwards too.  Batches are
\* never empty: a bucket that has a node, and that is all that is fetched or
\* pushed, holds messages (TreeCoversStore).
UpdateLastHlc(n, batch) ==
  \E h \in Hlc : IsLast(h, batch) /\ last' = [last EXCEPT ![n] = h]

\* A bug it could have: an exchange ends with the fetch.
FetchOnly(c, l, k) ==
  /\ NextTask(c, l, k) /\ k.act \in {"fetch", "exchange"}
  /\ l = LevelHour
  /\ LET n     == Home[c]
         batch == InBucket(store[sess[c].peer], k.bucket)
     IN  /\ store' = [store EXCEPT ![n] = InsertMessages(@, batch)]
         /\ UpdateLastHlc(n, batch)
  /\ sess' = [sess EXCEPT ![c].work[l] = @ \ {k}]
  /\ UNCHANGED <<tree, build, net, clock>>

\* The responder reads the bucket as an hour whatever its level, and fails
\* on the others.  What it returns is inserted, and last_hlc follows the last
\* message returned.  An exchange goes on with the push.
FetchBucket(c, l, k) ==
  /\ NextTask(c, l, k) /\ k.act \in {"fetch", "exchange"}
  /\ l = LevelHour
  /\ LET n     == Home[c]
         batch == InBucket(store[sess[c].peer], k.bucket)
     IN  /\ store' = [store EXCEPT ![n] = InsertMessages(@, batch)]
         /\ UpdateLastHlc(n, batch)
  /\ sess' = [sess EXCEPT ![c].work[l] =
       (@ \ {k}) \cup (IF k.act = "exchange" THEN {[k EXCEPT !.act = "push"]} ELSE {})]
  /\ UNCHANGED <<tree, build, net, clock>>

FetchUnparsable(c, l, k) ==
  /\ NextTask(c, l, k) /\ k.act = "fetch"
  /\ l # LevelHour
  /\ sess' = [sess EXCEPT ![c].pc = "failed"]
  /\ UNCHANGED <<store, tree, last, build, net, clock>>

\* The local messages of the bucket are inserted by the responder.  The
\* acknowledgement may be lost.
PushBucket(c, l, k) ==
  /\ NextTask(c, l, k) /\ k.act = "push"
  /\ LET p     == sess[c].peer
         batch == InBucket(store[Home[c]], k.bucket)
     IN  /\ store' = [store EXCEPT ![p] = InsertMessages(@, batch)]
         /\ UpdateLastHlc(p, batch)
         /\ \/ sess' = [sess EXCEPT ![c].work[l] = @ \ {k}]
            \/ AnswerLost(c)
  /\ UNCHANGED <<tree, build, net, clock>>

\* A request that never reaches the responder, or is not waited for any more.
RequestFails(c) ==
  /\ sess[c].pc \in {"root", "asked", "compare", "work"}
  /\ sess[c].pc = "work" => sess[c].work # NoWork
  /\ AnswerLost(c)
  /\ UNCHANGED <<store, tree, last, build, net, clock>>

FinishComparison(c) ==
  /\ sess[c].pc = "work" /\ sess[c].work = NoWork
  /\ sess' = [sess EXCEPT ![c].pc = "done"]
  /\ UNCHANGED <<store, tree, last, build, net, clock>>

EndSession(c) ==
  /\ sess[c].pc = "done"
  /\ sess' = [sess EXCEPT ![c] = NoSession(c)]
  /\ UNCHANGED <<store, tree, last, build, net, clock>>

\* A failed session asks for a linear synchronisation, from the last_hlc that
\* was read when the conversation was listed.  The request may not be sent.
FallBack(c) ==
  /\ sess[c].pc = "failed"
  /\ \E sent \in {FALSE, Cardinality({m \in net : m.type # "live"}) < MaxLinear} :
       net' = net \cup (IF sent THEN [type : {"request"}, to : {sess[c].peer},
                                      from : {Home[c]}, since : {sess[c].since}] ELSE {})
  /\ sess' = [sess EXCEPT ![c] = NoSession(c)]
  /\ UNCHANGED <<store, tree, last, build, clock>>

-----------------------------------------------------------------------------
(***************************************************************************)
(* The linear synchronisation (the ConvSyncRequest handler of app.go).     *)
(***************************************************************************)

\* The k oldest messages of S.
Oldest(S, k) == {m \in S : Cardinality({x \in S : x.hlc < m.hlc}) < k}

MessagesSince(S, since) == Oldest({m \in S : m.hlc > since}, SyncLimit)

AnswerSyncRequest(m) ==
  /\ m.type = "request"
  /\ LET batch == MessagesSince(store[m.to], m.since)
     IN  net' = (net \ {m}) \cup
           (IF batch # {} THEN [type : {"response"}, to : {m.from}, batch : {batch}] ELSE {})
  /\ UNCHANGED <<store, tree, last, sess, build, clock>>

\* The messages of a response are inserted in one transaction.
ReceiveSyncResponse(m) ==
  /\ m.type = "response"
  /\ net' = net \ {m}
  /\ \/ store' = [store EXCEPT ![m.to] = InsertMessages(@, m.batch)]
     \/ InsertFails
  /\ UpdateLastHlc(m.to, m.batch)
  /\ UNCHANGED <<tree, sess, build, clock>>

-----------------------------------------------------------------------------
(***************************************************************************)
(* Time and the freeze manager (freeze.go).                                *)
(***************************************************************************)

Midnight ==
  /\ clock.day < LastDay
  /\ clock' = [day |-> clock.day + 1, midnight |-> TRUE]
  /\ UNCHANGED <<store, tree, last, sess, build, net>>

MidnightPasses ==
  /\ clock.midnight
  /\ clock' = [clock EXCEPT !.midnight = FALSE]
  /\ UNCHANGED <<store, tree, last, sess, build, net>>

\* A bug it could have: it freezes the day that has just begun.
FreezeToday(n) ==
  /\ clock.midnight
  /\ tree' = [tree EXCEPT ![n] =
                PruneOldBuckets(FreezeDays(@, {clock.day}), clock.day)]
  /\ UNCHANGED <<store, last, sess, build, net, clock>>

\* A tick of the freeze manager in the first two minutes of the day.
FreezePreviousDay(n) ==
  /\ clock.midnight
  /\ tree' = [tree EXCEPT ![n] =
                PruneOldBuckets(FreezeDays(@, {clock.day - 1}), clock.day)]
  /\ UNCHANGED <<store, last, sess, build, net, clock>>

\* Node n stops, in any state, and starts again: its sessions are gone and the trees
\* it was building stay as far as they were stored; requests it was to answer fail.
\* CheckAndFreeze freezes every past day.
Restart(n) ==
  /\ sess' = [c \in Caller |->
       IF Home[c] = n THEN NoSession(c)
       ELSE IF sess[c].pc = "asked" /\ sess[c].peer = n THEN [sess[c] EXCEPT !.pc = "failed"]
       ELSE sess[c]]
  /\ build' = [th \in Thread |-> IF build[th].node = n THEN NoBuild(th) ELSE build[th]]
  /\ tree' = [tree EXCEPT ![n] =
                PruneOldBuckets(FreezeDays(@, 0 .. clock.day - 1), clock.day)]
  /\ UNCHANGED <<store, last, net, clock>>

-----------------------------------------------------------------------------
SessionStep(c) ==
  \/ LoadLocalTree(c) \/ BuildLocalTree(c) \/ RequestRoot(c) \/ AskRoot(c) \/ CompareYears(c)
  \/ \E l \in Level : \E k \in sess[c].work[l] :
       \/ DrillDown(c, l, k) \/ FetchBucket(c, l, k)
       \/ FetchUnparsable(c, l, k) \/ PushBucket(c, l, k)
  \/ RequestFails(c) \/ FinishComparison(c) \/ EndSession(c) \/ FallBack(c)

OtherStep ==
  \/ \E c \in Caller : SessionStep(c) \/ \E p \in Node : ListConversation(c, p)
  \/ \E n \in Node : (\E h \in Hlc : SendMessage(n, h)) \/ FreezePreviousDay(n) \/ Restart(n)
  \/ \E m \in net : ReceiveMessage(m) \/ AnswerSyncRequest(m) \/ ReceiveSyncResponse(m)
  \/ Midnight \/ MidnightPasses

Next ==
  \/ \E th \in Thread : BuildStep(th)
  \/ /\ \A th \in Thread : build[th].pc # "idle" => build[th].node \in Interleaved
     /\ OtherStep

Spec == Init /\ [][Next]_vars

-----------------------------------------------------------------------------
(***************************************************************************)
(* Properties.                                                             *)
(***************************************************************************)

\* The unique HLC column: no interleaving of live delivery, fetches, pushes
\* and linear responses leaves a node with two copies of one message, even
\* though the copies that arrive on these paths have different ciphertexts.
OneCopyPerHlc ==
  \A n \in Node : \A m, k \in store[n] : m.hlc = k.hlc => m = k

\* A row of a cached tree, in the database or in the memory of a session, never
\* speaks of a message of another bucket or of one that its node does not hold in
\* exactly that form, although nothing ever refreshes it and several threads may
\* be storing rows that they computed from different messages.
CoversStore(t, S) == \A b \in Bucket : Hash(t, b) \subseteq InBucket(S, b)

TreeCoversStore ==
  /\ \A n \in Node : CoversStore(tree[n], store[n])
  /\ \A c \in Caller : CoversStore(sess[c].local, store[Home[c]])

\* Only days that are over are frozen (freeze.go freezes the previous day at
\* midnight and past days at start-up), so no bucket that is still being
\* written to is ever trusted blindly.
OnlyPastDaysFrozen ==
  \A n \in Node : \A b \in tree[n].frozen :
    b \in AtLevel(tree[n], LevelDay) /\ b[2] < clock.day

\* The rows of t cover m at every level, and its day is not frozen.
Active(t, m) ==
  /\ \A l \in Level : m \in Hash(t, BucketPath(l, m.hlc))
  /\ BucketPath(LevelDay, m.hlc) \notin t.frozen

\* A comparison by an initiator with tree t comes to the hour of h: the tree is not
\* empty, the day is not taken for synchronised, and no bucket on the way is without
\* children (pruned, or not stored), for then nothing is asked about them.
ComesTo(t, h) ==
  /\ HasTree(t)
  /\ BucketPath(LevelDay, h) \notin t.frozen
  /\ \A l \in Level \ {LevelHour} : BucketPath(l, h) \in Nodes(t) =>
       \E b \in AtLevel(t, l + 1) : Within(b, BucketPath(l, h))

\* What a session that completes achieves (SyncConversation): the responder ends up
\* with every message that is active in the initiator's tree; and the initiator with
\* every message of the root it was sent that is active in the responder's tree and
\* come to, unless another thread was still storing that tree when the root was sent.
\* This holds whatever was sent, delivered, built, stored in part, frozen, pruned
\* or synchronised by others while the session ran.
SessionExchanges ==
  \A c \in Caller :
    LET t == sess[c].local
        p == sess[c].peer
    IN  sess[c].pc = "done" =>
          /\ \A b \in Bucket : \A m \in Hash(t, b) : Active(t, m) => m.hlc \in Hlcs(store[p])
          /\ sess[c].steady =>
               \A m \in UNION sess[c].remoteRoot :
                 Active(tree[p], m) /\ ComesTo(t, m.hlc) => m.hlc \in Hlcs(store[Home[c]])

\* Once a node has a tree and nobody is storing one, that tree is final: no session,
\* handler, freeze or restart builds it again, its hashes stay as they are or are pruned,
\* and a frozen day stays frozen until then.
Final(n) == AtLevel(tree[n], LevelYear) # {} /\ \A th \in Thread : ~ BuildsAt(th, n)

Shrinks(t, u) ==
  /\ \A b \in Bucket : Hash(u, b) \in {Hash(t, b), {}}
  /\ \A b \in t.frozen : b \in u.frozen \/ Hash(u, b) = {}

TreeOnlyShrinks ==
  [][\A n \in Node : Final(n) => Final(n)' /\ Shrinks(tree[n], tree'[n])]_vars

\* The messages table only grows and no stored copy is ever changed: neither
\* a late live delivery nor a synchronisation overwrites what is there.
MessagesKept == [][\A n \in Node : store[n] \subseteq store'[n]]_vars

\* The HLCs of the messages every node has stored.
Held == [n \in Node |-> Hlcs(store[n])]

Replicated == INSTANCE ReplicatedMessages WITH held <- Held

\* Through live delivery, fetches, pushes and linear responses, repeated, lost, late and
\* raced against restarts, the nodes replicate the conversation: nobody holds a message
\* that its author does not hold, and nothing is lost (ReplicatedMessages).
ReplicatesMessages == Replicated!Spec
=============================================================================
