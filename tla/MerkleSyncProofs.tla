-------------------------- MODULE MerkleSyncProofs --------------------------
(***************************************************************************)
(* Proofs about MerkleSync, for every set of nodes, every calendar and     *)
(* every value of the bounds.                                              *)
(***************************************************************************)
EXTENDS MerkleSync, TLAPS

OneCopy(S) == \A m, k \in S : m.hlc = k.hlc => m = k

-----------------------------------------------------------------------------
(* Operators of the model. *)

\* What an insertion keeps and what it can add (InsertMessage).
LEMMA InsertMessagesFacts ==
  ASSUME NEW S \in SUBSET Message, NEW batch \in SUBSET Message
  PROVE  /\ InsertMessages(S, batch) \in SUBSET Message
         /\ S \subseteq InsertMessages(S, batch)
         /\ OneCopy(S) /\ OneCopy(batch) => OneCopy(InsertMessages(S, batch))
  BY DEF InsertMessages, OneCopy, Hlcs

\* The paths of real messages are buckets.
LEMMA BucketPathType ==
  ASSUME NEW l \in Level, NEW h \in Hlc
  PROVE  /\ BucketPath(l, h) \in Bucket
         /\ BucketPath(l, h)[1] = l
         /\ BucketPath(l, h)[2] = Calendar[l][h]
         /\ Calendar[l][h] \in Nat
  BY ConstantsOK DEF BucketPath, Bucket

LEMMA BucketType ==
  ASSUME NEW b \in Bucket
  PROVE  b = <<b[1], b[2]>> /\ b[1] \in Level /\ b[2] \in Nat
  <1>1. PICK l \in Level, h \in Hlc : b = BucketPath(l, h)
    BY DEF Bucket
  <1> QED
    BY <1>1, BucketPathType DEF BucketPath

\* A new tree is a tree, and so is one that days were frozen or pruned in.
LEMMA TreeOperators ==
  ASSUME NEW t \in Tree
  PROVE  /\ EmptyTree \in Tree
         /\ \A S \in SUBSET Message : BuildMerkleTree(S) \in Tree
         /\ \A B : \A S \in SUBSET Message : UpsertNodes(t, B, S) \in Tree
         /\ \A days : FreezeDays(t, days) \in Tree
         /\ \A day : PruneOldBuckets(t, day) \in Tree
  <1>0. ASSUME NEW u \in [hash : [Bucket -> SUBSET Message], frozen : SUBSET Bucket],
               u.frozen \subseteq Nodes(u)
        PROVE  u \in Tree
    BY <1>0 DEF Tree
  <1>1. EmptyTree \in Tree
    BY DEF EmptyTree, Tree
  <1>2. ASSUME NEW S \in SUBSET Message PROVE BuildMerkleTree(S) \in Tree
    BY DEF BuildMerkleTree, InBucket, Tree
  <1>3. ASSUME NEW B, NEW S \in SUBSET Message PROVE UpsertNodes(t, B, S) \in Tree
    <2> DEFINE u == UpsertNodes(t, B, S)
    <2>1. /\ u.hash \in [Bucket -> SUBSET Message]
          /\ \A b \in Bucket \ B : Hash(u, b) = Hash(t, b)
          /\ u.frozen = t.frozen \ B
          /\ u = [hash |-> u.hash, frozen |-> u.frozen]
      BY DEF UpsertNodes, InBucket, Hash, Tree
    <2>2. u.frozen \subseteq Nodes(u) /\ u.frozen \subseteq Bucket
      BY <2>1 DEF Tree, Nodes
    <2> HIDE DEF u
    <2>3. u \in [hash : [Bucket -> SUBSET Message], frozen : SUBSET Bucket]
      BY <2>1, <2>2
    <2>4. u \in Tree
      BY <1>0, <2>2, <2>3
    <2> QED
      BY <2>4 DEF u
  <1>4. ASSUME NEW days PROVE FreezeDays(t, days) \in Tree
    BY DEF FreezeDays, Tree, AtLevel, Nodes, Hash
  <1>5. ASSUME NEW day PROVE PruneOldBuckets(t, day) \in Tree
    <2> DEFINE u   == PruneOldBuckets(t, day)
               old == {b \in t.frozen : b[2] + FreezeWindow <= day}
               del == {c \in Nodes(t) : \E b \in old : Within(c, b)}
    <2>1. /\ u.hash \in [Bucket -> SUBSET Message]
          /\ \A b \in Bucket \ del : Hash(u, b) = Hash(t, b)
          /\ u.frozen = t.frozen \ del
          /\ u = [hash |-> u.hash, frozen |-> u.frozen]
      BY DEF PruneOldBuckets, Hash, Tree
    <2>2. u.frozen \subseteq Nodes(u) /\ u.frozen \subseteq Bucket
      <3> HIDE DEF u, del
      <3> QED
        BY <2>1 DEF Tree, Nodes
    <2> HIDE DEF u
    <2>3. u \in [hash : [Bucket -> SUBSET Message], frozen : SUBSET Bucket]
      BY <2>1, <2>2
    <2>4. u \in Tree
      BY <1>0, <2>2, <2>3
    <2> QED
      BY <2>4 DEF u
  <1> QED
    BY <1>1, <1>2, <1>3, <1>4, <1>5

\* Whatever the trees of the two sides are, compareLevel makes tasks of it.
LEMMA CompareLevelType ==
  ASSUME NEW t \in Tree, NEW u \in Tree, NEW l \in Level,
         NEW asked \in SUBSET Bucket
  PROVE  CompareLevel(t, l, asked, u) \in SUBSET Task
  <1>1. HandleBucketCompare(u, l, asked) \subseteq Bucket
    BY DEF HandleBucketCompare, AtLevel
  <1> QED
    BY <1>1 DEF CompareLevel, Task

LEMMA RootHashType ==
  ASSUME NEW t \in Tree
  PROVE  RootHash(t) \in SUBSET SUBSET Message
  BY DEF RootHash, Hash, AtLevel, Tree

-----------------------------------------------------------------------------
(* Type correctness. *)

\* The message of a batch with the last HLC is one of a real message.
LEMMA UpdateLastHlcType ==
  ASSUME TypeOK, NEW n, NEW batch, UpdateLastHlc(n, batch)
  PROVE  last' \in [Node -> Hlc \cup {NoHlc}]
  BY DEF TypeOK, UpdateLastHlc

\* The root of a tree is an answer.
LEMMA AnswerRootType ==
  ASSUME TypeOK, NEW c \in Caller, NEW u \in Tree, NEW steady \in BOOLEAN,
         AnswerRoot(c, u, steady)
  PROVE  sess' \in [Caller -> Session]
  <1>1. sess \in [Caller -> Session] /\ sess[c] \in Session
    BY DEF TypeOK
  <1>2. RootHash(u) \in SUBSET SUBSET Message
    BY RootHashType
  <1> QED
    BY <1>1, <1>2 DEF AnswerRoot, Session

\* A session that fails is a session.
LEMMA FailedSession ==
  ASSUME NEW s \in Session
  PROVE  [s EXCEPT !.pc = "failed"] \in Session
  BY DEF Session

\* Every action of a session leaves it a session.
LEMMA SessionStepType ==
  ASSUME TypeOK, NEW c \in Caller, SessionStep(c)
  PROVE  TypeOK'
  <1>0. /\ store \in [Node -> SUBSET Message]
        /\ tree \in [Node -> Tree]
        /\ last \in [Node -> Hlc \cup {NoHlc}]
        /\ sess \in [Caller -> Session]
        /\ build \in [Thread -> Build]
        /\ net \subseteq LiveMessage \cup RequestMessage \cup ResponseMessage
        /\ clock \in [day : Nat, midnight : BOOLEAN]
    BY DEF TypeOK
  <1>s. /\ sess[c] \in Session /\ Home[c] \in Node
        /\ sess[c].peer \in Node
        /\ sess[c].local \in Tree
        /\ sess[c].work \in [Level -> SUBSET Task]
    BY <1>0, ConstantsOK DEF Session
  <1>t. /\ store[Home[c]] \in SUBSET Message /\ store[sess[c].peer] \in SUBSET Message
        /\ tree[Home[c]] \in Tree /\ tree[sess[c].peer] \in Tree
    BY <1>0, <1>s
  <1>n. NoSession(c) \in Session
    BY <1>s, TreeOperators DEF NoSession, Session, NoWork, NoHlc
  <1>i. \A S, batch \in SUBSET Message : InsertMessages(S, batch) \in SUBSET Message
    BY InsertMessagesFacts
  <1>f. ASSUME AnswerLost(c) PROVE sess' \in [Caller -> Session]
    BY <1>f, <1>0, <1>s DEF AnswerLost, Session
  <1>b. ASSUME NEW th \in Thread, NEW n \in Node, BeginBuild(th, n)
        PROVE  build' \in [Thread -> Build]
    BY <1>b, <1>0 DEF BeginBuild, NoBuild, Build
  <1>1. CASE LoadLocalTree(c)
    <2>1. sess' \in [Caller -> Session]
      BY <1>1, <1>0, <1>s, <1>t DEF LoadLocalTree, Session
    <2> QED
      BY <1>1, <1>0, <2>1 DEF LoadLocalTree, TypeOK
  <1>12. CASE BuildLocalTree(c)
    <2>1. sess' \in [Caller -> Session]
      BY <1>12, <1>0, <1>s DEF BuildLocalTree, Session
    <2>2. build' \in [Thread -> Build]
      BY <1>12, <1>b, <1>s DEF BuildLocalTree, Thread
    <2> QED
      BY <1>12, <1>0, <2>1, <2>2 DEF BuildLocalTree, TypeOK
  <1>2. CASE RequestRoot(c)
    <2>1. sess' \in [Caller -> Session]
      BY <1>2, <1>0, <1>s, <1>t, <1>f, AnswerRootType DEF RequestRoot
    <2> QED
      BY <1>2, <1>0, <2>1 DEF RequestRoot, TypeOK
  <1>13. CASE AskRoot(c)
    <2>1. sess' \in [Caller -> Session]
      BY <1>13, <1>0, <1>s DEF AskRoot, Session
    <2>2. build' \in [Thread -> Build]
      BY <1>13, <1>b, <1>s DEF AskRoot, Thread
    <2> QED
      BY <1>13, <1>0, <2>1, <2>2 DEF AskRoot, TypeOK
  <1>3. CASE CompareYears(c)
    <2>1. AtLevel(sess[c].local, LevelYear) \in SUBSET Bucket
      BY DEF AtLevel
    <2>2. CompareLevel(sess[c].local, LevelYear, AtLevel(sess[c].local, LevelYear),
                       tree[sess[c].peer]) \in SUBSET Task
      BY <1>s, <1>t, <2>1, CompareLevelType DEF Level, LevelYear, LevelHour
    <2>3. sess' \in [Caller -> Session]
      BY <1>3, <1>0, <1>s, <2>2 DEF CompareYears, Session
    <2> QED
      BY <1>3, <1>0, <2>3 DEF CompareYears, TypeOK
  <1>4. ASSUME NEW l \in Level, NEW k \in sess[c].work[l], DrillDown(c, l, k)
        PROVE  TypeOK'
    <2> DEFINE asked == {b \in AtLevel(sess[c].local, l + 1) : Within(b, k.bucket)}
               tasks == CompareLevel(sess[c].local, l + 1, asked, tree[sess[c].peer])
    <2>1. CASE l = LevelHour
      <3>1. l + 1 \notin Level
        BY <2>1 DEF Level, LevelYear, LevelHour
      <3>2. sess' \in [Caller -> Session]
        BY <1>4, <1>0, <1>s, <3>1 DEF DrillDown, Session
      <3> QED
        BY <1>4, <1>0, <3>2 DEF DrillDown, TypeOK
    <2>2. CASE l # LevelHour
      <3>1. l + 1 \in Level
        BY <2>2 DEF Level, LevelYear, LevelHour
      <3>2. asked \in SUBSET Bucket
        BY DEF AtLevel
      <3>3. tasks \in SUBSET Task
        BY <1>s, <1>t, <3>1, <3>2, CompareLevelType
      <3>4. sess' \in [Caller -> Session]
        BY <1>4, <1>0, <1>s, <3>3 DEF DrillDown, Session
      <3> QED
        BY <1>4, <1>0, <3>4 DEF DrillDown, TypeOK
    <2> QED
      BY <2>1, <2>2
  <1>5. ASSUME NEW l \in Level, NEW k \in sess[c].work[l], FetchBucket(c, l, k)
        PROVE  TypeOK'
    <2>1. InBucket(store[sess[c].peer], k.bucket) \in SUBSET Message
      BY <1>t DEF InBucket
    <2>2. store' \in [Node -> SUBSET Message]
      <3>1. InsertMessages(store[Home[c]], InBucket(store[sess[c].peer], k.bucket))
              \in SUBSET Message
        BY <1>t, <1>i, <2>1
      <3> QED
        BY <1>5, <1>0, <3>1 DEF FetchBucket
    <2>3. last' \in [Node -> Hlc \cup {NoHlc}]
      BY <1>5, UpdateLastHlcType DEF FetchBucket
    <2>4. [k EXCEPT !.act = "push"] \in Task
      BY <1>s DEF Task
    <2>5. sess' \in [Caller -> Session]
      BY <1>5, <1>0, <1>s, <2>4 DEF FetchBucket, Session
    <2> QED
      BY <1>5, <1>0, <2>2, <2>3, <2>5 DEF FetchBucket, TypeOK
  <1>6. ASSUME NEW l \in Level, NEW k \in sess[c].work[l], FetchUnparsable(c, l, k)
        PROVE  TypeOK'
    BY <1>6, <1>0, <1>s DEF FetchUnparsable, TypeOK, Session
  <1>7. ASSUME NEW l \in Level, NEW k \in sess[c].work[l], PushBucket(c, l, k)
        PROVE  TypeOK'
    <2>1. InBucket(store[Home[c]], k.bucket) \in SUBSET Message
      BY <1>t DEF InBucket
    <2>2. store' \in [Node -> SUBSET Message]
      <3>1. InsertMessages(store[sess[c].peer], InBucket(store[Home[c]], k.bucket))
              \in SUBSET Message
        BY <1>t, <2>1, InsertMessagesFacts
      <3> QED
        BY <1>7, <1>0, <3>1 DEF PushBucket
    <2>3. last' \in [Node -> Hlc \cup {NoHlc}]
      BY <1>7, UpdateLastHlcType DEF PushBucket
    <2>4. sess' \in [Caller -> Session]
      <3>1. CASE sess' = [sess EXCEPT ![c].work[l] = @ \ {k}]
        BY <3>1, <1>0, <1>s DEF Session
      <3>2. CASE AnswerLost(c)
        BY <3>2, <1>f
      <3> QED
        BY <1>7, <3>1, <3>2 DEF PushBucket
    <2> QED
      BY <1>7, <1>0, <2>2, <2>3, <2>4 DEF PushBucket, TypeOK
  <1>8. CASE RequestFails(c)
    BY <1>8, <1>0, <1>f DEF RequestFails, TypeOK
  <1>9. CASE FinishComparison(c)
    BY <1>9, <1>0, <1>s DEF FinishComparison, TypeOK, Session
  <1>10. CASE EndSession(c)
    BY <1>10, <1>0, <1>n DEF EndSession, TypeOK
  <1>11. CASE FallBack(c)
    <2>1. sess' \in [Caller -> Session]
      BY <1>11, <1>0, <1>n DEF FallBack
    <2>2. net' \subseteq LiveMessage \cup RequestMessage \cup ResponseMessage
      BY <1>11, <1>0, <1>s DEF FallBack, RequestMessage, Session
    <2> QED
      BY <1>11, <1>0, <2>1, <2>2 DEF FallBack, TypeOK
  <1> QED
    BY <1>1, <1>2, <1>3, <1>4, <1>5, <1>6, <1>7, <1>8, <1>9, <1>10, <1>11,
       <1>12, <1>13
    DEF SessionStep

\* Every step of a build leaves it a build.
LEMMA BuildStepType ==
  ASSUME TypeOK, NEW th \in Thread, BuildStep(th)
  PROVE  TypeOK'
  <1>0. /\ store \in [Node -> SUBSET Message]
        /\ tree \in [Node -> Tree]
        /\ last \in [Node -> Hlc \cup {NoHlc}]
        /\ sess \in [Caller -> Session]
        /\ build \in [Thread -> Build]
        /\ net \subseteq LiveMessage \cup RequestMessage \cup ResponseMessage
        /\ clock \in [day : Nat, midnight : BOOLEAN]
    BY DEF TypeOK
  <1>s. /\ th[1] \in Caller /\ Home[th[1]] \in Node /\ sess[th[1]] \in Session
        /\ build[th] \in Build /\ build[th].node \in Node
        /\ store[build[th].node] \in SUBSET Message /\ tree[build[th].node] \in Tree
    BY <1>0, ConstantsOK DEF Thread, Build
  <1>n. NoBuild(th) \in Build
    BY <1>s DEF NoBuild, Build
  <1>f. ASSUME AnswerLost(th[1]) PROVE sess' \in [Caller -> Session]
    BY <1>f, <1>0, <1>s DEF AnswerLost, Session
  <1>1. CASE ReadMessages(th)
    <2>1. build' \in [Thread -> Build]
      BY <1>1, <1>0, <1>s DEF ReadMessages, Build, Nodes
    <2> QED
      BY <1>1, <1>0, <2>1 DEF ReadMessages, TypeOK
  <1>2. CASE PersistNodes(th)
    <2>1. PICK B \in SUBSET build[th].rows :
            /\ tree' = [tree EXCEPT ![build[th].node] = UpsertNodes(@, B, build[th].snap)]
            /\ build' = [build EXCEPT ![th].rows = @ \ B]
      BY <1>2 DEF PersistNodes
    <2>2. UpsertNodes(tree[build[th].node], B, build[th].snap) \in Tree
      BY <1>s, TreeOperators DEF Build
    <2>3. tree' \in [Node -> Tree] /\ build' \in [Thread -> Build]
      BY <1>0, <1>s, <2>1, <2>2 DEF Build
    <2> QED
      BY <1>2, <1>0, <2>3 DEF PersistNodes, TypeOK
  <1>3. CASE FinishBuild(th)
    <2>1. BuildMerkleTree(build[th].snap) \in Tree
      BY <1>s, TreeOperators DEF Build
    <2>2. sess' \in [Caller -> Session]
      <3>1. CASE sess' = [sess EXCEPT ![th[1]].pc = "root",
                                      ![th[1]].local = BuildMerkleTree(build[th].snap)]
        BY <1>0, <1>s, <2>1, <3>1 DEF Session
      <3>2. ASSUME NEW steady \in BOOLEAN,
                   AnswerRoot(th[1], BuildMerkleTree(build[th].snap), steady)
            PROVE  sess' \in [Caller -> Session]
        BY <1>s, <2>1, <3>2, AnswerRootType
      <3> QED
        BY <1>3, <1>0, <1>f, <3>1, <3>2 DEF FinishBuild
    <2>3. build' \in [Thread -> Build]
      BY <1>3, <1>0, <1>n DEF FinishBuild
    <2> QED
      BY <1>3, <1>0, <2>2, <2>3 DEF FinishBuild, TypeOK
  <1>4. CASE BuildFails(th)
    <2>1. sess' \in [Caller -> Session] /\ build' \in [Thread -> Build]
      BY <1>4, <1>0, <1>s, <1>n DEF BuildFails, Session
    <2> QED
      BY <1>4, <1>0, <2>1 DEF BuildFails, TypeOK
  <1> QED
    BY <1>1, <1>2, <1>3, <1>4 DEF BuildStep

\* The first copies of S are messages of S.
LEMMA MessagesSinceFacts ==
  ASSUME NEW S \in SUBSET Message, NEW since
  PROVE  /\ MessagesSince(S, since) \in SUBSET Message
         /\ MessagesSince(S, since) \subseteq S
  BY DEF MessagesSince, Oldest

\* A message in flight has the fields of its type.
LEMMA NetFields ==
  ASSUME TypeOK, NEW m \in net
  PROVE  /\ m.to \in Node
         /\ m.type = "live" => m \in LiveMessage /\ m.hlc \in Hlc
         /\ m.type = "request" => m \in RequestMessage /\ m.from \in Node
         /\ m.type = "response" => m \in ResponseMessage /\ m.batch \in SUBSET Message
  <1>1. m \in LiveMessage \/ m \in RequestMessage \/ m \in ResponseMessage
    BY DEF TypeOK
  <1>2. CASE m \in LiveMessage
    BY <1>2 DEF LiveMessage
  <1>3. CASE m \in RequestMessage
    BY <1>3 DEF RequestMessage
  <1>4. CASE m \in ResponseMessage
    BY <1>4 DEF ResponseMessage
  <1> QED
    BY <1>1, <1>2, <1>3, <1>4

LEMMA TypeStep ==
  ASSUME TypeOK, [Next]_vars
  PROVE  TypeOK'
  <1>0. /\ store \in [Node -> SUBSET Message]
        /\ tree \in [Node -> Tree]
        /\ last \in [Node -> Hlc \cup {NoHlc}]
        /\ sess \in [Caller -> Session]
        /\ build \in [Thread -> Build]
        /\ net \subseteq LiveMessage \cup RequestMessage \cup ResponseMessage
        /\ clock \in [day : Nat, midnight : BOOLEAN]
    BY DEF TypeOK
  <1>n. \A c \in Caller : NoSession(c) \in Session
    <2>1. \A c \in Caller : Home[c] \in Node
      BY ConstantsOK
    <2>2. EmptyTree \in Tree
      BY DEF EmptyTree, Tree
    <2> QED
      BY <2>1, <2>2 DEF NoSession, Session, NoWork, NoHlc
  <1>b. \A th \in Thread : NoBuild(th) \in Build
    BY ConstantsOK DEF NoBuild, Build, Thread
  <1>1. ASSUME NEW n \in Node, NEW h \in Hlc, SendMessage(n, h)
        PROVE  TypeOK'
    <2>1. {[hlc |-> h, cipher |-> n]} \in SUBSET Message
      BY DEF Message
    <2>2. InsertMessages(store[n], {[hlc |-> h, cipher |-> n]}) \in SUBSET Message
      <3>1. store[n] \in SUBSET Message
        BY <1>0
      <3> QED
        BY <2>1, <3>1, InsertMessagesFacts
    <2>3. store' \in [Node -> SUBSET Message] /\ last' \in [Node -> Hlc \cup {NoHlc}]
      BY <1>0, <1>1, <2>2 DEF SendMessage
    <2>4. net' \subseteq LiveMessage \cup RequestMessage \cup ResponseMessage
      BY <1>0, <1>1 DEF SendMessage, LiveMessage
    <2> QED
      BY <1>0, <1>1, <2>3, <2>4 DEF SendMessage, TypeOK
  <1>2. ASSUME NEW c \in Caller, NEW p \in Node, ListConversation(c, p)
        PROVE  TypeOK'
    <2>1. last[Home[c]] \in Hlc \cup {NoHlc} /\ NoSession(c) \in Session
      BY <1>0, <1>n, ConstantsOK
    <2>2. [NoSession(c) EXCEPT !.pc = "listed", !.peer = p, !.since = last[Home[c]]] \in Session
      BY <2>1 DEF Session, NoSession
    <2>3. sess' \in [Caller -> Session]
      BY <1>0, <1>2, <2>2 DEF ListConversation
    <2> QED
      BY <1>0, <1>2, <2>3 DEF ListConversation, TypeOK
  <1>3. ASSUME NEW c \in Caller, SessionStep(c)
        PROVE  TypeOK'
    BY <1>3, SessionStepType
  <1>12. ASSUME NEW th \in Thread, BuildStep(th)
         PROVE  TypeOK'
    BY <1>12, BuildStepType
  <1>4. ASSUME NEW n \in Node, FreezePreviousDay(n)
        PROVE  TypeOK'
    <2>1. PruneOldBuckets(FreezeDays(tree[n], {clock.day - 1}), clock.day) \in Tree
      BY <1>0, TreeOperators
    <2> QED
      BY <1>0, <1>4, <2>1 DEF FreezePreviousDay, TypeOK
  <1>5. ASSUME NEW n \in Node, Restart(n)
        PROVE  TypeOK'
    <2>1. PruneOldBuckets(FreezeDays(tree[n], 0 .. clock.day - 1), clock.day) \in Tree
      BY <1>0, TreeOperators
    <2>2. tree' \in [Node -> Tree]
      BY <1>0, <1>5, <2>1 DEF Restart
    <2>3. build' \in [Thread -> Build]
      BY <1>0, <1>b, <1>5 DEF Restart
    <2>4. \A c \in Caller : [sess[c] EXCEPT !.pc = "failed"] \in Session
      BY <1>0, FailedSession
    <2>5. sess' \in [Caller -> Session]
      BY <1>0, <1>n, <1>5, <2>4 DEF Restart
    <2> QED
      BY <1>0, <1>5, <2>2, <2>3, <2>5 DEF Restart, TypeOK
  <1>6. ASSUME NEW m \in net, ReceiveMessage(m)
        PROVE  TypeOK'
    <2>1. m.to \in Node /\ m.hlc \in Hlc
      BY <1>6, NetFields DEF ReceiveMessage
    <2>2. {[hlc |-> m.hlc, cipher |-> m.to]} \in SUBSET Message
      BY <2>1 DEF Message
    <2>3. InsertMessages(store[m.to], {[hlc |-> m.hlc, cipher |-> m.to]}) \in SUBSET Message
      <3>1. store[m.to] \in SUBSET Message
        BY <1>0, <2>1
      <3> QED
        BY <2>2, <3>1, InsertMessagesFacts
    <2> QED
      BY <1>0, <1>6, <2>1, <2>3 DEF ReceiveMessage, InsertFails, TypeOK
  <1>7. ASSUME NEW m \in net, AnswerSyncRequest(m)
        PROVE  TypeOK'
    <2>1. m.to \in Node /\ m.from \in Node
      BY <1>7, NetFields DEF AnswerSyncRequest
    <2>2. MessagesSince(store[m.to], m.since) \in SUBSET Message
      BY <1>0, <2>1, MessagesSinceFacts
    <2>3. net' \subseteq LiveMessage \cup RequestMessage \cup ResponseMessage
      BY <1>0, <1>7, <2>1, <2>2 DEF AnswerSyncRequest, ResponseMessage
    <2> QED
      BY <1>0, <1>7, <2>3 DEF AnswerSyncRequest, TypeOK
  <1>8. ASSUME NEW m \in net, ReceiveSyncResponse(m)
        PROVE  TypeOK'
    <2>1. m.to \in Node /\ m.batch \in SUBSET Message
      BY <1>8, NetFields DEF ReceiveSyncResponse
    <2>2. InsertMessages(store[m.to], m.batch) \in SUBSET Message
      <3>1. store[m.to] \in SUBSET Message
        BY <1>0, <2>1
      <3> QED
        BY <2>1, <3>1, InsertMessagesFacts
    <2>3. last' \in [Node -> Hlc \cup {NoHlc}]
      BY <1>8, UpdateLastHlcType DEF ReceiveSyncResponse
    <2> QED
      BY <1>0, <1>8, <2>1, <2>2, <2>3 DEF ReceiveSyncResponse, InsertFails, TypeOK
  <1>9. CASE Midnight
    BY <1>0, <1>9 DEF Midnight, TypeOK
  <1>10. CASE MidnightPasses
    BY <1>0, <1>10 DEF MidnightPasses, TypeOK
  <1>11. CASE UNCHANGED vars
    BY <1>0, <1>11 DEF vars, TypeOK
  <1> QED
    BY <1>1, <1>2, <1>3, <1>4, <1>5, <1>6, <1>7, <1>8, <1>9, <1>10, <1>11, <1>12
    DEF Next, OtherStep

LEMMA InitTypeOK == Init => TypeOK
  <1>1. EmptyTree \in Tree
    BY DEF EmptyTree, Tree
  <1>2. \A c \in Caller : Home[c] \in Node
    BY ConstantsOK
  <1>3. \A c \in Caller : NoSession(c) \in Session
    BY <1>1, <1>2 DEF NoSession, Session, NoWork, NoHlc
  <1>4. \A th \in Thread : NoBuild(th) \in Build
    BY <1>2 DEF NoBuild, Build, Thread
  <1> QED
    BY <1>1, <1>3, <1>4 DEF Init, TypeOK, NoHlc

\* Every variable keeps its type, in particular every tree has its frozen
\* nodes among its nodes and every session its tasks about real buckets.
THEOREM TypeCorrect == Spec => []TypeOK
  <1>1. Init => TypeOK
    BY InitTypeOK
  <1>2. TypeOK /\ [Next]_vars => TypeOK'
    BY TypeStep
  <1> QED
    BY <1>1, <1>2, PTL DEF Spec

-----------------------------------------------------------------------------
(***************************************************************************)
(* The messages table.  Whatever a step does, it inserts a batch that has  *)
(* one copy per HLC into the store of at most one node; a batch comes from *)
(* a store, or from a response that was read from one earlier.             *)
(***************************************************************************)
ResponsesOneCopy == \A m \in net : m.type = "response" => OneCopy(m.batch)

StoreInv == TypeOK /\ OneCopyPerHlc /\ ResponsesOneCopy

Inserts(n, batch) ==
  /\ batch \in SUBSET Message /\ OneCopy(batch)
  /\ store' = [store EXCEPT ![n] = InsertMessages(@, batch)]

\* A message is known when a node holds it, or it is on its way to one.
InFlight(h) ==
  \E m \in net : \/ m.type = "live" /\ m.hlc = h
                 \/ m.type = "response" /\ h \in Hlcs(m.batch)

Known(h) == InFlight(h) \/ \E n \in Node : h \in Hlcs(store[n])

\* What is inserted is known already, or it is what its author writes.
Found(n, batch) ==
  \/ \A h \in Hlcs(batch) : Known(h)
  \/ \E h \in Hlc : SendMessage(n, h) /\ Hlcs(batch) = {h}

Supplies(n, batch) == Inserts(n, batch) /\ Found(n, batch)

LEMMA StoreStep ==
  ASSUME StoreInv, [Next]_vars
  PROVE  UNCHANGED store \/ \E n \in Node : \E batch : Supplies(n, batch)
  <1>0. store \in [Node -> SUBSET Message] /\ sess \in [Caller -> Session] /\ TypeOK
    BY DEF StoreInv, TypeOK
  <1>c. \A n \in Node : OneCopy(store[n])
    BY DEF StoreInv, OneCopyPerHlc, OneCopy
  <1>p. \A c \in Caller : sess[c].peer \in Node /\ Home[c] \in Node
    BY <1>0, ConstantsOK DEF Session
  <1>b. \A n \in Node : \A b : InBucket(store[n], b) \in SUBSET Message /\ OneCopy(InBucket(store[n], b))
    BY <1>0, <1>c DEF InBucket, OneCopy
  <1>k. ASSUME NEW n \in Node, NEW b, NEW k PROVE Found(k, InBucket(store[n], b))
    BY DEF Found, Known, InBucket, Hlcs
  <1>1. ASSUME NEW n \in Node, NEW h \in Hlc, SendMessage(n, h)
        PROVE  \E batch : Supplies(n, batch)
    <2>1. Inserts(n, {[hlc |-> h, cipher |-> n]})
      BY <1>1 DEF Inserts, SendMessage, OneCopy, Message
    <2>2. Found(n, {[hlc |-> h, cipher |-> n]})
      BY <1>1 DEF Found, Hlcs
    <2> QED
      BY <2>1, <2>2 DEF Supplies
  <1>2. ASSUME NEW c \in Caller, SessionStep(c)
        PROVE  UNCHANGED store \/ \E k \in Node : \E batch : Supplies(k, batch)
    <2>1. ASSUME NEW l \in Level, NEW k \in sess[c].work[l], FetchBucket(c, l, k)
          PROVE  \E batch : Supplies(Home[c], batch)
      <3>1. Inserts(Home[c], InBucket(store[sess[c].peer], k.bucket))
        BY <2>1, <1>p, <1>b DEF FetchBucket, Inserts
      <3> QED
        BY <3>1, <1>p, <1>k DEF Supplies
    <2>2. ASSUME NEW l \in Level, NEW k \in sess[c].work[l], PushBucket(c, l, k)
          PROVE  \E batch : Supplies(sess[c].peer, batch)
      <3>1. Inserts(sess[c].peer, InBucket(store[Home[c]], k.bucket))
        BY <2>2, <1>p, <1>b DEF PushBucket, Inserts
      <3> QED
        BY <3>1, <1>p, <1>k DEF Supplies
    <2> QED
      BY <1>2, <1>p, <2>1, <2>2
      DEF SessionStep, LoadLocalTree, BuildLocalTree, RequestRoot, AskRoot, CompareYears,
          DrillDown, FetchUnparsable, RequestFails, FinishComparison, EndSession, FallBack
  <1>3. ASSUME NEW m \in net, ReceiveMessage(m)
        PROVE  UNCHANGED store \/ \E n \in Node : \E batch : Supplies(n, batch)
    <2>1. m.to \in Node /\ m.hlc \in Hlc
      BY <1>0, <1>3, NetFields DEF ReceiveMessage
    <2>2. UNCHANGED store \/ Inserts(m.to, {[hlc |-> m.hlc, cipher |-> m.to]})
      BY <1>3, <2>1 DEF Inserts, InsertFails, ReceiveMessage, OneCopy, Message
    <2>3. Found(m.to, {[hlc |-> m.hlc, cipher |-> m.to]})
      <3>1. Known(m.hlc)
        <4>1. m.type = "live"
          BY <1>3 DEF ReceiveMessage
        <4> QED
          BY <4>1 DEF Known, InFlight
      <3> QED
        BY <3>1 DEF Found, Hlcs
    <2> QED
      BY <2>1, <2>2, <2>3 DEF Supplies
  <1>4. ASSUME NEW m \in net, ReceiveSyncResponse(m)
        PROVE  UNCHANGED store \/ \E n \in Node : \E batch : Supplies(n, batch)
    <2>1. m.to \in Node /\ m.batch \in SUBSET Message
      BY <1>0, <1>4, NetFields DEF ReceiveSyncResponse
    <2>2. OneCopy(m.batch)
      BY <1>4 DEF StoreInv, ResponsesOneCopy, ReceiveSyncResponse
    <2>3. UNCHANGED store \/ Inserts(m.to, m.batch)
      BY <1>4, <2>1, <2>2 DEF Inserts, InsertFails, ReceiveSyncResponse
    <2>4. Found(m.to, m.batch)
      BY <1>4 DEF ReceiveSyncResponse, Found, Known, InFlight
    <2> QED
      BY <2>1, <2>3, <2>4 DEF Supplies
  <1>5. ASSUME NEW n \in Node, FreezePreviousDay(n) \/ Restart(n)
        PROVE  UNCHANGED store
    BY <1>5 DEF FreezePreviousDay, Restart
  <1>7. ASSUME NEW c \in Caller, NEW p \in Node, ListConversation(c, p)
        PROVE  UNCHANGED store
    BY <1>7 DEF ListConversation
  <1>8. ASSUME NEW th \in Thread, BuildStep(th)
        PROVE  UNCHANGED store
    BY <1>8 DEF BuildStep, ReadMessages, PersistNodes, FinishBuild, BuildFails
  <1>6. ASSUME \/ \E m \in net : AnswerSyncRequest(m)
               \/ Midnight \/ MidnightPasses \/ UNCHANGED vars
        PROVE  UNCHANGED store
    BY <1>6 DEF AnswerSyncRequest, Midnight, MidnightPasses, vars
  <1> QED
    BY <1>1, <1>2, <1>3, <1>4, <1>5, <1>6, <1>7, <1>8 DEF Next, OtherStep

\* A session puts nothing in flight before it fails, and neither does a build.
LEMMA SendsNothing ==
  /\ \A c \in Caller : SessionStep(c) => UNCHANGED net \/ FallBack(c)
  /\ \A th \in Thread : BuildStep(th) => UNCHANGED net
  /\ \A n \in Node : FreezePreviousDay(n) \/ Restart(n) => UNCHANGED net
  /\ \A c \in Caller : \A p \in Node : ListConversation(c, p) => UNCHANGED net
  <1>1. ASSUME NEW c \in Caller, NEW l, NEW k,
               \/ DrillDown(c, l, k) \/ FetchBucket(c, l, k)
               \/ FetchUnparsable(c, l, k) \/ PushBucket(c, l, k)
        PROVE  UNCHANGED net
    BY <1>1 DEF DrillDown, FetchBucket, FetchUnparsable, PushBucket
  <1>2. ASSUME NEW c \in Caller,
               \/ LoadLocalTree(c) \/ BuildLocalTree(c) \/ RequestRoot(c) \/ AskRoot(c)
               \/ CompareYears(c) \/ RequestFails(c) \/ FinishComparison(c) \/ EndSession(c)
        PROVE  UNCHANGED net
    BY <1>2 DEF LoadLocalTree, BuildLocalTree, RequestRoot, AskRoot, CompareYears,
                RequestFails, FinishComparison, EndSession
  <1>3. ASSUME NEW c \in Caller, SessionStep(c)
        PROVE  UNCHANGED net \/ FallBack(c)
    BY <1>1, <1>2, <1>3 DEF SessionStep
  <1>4. ASSUME NEW th \in Thread, BuildStep(th)
        PROVE  UNCHANGED net
    BY <1>4 DEF BuildStep, ReadMessages, PersistNodes, FinishBuild, BuildFails
  <1> QED
    BY <1>3, <1>4 DEF FreezePreviousDay, Restart, ListConversation

LEMMA ResponsesStep ==
  ASSUME StoreInv, [Next]_vars
  PROVE  ResponsesOneCopy'
  <1>0. store \in [Node -> SUBSET Message] /\ TypeOK
    BY DEF StoreInv, TypeOK
  <1>c. \A n \in Node : OneCopy(store[n])
    BY DEF StoreInv, OneCopyPerHlc, OneCopy
  <1>1. ASSUME NEW n \in Node, NEW h \in Hlc, SendMessage(n, h)
        PROVE  ResponsesOneCopy'
    BY <1>1 DEF SendMessage, ResponsesOneCopy, StoreInv
  <1>2. ASSUME NEW c \in Caller, FallBack(c)
        PROVE  ResponsesOneCopy'
    BY <1>2 DEF FallBack, ResponsesOneCopy, StoreInv
  <1>3. ASSUME NEW m \in net, AnswerSyncRequest(m)
        PROVE  ResponsesOneCopy'
    <2>1. m.to \in Node
      BY <1>0, NetFields
    <2>2. OneCopy(MessagesSince(store[m.to], m.since))
      BY <1>0, <1>c, <2>1, MessagesSinceFacts DEF OneCopy
    <2> QED
      BY <1>3, <2>2 DEF AnswerSyncRequest, ResponsesOneCopy, StoreInv
  <1>4. ASSUME NEW m \in net, ReceiveMessage(m) \/ ReceiveSyncResponse(m)
        PROVE  ResponsesOneCopy'
    BY <1>4 DEF ReceiveMessage, ReceiveSyncResponse, ResponsesOneCopy, StoreInv
  <1>5. ASSUME UNCHANGED net
        PROVE  ResponsesOneCopy'
    BY <1>5 DEF ResponsesOneCopy, StoreInv
  <1>6. ASSUME Midnight \/ MidnightPasses \/ UNCHANGED vars
        PROVE  UNCHANGED net
    BY <1>6 DEF Midnight, MidnightPasses, vars
  <1> QED
    BY <1>1, <1>2, <1>3, <1>4, <1>5, <1>6, SendsNothing DEF Next, OtherStep

LEMMA StoreInvariant == Spec => []StoreInv
  <1>1. Init => StoreInv
    <2>1. Init => TypeOK
      BY InitTypeOK
    <2> QED
      BY <2>1 DEF Init, StoreInv, OneCopyPerHlc, ResponsesOneCopy
  <1>2. StoreInv /\ [Next]_vars => StoreInv'
    <2> SUFFICES ASSUME StoreInv, [Next]_vars
                 PROVE  StoreInv'
      OBVIOUS
    <2>1. TypeOK'
      BY TypeStep DEF StoreInv
    <2>2. CASE UNCHANGED store
      BY <2>1, <2>2, ResponsesStep DEF StoreInv, OneCopyPerHlc
    <2>3. ASSUME NEW n \in Node, NEW batch, Inserts(n, batch)
          PROVE  OneCopyPerHlc'
      <3>1. store \in [Node -> SUBSET Message] /\ \A k \in Node : OneCopy(store[k])
        BY DEF StoreInv, TypeOK, OneCopyPerHlc, OneCopy
      <3>2. store[n] \in SUBSET Message /\ OneCopy(store[n])
        BY <3>1
      <3>3. OneCopy(InsertMessages(store[n], batch))
        BY <2>3, <3>2, InsertMessagesFacts DEF Inserts
      <3>4. \A k \in Node : OneCopy(store'[k])
        BY <2>3, <3>1, <3>3 DEF Inserts
      <3> QED
        BY <3>4 DEF OneCopyPerHlc, OneCopy
    <2> QED
      BY <2>1, <2>2, <2>3, StoreStep, ResponsesStep DEF StoreInv, Supplies
  <1> QED
    BY <1>1, <1>2, PTL DEF Spec

\* No interleaving of live delivery, fetches, pushes and linear responses
\* leaves a node with two copies of one message.
THEOREM OneCopyCorrect == Spec => []OneCopyPerHlc
  <1>1. StoreInv => OneCopyPerHlc
    BY DEF StoreInv
  <1> QED
    BY <1>1, StoreInvariant, PTL

\* A step that inserts a batch keeps every stored copy as it is.
LEMMA StoreGrows ==
  ASSUME StoreInv, [Next]_vars
  PROVE  \A n \in Node : store[n] \subseteq store'[n]
  <1>1. store \in [Node -> SUBSET Message]
    BY DEF StoreInv, TypeOK
  <1>2. ASSUME NEW k \in Node, NEW batch, Inserts(k, batch)
        PROVE  \A n \in Node : store[n] \subseteq store'[n]
    <2>1. store[k] \in SUBSET Message
      BY <1>1
    <2>2. store[k] \subseteq InsertMessages(store[k], batch)
      BY <1>2, <2>1, InsertMessagesFacts DEF Inserts
    <2> QED
      BY <1>1, <1>2, <2>2 DEF Inserts
  <1> QED
    BY <1>2, StoreStep DEF Supplies

\* The messages table only grows, and what is stored is never overwritten.
THEOREM StoredMessagesKept == Spec => MessagesKept
  <1>1. StoreInv /\ [Next]_vars => [\A n \in Node : store[n] \subseteq store'[n]]_vars
    BY StoreGrows
  <1> QED
    BY <1>1, StoreInvariant, PTL DEF Spec, MessagesKept

(* The replication of the conversation.  Whatever is known is held by its author. *)

ReplicationInv == \A h : Known(h) => h \in Replicated!Written

\* A message comes to be known when its author sends it, and not otherwise.
LEMMA KnownStep ==
  ASSUME StoreInv, [Next]_vars, NEW h, Known(h)'
  PROVE  Known(h) \/ (h \in Hlc /\ \E n \in Node : SendMessage(n, h))
  <1>0. store \in [Node -> SUBSET Message] /\ TypeOK
    BY DEF StoreInv, TypeOK
  <1>1. CASE \E n \in Node : h \in Hlcs(store'[n])
    <2>1. PICK n \in Node : h \in Hlcs(store'[n])
      BY <1>1
    <2>2. CASE h \in Hlcs(store[n])
      BY <2>2 DEF Known
    <2>3. ASSUME NEW k \in Node, NEW batch, Supplies(k, batch), h \notin Hlcs(store[n])
          PROVE  Known(h) \/ (h \in Hlc /\ \E i \in Node : SendMessage(i, h))
      <3>1. h \in Hlcs(batch)
        BY <1>0, <2>1, <2>3 DEF Supplies, Inserts, InsertMessages, Hlcs
      <3> QED
        BY <2>3, <3>1 DEF Supplies, Found
    <2> QED
      BY <2>1, <2>2, <2>3, StoreStep
  <1>2. CASE InFlight(h)'
    <2>1. PICK m \in net' : \/ m.type = "live" /\ m.hlc = h
                            \/ m.type = "response" /\ h \in Hlcs(m.batch)
      BY <1>2 DEF InFlight
    <2>2. CASE m \in net
      BY <2>1, <2>2 DEF Known, InFlight
    <2>3. CASE m \notin net
      <3>1. ASSUME NEW n \in Node, NEW i \in Hlc, SendMessage(n, i)
            PROVE  h = i
        BY <2>1, <2>3, <3>1 DEF SendMessage
      <3>2. ASSUME NEW c \in Caller, FallBack(c)
            PROVE  FALSE
        BY <2>1, <2>3, <3>2 DEF FallBack
      <3>3. ASSUME NEW k \in net, AnswerSyncRequest(k)
            PROVE  Known(h)
        <4>1. k.to \in Node
          BY <1>0, NetFields
        <4>2. h \in Hlcs(MessagesSince(store[k.to], k.since))
          BY <2>1, <2>3, <3>3 DEF AnswerSyncRequest
        <4> QED
          BY <1>0, <4>1, <4>2, MessagesSinceFacts DEF Known, Hlcs
      <3>4. ASSUME NEW k \in net, ReceiveMessage(k) \/ ReceiveSyncResponse(k)
            PROVE  FALSE
        BY <2>3, <3>4 DEF ReceiveMessage, ReceiveSyncResponse
      <3>5. ASSUME UNCHANGED net
            PROVE  FALSE
        BY <2>3, <3>5
      <3>6. ASSUME Midnight \/ MidnightPasses \/ UNCHANGED vars
            PROVE  UNCHANGED net
        BY <3>6 DEF Midnight, MidnightPasses, vars
      <3> QED
        BY <3>1, <3>2, <3>3, <3>4, <3>5, <3>6, SendsNothing DEF Next, OtherStep
    <2> QED
      BY <2>2, <2>3
  <1> QED
    BY <1>1, <1>2 DEF Known

LEMMA ReplicationStep ==
  ASSUME StoreInv, ReplicationInv, [Next]_vars
  PROVE  ReplicationInv'
  <1>0. store \in [Node -> SUBSET Message]
    BY DEF StoreInv, TypeOK
  <1>1. ASSUME NEW h \in Replicated!Written
        PROVE  h \in Replicated!Written'
    <2>1. h \in Hlc /\ Author[h] \in Node /\ h \in Hlcs(store[Author[h]])
      BY ConstantsOK DEF Replicated!Written, Held
    <2>2. store[Author[h]] \subseteq store'[Author[h]]
      BY <2>1, StoreGrows
    <2> QED
      BY <2>1, <2>2 DEF Replicated!Written, Held, Hlcs
  <1>2. ASSUME NEW h \in Hlc, NEW n \in Node, SendMessage(n, h)
        PROVE  h \in Replicated!Written'
    <2>1. store'[n] = InsertMessages(store[n], {[hlc |-> h, cipher |-> n]}) /\ Author[h] = n
      BY <1>0, <1>2 DEF SendMessage
    <2>2. [hlc |-> h, cipher |-> n] \in store'[n]
      BY <1>2, <2>1 DEF SendMessage, InsertMessages, Hlcs
    <2>3. h \in Hlcs(store'[n])
      BY <2>2 DEF Hlcs
    <2> QED
      BY <2>1, <2>3 DEF Replicated!Written, Held
  <1> QED
    BY <1>1, <1>2, KnownStep DEF ReplicationInv

LEMMA ReplicationInvariant == Spec => [](StoreInv /\ ReplicationInv)
  <1>1. Init => ReplicationInv
    BY DEF Init, ReplicationInv, Known, InFlight, Hlcs
  <1>2. StoreInv /\ ReplicationInv /\ [Next]_vars => ReplicationInv'
    BY ReplicationStep
  <1> QED
    BY <1>1, <1>2, StoreInvariant, PTL DEF Spec

\* The nodes replicate the conversation: MerkleSync implements ReplicatedMessages.
THEOREM SyncReplicates == Spec => ReplicatesMessages
  <1>1. Init => Replicated!Init
    BY DEF Init, Replicated!Init, Held, Hlcs
  <1>2. StoreInv /\ ReplicationInv /\ [Next]_vars => [Replicated!Next]_Held
    <2> SUFFICES ASSUME StoreInv, ReplicationInv, [Next]_vars, UNCHANGED Held => FALSE
                 PROVE  Replicated!Next
      OBVIOUS
    <2>0. store \in [Node -> SUBSET Message]
      BY DEF StoreInv, TypeOK
    <2>1. PICK n \in Node : \E batch : Supplies(n, batch)
      BY StoreStep DEF Held
    <2>2. PICK batch : Supplies(n, batch)
      BY <2>1
    <2>3. Held' = [Held EXCEPT ![n] = @ \cup Hlcs(batch)]
      <3>1. Hlcs(InsertMessages(store[n], batch)) = Hlcs(store[n]) \cup Hlcs(batch)
        BY DEF InsertMessages, Hlcs
      <3>2. store' = [store EXCEPT ![n] = InsertMessages(@, batch)]
        BY <2>2 DEF Supplies, Inserts
      <3> QED
        BY <2>0, <3>1, <3>2 DEF Held
    <2>4. ASSUME \A h \in Hlcs(batch) : Known(h)
          PROVE  Replicated!Gain(n, Hlcs(batch)) /\ Hlcs(batch) \in SUBSET Replicated!Written
      BY <2>3, <2>4 DEF Replicated!Gain, ReplicationInv
    <2>5. ASSUME NEW h \in Hlc, SendMessage(n, h), Hlcs(batch) = {h}
          PROVE  Replicated!Write(h)
      <3>1. Author[h] = n /\ h \notin Hlcs(store[n])
        BY <2>5 DEF SendMessage
      <3>2. h \notin Replicated!Written
        BY <3>1 DEF Replicated!Written, Held
      <3> QED
        BY <2>3, <2>5, <3>1, <3>2 DEF Replicated!Write
    <2> QED
      BY <2>2, <2>4, <2>5 DEF Supplies, Found, Replicated!Next
  <1> QED
    BY <1>1, <1>2, ReplicationInvariant, PTL DEF Spec, ReplicatesMessages, Replicated!Spec

-----------------------------------------------------------------------------
(* The steps of sessions and of builds. *)

\* What the fields of a session are.
LEMMA SessionFields ==
  ASSUME TypeOK, NEW c \in Caller
  PROVE  /\ sess \in [Caller -> Session] /\ sess[c] \in Session
         /\ Home[c] \in Node /\ sess[c].peer \in Node /\ sess[c].local \in Tree
         /\ sess[c].work \in [Level -> SUBSET Task]
         /\ sess[c].remoteRoot \subseteq SUBSET Message
         /\ tree[sess[c].peer] \in Tree /\ tree[Home[c]] \in Tree
         /\ store[Home[c]] \in SUBSET Message /\ store[sess[c].peer] \in SUBSET Message
  BY ConstantsOK DEF TypeOK, Session

\* What the fields of a build are.
LEMMA BuildFields ==
  ASSUME TypeOK, NEW th \in Thread
  PROVE  /\ build \in [Thread -> Build] /\ build[th] \in Build
         /\ th[1] \in Caller /\ Home[th[1]] \in Node
         /\ build[th].node \in Node /\ build[th].snap \in SUBSET Message
         /\ build[th].rows \in SUBSET Bucket
         /\ tree[build[th].node] \in Tree /\ store[build[th].node] \in SUBSET Message
  BY ConstantsOK DEF TypeOK, Build, Thread

LEMMA AnswerRootFacts ==
  ASSUME TypeOK, NEW c \in Caller, NEW u, NEW steady, AnswerRoot(c, u, steady)
  PROVE  /\ \A d \in Caller \ {c} : sess'[d] = sess[d]
         /\ sess'[c].peer = sess[c].peer /\ sess'[c].local = sess[c].local
         /\ sess'[c].work = sess[c].work
         /\ sess'[c].remoteRoot = RootHash(u) /\ sess'[c].steady = steady
         /\ sess'[c].pc = IF RootsMatch(sess[c].local, RootHash(u)) THEN "done" ELSE "compare"
  <1>1. sess \in [Caller -> Session] /\ sess[c] \in Session
    BY SessionFields
  <1> QED
    BY <1>1 DEF AnswerRoot, Session

LEMMA AnswerLostFacts ==
  ASSUME TypeOK, NEW c \in Caller, AnswerLost(c)
  PROVE  /\ \A d \in Caller \ {c} : sess'[d] = sess[d]
         /\ sess'[c] = [sess[c] EXCEPT !.pc = "failed"] /\ sess'[c].pc = "failed"
         /\ sess'[c].peer = sess[c].peer /\ sess'[c].local = sess[c].local
         /\ sess'[c].work = sess[c].work /\ sess'[c].remoteRoot = sess[c].remoteRoot
         /\ sess'[c].steady = sess[c].steady
  <1>1. sess \in [Caller -> Session] /\ sess[c] \in Session
    BY SessionFields
  <1> QED
    BY <1>1 DEF AnswerLost, Session

\* A step of a session, or of a build for it, touches no other session.
LEMMA OtherSessions ==
  ASSUME TypeOK, NEW c \in Caller, NEW d \in Caller, d # c
  PROVE  /\ SessionStep(c) => sess'[d] = sess[d]
         /\ \A th \in Thread : th[1] = c /\ BuildStep(th) => sess'[d] = sess[d]
         /\ \A p \in Node : ListConversation(c, p) => sess'[d] = sess[d]
  <1>0. sess \in [Caller -> Session]
    BY DEF TypeOK
  <1>f. AnswerLost(c) => sess'[d] = sess[d]
    BY AnswerLostFacts
  <1>g. \A u, steady : AnswerRoot(c, u, steady) => sess'[d] = sess[d]
    BY AnswerRootFacts
  <1>1. ASSUME NEW l, NEW k, DrillDown(c, l, k) \/ FetchBucket(c, l, k)
        PROVE  sess'[d] = sess[d]
    BY <1>0, <1>1 DEF DrillDown, FetchBucket
  <1>2. ASSUME NEW l, NEW k, FetchUnparsable(c, l, k) \/ PushBucket(c, l, k)
        PROVE  sess'[d] = sess[d]
    BY <1>0, <1>f, <1>2 DEF FetchUnparsable, PushBucket
  <1>3. LoadLocalTree(c) \/ BuildLocalTree(c) \/ AskRoot(c) \/ CompareYears(c)
          => sess'[d] = sess[d]
    BY <1>0 DEF LoadLocalTree, BuildLocalTree, AskRoot, CompareYears
  <1>4. RequestRoot(c) \/ RequestFails(c) => sess'[d] = sess[d]
    BY <1>f, <1>g DEF RequestRoot, RequestFails
  <1>5. FinishComparison(c) \/ EndSession(c) \/ FallBack(c) => sess'[d] = sess[d]
    BY <1>0 DEF FinishComparison, EndSession, FallBack
  <1>6. SessionStep(c) => sess'[d] = sess[d]
    BY <1>1, <1>2, <1>3, <1>4, <1>5 DEF SessionStep
  <1>7. ASSUME NEW th \in Thread, th[1] = c, BuildStep(th)
        PROVE  sess'[d] = sess[d]
    <2>1. ReadMessages(th) \/ PersistNodes(th) => UNCHANGED sess
      BY DEF ReadMessages, PersistNodes
    <2>2. FinishBuild(th) => sess'[d] = sess[d]
      BY <1>0, <1>7, <1>f, <1>g DEF FinishBuild
    <2>3. BuildFails(th) => sess'[d] = sess[d]
      BY <1>0, <1>7 DEF BuildFails
    <2> QED
      BY <1>7, <2>1, <2>2, <2>3 DEF BuildStep
  <1>8. \A p \in Node : ListConversation(c, p) => sess'[d] = sess[d]
    BY <1>0 DEF ListConversation
  <1> QED
    BY <1>6, <1>7, <1>8

\* A session moves by its own steps and at the end of a build for it; it starts and
\* is cut off without any tasks.
LEMMA SessionMoves ==
  ASSUME TypeOK, [Next]_vars, NEW c \in Caller
  PROVE  \/ sess'[c] = sess[c]
         \/ SessionStep(c)
         \/ \E th \in Thread : th[1] = c /\ (FinishBuild(th) \/ BuildFails(th))
         \/ sess[c].pc = "idle" /\ \E p \in Node : ListConversation(c, p)
         \/ Restart(Home[c]) /\ sess'[c] = NoSession(c)
         \/ sess[c].pc = "asked" /\ sess'[c] = [sess[c] EXCEPT !.pc = "failed"]
  <1>0. sess \in [Caller -> Session]
    BY DEF TypeOK
  <1>1. ASSUME NEW d \in Caller, SessionStep(d), d # c
        PROVE  sess'[c] = sess[c]
    BY <1>1, OtherSessions
  <1>2. ASSUME NEW th \in Thread, BuildStep(th)
        PROVE  \/ sess'[c] = sess[c]
               \/ th[1] = c /\ (FinishBuild(th) \/ BuildFails(th))
    <2>1. th[1] \in Caller
      BY BuildFields
    <2>2. CASE th[1] # c
      BY <1>2, <2>1, <2>2, OtherSessions
    <2>3. CASE th[1] = c
      BY <1>2, <2>3 DEF BuildStep, ReadMessages, PersistNodes
    <2> QED
      BY <2>2, <2>3
  <1>3. ASSUME NEW d \in Caller, NEW p \in Node, ListConversation(d, p)
        PROVE  sess'[c] = sess[c] \/ (sess[c].pc = "idle" /\ ListConversation(c, p))
    <2>1. CASE d # c
      BY <1>3, <2>1, OtherSessions
    <2>2. CASE d = c
      BY <1>3, <2>2 DEF ListConversation
    <2> QED
      BY <2>1, <2>2
  <1>4. ASSUME NEW n \in Node, Restart(n)
        PROVE  \/ sess'[c] = sess[c]
               \/ Restart(Home[c]) /\ sess'[c] = NoSession(c)
               \/ sess[c].pc = "asked" /\ sess'[c] = [sess[c] EXCEPT !.pc = "failed"]
    <2>1. sess'[c] = IF Home[c] = n THEN NoSession(c)
                     ELSE IF sess[c].pc = "asked" /\ sess[c].peer = n
                          THEN [sess[c] EXCEPT !.pc = "failed"] ELSE sess[c]
      BY <1>4 DEF Restart
    <2> QED
      BY <1>4, <2>1
  <1>5. ASSUME \/ \E n \in Node : \/ \E h \in Hlc : SendMessage(n, h)
                                  \/ FreezePreviousDay(n)
               \/ \E m \in net : \/ ReceiveMessage(m) \/ AnswerSyncRequest(m)
                               \/ ReceiveSyncResponse(m)
               \/ Midnight \/ MidnightPasses \/ UNCHANGED vars
        PROVE  UNCHANGED sess
    BY <1>5 DEF SendMessage, FreezePreviousDay, ReceiveMessage, AnswerSyncRequest,
                ReceiveSyncResponse, Midnight, MidnightPasses, vars
  <1> QED
    BY <1>1, <1>2, <1>3, <1>4, <1>5 DEF Next, OtherStep

\* A build begins where no tree is stored, goes on by its own steps and ends.
LEMMA BuildMoves ==
  ASSUME TypeOK, [Next]_vars, NEW th \in Thread
  PROVE  \/ build'[th] = build[th]
         \/ /\ build'[th] = NoBuild(th)
            /\ FinishBuild(th) \/ BuildFails(th) \/ Restart(build[th].node)
         \/ /\ build'[th].pc = "read"
            /\ th[2] = "handler" => build[th].pc = "idle"
            /\ build'[th].snap = {} /\ build'[th].rows = {} /\ build'[th].node \in Node
            /\ ~ HasTree(tree[build'[th].node])
            /\ th[2] = "session" =>
                 build'[th].node = Home[th[1]] /\ sess'[th[1]].pc = "build"
         \/ ReadMessages(th)
         \/ PersistNodes(th)
  <1>0. build \in [Thread -> Build] /\ build[th] \in Build /\ sess \in [Caller -> Session]
    BY BuildFields DEF TypeOK
  <1>1. ASSUME NEW c \in Caller, NEW s \in {"session", "handler"}, NEW n \in Node,
               BeginBuild(<<c, s>>, n)
        PROVE  \/ build'[th] = build[th]
               \/ /\ th[1] = c /\ th[2] = s
                  /\ build'[th].pc = "read" /\ build'[th].node = n
                  /\ build'[th].snap = {} /\ build'[th].rows = {}
    BY <1>0, <1>1 DEF BeginBuild, NoBuild
  <1>2. ASSUME NEW c \in Caller, SessionStep(c)
        PROVE  \/ build'[th] = build[th]
               \/ /\ build'[th].pc = "read"
                  /\ th[2] = "handler" => build[th].pc = "idle"
                  /\ build'[th].snap = {} /\ build'[th].rows = {} /\ build'[th].node \in Node
                  /\ ~ HasTree(tree[build'[th].node])
                  /\ th[2] = "session" =>
                       build'[th].node = Home[th[1]] /\ sess'[th[1]].pc = "build"
    <2>0. Home[c] \in Node /\ sess[c].peer \in Node
      BY SessionFields
    <2> DEFINE Begun == /\ build'[th].pc = "read"
                        /\ th[2] = "handler" => build[th].pc = "idle"
                        /\ build'[th].snap = {} /\ build'[th].rows = {} /\ build'[th].node \in Node
                        /\ ~ HasTree(tree[build'[th].node])
                        /\ th[2] = "session" =>
                             build'[th].node = Home[th[1]] /\ sess'[th[1]].pc = "build"
    <2>1. ASSUME BuildLocalTree(c) PROVE build'[th] = build[th] \/ Begun
      <3>1. sess'[c].pc = "build" /\ ~ HasTree(tree[Home[c]])
        BY <1>0, <2>1 DEF BuildLocalTree, Session
      <3>2. BeginBuild(<<c, "session">>, Home[c])
        BY <2>1 DEF BuildLocalTree
      <3>3. \/ build'[th] = build[th]
            \/ /\ th[1] = c /\ th[2] = "session"
               /\ build'[th].pc = "read" /\ build'[th].node = Home[c]
               /\ build'[th].snap = {} /\ build'[th].rows = {}
        BY <1>1, <2>0, <3>2
      <3> QED
        BY <2>0, <3>1, <3>3
    <2>2. ASSUME AskRoot(c) PROVE build'[th] = build[th] \/ Begun
      <3>1. /\ BeginBuild(<<c, "handler">>, sess[c].peer) /\ ~ HasTree(tree[sess[c].peer])
            /\ build[<<c, "handler">>].pc = "idle"
        BY <2>2 DEF AskRoot
      <3>2. \/ build'[th] = build[th]
            \/ /\ th[2] = "handler" /\ build[<<c, "handler">>] = build[th]
               /\ build'[th].pc = "read" /\ build'[th].node = sess[c].peer
               /\ build'[th].snap = {} /\ build'[th].rows = {}
        BY <1>0, <2>0, <3>1 DEF BeginBuild, NoBuild
      <3> QED
        BY <2>0, <3>1, <3>2
    <2>3. ASSUME NEW l, NEW k,
                 \/ DrillDown(c, l, k) \/ FetchBucket(c, l, k)
                 \/ FetchUnparsable(c, l, k) \/ PushBucket(c, l, k)
          PROVE  UNCHANGED build
      BY <2>3 DEF DrillDown, FetchBucket, FetchUnparsable, PushBucket
    <2>4. ASSUME \/ LoadLocalTree(c) \/ RequestRoot(c) \/ CompareYears(c) \/ RequestFails(c)
                 \/ FinishComparison(c) \/ EndSession(c) \/ FallBack(c)
          PROVE  UNCHANGED build
      BY <2>4 DEF LoadLocalTree, RequestRoot, CompareYears, RequestFails, FinishComparison,
             EndSession, FallBack
    <2>5. BuildLocalTree(c) \/ AskRoot(c) \/ UNCHANGED build
      BY <1>2, <2>3, <2>4 DEF SessionStep
    <2>6. build'[th] = build[th] \/ Begun
      <3> HIDE DEF Begun
      <3> QED
        BY <2>1, <2>2, <2>5
    <2> QED
      BY <2>6 DEF Begun
  <1>3. ASSUME NEW i \in Thread, BuildStep(i)
        PROVE  \/ build'[th] = build[th]
               \/ build'[th] = NoBuild(th) /\ (FinishBuild(th) \/ BuildFails(th))
               \/ ReadMessages(th) \/ PersistNodes(th)
    <2>1. CASE i # th
      BY <1>0, <1>3, <2>1 DEF BuildStep, ReadMessages, PersistNodes, FinishBuild, BuildFails
    <2>2. CASE i = th
      BY <1>0, <1>3, <2>2 DEF BuildStep, FinishBuild, BuildFails
    <2> QED
      BY <2>1, <2>2
  <1>4. ASSUME NEW n \in Node, Restart(n)
        PROVE  \/ build'[th] = build[th]
               \/ build'[th] = NoBuild(th) /\ Restart(build[th].node)
    <2>1. build'[th] = IF build[th].node = n THEN NoBuild(th) ELSE build[th]
      BY <1>4 DEF Restart
    <2> QED
      BY <1>4, <2>1
  <1>5. ASSUME \/ \E n \in Node : \/ \E h \in Hlc : SendMessage(n, h)
                                  \/ FreezePreviousDay(n)
               \/ \E c \in Caller, p \in Node : ListConversation(c, p)
               \/ \E m \in net : \/ ReceiveMessage(m) \/ AnswerSyncRequest(m)
                               \/ ReceiveSyncResponse(m)
               \/ Midnight \/ MidnightPasses \/ UNCHANGED vars
        PROVE  UNCHANGED build
    BY <1>5 DEF SendMessage, ListConversation, FreezePreviousDay, ReceiveMessage,
                AnswerSyncRequest, ReceiveSyncResponse, Midnight, MidnightPasses, vars
  <1> QED
    BY <1>2, <1>3, <1>4, <1>5 DEF Next, OtherStep

-----------------------------------------------------------------------------
(* The cached trees. *)

DaysFrozen(t) == \A b \in t.frozen : b[1] = LevelDay

\* What a step can make of the tree in a database: a thread stores rows in it, or the
\* freeze manager freezes and prunes days that are over.
TreeMoves(n) ==
  \/ tree'[n] = tree[n]
  \/ \E th \in Thread : \E B \in SUBSET build[th].rows :
       /\ BuildsAt(th, n)
       /\ tree'[n] = UpsertNodes(tree[n], B, build[th].snap)
  \/ /\ clock' = clock
     /\ \E days \in SUBSET Int :
          /\ \A d \in days : d < clock.day
          /\ tree'[n] = PruneOldBuckets(FreezeDays(tree[n], days), clock.day)

LEMMA TreeStep ==
  ASSUME TypeOK, [Next]_vars, NEW q \in Node
  PROVE  TreeMoves(q)
  <1>0. tree \in [Node -> Tree] /\ clock.day \in Nat
    BY DEF TypeOK
  <1>1. ASSUME NEW c \in Caller, SessionStep(c)
        PROVE  UNCHANGED tree
    <2>1. ASSUME NEW l, NEW k,
                 \/ DrillDown(c, l, k) \/ FetchBucket(c, l, k)
                 \/ FetchUnparsable(c, l, k) \/ PushBucket(c, l, k)
          PROVE  UNCHANGED tree
      BY <2>1 DEF DrillDown, FetchBucket, FetchUnparsable, PushBucket
    <2>2. ASSUME LoadLocalTree(c) \/ BuildLocalTree(c) \/ RequestRoot(c) \/ AskRoot(c)
          PROVE  UNCHANGED tree
      BY <2>2 DEF LoadLocalTree, BuildLocalTree, RequestRoot, AskRoot
    <2>3. ASSUME \/ CompareYears(c) \/ RequestFails(c) \/ FinishComparison(c)
                 \/ EndSession(c) \/ FallBack(c)
          PROVE  UNCHANGED tree
      BY <2>3 DEF CompareYears, RequestFails, FinishComparison, EndSession, FallBack
    <2> QED
      BY <1>1, <2>1, <2>2, <2>3 DEF SessionStep
  <1>2. ASSUME NEW n \in Node, FreezePreviousDay(n)
        PROVE  TreeMoves(q)
    <2>1. {clock.day - 1} \in SUBSET Int /\ \A d \in {clock.day - 1} : d < clock.day
      BY <1>0
    <2> QED
      BY <1>0, <1>2, <2>1 DEF FreezePreviousDay, TreeMoves
  <1>3. ASSUME NEW n \in Node, Restart(n)
        PROVE  TreeMoves(q)
    <2>1. /\ 0 .. clock.day - 1 \in SUBSET Int
          /\ \A d \in 0 .. clock.day - 1 : d < clock.day
      BY <1>0
    <2> QED
      BY <1>0, <1>3, <2>1 DEF Restart, TreeMoves
  <1>4. ASSUME NEW n \in Node, NEW h, SendMessage(n, h)
        PROVE  UNCHANGED tree
    BY <1>4 DEF SendMessage
  <1>5. ASSUME NEW m \in net,
               ReceiveMessage(m) \/ AnswerSyncRequest(m) \/ ReceiveSyncResponse(m)
        PROVE  UNCHANGED tree
    BY <1>5 DEF ReceiveMessage, AnswerSyncRequest, ReceiveSyncResponse
  <1>6. ASSUME \/ Midnight \/ MidnightPasses \/ UNCHANGED vars
               \/ \E c \in Caller, p \in Node : ListConversation(c, p)
        PROVE  UNCHANGED tree
    BY <1>6 DEF Midnight, MidnightPasses, vars, ListConversation
  <1>7. ASSUME NEW th \in Thread, BuildStep(th)
        PROVE  TreeMoves(q)
    <2>1. CASE PersistNodes(th)
      <3>1. PICK B \in SUBSET build[th].rows :
              tree' = [tree EXCEPT ![build[th].node] = UpsertNodes(@, B, build[th].snap)]
        BY <2>1 DEF PersistNodes
      <3>2. BuildsAt(th, build[th].node)
        BY <2>1 DEF PersistNodes, BuildsAt
      <3> QED
        BY <1>0, <3>1, <3>2 DEF TreeMoves
    <2>2. CASE ReadMessages(th) \/ FinishBuild(th) \/ BuildFails(th)
      BY <2>2 DEF ReadMessages, FinishBuild, BuildFails, TreeMoves
    <2> QED
      BY <1>7, <2>1, <2>2 DEF BuildStep
  <1>8. UNCHANGED tree => TreeMoves(q)
    BY DEF TreeMoves
  <1> QED
    BY <1>1, <1>2, <1>3, <1>4, <1>5, <1>6, <1>7, <1>8 DEF Next, OtherStep

\* What the freeze manager leaves of a tree: years and months keep their hashes, and
\* what a frozen day loses is all it has.
LEMMA FreezeFacts ==
  ASSUME NEW t \in Tree, DaysFrozen(t), NEW days, NEW day
  PROVE  LET u == PruneOldBuckets(FreezeDays(t, days), day)
         IN  /\ \A b \in Bucket : Hash(u, b) \in {Hash(t, b), {}}
             /\ \A b \in Bucket : b[1] = LevelYear => Hash(u, b) = Hash(t, b)
             /\ \A b \in u.frozen : b[1] = LevelDay /\ (b \in t.frozen \/ b[2] \in days)
             /\ \A b \in t.frozen : b \in u.frozen \/ Hash(u, b) = {}
  <1> DEFINE f   == FreezeDays(t, days)
             old == {b \in f.frozen : b[2] + FreezeWindow <= day}
             del == {c \in Nodes(f) : \E b \in old : Within(c, b)}
             u   == PruneOldBuckets(f, day)
  <1>1. /\ f.frozen = t.frozen \cup {b \in AtLevel(t, LevelDay) : b[2] \in days}
        /\ \A b \in Bucket : Hash(f, b) = Hash(t, b)
    BY DEF FreezeDays, Hash, Tree
  <1>2. /\ \A b \in Bucket : Hash(u, b) = IF b \in del THEN {} ELSE Hash(f, b)
        /\ u.frozen = f.frozen \ del
    <2> HIDE DEF f
    <2> QED
      BY DEF PruneOldBuckets, Hash
  <1>3. \A b \in f.frozen : b[1] = LevelDay /\ (b \in t.frozen \/ b[2] \in days)
    BY <1>1 DEF DaysFrozen, AtLevel
  <1>4. ASSUME NEW c \in del
        PROVE  c[1] # LevelYear
    <2>1. PICK b \in old : Within(c, b)
      OBVIOUS
    <2>2. b[1] = LevelDay
      BY <1>3
    <2> QED
      BY <2>1, <2>2 DEF Within, LevelYear, LevelDay
  <1>5. t.frozen \subseteq Bucket
    BY DEF Tree
  <1> HIDE DEF f, del, u
  <1>6. /\ \A b \in Bucket : Hash(u, b) \in {Hash(t, b), {}}
        /\ \A b \in Bucket : b[1] = LevelYear => Hash(u, b) = Hash(t, b)
    BY <1>1, <1>2, <1>4
  <1>7. /\ \A b \in u.frozen : b[1] = LevelDay /\ (b \in t.frozen \/ b[2] \in days)
        /\ \A b \in t.frozen : b \in u.frozen \/ Hash(u, b) = {}
    BY <1>1, <1>2, <1>3, <1>5
  <1> QED
    BY <1>6, <1>7 DEF u, f

\* A step of the clock never moves it back.
LEMMA ClockStep ==
  ASSUME TypeOK, [Next]_vars
  PROVE  clock.day \in Nat /\ clock'.day \in Nat /\ clock.day <= clock'.day
  <1>0. clock \in [day : Nat, midnight : BOOLEAN] /\ clock.day \in Nat
    BY DEF TypeOK
  <1>1. CASE Midnight
    BY <1>0, <1>1 DEF Midnight
  <1>2. CASE MidnightPasses
    BY <1>0, <1>2 DEF MidnightPasses
  <1>3. ASSUME NEW c \in Caller, SessionStep(c)
        PROVE  UNCHANGED clock
    <2>1. ASSUME NEW l, NEW k,
                 \/ DrillDown(c, l, k) \/ FetchBucket(c, l, k)
                 \/ FetchUnparsable(c, l, k) \/ PushBucket(c, l, k)
          PROVE  UNCHANGED clock
      BY <2>1 DEF DrillDown, FetchBucket, FetchUnparsable, PushBucket
    <2>2. ASSUME LoadLocalTree(c) \/ BuildLocalTree(c) \/ RequestRoot(c) \/ AskRoot(c)
          PROVE  UNCHANGED clock
      BY <2>2 DEF LoadLocalTree, BuildLocalTree, RequestRoot, AskRoot
    <2>3. ASSUME \/ CompareYears(c) \/ RequestFails(c) \/ FinishComparison(c)
                 \/ EndSession(c) \/ FallBack(c)
          PROVE  UNCHANGED clock
      BY <2>3 DEF CompareYears, RequestFails, FinishComparison, EndSession, FallBack
    <2> QED
      BY <1>3, <2>1, <2>2, <2>3 DEF SessionStep
  <1>4. ASSUME NEW n \in Node, NEW i,
               \/ SendMessage(n, i) \/ FreezePreviousDay(n) \/ Restart(n)
        PROVE  UNCHANGED clock
    BY <1>4 DEF SendMessage, FreezePreviousDay, Restart
  <1>5. ASSUME NEW m \in net,
               ReceiveMessage(m) \/ AnswerSyncRequest(m) \/ ReceiveSyncResponse(m)
        PROVE  UNCHANGED clock
    BY <1>5 DEF ReceiveMessage, AnswerSyncRequest, ReceiveSyncResponse
  <1>6. ASSUME NEW th \in Thread, BuildStep(th)
        PROVE  UNCHANGED clock
    BY <1>6 DEF BuildStep, ReadMessages, PersistNodes, FinishBuild, BuildFails
  <1>7. ASSUME UNCHANGED vars \/ \E c \in Caller, p \in Node : ListConversation(c, p)
        PROVE  UNCHANGED clock
    BY <1>7 DEF vars, ListConversation
  <1>8. UNCHANGED clock => clock'.day = clock.day
    OBVIOUS
  <1> QED
    BY <1>0, <1>1, <1>2, <1>3, <1>4, <1>5, <1>6, <1>7, <1>8 DEF Next, OtherStep

\* No bucket but that of a day that is over is ever frozen, at midnight, at
\* start-up or by rows being stored over it.
THEOREM FrozenDaysOver == Spec => []OnlyPastDaysFrozen
  <1>1. Init => OnlyPastDaysFrozen
    BY DEF Init, OnlyPastDaysFrozen, EmptyTree
  <1>2. TypeOK /\ TypeOK' /\ OnlyPastDaysFrozen /\ [Next]_vars => OnlyPastDaysFrozen'
    <2> SUFFICES ASSUME TypeOK, TypeOK', OnlyPastDaysFrozen, [Next]_vars,
                        NEW n \in Node, NEW b \in tree'[n].frozen
                 PROVE  b \in AtLevel(tree'[n], LevelDay) /\ b[2] < clock'.day
      BY DEF OnlyPastDaysFrozen
    <2>0. /\ tree[n] \in Tree /\ tree'[n] \in Tree
          /\ b \in Nodes(tree'[n]) /\ b \in Bucket /\ b[2] \in Nat
      <3>1. tree[n] \in Tree /\ tree'[n] \in Tree
        BY DEF TypeOK
      <3>2. b \in Nodes(tree'[n]) /\ b \in Bucket
        BY <3>1 DEF Tree
      <3> QED
        BY <3>1, <3>2, BucketType
    <2>1. \A c \in tree[n].frozen : c[1] = LevelDay /\ c[2] < clock.day
      BY DEF OnlyPastDaysFrozen, AtLevel
    <2>2. b[1] = LevelDay /\ b[2] < clock.day
      <3>1. CASE tree'[n] = tree[n]
        BY <2>1, <3>1
      <3>2. ASSUME NEW B, NEW S, tree'[n] = UpsertNodes(tree[n], B, S)
            PROVE  b[1] = LevelDay /\ b[2] < clock.day
        BY <2>1, <3>2 DEF UpsertNodes
      <3>3. ASSUME NEW days \in SUBSET Int, \A d \in days : d < clock.day,
                   tree'[n] = PruneOldBuckets(FreezeDays(tree[n], days), clock.day)
            PROVE  b[1] = LevelDay /\ b[2] < clock.day
        <4>1. b[1] = LevelDay /\ (b \in tree[n].frozen \/ b[2] \in days)
          BY <2>0, <2>1, <3>3, FreezeFacts DEF DaysFrozen
        <4> QED
          BY <2>1, <3>3, <4>1
      <3> QED
        BY <3>1, <3>2, <3>3, TreeStep DEF TreeMoves
    <2> QED
      BY <2>0, <2>2, ClockStep DEF AtLevel, Nodes
  <1> QED
    BY <1>1, <1>2, TypeCorrect, PTL DEF Spec

\* What a thread has read is in its node's messages table; the rows it has yet to store
\* are buckets of what it read; the years it has not yet to store are in the database;
\* and a session waits for its build.
BuildSound(th) ==
  /\ build[th].snap \subseteq store[build[th].node]
  /\ build[th].rows \subseteq Nodes(BuildMerkleTree(build[th].snap))
  /\ build[th].pc = "store" => \A y \in Bucket :
       y[1] = LevelYear /\ InBucket(build[th].snap, y) # {} =>
         y \in build[th].rows \/ Hash(tree[build[th].node], y) # {}
  /\ th[2] = "session" /\ build[th].pc # "idle" =>
       build[th].node = Home[th[1]] /\ sess[th[1]].pc = "build"

BuildInv == \A th \in Thread : BuildSound(th)

LEMMA BuiltRows ==
  ASSUME NEW S
  PROVE  Nodes(BuildMerkleTree(S)) = {b \in Bucket : InBucket(S, b) # {}}
  BY DEF Nodes, BuildMerkleTree, Hash

\* A year stays when rows are stored or days pruned.
LEMMA YearsStay ==
  ASSUME TypeOK, OnlyPastDaysFrozen, BuildInv, [Next]_vars, NEW n \in Node,
         NEW y \in Bucket, y[1] = LevelYear, Hash(tree[n], y) # {}
  PROVE  Hash(tree'[n], y) # {}
  <1>0. tree[n] \in Tree /\ DaysFrozen(tree[n])
    BY DEF TypeOK, OnlyPastDaysFrozen, AtLevel, DaysFrozen
  <1>1. ASSUME NEW th \in Thread, NEW B \in SUBSET build[th].rows,
               tree'[n] = UpsertNodes(tree[n], B, build[th].snap)
        PROVE  Hash(tree'[n], y) # {}
    <2>1. \A b \in B : InBucket(build[th].snap, b) # {}
      BY BuiltRows DEF BuildInv, BuildSound
    <2>2. Hash(tree'[n], y) = IF y \in B THEN InBucket(build[th].snap, y) ELSE Hash(tree[n], y)
      BY <1>1 DEF UpsertNodes, Hash
    <2> QED
      BY <2>1, <2>2
  <1>2. ASSUME NEW days, tree'[n] = PruneOldBuckets(FreezeDays(tree[n], days), clock.day)
        PROVE  Hash(tree'[n], y) # {}
    BY <1>0, <1>2, FreezeFacts
  <1> QED
    BY <1>1, <1>2, TreeStep DEF TreeMoves

\* A session that waits for its build goes on waiting until that ends.
LEMMA BuilderWaits ==
  ASSUME TypeOK, BuildInv, [Next]_vars, NEW th \in Thread, th[2] = "session",
         build[th].pc # "idle"
  PROVE  sess'[th[1]].pc = "build" \/ build'[th] = NoBuild(th)
  <1> DEFINE c == th[1]
  <1>0. /\ c \in Caller /\ Home[c] \in Node /\ sess[c].pc = "build" /\ sess[c] \in Session
        /\ build[th].node = Home[c] /\ build \in [Thread -> Build]
    BY BuildFields, SessionFields DEF BuildInv, BuildSound
  <1>1. ~ SessionStep(c)
    <2>1. ASSUME NEW l, NEW k,
                 \/ DrillDown(c, l, k) \/ FetchBucket(c, l, k)
                 \/ FetchUnparsable(c, l, k) \/ PushBucket(c, l, k)
          PROVE  FALSE
      BY <1>0, <2>1 DEF DrillDown, FetchBucket, FetchUnparsable, PushBucket, NextTask
    <2>2. ~ (LoadLocalTree(c) \/ BuildLocalTree(c) \/ RequestRoot(c) \/ AskRoot(c))
      BY <1>0 DEF LoadLocalTree, BuildLocalTree, RequestRoot, AskRoot
    <2>3. ~ (CompareYears(c) \/ RequestFails(c) \/ FinishComparison(c) \/ EndSession(c))
      BY <1>0 DEF CompareYears, RequestFails, FinishComparison, EndSession
    <2>4. ~ FallBack(c)
      BY <1>0 DEF FallBack
    <2> QED
      BY <2>1, <2>2, <2>3, <2>4 DEF SessionStep
  <1>2. ASSUME NEW i \in Thread, i[1] = c, FinishBuild(i) \/ BuildFails(i)
        PROVE  sess'[c].pc = "build" \/ build'[th] = NoBuild(th)
    <2>1. CASE i[2] = "session"
      <3>1. i = th
        BY <1>2, <2>1 DEF Thread
      <3> QED
        BY <1>0, <1>2, <3>1 DEF FinishBuild, BuildFails
    <2>2. CASE i[2] # "session"
      <3>1. sess[c].pc # "asked"
        BY <1>0
      <3>2. sess \in [Caller -> Session]
        BY DEF TypeOK
      <3>3. CASE FinishBuild(i)
        BY <1>0, <1>2, <2>2, <3>1, <3>3 DEF FinishBuild
      <3>4. CASE BuildFails(i)
        BY <1>0, <1>2, <2>2, <3>1, <3>2, <3>4 DEF BuildFails, Session
      <3> QED
        BY <1>2, <3>3, <3>4
    <2> QED
      BY <2>1, <2>2
  <1>3. ASSUME Restart(Home[c])
        PROVE  build'[th] = NoBuild(th)
    BY <1>0, <1>3 DEF Restart
  <1> QED
    BY <1>0, <1>1, <1>2, <1>3, SessionMoves

LEMMA BuildInvStep ==
  ASSUME StoreInv, OnlyPastDaysFrozen, BuildInv, [Next]_vars, NEW th \in Thread
  PROVE  BuildSound(th)'
  <1> DEFINE n == build[th].node
  <1>t. TypeOK
    BY DEF StoreInv
  <1>0. /\ build \in [Thread -> Build] /\ n \in Node /\ BuildSound(th)
        /\ store \in [Node -> SUBSET Message] /\ tree \in [Node -> Tree]
        /\ NoBuild(th).pc = "idle" /\ NoBuild(th).snap = {} /\ NoBuild(th).rows = {}
    BY <1>t, BuildFields DEF TypeOK, BuildInv, NoBuild
  <1>g. store[n] \subseteq store'[n]
    BY <1>0, StoreGrows
  <1>y. \A y \in Bucket : y[1] = LevelYear /\ Hash(tree[n], y) # {} => Hash(tree'[n], y) # {}
    BY <1>t, <1>0, YearsStay
  <1>1. CASE build'[th] = build[th]
    <2>1. th[2] = "session" /\ build[th].pc # "idle" => sess'[th[1]].pc = "build"
      BY <1>t, <1>0, <1>1, BuilderWaits
    <2>2. build[th].snap \subseteq store'[n]
      BY <1>0, <1>g DEF BuildSound
    <2> QED
      BY <1>0, <1>1, <1>y, <2>1, <2>2 DEF BuildSound
  <1>2. CASE build'[th] = NoBuild(th)
    BY <1>0, <1>2 DEF BuildSound
  <1>3. CASE /\ build'[th].pc = "read" /\ build'[th].snap = {} /\ build'[th].rows = {}
             /\ th[2] = "session" => build'[th].node = Home[th[1]] /\ sess'[th[1]].pc = "build"
    BY <1>3 DEF BuildSound
  <1>4. CASE ReadMessages(th)
    <2>1. /\ build'[th].pc = "store" /\ build'[th].node = n /\ build'[th].snap = store[n]
          /\ build'[th].rows = Nodes(BuildMerkleTree(store[n])) /\ sess' = sess
          /\ build[th].pc = "read" /\ tree' = tree
      BY <1>0, <1>4 DEF ReadMessages, Build
    <2>2. \A y \in Bucket : InBucket(store[n], y) # {} => y \in build'[th].rows
      BY <2>1, BuiltRows
    <2> HIDE DEF n
    <2> QED
      BY <1>0, <1>g, <2>1, <2>2 DEF BuildSound, n
  <1>5. CASE PersistNodes(th)
    <2>1. PICK B \in SUBSET build[th].rows :
            /\ tree' = [tree EXCEPT ![n] = UpsertNodes(@, B, build[th].snap)]
            /\ build' = [build EXCEPT ![th].rows = @ \ B]
      BY <1>5 DEF PersistNodes
    <2>2. /\ build'[th].pc = "store" /\ build'[th].node = n /\ build'[th].snap = build[th].snap
          /\ build'[th].rows = build[th].rows \ B /\ sess' = sess /\ build[th].pc = "store"
      BY <1>0, <1>5, <2>1 DEF PersistNodes, Build
    <2>3. \A y \in Bucket : InBucket(build[th].snap, y) # {} /\ y \in B => Hash(tree'[n], y) # {}
      BY <1>0, <2>1 DEF UpsertNodes, Hash
    <2>4. \A y \in Bucket : y[1] = LevelYear /\ InBucket(build[th].snap, y) # {} =>
            y \in build[th].rows \ B \/ Hash(tree'[n], y) # {}
      BY <1>0, <1>y, <2>2, <2>3 DEF BuildSound
    <2>5. build[th].snap \subseteq store'[n] /\ build[th].rows \ B \subseteq Nodes(BuildMerkleTree(build[th].snap))
      BY <1>0, <1>g DEF BuildSound
    <2> HIDE DEF n
    <2> QED
      BY <1>0, <2>2, <2>4, <2>5 DEF BuildSound, n
  <1> QED
    BY <1>t, <1>1, <1>2, <1>3, <1>4, <1>5, BuildMoves

LEMMA BuildInvariant == Spec => []BuildInv
  <1>1. Init => BuildInv
    <2> SUFFICES ASSUME Init, NEW th \in Thread PROVE BuildSound(th)
      BY DEF BuildInv
    <2>1. build[th].pc = "idle" /\ build[th].snap = {} /\ build[th].rows = {}
      BY DEF Init, NoBuild
    <2> QED
      BY <2>1 DEF BuildSound
  <1>2. StoreInv /\ OnlyPastDaysFrozen /\ BuildInv /\ [Next]_vars => BuildInv'
    BY BuildInvStep DEF BuildInv
  <1> QED
    BY <1>1, <1>2, StoreInvariant, FrozenDaysOver, PTL DEF Spec

\* What BuildMerkleTree, UpsertNodes, FreezeDays and PruneOldBuckets make of a tree,
\* and what an insertion into the store means for it.
LEMMA CoversStoreFacts ==
  ASSUME NEW t \in Tree, NEW S \in SUBSET Message
  PROVE  /\ CoversStore(EmptyTree, S)
         /\ \A R \in SUBSET S : CoversStore(BuildMerkleTree(R), S)
         /\ \A R : S \subseteq R /\ CoversStore(t, S) => CoversStore(t, R)
         /\ \A B : \A R \in SUBSET S : CoversStore(t, S) => CoversStore(UpsertNodes(t, B, R), S)
         /\ \A days, day : DaysFrozen(t) /\ CoversStore(t, S)
              => CoversStore(PruneOldBuckets(FreezeDays(t, days), day), S)
  <1>1. CoversStore(EmptyTree, S)
    BY DEF CoversStore, EmptyTree, Hash
  <1>2. ASSUME NEW R \in SUBSET S PROVE CoversStore(BuildMerkleTree(R), S)
    BY DEF CoversStore, BuildMerkleTree, Hash, InBucket
  <1>3. \A R : S \subseteq R /\ CoversStore(t, S) => CoversStore(t, R)
    BY DEF CoversStore, InBucket
  <1>4. ASSUME NEW B, NEW R \in SUBSET S, CoversStore(t, S)
        PROVE  CoversStore(UpsertNodes(t, B, R), S)
    BY <1>4 DEF CoversStore, UpsertNodes, Hash, InBucket
  <1>5. ASSUME NEW days, NEW day, DaysFrozen(t), CoversStore(t, S)
        PROVE  CoversStore(PruneOldBuckets(FreezeDays(t, days), day), S)
    <2>1. \A b \in Bucket :
            Hash(PruneOldBuckets(FreezeDays(t, days), day), b) \in {Hash(t, b), {}}
      BY <1>5, FreezeFacts
    <2> QED
      BY <1>5, <2>1 DEF CoversStore
  <1> QED
    BY <1>1, <1>2, <1>3, <1>4, <1>5

\* What a step can make of the tree in the memory of a session.
LEMMA LocalTreeStep ==
  ASSUME TypeOK, [Next]_vars, NEW c \in Caller
  PROVE  \/ sess'[c].local \in {sess[c].local, EmptyTree, tree[Home[c]]}
         \/ \E th \in Thread : /\ th[2] = "session" /\ th[1] = c /\ build[th].pc # "idle"
                               /\ sess'[c].local = BuildMerkleTree(build[th].snap)
  <1>0. sess \in [Caller -> Session] /\ sess[c] \in Session
    BY SessionFields
  <1>f. AnswerLost(c) => sess'[c].local = sess[c].local
    BY AnswerLostFacts
  <1>g. \A u, steady : AnswerRoot(c, u, steady) => sess'[c].local = sess[c].local
    BY AnswerRootFacts
  <1>1. ASSUME NEW l, NEW k, DrillDown(c, l, k)
        PROVE  sess'[c].local = sess[c].local
    BY <1>1, <1>0 DEF DrillDown, Session
  <1>2. ASSUME NEW l, NEW k, FetchBucket(c, l, k) \/ FetchUnparsable(c, l, k)
        PROVE  sess'[c].local = sess[c].local
    BY <1>2, <1>0 DEF FetchBucket, FetchUnparsable, Session
  <1>3. ASSUME NEW l, NEW k, PushBucket(c, l, k)
        PROVE  sess'[c].local = sess[c].local
    BY <1>3, <1>0, <1>f DEF PushBucket, Session
  <1>4. ASSUME LoadLocalTree(c)
        PROVE  sess'[c].local = tree[Home[c]]
    BY <1>4, <1>0 DEF LoadLocalTree, Session
  <1>5. ASSUME BuildLocalTree(c) \/ AskRoot(c) \/ CompareYears(c) \/ FinishComparison(c)
        PROVE  sess'[c].local = sess[c].local
    BY <1>5, <1>0 DEF BuildLocalTree, AskRoot, CompareYears, FinishComparison, Session
  <1>6. ASSUME RequestRoot(c) \/ RequestFails(c)
        PROVE  sess'[c].local = sess[c].local
    BY <1>6, <1>f, <1>g DEF RequestRoot, RequestFails
  <1>7. ASSUME EndSession(c) \/ FallBack(c)
        PROVE  sess'[c].local = EmptyTree
    BY <1>7, <1>0 DEF EndSession, FallBack, NoSession
  <1>8. ASSUME NEW p \in Node, ListConversation(c, p)
        PROVE  sess'[c].local = EmptyTree
    BY <1>8, <1>0 DEF ListConversation, NoSession
  <1>9. ASSUME NEW th \in Thread, th[1] = c, FinishBuild(th) \/ BuildFails(th)
        PROVE  \/ sess'[c].local = sess[c].local
               \/ /\ th[2] = "session" /\ build[th].pc # "idle"
                  /\ sess'[c].local = BuildMerkleTree(build[th].snap)
    <2>1. CASE FinishBuild(th)
      <3>1. CASE sess' = [sess EXCEPT ![c].pc = "root",
                                      ![c].local = BuildMerkleTree(build[th].snap)]
                 /\ th[2] = "session"
        BY <1>0, <2>1, <3>1 DEF FinishBuild, Session
      <3> QED
        BY <1>9, <1>f, <1>g, <2>1, <3>1 DEF FinishBuild
    <2>2. CASE BuildFails(th)
      BY <1>0, <1>9, <2>2 DEF BuildFails, Session
    <2> QED
      BY <1>9, <2>1, <2>2
  <1>10. NoSession(c).local = EmptyTree /\ [sess[c] EXCEPT !.pc = "failed"].local = sess[c].local
    BY <1>0 DEF NoSession, Session
  <1>11. SessionStep(c) => sess'[c].local \in {sess[c].local, EmptyTree, tree[Home[c]]}
    BY <1>1, <1>2, <1>3, <1>4, <1>5, <1>6, <1>7 DEF SessionStep
  <1> QED
    BY <1>8, <1>9, <1>10, <1>11, SessionMoves

\* No row of a cached tree speaks of a message that its node does not hold in exactly
\* that form, whoever stored it and in whatever order.
THEOREM CachedTreesTrue == Spec => []TreeCoversStore
  <1>1. Init => TreeCoversStore
    BY DEF Init, TreeCoversStore, NoSession, CoversStore, EmptyTree, Hash
  <1>2. StoreInv /\ StoreInv' /\ OnlyPastDaysFrozen /\ BuildInv /\ TreeCoversStore /\ [Next]_vars
          => TreeCoversStore'
    <2> SUFFICES ASSUME StoreInv, StoreInv', OnlyPastDaysFrozen, BuildInv, TreeCoversStore,
                        [Next]_vars
                 PROVE  TreeCoversStore'
      OBVIOUS
    <2>t. TypeOK /\ TypeOK'
      BY DEF StoreInv
    <2>1. ASSUME NEW n \in Node
          PROVE  CoversStore(tree'[n], store'[n])
      <3>0. /\ store[n] \in SUBSET Message /\ tree[n] \in Tree /\ tree'[n] \in Tree
            /\ DaysFrozen(tree[n]) /\ CoversStore(tree[n], store[n])
        BY <2>t DEF TypeOK, OnlyPastDaysFrozen, AtLevel, DaysFrozen, TreeCoversStore
      <3>1. ASSUME NEW th \in Thread, NEW B, BuildsAt(th, n)
            PROVE  CoversStore(UpsertNodes(tree[n], B, build[th].snap), store[n])
        <4>1. build[th].snap \subseteq store[n]
          BY <3>1 DEF BuildInv, BuildSound, BuildsAt
        <4> QED
          BY <3>0, <4>1, CoversStoreFacts
      <3>2. CoversStore(tree'[n], store[n])
        BY <2>t, <3>0, <3>1, TreeStep, CoversStoreFacts DEF TreeMoves
      <3> QED
        BY <3>0, <3>2, StoreGrows, CoversStoreFacts
    <2>2. ASSUME NEW c \in Caller
          PROVE  CoversStore(sess'[c].local, store'[Home[c]])
      <3> DEFINE n == Home[c]
      <3>0. /\ n \in Node /\ store[n] \in SUBSET Message /\ tree[n] \in Tree
            /\ sess[c].local \in Tree
            /\ CoversStore(tree[n], store[n]) /\ CoversStore(sess[c].local, store[n])
        BY <2>t, SessionFields DEF TreeCoversStore
      <3>1. ASSUME NEW th \in Thread, th[2] = "session", th[1] = c, build[th].pc # "idle"
            PROVE  CoversStore(BuildMerkleTree(build[th].snap), store[n])
        <4>1. build[th].snap \subseteq store[n]
          BY <3>1 DEF BuildInv, BuildSound
        <4> QED
          BY <3>0, <4>1, CoversStoreFacts
      <3>2. CoversStore(sess'[c].local, store[n])
        BY <2>t, <3>0, <3>1, LocalTreeStep, CoversStoreFacts
      <3>3. sess'[c].local \in Tree
        BY <2>t DEF TypeOK, Session
      <3> QED
        BY <3>0, <3>2, <3>3, StoreGrows, CoversStoreFacts
    <2> QED
      BY <2>1, <2>2 DEF TreeCoversStore
  <1> QED
    BY <1>1, <1>2, StoreInvariant, FrozenDaysOver, BuildInvariant, PTL DEF Spec

\* A final tree stays final: nobody finds that it has to be built, and what the freeze
\* manager does to it is all that happens to it.
LEMMA FinalStep ==
  ASSUME TypeOK, OnlyPastDaysFrozen, [Next]_vars, NEW n \in Node, Final(n)
  PROVE  Final(n)' /\ Shrinks(tree[n], tree'[n])
  <1>0. tree[n] \in Tree /\ DaysFrozen(tree[n]) /\ HasTree(tree[n])
    BY DEF TypeOK, OnlyPastDaysFrozen, AtLevel, DaysFrozen, Final, HasTree
  <1>1. \A th \in Thread : ~ BuildsAt(th, n)
    BY DEF Final
  <1>2. \/ tree'[n] = tree[n]
        \/ \E days : tree'[n] = PruneOldBuckets(FreezeDays(tree[n], days), clock.day)
    BY <1>1, TreeStep DEF TreeMoves
  <1>3. /\ \A b \in Bucket : Hash(tree'[n], b) \in {Hash(tree[n], b), {}}
        /\ \A b \in Bucket : b[1] = LevelYear => Hash(tree'[n], b) = Hash(tree[n], b)
        /\ \A b \in tree[n].frozen : b \in tree'[n].frozen \/ Hash(tree'[n], b) = {}
    BY <1>0, <1>2, FreezeFacts
  <1>4. ASSUME NEW th \in Thread PROVE ~ BuildsAt(th, n)'
    <2>0. build \in [Thread -> Build] /\ build[th] \in Build /\ NoBuild(th).pc = "idle"
      BY BuildFields DEF NoBuild
    <2>1. CASE build'[th] = build[th] \/ build'[th] = NoBuild(th)
      BY <1>1, <2>0, <2>1 DEF BuildsAt
    <2>2. CASE ~ HasTree(tree[build'[th].node])
      BY <1>0, <2>2 DEF BuildsAt
    <2>3. CASE ReadMessages(th) \/ PersistNodes(th)
      <3>1. build[th].pc # "idle" /\ build'[th].node = build[th].node
        BY <2>0, <2>3 DEF ReadMessages, PersistNodes, Build
      <3> QED
        BY <1>1, <3>1 DEF BuildsAt
    <2> QED
      BY <2>1, <2>2, <2>3, BuildMoves
  <1>5. AtLevel(tree'[n], LevelYear) # {}
    BY <1>0, <1>3 DEF HasTree, AtLevel
  <1> QED
    BY <1>3, <1>4, <1>5 DEF Final, Shrinks

\* Once a node has a tree and nobody is storing one, nobody ever builds one there
\* again, and what the tree loses is days that are pruned.
THEOREM TreesShrink == Spec => TreeOnlyShrinks
  <1>1. TypeOK /\ OnlyPastDaysFrozen /\ [Next]_vars =>
          [\A n \in Node : Final(n) => Final(n)' /\ Shrinks(tree[n], tree'[n])]_vars
    BY FinalStep
  <1> QED
    BY <1>1, TypeCorrect, FrozenDaysOver, PTL DEF Spec, TreeOnlyShrinks

-----------------------------------------------------------------------------
(* Completed sessions.  A message of one side that the comparison comes to is held   *)
(* by the other side, or a task that is still to be done covers it, or the session   *)
(* is bound to fail: comparing a level turns the task of a bucket into tasks of its  *)
(* children, or finds the hashes equal.  The responder's tree cannot be swapped      *)
(* under the session once it is final, since from then on it only shrinks.           *)

\* Only buckets of the initiator's tree that have children are drilled into.
TasksSound(c) ==
  /\ sess[c].pc \in {"idle", "listed", "build"} => sess[c].work = NoWork
  /\ \A l \in Level : \A k \in sess[c].work[l] :
       k.act = "drill" => l < LevelHour /\ k.bucket \in AtLevel(sess[c].local, l)

\* Who asks for a root is waiting for its own handler.
AskedSound(c) == sess[c].pc = "asked" => BuildsAt(<<c, "handler">>, sess[c].peer)

\* A tree that nobody was storing when its root was sent is final.
SteadyFinal(c) ==
  sess[c].steady /\ UNION sess[c].remoteRoot # {} => Final(sess[c].peer)

Pushing  == {"push", "drill", "exchange"}
Fetching == {"fetch", "drill", "exchange"}

\* A task of session c that is still to be done, of one of the kinds acts, covers m.
Ahead(c, m, acts) ==
  /\ sess[c].pc = "work"
  /\ \E l \in Level : \E k \in sess[c].work[l] :
       k.act \in acts /\ k.bucket = BucketPath(l, m.hlc)

\* The session has a bucket to fetch that the handler will refuse.
Doomed(c) ==
  /\ sess[c].pc = "work"
  /\ \E l \in Level : l # LevelHour /\ \E k \in sess[c].work[l] : k.act = "fetch"

Covered(c) ==
  LET t == sess[c].local
      p == sess[c].peer
  IN  /\ \A m \in Message :
           Active(t, m) => m.hlc \in Hlcs(store[p]) \/ Ahead(c, m, Pushing)
      /\ sess[c].steady => \A m \in UNION sess[c].remoteRoot :
           Active(tree[p], m) /\ ComesTo(t, m.hlc)
             => m.hlc \in Hlcs(store[Home[c]]) \/ Ahead(c, m, Fetching)

Exchanging(c) == sess[c].pc \in {"work", "done"} => Doomed(c) \/ Covered(c)

ExchangeInv ==
  \A c \in Caller :
    /\ DaysFrozen(sess[c].local)
    /\ TasksSound(c) /\ AskedSound(c) /\ SteadyFinal(c) /\ Exchanging(c)

\* What the tasks of a level do with a message of a row of one of the two trees: it is in
\* the other tree's row too, or a task is to push, fetch or compare further its bucket.
Covering(work, t, u, l, asked) ==
  /\ \A b \in asked \ t.frozen : \A m \in Hash(t, b) :
       \/ m \in Hash(u, b)
       \/ \E k \in work : /\ k.bucket = b
                          /\ k.act \in Pushing \/ (k.act = "fetch" /\ b \in u.frozen)
  /\ asked # {} => \A b \in Bucket \ t.frozen : b[1] = l => \A m \in Hash(u, b) :
       \/ m \in Hash(t, b)
       \/ \E k \in work : k.bucket = b /\ k.act \in Fetching

\* What compareLevel makes of two trees.
LEMMA CompareCovers ==
  ASSUME NEW t \in Tree, NEW u \in Tree, NEW l \in Level, NEW asked \in SUBSET AtLevel(t, l)
  PROVE  /\ \A k \in CompareLevel(t, l, asked, u) :
              k.act = "drill" => l < LevelHour /\ k.bucket \in asked
         /\ Covering(CompareLevel(t, l, asked, u), t, u, l, asked)
  <1> DEFINE remote == HandleBucketCompare(u, l, asked)
             both   == {b \in asked \cap remote : b \notin t.frozen /\ Hash(t, b) # Hash(u, b)}
             work   == CompareLevel(t, l, asked, u)
  <1>1. /\ \A b \in asked \ remote : [bucket |-> b, act |-> "push"] \in work
        /\ \A b \in remote \ asked : [bucket |-> b, act |-> "fetch"] \in work
        /\ \A b \in both \cap u.frozen : [bucket |-> b, act |-> "fetch"] \in work
        /\ \A b \in both \ u.frozen :
             [bucket |-> b, act |-> IF l < LevelHour THEN "drill" ELSE "exchange"] \in work
    BY DEF CompareLevel
  <1>2. \A k \in work : k.act = "drill" => l < LevelHour /\ k.bucket \in asked
    BY DEF CompareLevel
  <1>3. ASSUME NEW b \in asked \ t.frozen, NEW m \in Hash(t, b)
        PROVE  \/ m \in Hash(u, b)
               \/ \E k \in work : /\ k.bucket = b
                                  /\ k.act \in Pushing \/ (k.act = "fetch" /\ b \in u.frozen)
    <2>1. CASE b \notin remote
      <3> DEFINE k == [bucket |-> b, act |-> "push"]
      <3>1. k \in work
        BY <1>1, <2>1
      <3>2. k.bucket = b /\ k.act \in Pushing
        BY DEF Pushing
      <3> HIDE DEF work, k
      <3> QED
        BY <3>1, <3>2
    <2>2. CASE Hash(t, b) = Hash(u, b)
      BY <2>2
    <2>3. CASE b \in remote /\ Hash(t, b) # Hash(u, b)
      <3> DEFINE f == [bucket |-> b, act |-> "fetch"]
                 k == [bucket |-> b, act |-> IF l < LevelHour THEN "drill" ELSE "exchange"]
      <3>1. b \in both
        BY <2>3
      <3>2. (b \in u.frozen /\ f \in work) \/ k \in work
        BY <1>1, <3>1
      <3>3. f.bucket = b /\ f.act = "fetch" /\ k.bucket = b /\ k.act \in Pushing
        BY DEF Pushing
      <3> HIDE DEF work, f, k
      <3> QED
        BY <3>2, <3>3
    <2> QED
      BY <2>1, <2>2, <2>3
  <1>4. ASSUME NEW b \in Bucket \ t.frozen, b[1] = l, asked # {}, NEW m \in Hash(u, b)
        PROVE  \/ m \in Hash(t, b)
               \/ \E k \in work : k.bucket = b /\ k.act \in Fetching
    <2>1. b \in remote
      BY <1>4 DEF HandleBucketCompare, AtLevel
    <2>2. CASE b \notin asked
      <3> DEFINE k == [bucket |-> b, act |-> "fetch"]
      <3>1. k \in work
        BY <1>1, <2>1, <2>2
      <3>2. k.bucket = b /\ k.act \in Fetching
        BY DEF Fetching
      <3> HIDE DEF work, k
      <3> QED
        BY <3>1, <3>2
    <2>3. CASE Hash(t, b) = Hash(u, b)
      BY <2>3
    <2>4. CASE b \in asked /\ Hash(t, b) # Hash(u, b)
      <3> DEFINE f == [bucket |-> b, act |-> "fetch"]
                 k == [bucket |-> b, act |-> IF l < LevelHour THEN "drill" ELSE "exchange"]
      <3>1. b \in both
        BY <2>1, <2>4
      <3>2. f \in work \/ k \in work
        BY <1>1, <3>1
      <3>3. f.bucket = b /\ f.act \in Fetching /\ k.bucket = b /\ k.act \in Fetching
        BY DEF Fetching
      <3> HIDE DEF work, f, k
      <3> QED
        BY <3>2, <3>3
    <2> QED
      BY <2>2, <2>3, <2>4
  <1> QED
    BY <1>2, <1>3, <1>4 DEF Covering

LEMMA Levels ==
  /\ {LevelYear, LevelMonth, LevelDay, LevelHour} \subseteq Level
  /\ \A l \in Level : l \in Nat /\ l <= LevelHour
  /\ \A l \in Level : l # LevelHour => l < LevelHour /\ l + 1 \in Level
  /\ \A l \in Level : l < LevelHour => l + 1 \in Level /\ l \in Level \ {LevelHour}
  /\ LevelYear # LevelDay /\ LevelHour # LevelDay /\ LevelYear # LevelHour
  BY DEF Level, LevelYear, LevelMonth, LevelDay, LevelHour

\* The children of a bucket that is drilled into: an active message of the initiator's
\* is in one of them, and there is one to ask about if the comparison comes to an hour
\* below the bucket.
LEMMA DrillAsks ==
  ASSUME NEW t \in Tree, DaysFrozen(t), NEW l \in Level, l < LevelHour,
         NEW k, k \in AtLevel(t, l),
         NEW asked, asked = {b \in AtLevel(t, l + 1) : Within(b, k)}
  PROVE  /\ \A m \in Message : Active(t, m) /\ BucketPath(l, m.hlc) = k
              => BucketPath(l + 1, m.hlc) \in asked \ t.frozen
         /\ \A h \in Hlc : ComesTo(t, h) /\ BucketPath(l, h) = k
              => asked # {} /\ BucketPath(l + 1, h) \notin t.frozen
  <1>1. l \in Nat /\ l + 1 \in Level /\ l \in Level \ {LevelHour}
    BY Levels
  <1>2. \A h : BucketPath(l + 1, h)[1] = l + 1 /\ BucketPath(l, h)[1] = l
    BY DEF BucketPath
  <1>3. ASSUME NEW m \in Message, Active(t, m), BucketPath(l, m.hlc) = k
        PROVE  BucketPath(l + 1, m.hlc) \in asked \ t.frozen
    <2>0. m.hlc \in Hlc
      BY DEF Message
    <2>1. m \in Hash(t, BucketPath(l + 1, m.hlc)) /\ BucketPath(l + 1, m.hlc) \in Bucket
      BY <1>1, <1>3, <2>0, BucketPathType DEF Active
    <2>2. Within(BucketPath(l + 1, m.hlc), k)
      BY <1>1, <1>2, <1>3, <2>0 DEF Within
    <2>3. BucketPath(l + 1, m.hlc) \in AtLevel(t, l + 1)
      BY <1>2, <2>1 DEF AtLevel
    <2>4. BucketPath(l + 1, m.hlc) \notin t.frozen
      BY <1>2, <1>3 DEF DaysFrozen, Active
    <2> QED
      BY <2>2, <2>3, <2>4
  <1>4. ASSUME NEW h \in Hlc, ComesTo(t, h), BucketPath(l, h) = k
        PROVE  asked # {} /\ BucketPath(l + 1, h) \notin t.frozen
    <2>1. k \in Nodes(t)
      BY DEF AtLevel, Nodes
    <2>2. \E b \in AtLevel(t, l + 1) : Within(b, k)
      BY <1>1, <1>4, <2>1 DEF ComesTo
    <2>3. BucketPath(l + 1, h) \notin t.frozen
      BY <1>2, <1>4 DEF DaysFrozen, ComesTo
    <2> QED
      BY <2>2, <2>3
  <1> QED
    BY <1>3, <1>4

\* Drilling goes into buckets of the initiator's tree, level by level.
LEMMA TasksStep ==
  ASSUME TypeOK, BuildInv, [Next]_vars, NEW c \in Caller, TasksSound(c)
  PROVE  TasksSound(c)'
  <1> DEFINE t == sess[c].local
             u == tree[sess[c].peer]
  <1>0. /\ sess \in [Caller -> Session] /\ sess[c] \in Session
        /\ t \in Tree /\ u \in Tree /\ sess[c].work \in [Level -> SUBSET Task]
    BY SessionFields
  <1>2. CASE sess'[c].work = NoWork
    BY <1>2 DEF TasksSound, NoWork
  \* A step that keeps the tasks and the tree.
  <1>k. ASSUME sess'[c].work = sess[c].work, sess'[c].local = t,
               sess'[c].pc \in {"idle", "listed", "build"} => sess[c].pc \in {"idle", "listed", "build"}
        PROVE  TasksSound(c)'
    BY <1>k DEF TasksSound
  <1>f. ASSUME AnswerLost(c) PROVE TasksSound(c)'
    BY <1>f, <1>k, AnswerLostFacts
  <1>g. ASSUME NEW v, NEW steady, AnswerRoot(c, v, steady) PROVE TasksSound(c)'
    <2>1. /\ sess'[c].work = sess[c].work /\ sess'[c].local = t
          /\ sess'[c].pc \in {"done", "compare"}
      BY <1>g, AnswerRootFacts
    <2> QED
      BY <1>k, <2>1
  <1>3. ASSUME LoadLocalTree(c) \/ BuildLocalTree(c) PROVE TasksSound(c)'
    <2>1. sess'[c].work = NoWork
      BY <1>3, <1>0 DEF LoadLocalTree, BuildLocalTree, TasksSound, Session
    <2> QED
      BY <1>2, <2>1
  <1>4. ASSUME RequestRoot(c) \/ AskRoot(c) PROVE TasksSound(c)'
    <2>1. CASE RequestRoot(c)
      BY <1>f, <1>g, <2>1 DEF RequestRoot
    <2>2. CASE AskRoot(c)
      <3>1. sess'[c].work = sess[c].work /\ sess'[c].local = t /\ sess'[c].pc = "asked"
        BY <1>0, <2>2 DEF AskRoot, Session
      <3> QED
        BY <1>k, <3>1
    <2> QED
      BY <1>4, <2>1, <2>2
  <1>5. ASSUME CompareYears(c) PROVE TasksSound(c)'
    <2>1. /\ sess'[c].pc = "work" /\ sess'[c].local = t
          /\ sess'[c].work = [sess[c].work EXCEPT ![LevelYear] =
                                CompareLevel(t, LevelYear, AtLevel(t, LevelYear), u)]
      BY <1>5, <1>0 DEF CompareYears, Session
    <2>2. LevelYear \in Level
      BY Levels
    <2>3. \A k \in CompareLevel(t, LevelYear, AtLevel(t, LevelYear), u) :
            k.act = "drill" => LevelYear < LevelHour /\ k.bucket \in AtLevel(t, LevelYear)
      BY <1>0, <2>2, CompareCovers
    <2> HIDE DEF t, u
    <2> QED
      BY <1>0, <2>1, <2>2, <2>3 DEF TasksSound, t
  <1>6. ASSUME NEW l \in Level, NEW k \in sess[c].work[l], DrillDown(c, l, k)
        PROVE  TasksSound(c)'
    <2> DEFINE asked == {b \in AtLevel(t, l + 1) : Within(b, k.bucket)}
               new   == CompareLevel(t, l + 1, asked, u)
    <2>1. l < LevelHour /\ l + 1 \in Level
      BY <1>6, Levels DEF DrillDown, TasksSound
    <2>2. /\ sess'[c].pc = "work" /\ sess'[c].local = t
          /\ sess'[c].work = [sess[c].work EXCEPT ![l] = @ \ {k}, ![l + 1] = new]
      BY <1>6, <1>0 DEF DrillDown, NextTask, Session
    <2>3. \A j \in new : j.act = "drill" => l + 1 < LevelHour /\ j.bucket \in AtLevel(t, l + 1)
      BY <1>0, <2>1, CompareCovers
    <2> HIDE DEF t, u, new
    <2> QED
      BY <1>0, <2>1, <2>2, <2>3 DEF TasksSound, t
  <1>7. ASSUME NEW l \in Level, NEW k \in sess[c].work[l],
               FetchBucket(c, l, k) \/ FetchUnparsable(c, l, k)
        PROVE  TasksSound(c)'
    <2> DEFINE push == [k EXCEPT !.act = "push"]
    <2>1. push.act = "push"
      BY <1>0 DEF Task
    <2>2. /\ sess'[c].pc \in {"work", "failed"} /\ sess'[c].local = t
          /\ \A i \in Level : sess'[c].work[i] \subseteq sess[c].work[i] \cup {push}
      <3> HIDE DEF push
      <3> QED
        BY <1>7, <1>0 DEF FetchBucket, FetchUnparsable, NextTask, Session, push
    <2> HIDE DEF push, t
    <2> QED
      BY <1>0, <2>1, <2>2 DEF TasksSound, t
  <1>8. ASSUME NEW l \in Level, NEW k \in sess[c].work[l], PushBucket(c, l, k)
        PROVE  TasksSound(c)'
    <2>1. CASE sess' = [sess EXCEPT ![c].work[l] = @ \ {k}]
      BY <1>8, <1>0, <2>1 DEF PushBucket, NextTask, TasksSound, Session
    <2> QED
      BY <1>8, <1>f, <2>1 DEF PushBucket
  <1>9. ASSUME RequestFails(c) \/ FinishComparison(c) PROVE TasksSound(c)'
    BY <1>9, <1>f, <1>0 DEF RequestFails, FinishComparison, TasksSound, Session
  <1>10. ASSUME EndSession(c) \/ FallBack(c) PROVE TasksSound(c)'
    <2>1. sess'[c].work = NoWork
      BY <1>10, <1>0 DEF EndSession, FallBack, NoSession
    <2> QED
      BY <1>2, <2>1
  <1>11. ASSUME SessionStep(c) PROVE TasksSound(c)'
    BY <1>11, <1>3, <1>4, <1>5, <1>6, <1>7, <1>8, <1>9, <1>10 DEF SessionStep
  <1>12. ASSUME NEW th \in Thread, th[1] = c, FinishBuild(th) \/ BuildFails(th)
         PROVE  TasksSound(c)'
    <2>1. CASE FinishBuild(th) /\ th[2] = "session"
      <3>1. sess[c].pc = "build"
        BY <1>12, <2>1 DEF FinishBuild, BuildInv, BuildSound
      <3>2. sess[c].work = NoWork
        BY <3>1 DEF TasksSound
      <3>3. sess'[c].work = NoWork
        BY <1>0, <1>12, <2>1, <3>2 DEF FinishBuild, Session
      <3> QED
        BY <1>2, <3>3
    <2>2. CASE FinishBuild(th) /\ th[2] # "session"
      BY <1>f, <1>g, <1>k, <1>12, <2>2 DEF FinishBuild
    <2>3. CASE BuildFails(th)
      <3>1. sess'[c].work = sess[c].work /\ sess'[c].local = t /\ sess'[c].pc \in {"failed", sess[c].pc}
        BY <1>0, <1>12, <2>3 DEF BuildFails, Session
      <3> QED
        BY <1>k, <3>1
    <2> QED
      BY <1>12, <2>1, <2>2, <2>3
  <1>13. NoSession(c).work = NoWork /\ [sess[c] EXCEPT !.pc = "failed"].work = sess[c].work
         /\ [sess[c] EXCEPT !.pc = "failed"].local = t /\ [sess[c] EXCEPT !.pc = "failed"].pc = "failed"
    BY <1>0 DEF NoSession, Session
  <1>14. ASSUME NEW p \in Node, ListConversation(c, p) PROVE sess'[c].work = NoWork
    BY <1>0, <1>14 DEF ListConversation, NoSession
  <1> QED
    BY <1>2, <1>k, <1>11, <1>12, <1>13, <1>14, SessionMoves

\* Whoever asks for a root waits until its handler answers, or fails.
LEMMA AskedStep ==
  ASSUME TypeOK, [Next]_vars, NEW c \in Caller, AskedSound(c)
  PROVE  AskedSound(c)'
  <1> DEFINE th == <<c, "handler">>
             p  == sess[c].peer
  <1>0. /\ sess \in [Caller -> Session] /\ sess[c] \in Session
        /\ th \in Thread /\ th[1] = c /\ th[2] = "handler"
        /\ build \in [Thread -> Build] /\ build[th] \in Build
    BY SessionFields DEF TypeOK, Thread
  <1>f. AnswerLost(c) => sess'[c].pc = "failed"
    BY AnswerLostFacts
  <1>g. \A u, steady : AnswerRoot(c, u, steady) => sess'[c].pc \in {"done", "compare"}
    BY AnswerRootFacts
  <1>1. ASSUME NEW i \in Thread, i[1] = c, FinishBuild(i) \/ BuildFails(i)
        PROVE  sess'[c].pc # "asked"
    <2>1. CASE FinishBuild(i)
      <3>1. CASE sess' = [sess EXCEPT ![c].pc = "root",
                                      ![c].local = BuildMerkleTree(build[i].snap)]
        BY <1>0, <3>1 DEF Session
      <3> QED
        BY <1>1, <1>f, <1>g, <2>1, <3>1 DEF FinishBuild
    <2>2. CASE BuildFails(i)
      <3>1. i[2] \in {"session", "handler"}
        BY DEF Thread
      <3> QED
        BY <1>0, <1>1, <2>2, <3>1 DEF BuildFails
    <2> QED
      BY <1>1, <2>1, <2>2
  <1>2. ASSUME sess'[c] = sess[c], sess[c].pc = "asked"
        PROVE  AskedSound(c)'
    <2>1. BuildsAt(th, p) /\ build[th].pc # "idle" /\ build[th].node = p
      BY <1>2 DEF AskedSound, BuildsAt
    <2>2. CASE build'[th] = build[th]
      BY <1>2, <2>1, <2>2 DEF AskedSound, BuildsAt
    <2>3. ~ FinishBuild(th) /\ ~ BuildFails(th)
      BY <1>0, <1>1, <1>2
    <2>4. ~ Restart(build[th].node)
      <3>1. ASSUME Restart(p) PROVE sess'[c] \in {NoSession(c), [sess[c] EXCEPT !.pc = "failed"]}
        BY <1>2, <3>1 DEF Restart
      <3>2. NoSession(c).pc = "idle" /\ [sess[c] EXCEPT !.pc = "failed"].pc = "failed"
        BY <1>0 DEF NoSession, Session
      <3> QED
        BY <1>2, <2>1, <3>1, <3>2
    <2>5. ASSUME ReadMessages(th) \/ PersistNodes(th)
          PROVE  build'[th].pc # "idle" /\ build'[th].node = p
      <3>1. CASE ReadMessages(th)
        <4> HIDE DEF th
        <4> QED
          BY <1>0, <2>1, <3>1 DEF ReadMessages, Build
      <3>2. CASE PersistNodes(th)
        <4>1. PICK B : build' = [build EXCEPT ![th].rows = @ \ B]
          BY <3>2 DEF PersistNodes
        <4> HIDE DEF th
        <4> QED
          BY <1>0, <2>1, <4>1 DEF Build
      <3> QED
        BY <2>5, <3>1, <3>2
    <2>6. BuildsAt(th, p)'
      <3> HIDE DEF th
      <3>1. sess'[c].peer = p
        BY <1>2
      <3> QED
        BY <1>0, <2>1, <2>2, <2>3, <2>4, <2>5, <3>1, BuildMoves DEF BuildsAt
    <2> QED
      BY <1>2, <2>6 DEF AskedSound, BuildsAt
  <1>3. ASSUME SessionStep(c)
        PROVE  sess'[c].pc # "asked" \/ AskRoot(c)
    <2>1. ASSUME NEW l, NEW k,
                 \/ DrillDown(c, l, k) \/ FetchBucket(c, l, k)
                 \/ FetchUnparsable(c, l, k) \/ PushBucket(c, l, k)
          PROVE  sess'[c].pc # "asked"
      <3>1. sess[c].pc = "work"
        BY <2>1 DEF DrillDown, FetchBucket, FetchUnparsable, PushBucket, NextTask
      <3>2. DrillDown(c, l, k) \/ FetchBucket(c, l, k) => sess'[c].pc = "work"
        BY <1>0, <3>1 DEF DrillDown, FetchBucket, Session
      <3>3. FetchUnparsable(c, l, k) => sess'[c].pc = "failed"
        BY <1>0 DEF FetchUnparsable, Session
      <3>4. PushBucket(c, l, k) => sess'[c].pc \in {"work", "failed"}
        BY <1>0, <1>f, <3>1 DEF PushBucket, Session
      <3> QED
        BY <2>1, <3>2, <3>3, <3>4
    <2>2. ASSUME LoadLocalTree(c) \/ BuildLocalTree(c) \/ CompareYears(c) \/ FinishComparison(c)
          PROVE  sess'[c].pc # "asked"
      BY <1>0, <2>2 DEF LoadLocalTree, BuildLocalTree, CompareYears, FinishComparison, Session
    <2>3. ASSUME RequestRoot(c) \/ RequestFails(c)
          PROVE  sess'[c].pc # "asked"
      BY <1>f, <1>g, <2>3 DEF RequestRoot, RequestFails
    <2>4. ASSUME EndSession(c) \/ FallBack(c)
          PROVE  sess'[c].pc # "asked"
      BY <1>0, <2>4 DEF EndSession, FallBack, NoSession
    <2> QED
      BY <1>3, <2>1, <2>2, <2>3, <2>4 DEF SessionStep
  <1>4. ASSUME AskRoot(c)
        PROVE  AskedSound(c)'
    <2>1. sess'[c].peer = p /\ build'[th].pc = "read" /\ build'[th].node = p
      BY <1>0, <1>4 DEF AskRoot, BeginBuild, NoBuild, Session
    <2> QED
      BY <2>1 DEF AskedSound, BuildsAt
  <1>5. ASSUME \/ \E q \in Node : ListConversation(c, q)
               \/ sess'[c] = NoSession(c)
               \/ sess'[c] = [sess[c] EXCEPT !.pc = "failed"]
        PROVE  sess'[c].pc # "asked"
    <2>1. ASSUME NEW q \in Node, ListConversation(c, q) PROVE sess'[c].pc = "listed"
      BY <1>0, <2>1 DEF ListConversation, NoSession
    <2>2. NoSession(c).pc = "idle" /\ [sess[c] EXCEPT !.pc = "failed"].pc = "failed"
      BY <1>0 DEF NoSession, Session
    <2> QED
      BY <1>5, <2>1, <2>2
  <1>6. sess'[c] = sess[c] /\ sess[c].pc # "asked" => AskedSound(c)'
    BY DEF AskedSound
  <1>7. sess'[c].pc # "asked" => AskedSound(c)'
    BY DEF AskedSound
  <1> QED
    BY <1>1, <1>2, <1>3, <1>4, <1>5, <1>6, <1>7, SessionMoves

\* What a step makes of the root a session was sent.
LEMMA RootMoves ==
  ASSUME TypeOK, [Next]_vars, NEW c \in Caller
  PROVE  \/ /\ sess'[c].peer = sess[c].peer /\ sess'[c].remoteRoot = sess[c].remoteRoot
            /\ sess'[c].steady = sess[c].steady
         \/ sess'[c].steady = FALSE
         \/ /\ RequestRoot(c)
            /\ AnswerRoot(c, tree[sess[c].peer], \A th \in Thread : ~ BuildsAt(th, sess[c].peer))
         \/ \E th \in Thread :
              /\ th[1] = c /\ th[2] = "handler" /\ FinishBuild(th) /\ sess[c].pc = "asked"
              /\ AnswerRoot(c, BuildMerkleTree(build[th].snap),
                            \A i \in Thread \ {th} : ~ BuildsAt(i, build[th].node))
  <1> DEFINE Same == /\ sess'[c].peer = sess[c].peer /\ sess'[c].remoteRoot = sess[c].remoteRoot
                     /\ sess'[c].steady = sess[c].steady
  <1>0. sess \in [Caller -> Session] /\ sess[c] \in Session
    BY SessionFields
  <1>f. AnswerLost(c) => Same
    BY AnswerLostFacts
  <1>n. NoSession(c).steady = FALSE
    BY DEF NoSession
  <1>1. ASSUME NEW l, NEW k, DrillDown(c, l, k) \/ FetchBucket(c, l, k)
        PROVE  Same
    BY <1>0, <1>1 DEF DrillDown, FetchBucket, Session
  <1>2. ASSUME NEW l, NEW k, FetchUnparsable(c, l, k) \/ PushBucket(c, l, k)
        PROVE  Same
    BY <1>0, <1>f, <1>2 DEF FetchUnparsable, PushBucket, Session
  <1>3. ASSUME LoadLocalTree(c) \/ BuildLocalTree(c) \/ AskRoot(c) \/ CompareYears(c)
               \/ FinishComparison(c)
        PROVE  Same
    BY <1>0, <1>3
    DEF LoadLocalTree, BuildLocalTree, AskRoot, CompareYears, FinishComparison, Session
  <1>4. RequestFails(c) => Same
    BY <1>f DEF RequestFails
  <1>5. ASSUME EndSession(c) \/ FallBack(c)
        PROVE  sess'[c].steady = FALSE
    BY <1>0, <1>5, <1>n DEF EndSession, FallBack
  <1>6. ASSUME NEW p \in Node, ListConversation(c, p)
        PROVE  sess'[c].steady = FALSE
    BY <1>0, <1>6 DEF ListConversation, NoSession
  <1>7. [sess[c] EXCEPT !.pc = "failed"].peer = sess[c].peer
        /\ [sess[c] EXCEPT !.pc = "failed"].remoteRoot = sess[c].remoteRoot
        /\ [sess[c] EXCEPT !.pc = "failed"].steady = sess[c].steady
    BY <1>0 DEF Session
  <1>8. ASSUME NEW th \in Thread, th[1] = c, FinishBuild(th) \/ BuildFails(th)
        PROVE  \/ Same
               \/ /\ th[2] = "handler" /\ FinishBuild(th) /\ sess[c].pc = "asked"
                  /\ AnswerRoot(c, BuildMerkleTree(build[th].snap),
                                \A i \in Thread \ {th} : ~ BuildsAt(i, build[th].node))
    <2>1. CASE FinishBuild(th) /\ th[2] = "session"
      BY <1>0, <1>8, <2>1 DEF FinishBuild, Session
    <2>2. CASE FinishBuild(th) /\ th[2] # "session"
      BY <1>8, <1>f, <2>2 DEF FinishBuild
    <2>3. CASE BuildFails(th)
      BY <1>0, <1>8, <2>3 DEF BuildFails, Session
    <2> QED
      BY <1>8, <2>1, <2>2, <2>3
  <1>9. ASSUME RequestRoot(c)
        PROVE  \/ Same
               \/ AnswerRoot(c, tree[sess[c].peer], \A th \in Thread : ~ BuildsAt(th, sess[c].peer))
    BY <1>9, <1>f DEF RequestRoot
  <1>10. SessionStep(c) => Same \/ sess'[c].steady = FALSE \/ RequestRoot(c)
    <2> HIDE DEF Same
    <2> QED
      BY <1>1, <1>2, <1>3, <1>4, <1>5 DEF SessionStep
  <1>11. sess'[c] = sess[c] \/ sess'[c] = [sess[c] EXCEPT !.pc = "failed"] => Same
    BY <1>7
  <1> HIDE DEF Same
  <1>12. \/ Same \/ sess'[c].steady = FALSE
         \/ /\ RequestRoot(c)
            /\ AnswerRoot(c, tree[sess[c].peer], \A th \in Thread : ~ BuildsAt(th, sess[c].peer))
         \/ \E th \in Thread :
              /\ th[1] = c /\ th[2] = "handler" /\ FinishBuild(th) /\ sess[c].pc = "asked"
              /\ AnswerRoot(c, BuildMerkleTree(build[th].snap),
                            \A i \in Thread \ {th} : ~ BuildsAt(i, build[th].node))
    BY <1>n, <1>6, <1>8, <1>9, <1>10, <1>11, SessionMoves
  <1> QED
    BY <1>12 DEF Same

\* The root of a tree that nobody else is storing is that of a final tree, or empty.
LEMMA SteadyStep ==
  ASSUME TypeOK, OnlyPastDaysFrozen, BuildInv, [Next]_vars, NEW c \in Caller,
         AskedSound(c), SteadyFinal(c)
  PROVE  SteadyFinal(c)'
  <1>p. PICK p \in Node : p = sess[c].peer
    BY SessionFields
  <1>1. Final(p) => Final(p)'
    BY FinalStep
  <1>2. CASE /\ sess'[c].peer = p /\ sess'[c].remoteRoot = sess[c].remoteRoot
             /\ sess'[c].steady = sess[c].steady
    BY <1>p, <1>1, <1>2 DEF SteadyFinal, Final, BuildsAt
  <1>3. CASE sess'[c].steady = FALSE
    BY <1>3 DEF SteadyFinal
  <1>4. CASE /\ RequestRoot(c)
             /\ AnswerRoot(c, tree[p], \A th \in Thread : ~ BuildsAt(th, p))
    <2>1. /\ sess'[c].peer = p
          /\ sess'[c].steady = (\A th \in Thread : ~ BuildsAt(th, p))
      BY <1>p, <1>4, AnswerRootFacts
    <2>2. HasTree(tree[p])
      BY <1>p, <1>4 DEF RequestRoot
    <2>3. sess'[c].steady => Final(p)
      BY <2>1, <2>2 DEF Final, HasTree
    <2> QED
      BY <1>1, <2>1, <2>3 DEF SteadyFinal, Final, BuildsAt
  <1>5. ASSUME NEW th \in Thread, th[1] = c, th[2] = "handler", FinishBuild(th),
               sess[c].pc = "asked", NEW steady \in BOOLEAN,
               steady => \A i \in Thread \ {th} : ~ BuildsAt(i, build[th].node),
               AnswerRoot(c, BuildMerkleTree(build[th].snap), steady)
        PROVE  SteadyFinal(c)'
    <2>i. th = <<c, "handler">>
      BY <1>5 DEF Thread
    <2>0. build \in [Thread -> Build]
      BY DEF TypeOK
    <2>1. build[th].node = p /\ BuildSound(th)
      BY <1>p, <1>5, <2>i DEF AskedSound, BuildsAt, BuildInv
    <2>2. /\ sess'[c].peer = p
          /\ sess'[c].remoteRoot = RootHash(BuildMerkleTree(build[th].snap))
          /\ sess'[c].steady => \A i \in Thread \ {th} : ~ BuildsAt(i, build[th].node)
      BY <1>p, <1>5, AnswerRootFacts
    <2>3. /\ build[th].pc = "store" /\ build[th].rows = {} /\ UNCHANGED tree
          /\ build' = [build EXCEPT ![th] = NoBuild(th)]
      BY <1>5 DEF FinishBuild
    <2>4. ASSUME sess'[c].steady
          PROVE  \A i \in Thread : ~ BuildsAt(i, p)'
      <3>1. NoBuild(th).pc = "idle"
        BY DEF NoBuild
      <3> QED
        BY <2>0, <2>1, <2>2, <2>3, <2>4, <3>1 DEF BuildsAt
    <2>5. ASSUME UNION sess'[c].remoteRoot # {}
          PROVE  AtLevel(tree'[p], LevelYear) # {}
      <3>1. PICK y \in Bucket : y[1] = LevelYear /\ InBucket(build[th].snap, y) # {}
        BY <2>2, <2>5 DEF RootHash, AtLevel, Hash, BuildMerkleTree
      <3>2. Hash(tree[p], y) # {}
        BY <2>1, <2>3, <3>1 DEF BuildSound
      <3> QED
        BY <2>3, <3>1, <3>2 DEF AtLevel
    <2> QED
      BY <2>2, <2>4, <2>5 DEF SteadyFinal, Final, BuildsAt
  <1> QED
    BY <1>p, <1>2, <1>3, <1>4, <1>5, RootMoves

\* A session's tree has no frozen buckets but days.
LEMMA LocalDaysStep ==
  ASSUME TypeOK, OnlyPastDaysFrozen, [Next]_vars, NEW c \in Caller, DaysFrozen(sess[c].local)
  PROVE  DaysFrozen(sess'[c].local)
  <1>1. DaysFrozen(tree[Home[c]])
    BY SessionFields DEF OnlyPastDaysFrozen, AtLevel, DaysFrozen
  <1>2. DaysFrozen(EmptyTree) /\ \A S : DaysFrozen(BuildMerkleTree(S))
    BY DEF DaysFrozen, EmptyTree, BuildMerkleTree
  <1> QED
    BY <1>1, <1>2, LocalTreeStep

\* An inserted batch is there afterwards, in some form.
LEMMA InsertsAll ==
  ASSUME NEW S, NEW batch
  PROVE  Hlcs(batch) \subseteq Hlcs(InsertMessages(S, batch))
  <1> SUFFICES ASSUME NEW m \in batch PROVE m.hlc \in Hlcs(InsertMessages(S, batch))
    BY DEF Hlcs
  <1>1. CASE m.hlc \in Hlcs(S)
    <2>1. PICK x \in S : x.hlc = m.hlc
      BY <1>1 DEF Hlcs
    <2>2. x \in InsertMessages(S, batch)
      BY DEF InsertMessages
    <2> QED
      BY <2>1, <2>2 DEF Hlcs
  <1>2. CASE m.hlc \notin Hlcs(S)
    <2>1. m \in InsertMessages(S, batch)
      BY <1>2 DEF InsertMessages
    <2> QED
      BY <2>1 DEF Hlcs
  <1> QED
    BY <1>1, <1>2

\* A message that is active in a tree that shrinks was active before.
LEMMA ActiveBefore ==
  ASSUME NEW t, NEW u, Shrinks(t, u), NEW m \in Message, Active(u, m)
  PROVE  Active(t, m)
  <1>0. m.hlc \in Hlc
    BY DEF Message
  <1>1. \A l \in Level : m \in Hash(t, BucketPath(l, m.hlc))
    <2> SUFFICES ASSUME NEW l \in Level PROVE m \in Hash(t, BucketPath(l, m.hlc))
      OBVIOUS
    <2>1. BucketPath(l, m.hlc) \in Bucket /\ m \in Hash(u, BucketPath(l, m.hlc))
      BY <1>0, BucketPathType DEF Active
    <2> QED
      BY <2>1 DEF Shrinks
  <1>2. BucketPath(LevelDay, m.hlc) \notin t.frozen
    BY Levels DEF Active, Shrinks
  <1> QED
    BY <1>1, <1>2 DEF Active

\* A session that goes on keeps what its messages are covered by.
LEMMA ExchangingStep ==
  ASSUME StoreInv, TreeCoversStore, OnlyPastDaysFrozen, BuildInv, ExchangeInv, [Next]_vars,
         NEW c \in Caller
  PROVE  Exchanging(c)'
  <1> SUFFICES ASSUME sess'[c].pc \in {"work", "done"} PROVE Doomed(c)' \/ Covered(c)'
    BY DEF Exchanging
  <1> DEFINE n == Home[c]
             t == sess[c].local
             p == sess[c].peer
             u == tree[p]
             r == sess[c].remoteRoot
             work == sess[c].work
  <1>t. TypeOK
    BY DEF StoreInv
  <1>0. /\ sess \in [Caller -> Session] /\ sess[c] \in Session
        /\ n \in Node /\ p \in Node /\ t \in Tree /\ u \in Tree
        /\ work \in [Level -> SUBSET Task]
        /\ r \subseteq SUBSET Message /\ UNION r \subseteq Message
        /\ store \in [Node -> SUBSET Message]
    BY <1>t, SessionFields DEF TypeOK
  <1>i. /\ DaysFrozen(t) /\ DaysFrozen(u) /\ SteadyFinal(c)
        /\ \A l \in Level : \A k \in work[l] :
             k.act = "drill" => l < LevelHour /\ k.bucket \in AtLevel(t, l)
    BY <1>0 DEF ExchangeInv, TasksSound, OnlyPastDaysFrozen, AtLevel, DaysFrozen
  <1>x. sess[c].pc \in {"work", "done"} => Doomed(c) \/ Covered(c)
    BY DEF ExchangeInv, Exchanging
  <1>g. \A q \in Node : store[q] \subseteq store'[q] /\ Hlcs(store[q]) \subseteq Hlcs(store'[q])
    BY StoreGrows DEF Hlcs
  <1>c. /\ \A b \in Bucket : \A m \in Hash(t, b) : m \in store[n]
        /\ \A b \in Bucket : \A m \in Hash(u, b) : m \in store[p]
    BY <1>0 DEF TreeCoversStore, CoversStore, InBucket
  <1>h. \A m \in Message : m.hlc \in Hlc /\ \A l \in Level :
          BucketPath(l, m.hlc) \in Bucket /\ BucketPath(l, m.hlc)[1] = l
    BY BucketPathType DEF Message
  \* What remains to be shown of a step that keeps the session's tree and root.
  <1>e. ASSUME sess'[c].peer = p, sess'[c].local = t, sess'[c].remoteRoot = r,
               sess'[c].steady = sess[c].steady,
               \A m \in Message : Active(t, m) =>
                 m.hlc \in Hlcs(store'[p]) \/ Ahead(c, m, Pushing)' \/ Doomed(c)',
               sess[c].steady => \A m \in UNION r : Active(u, m) /\ ComesTo(t, m.hlc) =>
                 m.hlc \in Hlcs(store'[n]) \/ Ahead(c, m, Fetching)' \/ Doomed(c)'
        PROVE  Doomed(c)' \/ Covered(c)'
    <2>1. ASSUME sess[c].steady, NEW m \in UNION r, Active(tree'[p], m)
          PROVE  Active(u, m)
      <3>1. Final(p)
        BY <1>i, <2>1 DEF SteadyFinal
      <3>2. Shrinks(u, tree'[p])
        BY <1>t, <1>0, <3>1, FinalStep
      <3>3. m \in Message
        BY <1>0
      <3> QED
        BY <2>1, <3>2, <3>3, ActiveBefore
    <2> HIDE DEF t, p, u, r, n
    <2> QED
      BY <1>e, <2>1 DEF Covered, n
  <1>1. ASSUME sess'[c] = sess[c] PROVE Doomed(c)' \/ Covered(c)'
    <2>1. Doomed(c) \/ Covered(c)
      BY <1>1, <1>x
    <2>2. /\ Doomed(c) => Doomed(c)'
          /\ \A m, acts : Ahead(c, m, acts) => Ahead(c, m, acts)'
      BY <1>1 DEF Ahead, Doomed
    <2> QED
      BY <1>0, <1>1, <1>e, <1>g, <2>1, <2>2 DEF Covered
  \* Equal roots: every message of a year row of one tree is in a row of the other.
  <1>a. ASSUME NEW v \in Tree, NEW steady, AnswerRoot(c, v, steady), UNCHANGED store,
               \A b \in Bucket : \A m \in Hash(v, b) : m \in store[p]
        PROVE  Covered(c)'
    <2>1. /\ sess'[c].peer = p /\ sess'[c].local = t /\ sess'[c].remoteRoot = RootHash(v)
          /\ sess'[c].pc = IF RootsMatch(t, RootHash(v)) THEN "done" ELSE "compare"
      BY <1>t, <1>a, AnswerRootFacts
    <2>2. RootHash(t) = RootHash(v)
      BY <2>1 DEF RootsMatch
    <2>3. UNION RootHash(v) \subseteq store[p] /\ UNION RootHash(t) \subseteq store[n]
      BY <1>a, <1>c DEF RootHash, AtLevel
    <2>4. ASSUME NEW m \in Message, Active(t, m)
          PROVE  m.hlc \in Hlcs(store[p])
      <3>1. m \in Hash(t, BucketPath(LevelYear, m.hlc))
        BY <2>4, Levels DEF Active
      <3>2. BucketPath(LevelYear, m.hlc) \in AtLevel(t, LevelYear)
        BY <1>h, <3>1, Levels DEF AtLevel
      <3>3. m \in store[p]
        BY <2>2, <2>3, <3>1, <3>2 DEF RootHash
      <3> QED
        BY <3>3 DEF Hlcs
    <2>5. ASSUME NEW m \in UNION RootHash(v)
          PROVE  m.hlc \in Hlcs(store[n])
      BY <2>2, <2>3 DEF Hlcs
    <2> HIDE DEF t, p, n
    <2> QED
      BY <1>a, <2>1, <2>4, <2>5 DEF Covered, n
  <1>2. ASSUME RequestRoot(c) PROVE Doomed(c)' \/ Covered(c)'
    <2>1. ~ AnswerLost(c)
      BY <1>t, AnswerLostFacts
    <2> QED
      BY <1>0, <1>2, <1>a, <1>c, <2>1 DEF RequestRoot
  <1>b. ASSUME NEW th \in Thread, th[1] = c, FinishBuild(th)
        PROVE  Doomed(c)' \/ Covered(c)'
    <2> DEFINE v == BuildMerkleTree(build[th].snap)
    <2>0. build[th].snap \in SUBSET Message /\ v \in Tree
      BY <1>t, <1>0, BuildFields, TreeOperators
    <2>1. ~ AnswerLost(c)
      BY <1>t, AnswerLostFacts
    <2>2. ASSUME sess' = [sess EXCEPT ![c].pc = "root", ![c].local = v] PROVE FALSE
      <3>1. sess'[c].pc = "root"
        <4> HIDE DEF v
        <4> QED
          BY <1>0, <2>2 DEF Session
      <3> QED
        BY <3>1
    <2>3. ASSUME UNCHANGED sess PROVE Doomed(c)' \/ Covered(c)'
      BY <1>1, <2>3
    <2>4. ASSUME sess[c].pc = "asked", th[2] = "handler", NEW steady, AnswerRoot(c, v, steady)
          PROVE  Covered(c)'
      <3>1. th = <<c, "handler">>
        BY <1>b, <2>4 DEF Thread
      <3>2. build[th].node = p /\ build[th].snap \subseteq store[p]
        BY <2>4, <3>1 DEF ExchangeInv, AskedSound, BuildsAt, BuildInv, BuildSound
      <3>3. \A b \in Bucket : \A m \in Hash(v, b) : m \in store[p]
        BY <3>2 DEF BuildMerkleTree, Hash, InBucket
      <3>4. UNCHANGED store
        BY <1>b DEF FinishBuild
      <3> HIDE DEF v
      <3> QED
        BY <1>a, <2>0, <2>4, <3>3, <3>4
    <2>5. \/ sess' = [sess EXCEPT ![c].pc = "root", ![c].local = v]
          \/ UNCHANGED sess
          \/ /\ sess[c].pc = "asked" /\ th[2] = "handler"
             /\ \E steady \in BOOLEAN : AnswerRoot(c, v, steady)
      BY <1>b, <2>1 DEF FinishBuild
    <2> QED
      BY <2>2, <2>3, <2>4, <2>5
  <1>d. ASSUME NEW th \in Thread, th[1] = c, BuildFails(th)
        PROVE  Doomed(c)' \/ Covered(c)'
    <2>1. sess' = [sess EXCEPT ![c].pc =
                     IF th[2] = "session" \/ @ = "asked" THEN "failed" ELSE @]
      BY <1>d DEF BuildFails
    <2>2. sess'[c].pc # "failed"
      OBVIOUS
    <2>3. sess'[c] = sess[c]
      BY <1>0, <2>1, <2>2 DEF Session
    <2> QED
      BY <1>1, <2>3
  <1>3. ASSUME CompareYears(c) PROVE Doomed(c)' \/ Covered(c)'
    <2> DEFINE asked == AtLevel(t, LevelYear)
               new   == CompareLevel(t, LevelYear, asked, u)
    <2>1. /\ sess'[c].peer = p /\ sess'[c].local = t /\ sess'[c].remoteRoot = r
          /\ sess'[c].steady = sess[c].steady
          /\ sess'[c].pc = "work" /\ sess'[c].work = [work EXCEPT ![LevelYear] = new]
      BY <1>3, <1>0 DEF CompareYears, Session
    <2>2. sess'[c].work[LevelYear] = new
      <3> HIDE DEF new
      <3> QED
        BY <1>0, <2>1, Levels
    <2>3. \A m \in Message : BucketPath(LevelYear, m.hlc) \notin t.frozen
      BY <1>h, <1>i, Levels DEF DaysFrozen
    <2>4. Covering(new, t, u, LevelYear, asked)
      <3> HIDE DEF t, u
      <3> QED
        BY <1>0, Levels, CompareCovers
    <2>5. ASSUME NEW m \in Message, Active(t, m)
          PROVE  m.hlc \in Hlcs(store'[p]) \/ Ahead(c, m, Pushing)' \/ Doomed(c)'
      <3> DEFINE b == BucketPath(LevelYear, m.hlc)
      <3>1. m \in Hash(t, b) /\ b \in asked \ t.frozen
        BY <1>h, <2>3, <2>5, Levels DEF Active, AtLevel
      <3>2. CASE m \in Hash(u, b)
        BY <3>2, <1>0, <1>c, <1>g, <1>h, Levels DEF Hlcs
      <3>3. ASSUME NEW k \in new, k.bucket = b, k.act \in Pushing \/ k.act = "fetch"
            PROVE  Ahead(c, m, Pushing)' \/ Doomed(c)'
        <4> HIDE DEF new
        <4> QED
          BY <2>1, <2>2, <3>3, Levels DEF Ahead, Doomed
      <3> HIDE DEF new, asked, t, u, b
      <3> QED
        BY <2>4, <3>1, <3>2, <3>3 DEF Covering
    <2>6. ASSUME NEW m \in UNION r, Active(u, m), ComesTo(t, m.hlc)
          PROVE  m.hlc \in Hlcs(store'[n]) \/ Ahead(c, m, Fetching)'
      <3> DEFINE b == BucketPath(LevelYear, m.hlc)
      <3>0. m \in Message
        BY <1>0
      <3>1. /\ asked # {} /\ m \in Hash(u, b)
            /\ b \in Bucket \ t.frozen /\ b[1] = LevelYear
        BY <1>h, <2>3, <2>6, <3>0, Levels DEF Active, ComesTo, HasTree
      <3>2. CASE m \in Hash(t, b)
        BY <3>1, <3>2, <1>0, <1>c, <1>g DEF Hlcs
      <3>3. ASSUME NEW k \in new, k.bucket = b, k.act \in Fetching
            PROVE  Ahead(c, m, Fetching)'
        <4> HIDE DEF new
        <4> QED
          BY <2>1, <2>2, <3>3, Levels DEF Ahead
      <3> HIDE DEF new, asked, t, u, b
      <3> QED
        BY <2>4, <3>1, <3>2, <3>3 DEF Covering
    <2> QED
      BY <1>e, <2>1, <2>5, <2>6
  <1>4. ASSUME NEW l \in Level, NEW k \in work[l], DrillDown(c, l, k)
        PROVE  Doomed(c)' \/ Covered(c)'
    <2> DEFINE asked == {b \in AtLevel(t, l + 1) : Within(b, k.bucket)}
               new   == CompareLevel(t, l + 1, asked, u)
    <2>1. /\ sess[c].pc = "work"
          /\ sess'[c].peer = p /\ sess'[c].local = t /\ sess'[c].remoteRoot = r
          /\ sess'[c].steady = sess[c].steady /\ sess'[c].pc = "work"
          /\ sess'[c].work = [work EXCEPT ![l] = @ \ {k}, ![l + 1] = new]
          /\ \A i \in l + 1 .. LevelHour : work[i] = {}
          /\ k.act = "drill"
      BY <1>4, <1>0 DEF DrillDown, NextTask, Session
    <2>2. l < LevelHour /\ k.bucket \in AtLevel(t, l)
      BY <1>i, <2>1
    <2>3. l \in Int /\ l + 1 \in Level /\ work[l + 1] = {}
      BY <2>1, <2>2 DEF Level, LevelYear, LevelHour
    <2>4. Doomed(c) \/ Covered(c)
      BY <1>x, <2>1
    <2>5. /\ \A m \in Message : Active(t, m) /\ BucketPath(l, m.hlc) = k.bucket
               => BucketPath(l + 1, m.hlc) \in asked \ t.frozen
          /\ \A h \in Hlc : ComesTo(t, h) /\ BucketPath(l, h) = k.bucket
               => asked # {} /\ BucketPath(l + 1, h) \notin t.frozen
      <3> DEFINE b == k.bucket
      <3>1. /\ asked = {x \in AtLevel(t, l + 1) : Within(x, b)}
            /\ t \in Tree /\ DaysFrozen(t) /\ l < LevelHour /\ b \in AtLevel(t, l)
        BY <1>0, <1>i, <2>2
      <3> HIDE DEF asked, t, b
      <3>2. /\ \A m \in Message : Active(t, m) /\ BucketPath(l, m.hlc) = b
                 => BucketPath(l + 1, m.hlc) \in asked \ t.frozen
            /\ \A h \in Hlc : ComesTo(t, h) /\ BucketPath(l, h) = b
                 => asked # {} /\ BucketPath(l + 1, h) \notin t.frozen
        BY <3>1, DrillAsks
      <3> QED
        BY <3>2 DEF b
    <2>6. Covering(new, t, u, l + 1, asked)
      <3>1. asked \in SUBSET AtLevel(t, l + 1)
        OBVIOUS
      <3> HIDE DEF asked, t, u
      <3> QED
        BY <1>0, <2>3, <3>1, CompareCovers
    <2>7. /\ \A m \in Message : Active(t, m) /\ BucketPath(l, m.hlc) = k.bucket =>
               \/ m \in store[p]
               \/ \E j \in new :
                    /\ j.bucket = BucketPath(l + 1, m.hlc)
                    /\ j.act \in Pushing \/ (j.act = "fetch" /\ j.bucket \in u.frozen)
          /\ \A m \in Message :
               Active(u, m) /\ ComesTo(t, m.hlc) /\ BucketPath(l, m.hlc) = k.bucket =>
                 \/ m \in store[n]
                 \/ \E j \in new : j.bucket = BucketPath(l + 1, m.hlc) /\ j.act \in Fetching
      <3>1. \A m \in Message : /\ Active(t, m) => m \in Hash(t, BucketPath(l + 1, m.hlc))
                               /\ Active(u, m) => m \in Hash(u, BucketPath(l + 1, m.hlc))
        BY <2>3 DEF Active
      <3> HIDE DEF asked, new, t, u, p, n
      <3>2. ASSUME NEW m \in Message, Active(t, m), BucketPath(l, m.hlc) = k.bucket
            PROVE  \/ m \in store[p]
                   \/ \E j \in new :
                        /\ j.bucket = BucketPath(l + 1, m.hlc)
                        /\ j.act \in Pushing \/ (j.act = "fetch" /\ j.bucket \in u.frozen)
        BY <1>c, <1>h, <2>3, <2>5, <2>6, <3>1, <3>2 DEF Covering
      <3>3. ASSUME NEW m \in Message, Active(u, m), ComesTo(t, m.hlc),
                   BucketPath(l, m.hlc) = k.bucket
            PROVE  \/ m \in store[n]
                   \/ \E j \in new : j.bucket = BucketPath(l + 1, m.hlc) /\ j.act \in Fetching
        BY <1>c, <1>h, <2>3, <2>5, <2>6, <3>1, <3>3 DEF Covering
      <3> QED
        BY <3>2, <3>3
    <2>9. /\ sess'[c].work[l + 1] = new
          /\ \A i \in Level : \A j \in work[i] : j # k \/ i # l => j \in sess'[c].work[i]
      <3> HIDE DEF new
      <3> QED
        BY <1>0, <2>1, <2>3
    <2>10. Doomed(c) => Doomed(c)'
      BY <2>1, <2>9 DEF Doomed
    <2>11. ASSUME NEW m \in Message, Active(t, m), ~ Doomed(c), m.hlc \notin Hlcs(store'[p])
           PROVE  Ahead(c, m, Pushing)' \/ Doomed(c)'
      <3>1. m.hlc \notin Hlcs(store[p]) /\ m \notin store[p]
        BY <1>0, <1>g, <2>11 DEF Hlcs
      <3>i. PICK i \in Level : \E j \in work[i] : j.act \in Pushing /\ j.bucket = BucketPath(i, m.hlc)
        BY <2>4, <2>11, <3>1 DEF Covered, Ahead
      <3>2. PICK j \in work[i] : j.act \in Pushing /\ j.bucket = BucketPath(i, m.hlc)
        BY <3>i
      <3>3. CASE j # k \/ i # l
        BY <2>1, <2>9, <3>2, <3>3 DEF Ahead
      <3>4. CASE j = k /\ i = l
        <4>1. PICK x \in new :
                /\ x.bucket = BucketPath(l + 1, m.hlc)
                /\ x.act \in Pushing \/ (x.act = "fetch" /\ x.bucket \in u.frozen)
          BY <2>7, <2>11, <3>1, <3>2, <3>4
        <4>2. x.bucket[1] = l + 1
          BY <4>1 DEF BucketPath
        <4>3. x.bucket \in u.frozen => l + 1 # LevelHour
          BY <1>i, <4>2, Levels DEF DaysFrozen
        <4> HIDE DEF new
        <4> QED
          BY <2>1, <2>3, <2>9, <4>1, <4>3 DEF Ahead, Doomed
      <3> QED
        BY <3>3, <3>4
    <2>12. ASSUME sess[c].steady, NEW m \in UNION r, Active(u, m), ComesTo(t, m.hlc), ~ Doomed(c),
                  m.hlc \notin Hlcs(store'[n])
           PROVE  Ahead(c, m, Fetching)'
      <3>1. m.hlc \notin Hlcs(store[n]) /\ m \notin store[n] /\ m \in Message
        BY <1>0, <1>g, <2>12 DEF Hlcs
      <3>i. PICK i \in Level : \E j \in work[i] : j.act \in Fetching /\ j.bucket = BucketPath(i, m.hlc)
        BY <2>4, <2>12, <3>1 DEF Covered, Ahead
      <3>2. PICK j \in work[i] : j.act \in Fetching /\ j.bucket = BucketPath(i, m.hlc)
        BY <3>i
      <3>3. CASE j # k \/ i # l
        BY <2>1, <2>9, <3>2, <3>3 DEF Ahead
      <3>4. CASE j = k /\ i = l
        <4>1. \E x \in new : x.act \in Fetching /\ x.bucket = BucketPath(l + 1, m.hlc)
          BY <2>7, <2>12, <3>1, <3>2, <3>4
        <4> HIDE DEF new
        <4> QED
          BY <2>1, <2>3, <2>9, <4>1 DEF Ahead
      <3> QED
        BY <3>3, <3>4
    <2> QED
      BY <1>e, <2>1, <2>10, <2>11, <2>12
  <1>5. ASSUME NEW l \in Level, NEW k \in work[l], FetchBucket(c, l, k)
        PROVE  Doomed(c)' \/ Covered(c)'
    <2> DEFINE batch == InBucket(store[p], k.bucket)
               push  == [k EXCEPT !.act = "push"]
               more  == IF k.act = "exchange" THEN {push} ELSE {}
    <2>1. /\ sess[c].pc = "work" /\ l = LevelHour
          /\ sess'[c].peer = p /\ sess'[c].local = t /\ sess'[c].remoteRoot = r
          /\ sess'[c].steady = sess[c].steady /\ sess'[c].pc = "work"
          /\ sess'[c].work = [work EXCEPT ![l] = (@ \ {k}) \cup more]
          /\ k.act \in {"fetch", "exchange"}
          /\ store'[n] = InsertMessages(store[n], batch)
      <3> HIDE DEF batch, push
      <3> QED
        BY <1>5, <1>0 DEF FetchBucket, NextTask, Session, batch, push
    <2>2. k \in Task /\ push.act = "push" /\ push.bucket = k.bucket
      BY <1>0 DEF Task
    <2>3. Doomed(c) \/ Covered(c)
      BY <1>x, <2>1
    <2>4. /\ \A i \in Level : \A j \in work[i] : j # k \/ i # l => j \in sess'[c].work[i]
          /\ k.act = "exchange" => push \in sess'[c].work[l]
      <3> HIDE DEF push
      <3> QED
        BY <1>0, <2>1
    <2>5. Doomed(c) => Doomed(c)'
      BY <2>1, <2>4 DEF Doomed
    <2>6. ASSUME NEW m \in Message, Active(t, m), ~ Doomed(c), m.hlc \notin Hlcs(store'[p])
          PROVE  Ahead(c, m, Pushing)'
      <3>1. m.hlc \notin Hlcs(store[p])
        BY <1>0, <1>g, <2>6
      <3>i. PICK i \in Level : \E j \in work[i] : j.act \in Pushing /\ j.bucket = BucketPath(i, m.hlc)
        BY <2>3, <2>6, <3>1 DEF Covered, Ahead
      <3>2. PICK j \in work[i] : j.act \in Pushing /\ j.bucket = BucketPath(i, m.hlc)
        BY <3>i
      <3>3. CASE j # k \/ i # l
        BY <2>1, <2>4, <3>2, <3>3 DEF Ahead
      <3>4. CASE j = k /\ i = l
        <4>1. push \in sess'[c].work[l] /\ push.act \in Pushing /\ push.bucket = BucketPath(l, m.hlc)
          BY <2>1, <2>2, <2>4, <3>2, <3>4 DEF Pushing
        <4> HIDE DEF push
        <4> QED
          BY <2>1, <4>1 DEF Ahead
      <3> QED
        BY <3>3, <3>4
    <2>7. ASSUME sess[c].steady, NEW m \in UNION r, Active(u, m), ComesTo(t, m.hlc), ~ Doomed(c),
                 m.hlc \notin Hlcs(store'[n])
          PROVE  Ahead(c, m, Fetching)'
      <3>0. m \in Message
        BY <1>0
      <3>1. m.hlc \notin Hlcs(store[n]) /\ m \in store[p]
        <4>1. m \in Hash(u, BucketPath(LevelYear, m.hlc))
          BY <2>7, Levels DEF Active
        <4> QED
          BY <1>0, <1>c, <1>g, <1>h, <2>7, <3>0, <4>1, Levels
      <3>i. PICK i \in Level : \E j \in work[i] : j.act \in Fetching /\ j.bucket = BucketPath(i, m.hlc)
        BY <2>3, <2>7, <3>1 DEF Covered, Ahead
      <3>2. PICK j \in work[i] : j.act \in Fetching /\ j.bucket = BucketPath(i, m.hlc)
        BY <3>i
      <3>3. CASE j # k \/ i # l
        BY <2>1, <2>4, <3>2, <3>3 DEF Ahead
      <3>4. CASE j = k /\ i = l
        <4>1. m \in batch
          BY <1>h, <3>0, <3>1, <3>2, <3>4 DEF InBucket
        <4>2. m.hlc \in Hlcs(batch)
          BY <4>1 DEF Hlcs
        <4> QED
          BY <2>1, <2>7, <4>2, InsertsAll
      <3> QED
        BY <3>3, <3>4
    <2> QED
      BY <1>e, <2>1, <2>5, <2>6, <2>7
  <1>6. ASSUME NEW l \in Level, NEW k \in work[l], PushBucket(c, l, k)
        PROVE  Doomed(c)' \/ Covered(c)'
    <2> DEFINE batch == InBucket(store[n], k.bucket)
    <2>1. ~ AnswerLost(c)
      BY <1>t, AnswerLostFacts
    <2>2. /\ sess[c].pc = "work"
          /\ sess'[c].peer = p /\ sess'[c].local = t /\ sess'[c].remoteRoot = r
          /\ sess'[c].steady = sess[c].steady /\ sess'[c].pc = "work"
          /\ sess'[c].work = [work EXCEPT ![l] = @ \ {k}]
          /\ k.act = "push"
          /\ store'[p] = InsertMessages(store[p], batch)
      <3>1. /\ sess[c].pc = "work" /\ k.act = "push"
            /\ store' = [store EXCEPT ![p] = InsertMessages(@, batch)]
            /\ sess' = [sess EXCEPT ![c].work[l] = @ \ {k}]
        BY <1>6, <2>1 DEF PushBucket, NextTask
      <3> HIDE DEF batch
      <3> QED
        BY <1>0, <3>1 DEF Session
    <2>3. Doomed(c) \/ Covered(c)
      BY <1>x, <2>2
    <2>4. \A i \in Level : \A j \in work[i] : j # k \/ i # l => j \in sess'[c].work[i]
      BY <1>0, <2>2
    <2>5. Doomed(c) => Doomed(c)'
      BY <2>2, <2>4 DEF Doomed
    <2>6. ASSUME NEW m \in Message, Active(t, m), ~ Doomed(c), m.hlc \notin Hlcs(store'[p])
          PROVE  Ahead(c, m, Pushing)'
      <3>1. m.hlc \notin Hlcs(store[p]) /\ m \in store[n]
        <4>1. m \in Hash(t, BucketPath(LevelYear, m.hlc))
          BY <2>6, Levels DEF Active
        <4> QED
          BY <1>0, <1>c, <1>g, <1>h, <2>6, <4>1, Levels
      <3>i. PICK i \in Level : \E j \in work[i] : j.act \in Pushing /\ j.bucket = BucketPath(i, m.hlc)
        BY <2>3, <2>6, <3>1 DEF Covered, Ahead
      <3>2. PICK j \in work[i] : j.act \in Pushing /\ j.bucket = BucketPath(i, m.hlc)
        BY <3>i
      <3>3. CASE j # k \/ i # l
        BY <2>2, <2>4, <3>2, <3>3 DEF Ahead
      <3>4. CASE j = k /\ i = l
        <4>1. m \in batch
          BY <1>h, <3>1, <3>2, <3>4 DEF InBucket
        <4>2. m.hlc \in Hlcs(batch)
          BY <4>1 DEF Hlcs
        <4> QED
          BY <2>2, <2>6, <4>2, InsertsAll
      <3> QED
        BY <3>3, <3>4
    <2>7. ASSUME sess[c].steady, NEW m \in UNION r, Active(u, m), ComesTo(t, m.hlc), ~ Doomed(c),
                 m.hlc \notin Hlcs(store'[n])
          PROVE  Ahead(c, m, Fetching)'
      <3>1. m.hlc \notin Hlcs(store[n])
        BY <1>0, <1>g, <2>7
      <3>i. PICK i \in Level : \E j \in work[i] : j.act \in Fetching /\ j.bucket = BucketPath(i, m.hlc)
        BY <2>3, <2>7, <3>1 DEF Covered, Ahead
      <3>2. PICK j \in work[i] : j.act \in Fetching /\ j.bucket = BucketPath(i, m.hlc)
        BY <3>i
      <3>3. j # k \/ i # l
        BY <2>2, <3>2 DEF Fetching
      <3> QED
        BY <2>2, <2>4, <3>2, <3>3 DEF Ahead
    <2> QED
      BY <1>e, <2>2, <2>5, <2>6, <2>7
  <1>7. ASSUME FinishComparison(c) PROVE Doomed(c)' \/ Covered(c)'
    <2>1. /\ sess[c].pc = "work" /\ work = NoWork
          /\ sess'[c].peer = p /\ sess'[c].local = t /\ sess'[c].remoteRoot = r
          /\ sess'[c].steady = sess[c].steady
      BY <1>7, <1>0 DEF FinishComparison, Session
    <2>2. ~ Doomed(c) /\ \A m, acts : ~ Ahead(c, m, acts)
      BY <2>1 DEF Ahead, Doomed, NoWork
    <2>3. Covered(c)
      BY <1>x, <2>1, <2>2
    <2> QED
      BY <1>0, <1>e, <1>g, <2>1, <2>2, <2>3 DEF Covered
  <1>8. ~ LoadLocalTree(c) /\ ~ BuildLocalTree(c) /\ ~ AskRoot(c)
    BY <1>0 DEF LoadLocalTree, BuildLocalTree, AskRoot, Session
  <1>9. ~ RequestFails(c) /\ ~ EndSession(c) /\ ~ FallBack(c) /\ \A q : ~ ListConversation(c, q)
    <2>1. ~ RequestFails(c)
      BY <1>t, AnswerLostFacts DEF RequestFails
    <2>2. ~ EndSession(c) /\ ~ FallBack(c)
      BY <1>0 DEF EndSession, FallBack, NoSession, Session
    <2>3. ASSUME NEW q, ListConversation(c, q) PROVE FALSE
      <3>1. sess'[c] = [NoSession(c) EXCEPT !.pc = "listed", !.peer = q, !.since = last[n]]
        BY <1>0, <2>3 DEF ListConversation
      <3> QED
        BY <3>1 DEF NoSession
    <2> QED
      BY <2>1, <2>2, <2>3
  <1>10. \A l, k : ~ FetchUnparsable(c, l, k)
    BY <1>0 DEF FetchUnparsable, Session
  <1>11. ASSUME SessionStep(c) PROVE Doomed(c)' \/ Covered(c)'
    BY <1>11, <1>2, <1>3, <1>4, <1>5, <1>6, <1>7, <1>8, <1>9, <1>10 DEF SessionStep
  <1>12. sess'[c] # NoSession(c) /\ sess'[c] # [sess[c] EXCEPT !.pc = "failed"]
    BY <1>0 DEF NoSession, Session
  <1> QED
    BY <1>t, <1>1, <1>b, <1>d, <1>9, <1>11, <1>12, SessionMoves

LEMMA ExchangeInvariant == Spec => []ExchangeInv
  <1>1. Init => ExchangeInv
    <2> SUFFICES ASSUME Init, NEW c \in Caller
                 PROVE  /\ DaysFrozen(sess[c].local)
                        /\ TasksSound(c) /\ AskedSound(c) /\ SteadyFinal(c) /\ Exchanging(c)
      BY DEF ExchangeInv
    <2>1. /\ sess[c].pc = "idle" /\ sess[c].work = NoWork /\ sess[c].local = EmptyTree
          /\ sess[c].steady = FALSE
      BY DEF Init, NoSession
    <2>2. \A l \in Level : sess[c].work[l] = {}
      BY <2>1 DEF NoWork
    <2>3. TasksSound(c)
      BY <2>1, <2>2 DEF TasksSound
    <2> QED
      BY <2>1, <2>3 DEF DaysFrozen, EmptyTree, AskedSound, SteadyFinal, Exchanging
  <1>2. StoreInv /\ TreeCoversStore /\ OnlyPastDaysFrozen /\ BuildInv /\ ExchangeInv /\ [Next]_vars
          => ExchangeInv'
    <2> SUFFICES ASSUME StoreInv, TreeCoversStore, OnlyPastDaysFrozen, BuildInv, ExchangeInv,
                        [Next]_vars, NEW c \in Caller
                 PROVE  /\ DaysFrozen(sess'[c].local) /\ TasksSound(c)' /\ AskedSound(c)'
                        /\ SteadyFinal(c)' /\ Exchanging(c)'
      BY DEF ExchangeInv, DaysFrozen
    <2>1. /\ TypeOK /\ DaysFrozen(sess[c].local)
          /\ TasksSound(c) /\ AskedSound(c) /\ SteadyFinal(c)
      BY DEF StoreInv, ExchangeInv
    <2>2. DaysFrozen(sess'[c].local)
      BY <2>1, LocalDaysStep
    <2>3. TasksSound(c)' /\ AskedSound(c)' /\ SteadyFinal(c)'
      BY <2>1, TasksStep, AskedStep, SteadyStep
    <2> QED
      BY <2>2, <2>3, ExchangingStep
  <1> QED
    BY <1>1, <1>2, StoreInvariant, CachedTreesTrue, FrozenDaysOver, BuildInvariant, PTL DEF Spec

\* A session that completes has exchanged every message that the comparison came to,
\* whatever was sent, delivered, built, stored in part, frozen, pruned or synchronised
\* by others while it ran.
THEOREM SessionsExchange == Spec => []SessionExchanges
  <1>1. TypeOK /\ ExchangeInv => SessionExchanges
    <2> SUFFICES ASSUME TypeOK, ExchangeInv, NEW c \in Caller, sess[c].pc = "done"
                 PROVE  LET t == sess[c].local
                            p == sess[c].peer
                        IN  /\ \A b \in Bucket : \A m \in Hash(t, b) :
                                 Active(t, m) => m.hlc \in Hlcs(store[p])
                            /\ sess[c].steady => \A m \in UNION sess[c].remoteRoot :
                                 Active(tree[p], m) /\ ComesTo(t, m.hlc)
                                   => m.hlc \in Hlcs(store[Home[c]])
      BY DEF SessionExchanges
    <2>1. ~ Doomed(c) /\ \A m, acts : ~ Ahead(c, m, acts)
      BY DEF Doomed, Ahead
    <2>2. Covered(c)
      BY <2>1 DEF ExchangeInv, Exchanging
    <2>3. \A b \in Bucket : Hash(sess[c].local, b) \subseteq Message
      BY SessionFields DEF Tree, Hash
    <2> QED
      BY <2>1, <2>2, <2>3 DEF Covered
  <1> QED
    BY <1>1, TypeCorrect, ExchangeInvariant, PTL
=============================================================================
