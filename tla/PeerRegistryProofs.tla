------------------------- MODULE PeerRegistryProofs -------------------------
(***************************************************************************)
(* Proofs about PeerRegistry, for every set of peers and every bound.  The *)
(* argument: a daemon that is not up has nothing under way, so every step  *)
(* but a start and an end is a step of a daemon that is up, and each step  *)
(* of those leaves what the others rely on: an entry of uuidMap for a UUID *)
(* is the peer of that UUID, whoever wrote it.                             *)
(***************************************************************************)
EXTENDS PeerRegistry, TLAPS

\* A daemon that is not up has nothing under way and knows nobody.
Idle ==
  ~up =>
    /\ \A p \in Peers : /\ peerMap[p] = NoIdentity
                        /\ conns[p] = 0 /\ closing[p] = 0 /\ asks[p] = 0 /\ dials[p] = 0
                        /\ \A k \in Ending : due[p][k] = 0
    /\ \A h \in Handler : handler[h].at = "idle"
    /\ ~loader.reading /\ loader.todo = {}
    /\ unsaved = Peers

\* The steps that a started daemon takes and that leave it started.
Works ==
  \/ ReadSaved \/ PeerInfo \/ SaveInfo \/ InfoSaved
  \/ \E p \in Peers :
       \/ OpenConnection(p) \/ CloseConnection(p) \/ Disconnected(p)
       \/ Identified(p) \/ NotIdentified(p) \/ Dial(p) \/ DialEnds(p)
       \/ BeginSave(p) \/ Announce(p) \/ SayLeft(p) \/ Load(p)
  \/ \E h \in Handler : HandlerStep(h)

\* The steps that end its process.
Stops == Quit \/ Kill \/ \E p \in Peers : Panic(p)

LEMMA NextIs == Next <=> Start \/ Stops \/ Works
  BY DEF Next, PeerStep, Works, Stops

LEMMA WorksUp == ASSUME TypeOK, Idle, Works PROVE up /\ up' = up
  <1>1. CASE ReadSaved \/ PeerInfo \/ SaveInfo \/ InfoSaved
    BY <1>1 DEF ReadSaved, PeerInfo, SaveInfo, InfoSaved, Idle, Handler
  <1>2. ASSUME NEW p \in Peers,
               \/ OpenConnection(p) \/ CloseConnection(p) \/ Disconnected(p)
               \/ Identified(p) \/ NotIdentified(p) \/ Dial(p) \/ DialEnds(p) \/ Load(p)
        PROVE  up /\ up' = up
    <2>1. CASE OpenConnection(p)
      BY <2>1 DEF OpenConnection
    <2>2. CASE CloseConnection(p) \/ Dial(p)
      BY <2>2 DEF CloseConnection, Dial, Idle
    <2>3. CASE Disconnected(p)
      BY <2>3 DEF Disconnected, Idle
    <2>4. CASE Identified(p) \/ NotIdentified(p)
      BY <2>4 DEF Identified, NotIdentified, Idle
    <2>5. CASE DialEnds(p)
      BY <2>5 DEF DialEnds, Idle
    <2>6. CASE Load(p)
      BY <2>6 DEF Load, Idle
    <2> QED
      BY <1>2, <2>1, <2>2, <2>3, <2>4, <2>5, <2>6
  <1>3. ASSUME NEW p \in Peers, BeginSave(p) \/ Announce(p) \/ SayLeft(p)
        PROVE  up /\ up' = up
    <2>1. \E k \in Ending : due[p][k] > 0
      BY <1>3 DEF BeginSave, Announce, SayLeft, Settle, GoesOn, Ending, Joined, Left, Panics
    <2>2. up' = up
      BY <1>3 DEF BeginSave, Announce, SayLeft
    <2> QED
      BY <2>1, <2>2 DEF Idle, TypeOK
  <1>4. ASSUME NEW h \in Handler, HandlerStep(h)
        PROVE  up /\ up' = up
    BY <1>4 DEF HandlerStep, Receive, AutoRegister, SaveAuthor, AnnounceAuthor, Idle
  <1> QED
    BY <1>1, <1>2, <1>3, <1>4 DEF Works
-----------------------------------------------------------------------------
(* Types. *)

LEMMA SetPeerType ==
  ASSUME TypeOK, NEW p \in Peers, NEW u \in Uuid, NEW keyed \in BOOLEAN, SetPeer(p, u, keyed)
  PROVE  /\ peerMap' \in [Peers -> Identity \cup {NoIdentity}]
         /\ uuidMap' \in [Uuid -> Peers \cup {NoPeer}]
  BY DEF SetPeer, TypeOK, Identity

LEMMA DueType ==
  ASSUME TypeOK, NEW p \in Peers, NEW k \in Ending, Owe(p, k) \/ Settle(p, k)
  PROVE  due' \in [Peers -> [Ending -> Nat]]
  <1>1. due[p] \in [Ending -> Nat] /\ due[p][k] \in Nat
    BY DEF TypeOK
  <1>2. PICK n \in Nat : due' = [due EXCEPT ![p][k] = n]
    BY <1>1 DEF Owe, Settle
  <1> QED
    BY <1>1, <1>2 DEF TypeOK

\* What becomes of the file.
LEMMA DiskType ==
  ASSUME TypeOK, Truncate \/ SavePeers \/ OpenFails
  PROVE  /\ file' \in [Peers -> Identity \cup {NoIdentity}] \cup {NoList}
         /\ unsaved' \subseteq Peers /\ spoiled' \in BOOLEAN
  BY DEF TypeOK, Truncate, SavePeers, OpenFails

LEMMA GoesOnType ==
  ASSUME TypeOK, NEW p \in Peers, NEW k \in Ending, NEW l \in Ending, k # l, GoesOn(p, k, l)
  PROVE  /\ due' \in [Peers -> [Ending -> Nat]]
         /\ due'[p][k] = due[p][k] - 1 /\ due'[p][l] = due[p][l] + 1
         /\ \A q \in Peers, j \in Ending :
              (q # p \/ j \notin {k, l}) => due'[q][j] = due[q][j]
  <1>1. due[p] \in [Ending -> Nat] /\ due[p][k] \in Nat /\ due[p][l] \in Nat
    BY DEF TypeOK
  <1>2. due[p][k] - 1 \in Nat /\ due[p][l] + 1 \in Nat
    BY <1>1 DEF GoesOn
  <1>3. due' = [due EXCEPT ![p] = [due[p] EXCEPT ![k] = due[p][k] - 1, ![l] = due[p][l] + 1]]
    BY <1>1 DEF GoesOn, TypeOK
  <1>4. due'[p] = [due[p] EXCEPT ![k] = due[p][k] - 1, ![l] = due[p][l] + 1]
    BY <1>3 DEF TypeOK
  <1> QED
    BY <1>1, <1>2, <1>3, <1>4 DEF TypeOK

LEMMA EndsType == ASSUME TypeOK, Ends,
                         file' \in [Peers -> Identity \cup {NoIdentity}] \cup {NoList}
                  PROVE  TypeOK'
  <1>1. /\ peerMap' \in [Peers -> Identity \cup {NoIdentity}]
        /\ uuidMap' \in [Uuid -> Peers \cup {NoPeer}]
    BY DEF Ends
  <1>2. /\ conns' \in [Peers -> 0 .. MaxConns] /\ closing' \in [Peers -> Nat]
        /\ asks' \in [Peers -> Nat] /\ dials' \in [Peers -> Nat]
    BY RegistryAssumption DEF Ends
  <1>3. /\ handler' \in [Handler -> [at : Doing, peer : Peers \cup {NoPeer}]]
        /\ \A h \in Handler : handler'[h].at = "idle"
    BY DEF Ends, Waiting, Doing
  <1>4. /\ loader' \in [reading : BOOLEAN, todo : SUBSET Peers,
                       list : [Peers -> Identity \cup {NoIdentity}]]
        /\ loader'.todo = {}
    BY DEF Ends, NoLoad
  <1>5. due' \in [Peers -> [Ending -> Nat]]
    BY DEF Ends, Nothing
  <1>6. /\ up' \in BOOLEAN /\ spent' \in Nat /\ spoiled' \in BOOLEAN
        /\ unsaved' \subseteq Peers /\ told' \subseteq Peers /\ missed' \subseteq Peers
    BY DEF Ends, TypeOK
  <1> QED
    BY <1>1, <1>2, <1>3, <1>4, <1>5, <1>6 DEF TypeOK

LEMMA StopsType == ASSUME TypeOK, Stops PROVE TypeOK'
  <1>1. Ends /\ file' \in [Peers -> Identity \cup {NoIdentity}] \cup {NoList}
    BY DEF Stops, Quit, Kill, Panic, TypeOK
  <1> QED
    BY <1>1, EndsType

LEMMA StartType == ASSUME TypeOK, Start PROVE TypeOK'
  <1>1. loader' = [loader EXCEPT !.reading = TRUE] /\ spent' \in Nat /\ up' \in BOOLEAN
    BY DEF Start, Spend, TypeOK
  <1>2. loader' \in [reading : BOOLEAN, todo : SUBSET Peers,
                    list : [Peers -> Identity \cup {NoIdentity}]]
    BY <1>1 DEF TypeOK
  <1>3. loader'.todo = loader.todo /\ loader'.list = loader.list
    BY <1>1 DEF TypeOK
  <1> QED
    BY <1>1, <1>2, <1>3 DEF Start, TypeOK, disk

\* Connections.
LEMMA ConnectionType ==
  ASSUME TypeOK, NEW p \in Peers,
         OpenConnection(p) \/ CloseConnection(p) \/ NotIdentified(p) \/ Dial(p)
  PROVE  TypeOK'
  <1>1. CASE OpenConnection(p)
    <2>1. conns' \in [Peers -> 0 .. MaxConns]
      BY <1>1, RegistryAssumption DEF OpenConnection, TypeOK
    <2>3. asks' \in [Peers -> Nat]
      BY <1>1 DEF OpenConnection, TypeOK
    <2>2. spent' \in Nat /\ missed' \subseteq Peers
      BY <1>1 DEF OpenConnection, Spend, TypeOK
    <2> QED
      BY <1>1, <2>1, <2>2, <2>3 DEF OpenConnection, TypeOK, disk
  <1>2. CASE CloseConnection(p)
    <2>1. conns' \in [Peers -> 0 .. MaxConns] /\ closing' \in [Peers -> Nat]
      BY <1>2, RegistryAssumption DEF CloseConnection, TypeOK
    <2> QED
      BY <1>2, <2>1 DEF CloseConnection, TypeOK, disk
  <1>3. CASE NotIdentified(p)
    <2>1. asks' \in [Peers -> Nat] /\ missed' \subseteq Peers
      BY <1>3 DEF NotIdentified, TypeOK
    <2> QED
      BY <1>3, <2>1 DEF NotIdentified, TypeOK, disk
  <1>4. CASE Dial(p)
    <2>1. dials' \in [Peers -> Nat] /\ spent' \in Nat
      BY <1>4 DEF Dial, Spend, TypeOK
    <2> QED
      BY <1>4, <2>1 DEF Dial, TypeOK, disk
  <1> QED
    BY <1>1, <1>2, <1>3, <1>4

LEMMA DisconnectedType == ASSUME TypeOK, NEW p \in Peers, Disconnected(p) PROVE TypeOK'
  <1>1. closing' \in [Peers -> Nat] /\ told' \subseteq Peers /\ missed' \subseteq Peers
    BY DEF Disconnected, TypeOK
  <1>2. /\ peerMap' \in [Peers -> Identity \cup {NoIdentity}]
        /\ uuidMap' \in [Uuid -> Peers \cup {NoPeer}]
    BY DEF Disconnected, ForgetPeer, TypeOK, Uuid
  <1>3. due' \in [Peers -> [Ending -> Nat]]
    BY DueType DEF Disconnected, Ending, Left, Panics
  <1> QED
    BY <1>1, <1>2, <1>3 DEF Disconnected, TypeOK, disk

LEMMA RegisterType ==
  ASSUME TypeOK, NEW p \in Peers, Identified(p) \/ DialEnds(p)
  PROVE  TypeOK'
  <1>1. Register(p)
    BY DEF Identified, DialEnds
  <1>2. /\ peerMap' \in [Peers -> Identity \cup {NoIdentity}]
        /\ uuidMap' \in [Uuid -> Peers \cup {NoPeer}]
    BY <1>1, SetPeerType DEF Register, Uuid
  <1>3. due' \in [Peers -> [Ending -> Nat]] /\ missed' \subseteq Peers
    BY <1>1, DueType DEF Register, Ending, Joined, TypeOK
  <1>4. asks' \in [Peers -> Nat] /\ dials' \in [Peers -> Nat]
    BY DEF Identified, DialEnds, TypeOK
  <1> QED
    BY <1>2, <1>3, <1>4 DEF Identified, DialEnds, TypeOK, disk

\* Messages.
LEMMA HandlerType ==
  ASSUME TypeOK, NEW h \in Handler, NEW q \in Peers,
         NEW at \in Doing,
         \/ handler' = [handler EXCEPT ![h] = [at |-> at, peer |-> q]]
         \/ handler[h].peer \in Peers /\ Goes(h, at)
         \/ UNCHANGED handler
  PROVE  /\ handler' \in [Handler -> [at : Doing, peer : Peers \cup {NoPeer}]]
         /\ \A g \in Handler : handler'[g].at # "idle" => handler'[g].peer \in Peers
  <1>1. CASE UNCHANGED handler
    BY <1>1 DEF TypeOK
  <1>2. CASE ~UNCHANGED handler
    <2>1. handler[h] \in [at : Doing, peer : Peers \cup {NoPeer}]
      BY DEF TypeOK
    <2>2. PICK x \in [at : Doing, peer : Peers] :
            handler' = [handler EXCEPT ![h] = x]
      <3>1. CASE handler' = [handler EXCEPT ![h] = [at |-> at, peer |-> q]]
        BY <3>1
      <3>2. CASE handler[h].peer \in Peers /\ Goes(h, at)
        <4>1. [handler[h] EXCEPT !.at = at] \in
                [at : Doing, peer : Peers]
          BY <2>1, <3>2
        <4> QED
          BY <3>2, <4>1 DEF Goes
      <3> QED
        BY <1>2, <3>1, <3>2
    <2> QED
      BY <2>2 DEF TypeOK
  <1> QED
    BY <1>1, <1>2

LEMMA ReceiveType ==
  ASSUME TypeOK, NEW h \in Handler, NEW p \in Peers, Receive(h, p)
  PROVE  TypeOK'
  <1>1. /\ handler' \in [Handler -> [at : Doing, peer : Peers \cup {NoPeer}]]
        /\ \A g \in Handler : handler'[g].at # "idle" => handler'[g].peer \in Peers
    BY HandlerType DEF Receive, Doing
  <1>2. spent' \in Nat
    BY DEF Receive, Spend, TypeOK
  <1> QED
    BY <1>1, <1>2 DEF Receive, TypeOK, disk

LEMMA AuthorType ==
  ASSUME TypeOK, NEW h \in Handler, AutoRegister(h) \/ SaveAuthor(h) \/ AnnounceAuthor(h)
  PROVE  TypeOK'
  <1>1. handler[h].peer \in Peers
    BY DEF AutoRegister, SaveAuthor, AnnounceAuthor, TypeOK
  <1>2. /\ handler' \in [Handler -> [at : Doing, peer : Peers \cup {NoPeer}]]
        /\ \A g \in Handler : handler'[g].at # "idle" => handler'[g].peer \in Peers
    BY <1>1, HandlerType DEF AutoRegister, SaveAuthor, AnnounceAuthor, Doing
  <1>3. CASE AutoRegister(h)
    <2>1. /\ peerMap' \in [Peers -> Identity \cup {NoIdentity}]
          /\ uuidMap' \in [Uuid -> Peers \cup {NoPeer}]
      BY <1>1, <1>3, SetPeerType DEF AutoRegister, Uuid
    <2> QED
      BY <1>2, <1>3, <2>1 DEF AutoRegister, TypeOK, disk
  <1>4. CASE SaveAuthor(h) \/ AnnounceAuthor(h)
    <2>1. /\ file' \in [Peers -> Identity \cup {NoIdentity}] \cup {NoList}
          /\ unsaved' \subseteq Peers /\ spoiled' \in BOOLEAN
      BY <1>4, DiskType DEF SaveAuthor, AnnounceAuthor
    <2>2. told' \subseteq Peers
      BY <1>1, <1>4 DEF SaveAuthor, AnnounceAuthor, TypeOK
    <2> QED
      BY <1>2, <1>4, <2>1, <2>2 DEF SaveAuthor, AnnounceAuthor, TypeOK
  <1> QED
    BY <1>3, <1>4

LEMMA InfoType == ASSUME TypeOK, PeerInfo \/ SaveInfo \/ InfoSaved PROVE TypeOK'
  <1>0. "gossip" \in Handler
    BY DEF Handler
  <1>1. handler["gossip"].peer \in Peers
    BY <1>0 DEF PeerInfo, SaveInfo, InfoSaved, TypeOK
  <1>2. /\ handler' \in [Handler -> [at : Doing, peer : Peers \cup {NoPeer}]]
        /\ \A g \in Handler : handler'[g].at # "idle" => handler'[g].peer \in Peers
    BY <1>0, <1>1, HandlerType DEF PeerInfo, SaveInfo, InfoSaved, Doing
  <1>3. CASE PeerInfo
    <2> DEFINE p == handler["gossip"].peer
    <2>1. \/ UNCHANGED peerMap
          \/ \E i \in Identity : peerMap' = [peerMap EXCEPT ![p] = i]
      <3>1. Registered(p) => peerMap[p].named \in BOOLEAN
        BY <1>1 DEF Registered, TypeOK, Identity
      <3>2. \A n \in BOOLEAN : [named |-> n, keyed |-> TRUE] \in Identity
        BY DEF Identity
      <3> QED
        BY <1>3, <3>1, <3>2 DEF PeerInfo
    <2>2. peerMap' \in [Peers -> Identity \cup {NoIdentity}]
      BY <1>1, <2>1 DEF TypeOK
    <2>3. missed' \subseteq Peers
      BY <1>3 DEF PeerInfo, TypeOK
    <2> QED
      BY <1>2, <1>3, <2>2, <2>3 DEF PeerInfo, TypeOK, disk
  <1>4. CASE SaveInfo \/ InfoSaved
    <2>1. /\ file' \in [Peers -> Identity \cup {NoIdentity}] \cup {NoList}
          /\ unsaved' \subseteq Peers /\ spoiled' \in BOOLEAN
      BY <1>4, DiskType DEF SaveInfo, InfoSaved
    <2> QED
      BY <1>2, <1>4, <2>1 DEF SaveInfo, InfoSaved, TypeOK
  <1> QED
    BY <1>3, <1>4

\* Saving and loading.
LEMMA SettledType ==
  ASSUME TypeOK, NEW p \in Peers, BeginSave(p) \/ Announce(p) \/ SayLeft(p)
  PROVE  TypeOK'
  <1>0. Ending = {"joined", "announcing", "left", "leaving", "panic", "panicking", "doomed"}
    BY DEF Ending, Joined, Left, Panics
  <1>1. due' \in [Peers -> [Ending -> Nat]]
    BY <1>0, DueType, GoesOnType DEF BeginSave, Announce, SayLeft
  <1>2. /\ file' \in [Peers -> Identity \cup {NoIdentity}] \cup {NoList}
        /\ unsaved' \subseteq Peers /\ spoiled' \in BOOLEAN
    BY DiskType DEF BeginSave, Announce, SayLeft
  <1>3. told' \subseteq Peers
    BY DEF BeginSave, Announce, SayLeft, TypeOK
  <1> QED
    BY <1>1, <1>2, <1>3 DEF BeginSave, Announce, SayLeft, TypeOK

LEMMA ReadSavedType == ASSUME TypeOK, ReadSaved PROVE TypeOK'
  <1>1. /\ loader' \in [reading : BOOLEAN, todo : SUBSET Peers,
                       list : [Peers -> Identity \cup {NoIdentity}]]
        /\ \A p \in loader'.todo : loader'.list[p] # NoIdentity
    <2>1. CASE file # NoList /\ loader' = ReadList(file)
      BY <2>1 DEF ReadList, TypeOK
    <2>2. CASE loader' = NoLoad
      BY <2>2 DEF NoLoad
    <2> QED
      BY <2>1, <2>2 DEF ReadSaved
  <1> QED
    BY <1>1 DEF ReadSaved, TypeOK, disk

LEMMA LoadType == ASSUME TypeOK, NEW p \in Peers, Load(p) PROVE TypeOK'
  <1>1. /\ loader' \in [reading : BOOLEAN, todo : SUBSET Peers,
                       list : [Peers -> Identity \cup {NoIdentity}]]
        /\ \A q \in loader'.todo : loader'.list[q] # NoIdentity
    <2>1. loader' = [loader EXCEPT !.todo = loader.todo \ {p}, !.list[p] = NoIdentity]
      BY DEF Load
    <2>2. /\ loader'.todo = loader.todo \ {p} /\ loader'.reading = loader.reading
          /\ loader'.list = [loader.list EXCEPT ![p] = NoIdentity]
      BY <2>1 DEF TypeOK
    <2> QED
      BY <2>1, <2>2 DEF TypeOK
  <1>2. /\ peerMap' \in [Peers -> Identity \cup {NoIdentity}]
        /\ uuidMap' \in [Uuid -> Peers \cup {NoPeer}]
    <2>1. CASE UNCHANGED <<peerMap, uuidMap>>
      BY <2>1 DEF TypeOK
    <2>2. ASSUME NEW u \in Uuid, SetPeer(p, u, TRUE)
          PROVE  /\ peerMap' \in [Peers -> Identity \cup {NoIdentity}]
                 /\ uuidMap' \in [Uuid -> Peers \cup {NoPeer}]
      BY <2>2, SetPeerType
    <2>3. p \in Uuid /\ NoUuid \in Uuid
      BY DEF Uuid
    <2> QED
      BY <2>1, <2>2, <2>3 DEF Load
  <1>3. unsaved' \subseteq Peers /\ told' \subseteq Peers /\ missed' \subseteq Peers
    BY DEF Load, TypeOK
  <1> QED
    BY <1>1, <1>2, <1>3 DEF Load, TypeOK, disk

LEMMA InitType == Init => TypeOK
  <1> SUFFICES ASSUME Init PROVE TypeOK
    OBVIOUS
  <1>1. /\ handler \in [Handler -> [at : Doing, peer : Peers \cup {NoPeer}]]
        /\ \A h \in Handler : handler[h].at = "idle"
    BY DEF Init, Waiting, Doing
  <1>2. /\ loader \in [reading : BOOLEAN, todo : SUBSET Peers,
                      list : [Peers -> Identity \cup {NoIdentity}]]
        /\ loader.todo = {}
    BY DEF Init, NoLoad
  <1>3. due \in [Peers -> [Ending -> Nat]]
    BY DEF Init, Nothing
  <1>4. conns \in [Peers -> 0 .. MaxConns]
    BY RegistryAssumption DEF Init
  <1> QED
    BY <1>1, <1>2, <1>3, <1>4 DEF Init, TypeOK

LEMMA TypeStep == TypeOK /\ [Next]_vars => TypeOK'
  <1> SUFFICES ASSUME TypeOK, [Next]_vars PROVE TypeOK'
    OBVIOUS
  <1>1. CASE UNCHANGED vars
    BY <1>1 DEF vars, TypeOK
  <1>2. CASE Start \/ Stops
    BY <1>2, StartType, StopsType
  <1>3. CASE Works
    <2>1. ASSUME NEW p \in Peers,
                 \/ OpenConnection(p) \/ CloseConnection(p) \/ Disconnected(p)
                 \/ Identified(p) \/ NotIdentified(p) \/ Dial(p) \/ DialEnds(p)
                 \/ BeginSave(p) \/ Announce(p) \/ SayLeft(p) \/ Load(p)
          PROVE  TypeOK'
      BY <2>1, ConnectionType, DisconnectedType, RegisterType, SettledType, LoadType
    <2>2. ASSUME NEW h \in Handler, HandlerStep(h)
          PROVE  TypeOK'
      BY <2>2, ReceiveType, AuthorType DEF HandlerStep
    <2> QED
      BY <1>3, <2>1, <2>2, ReadSavedType, InfoType DEF Works
  <1> QED
    BY <1>1, <1>2, <1>3, NextIs
-----------------------------------------------------------------------------
(* What each kind of step leaves to the others. *)

LEMMA IdleStep == TypeOK /\ Idle /\ [Next]_vars => Idle'
  <1> SUFFICES ASSUME TypeOK, Idle, [Next]_vars PROVE Idle'
    OBVIOUS
  <1>1. CASE UNCHANGED vars
    BY <1>1 DEF vars, Idle
  <1>2. CASE Start
    BY <1>2 DEF Start, Idle
  <1>3. CASE Stops
    <2>1. Ends
      BY <1>3 DEF Stops, Quit, Kill, Panic
    <2> QED
      BY <2>1 DEF Ends, Idle, Waiting, NoLoad, Nothing
  <1>4. CASE Works
    BY <1>4, WorksUp DEF Idle
  <1> QED
    BY <1>1, <1>2, <1>3, <1>4, NextIs

LEMMA EndingIs ==
  /\ Ending = {"joined", "announcing", "left", "leaving", "panic", "panicking", "doomed"}
  /\ Panics = {"panic", "panicking", "doomed"} /\ Joined = {"joined", "announcing"}
  BY DEF Ending, Joined, Left, Panics

\* A daemon that is about to panic does.
LEMMA DoomedStays == ASSUME TypeOK, Works, Doomed PROVE Doomed'
  <1>1. PICK q \in Peers, j \in Panics : due[q][j] > 0
    BY DEF Doomed
  <1>2. due[q] \in [Ending -> Nat] /\ j \in Ending
    BY EndingIs DEF TypeOK
  <1>3. CASE UNCHANGED due
    BY <1>1, <1>3 DEF Doomed
  <1>4. ASSUME NEW p \in Peers, NEW k \in Ending, Owe(p, k) \/ (k \notin Panics /\ Settle(p, k))
        PROVE  Doomed'
    <2>1. due'[q][j] \in {due[q][j], due[q][j] + 1}
      BY <1>2, <1>4 DEF Owe, Settle, TypeOK
    <2>2. due'[q][j] > 0
      BY <1>1, <1>2, <2>1
    <2> QED
      BY <2>2 DEF Doomed
  <1>5. ASSUME NEW p \in Peers, NEW k \in Ending \ Panics, NEW l \in Ending \ Panics,
               k # l, GoesOn(p, k, l)
        PROVE  Doomed'
    <2>1. due'[q][j] = due[q][j]
      BY <1>2, <1>5, GoesOnType
    <2> QED
      BY <1>1, <2>1 DEF Doomed
  <1>6. ASSUME NEW p \in Peers, NEW k \in Panics, NEW l \in Panics, k # l, GoesOn(p, k, l)
        PROVE  Doomed'
    <2>1. k \in Ending /\ l \in Ending
      BY EndingIs
    <2>2. due'[p][l] = due[p][l] + 1 /\ due[p][l] \in Nat
      BY <1>6, <2>1, GoesOnType DEF TypeOK
    <2>3. due'[p][l] > 0
      BY <2>2
    <2> QED
      BY <2>3 DEF Doomed
  <1>7. ASSUME NEW p \in Peers,
               \/ OpenConnection(p) \/ CloseConnection(p)
               \/ NotIdentified(p) \/ Dial(p) \/ Load(p)
        PROVE  UNCHANGED due
    BY <1>7 DEF OpenConnection, CloseConnection, NotIdentified, Dial, Load
  <1>8. ASSUME NEW p \in Peers, Disconnected(p) \/ Identified(p) \/ DialEnds(p)
        PROVE  Doomed'
    BY <1>4, <1>8, EndingIs DEF Disconnected, Identified, DialEnds, Register
  <1>9. ASSUME NEW p \in Peers, BeginSave(p) \/ Announce(p) \/ SayLeft(p)
        PROVE  Doomed'
    BY <1>4, <1>5, <1>6, <1>9, EndingIs DEF BeginSave, Announce, SayLeft
  <1>10. ASSUME NEW h \in Handler, HandlerStep(h)
         PROVE  UNCHANGED due
    BY <1>10 DEF HandlerStep, Receive, AutoRegister, SaveAuthor, AnnounceAuthor
  <1>11. ReadSaved \/ PeerInfo \/ SaveInfo \/ InfoSaved => UNCHANGED due
    BY DEF ReadSaved, PeerInfo, SaveInfo, InfoSaved
  <1> QED
    BY <1>3, <1>7, <1>8, <1>9, <1>10, <1>11 DEF Works

\* A peer is stored under its own UUID or under none.
LEMMA SetPeerAgrees ==
  ASSUME TypeOK, MapsAgree, up', Doomed => Doomed', NEW p \in Peers, NEW keyed \in BOOLEAN,
         SetPeer(p, p, keyed) \/ SetPeer(p, NoUuid, keyed)
  PROVE  MapsAgree'
  <1>1. /\ peerMap'[p] # NoIdentity /\ \A q \in Peers \ {p} : peerMap'[q] = peerMap[q]
    <2>1. PICK n \in BOOLEAN :
            peerMap' = [peerMap EXCEPT ![p] = [named |-> n, keyed |-> keyed]]
      BY DEF SetPeer
    <2>2. [named |-> n, keyed |-> keyed] # NoIdentity
      BY RegistryAssumption
    <2> QED
      BY <2>1, <2>2 DEF TypeOK
  <1>2. CASE SetPeer(p, p, keyed)
    <2>1. uuidMap'[p] = p /\ \A q \in Peers \ {p} : uuidMap'[q] = uuidMap[q]
      BY <1>2 DEF SetPeer, TypeOK, Uuid
    <2> QED
      BY <1>1, <2>1 DEF MapsAgree, Registered, GetPeerID
  <1>3. CASE SetPeer(p, NoUuid, keyed)
    <2>1. \A q \in Peers : uuidMap'[q] = uuidMap[q]
      BY <1>3, RegistryAssumption DEF SetPeer, TypeOK, Uuid
    <2>2. ~peerMap'[p].named
      BY <1>3 DEF SetPeer, TypeOK
    <2> QED
      BY <1>1, <2>1, <2>2 DEF MapsAgree, Registered, GetPeerID
  <1> QED
    BY <1>2, <1>3

LEMMA ForgetPeerAgrees ==
  ASSUME TypeOK, MapsAgree, up', Doomed => Doomed', NEW p \in Peers, Disconnected(p)
  PROVE  MapsAgree'
  <1>1. peerMap'[p] = NoIdentity /\ \A q \in Peers \ {p} : peerMap'[q] = peerMap[q]
    BY DEF Disconnected, ForgetPeer, TypeOK
  <1>2. CASE Registered(p) /\ peerMap[p].named
    <2>1. uuidMap'[p] = NoPeer /\ \A q \in Peers \ {p} : uuidMap'[q] = uuidMap[q]
      BY <1>2 DEF Disconnected, ForgetPeer, TypeOK, Uuid
    <2> QED
      BY <1>1, <2>1 DEF MapsAgree, Registered, GetPeerID
  <1>3. CASE Registered(p) /\ ~peerMap[p].named
    <2>1. \A q \in Peers : uuidMap'[q] = uuidMap[q]
      BY <1>3, RegistryAssumption DEF Disconnected, ForgetPeer, TypeOK, Uuid
    <2>2. due'[p]["panic"] > 0
      <3>1. due[p] \in [Ending -> Nat] /\ "panic" \in Ending
        BY EndingIs DEF TypeOK
      <3>2. due'[p]["panic"] = due[p]["panic"] + 1
        BY <1>3, <3>1 DEF Disconnected, Owe, TypeOK
      <3> QED
        BY <3>1, <3>2
    <2>3. Doomed'
      BY <2>2, EndingIs DEF Doomed
    <2> QED
      BY <1>1, <2>1, <2>3 DEF MapsAgree, Registered, GetPeerID
  <1>4. CASE ~Registered(p)
    <2>1. UNCHANGED uuidMap
      BY <1>4 DEF Disconnected, ForgetPeer
    <2> QED
      BY <1>1, <1>4, <2>1 DEF MapsAgree, Registered, GetPeerID
  <1> QED
    BY <1>2, <1>3, <1>4

LEMMA InfoAgrees ==
  ASSUME TypeOK, MapsAgree, up', Doomed => Doomed', PeerInfo
  PROVE  MapsAgree'
  <1>1. PICK p \in Peers : p = handler["gossip"].peer
    BY DEF PeerInfo, TypeOK, Handler
  <1>2. UNCHANGED uuidMap
    BY DEF PeerInfo
  <1>3. \A q \in Peers \ {p} : peerMap'[q] = peerMap[q]
    BY <1>1 DEF PeerInfo, TypeOK
  <1>4. \/ peerMap'[p] = peerMap[p]
        \/ Registered(p) /\ peerMap'[p] = [named |-> peerMap[p].named, keyed |-> TRUE]
        \/ ~Registered(p) /\ peerMap'[p] = [named |-> FALSE, keyed |-> TRUE]
    BY <1>1 DEF PeerInfo, TypeOK
  <1>5. \A n \in BOOLEAN : [named |-> n, keyed |-> TRUE] # NoIdentity
    <2> TAKE n \in BOOLEAN
    <2>1. [named |-> n, keyed |-> TRUE] \in [named : BOOLEAN, keyed : BOOLEAN]
      OBVIOUS
    <2> QED
      BY <2>1, RegistryAssumption
  <1>6. Registered(p) => Registered(p)'
    <2>1. Registered(p) => peerMap[p].named \in BOOLEAN
      BY DEF Registered, TypeOK, Identity
    <2> QED
      BY <1>4, <1>5, <2>1 DEF Registered
  <1>7. Registered(p)' /\ peerMap'[p].named => Registered(p) /\ peerMap[p].named
    BY <1>4 DEF Registered
  <1>8. ASSUME NEW q \in Peers
        PROVE  /\ Registered(q)' /\ peerMap'[q].named => GetPeerID(q)' = q
               /\ uuidMap'[q] # NoPeer => uuidMap'[q] = q /\ (Registered(q)' \/ Doomed')
    BY <1>2, <1>3, <1>6, <1>7 DEF MapsAgree, Registered, GetPeerID
  <1> QED
    BY <1>8 DEF MapsAgree

LEMMA AgreeStep == TypeOK /\ Idle /\ MapsAgree /\ [Next]_vars => MapsAgree'
  <1> SUFFICES ASSUME TypeOK, Idle, MapsAgree, [Next]_vars PROVE MapsAgree'
    OBVIOUS
  <1>1. CASE UNCHANGED vars
    BY <1>1 DEF vars, MapsAgree, Registered, GetPeerID, Doomed
  <1>2. CASE Start
    <2>1. UNCHANGED <<peerMap, uuidMap, due>> /\ ~up
      BY <1>2 DEF Start
    <2> QED
      BY <2>1 DEF Idle, MapsAgree, Registered, GetPeerID, Doomed
  <1>3. CASE Stops
    <2>1. Ends
      BY <1>3 DEF Stops, Quit, Kill, Panic
    <2>2. \A p \in Peers : peerMap'[p] = NoIdentity /\ uuidMap'[p] = NoPeer
      BY <2>1 DEF Ends, Uuid
    <2> QED
      BY <2>2 DEF MapsAgree, Registered
  <1>4. CASE Works
    <2>1. up /\ up' = up /\ (Doomed => Doomed')
      BY <1>4, WorksUp, DoomedStays
    <2>2. CASE UNCHANGED <<peerMap, uuidMap>>
      BY <2>1, <2>2 DEF MapsAgree, Registered, GetPeerID
    <2>3. ASSUME NEW p \in Peers,
                 \/ OpenConnection(p) \/ CloseConnection(p) \/ NotIdentified(p) \/ Dial(p)
                 \/ BeginSave(p) \/ Announce(p) \/ SayLeft(p)
          PROVE  UNCHANGED <<peerMap, uuidMap>>
      BY <2>3 DEF OpenConnection, CloseConnection, NotIdentified, Dial, BeginSave, Announce,
                  SayLeft
    <2>4. ASSUME NEW p \in Peers, Identified(p) \/ DialEnds(p)
          PROVE  MapsAgree'
      BY <2>1, <2>4, SetPeerAgrees DEF Identified, DialEnds, Register
    <2>5. ASSUME NEW p \in Peers, Load(p)
          PROVE  MapsAgree'
      <3>1. \/ SetPeer(p, p, TRUE) \/ SetPeer(p, NoUuid, TRUE)
            \/ UNCHANGED <<peerMap, uuidMap>>
        BY <2>5 DEF Load
      <3> QED
        BY <2>1, <2>2, <3>1, SetPeerAgrees
    <2>6. ASSUME NEW h \in Handler, HandlerStep(h)
          PROVE  MapsAgree'
      <3>1. CASE AutoRegister(h)
        <4>1. handler[h].peer \in Peers
          BY <3>1 DEF AutoRegister, TypeOK
        <4>2. PICK q \in Peers : SetPeer(q, q, FALSE)
          BY <3>1, <4>1 DEF AutoRegister
        <4> QED
          BY <2>1, <4>2, SetPeerAgrees
      <3>2. CASE ~AutoRegister(h)
        <4>1. UNCHANGED <<peerMap, uuidMap>>
          BY <2>6, <3>2 DEF HandlerStep, Receive, SaveAuthor, AnnounceAuthor
        <4> QED
          BY <2>2, <4>1
      <3> QED
        BY <3>1, <3>2
    <2>7. ReadSaved \/ SaveInfo \/ InfoSaved => UNCHANGED <<peerMap, uuidMap>>
      BY DEF ReadSaved, SaveInfo, InfoSaved
    <2> QED
      BY <1>4, <2>1, <2>2, <2>3, <2>4, <2>5, <2>6, <2>7, ForgetPeerAgrees, InfoAgrees
      DEF Works
  <1> QED
    BY <1>1, <1>2, <1>3, <1>4, NextIs
-----------------------------------------------------------------------------
(* The file. *)

LEMMA DuePending ==
  ASSUME TypeOK, NEW p \in Peers, NEW k \in Ending \ {"doomed"},
         Owe(p, k) \/ \E j \in Ending : j # k /\ GoesOn(p, j, k)
  PROVE  SavePending'
  <1>1. due[p][k] \in Nat /\ due'[p][k] = due[p][k] + 1
    BY GoesOnType DEF Owe, TypeOK
  <1>2. due'[p][k] > 0
    BY <1>1
  <1> QED
    BY <1>2, EndingIs DEF SavePending, Saving

\* A goroutine that has begun to save still has to.
LEMMA BegunPending ==
  /\ \A p \in Peers : TypeOK /\ BeginSave(p) => SavePending'
  /\ \A h \in Handler : TypeOK /\ SaveAuthor(h) => SavePending'
  /\ TypeOK /\ SaveInfo => SavePending'
  <1>1. ASSUME TypeOK, NEW p \in Peers, BeginSave(p) PROVE SavePending'
    <2>1. \E k \in Ending \ {"doomed"} : \E j \in Ending : j # k /\ GoesOn(p, j, k)
      BY <1>1, EndingIs DEF BeginSave
    <2> QED
      BY <1>1, <2>1, DuePending
  <1>2. ASSUME TypeOK, NEW h \in Handler, SaveAuthor(h) PROVE SavePending'
    <2>1. handler'[h].at = "announcing"
      BY <1>2 DEF SaveAuthor, Goes, TypeOK
    <2> QED
      BY <2>1 DEF SavePending, Saving
  <1>3. ASSUME TypeOK, SaveInfo PROVE SavePending'
    <2>1. handler'["gossip"].at = "saving" /\ "gossip" \in Handler
      BY <1>3 DEF SaveInfo, Goes, TypeOK, Handler
    <2> QED
      BY <2>1 DEF SavePending, Saving
  <1> QED
    BY <1>1, <1>2, <1>3

LEMMA FileStep == TypeOK /\ Idle /\ FileCurrent /\ [Next]_vars => FileCurrent'
  <1> SUFFICES ASSUME TypeOK, Idle, FileCurrent, [Next]_vars PROVE FileCurrent'
    OBVIOUS
  <1>1. CASE UNCHANGED vars
    BY <1>1 DEF vars, FileCurrent, SavePending, Saving
  <1>2. CASE Start
    BY <1>2 DEF Start, Idle, FileCurrent, disk
  <1>3. CASE Stops
    <2>1. ~up'
      BY <1>3 DEF Stops, Quit, Kill, Panic, Ends
    <2> QED
      BY <2>1 DEF FileCurrent
  <1>4. CASE Works
    <2>1. up /\ up' = up
      BY <1>4, WorksUp
    <2>2. ASSUME SavePeers \/ OpenFails, UNCHANGED peerMap
          PROVE  FileCurrent'
      <3>1. spoiled' \/ (file' = peerMap' /\ peerMap \in [Peers -> Identity \cup {NoIdentity}])
        BY <2>2 DEF SavePeers, OpenFails, TypeOK
      <3> QED
        BY <2>2, <3>1, RegistryAssumption DEF FileCurrent, Identity
    <2>3. ASSUME UNCHANGED <<peerMap, disk>>, SavePending => SavePending'
          PROVE  FileCurrent'
      BY <2>1, <2>3 DEF FileCurrent, disk
    <2>4. ASSUME SavePending'
          PROVE  FileCurrent'
      BY <2>4 DEF FileCurrent
    <2>5. ASSUME NEW p \in Peers,
                 OpenConnection(p) \/ CloseConnection(p) \/ NotIdentified(p) \/ Dial(p)
          PROVE  FileCurrent'
      <3>1. UNCHANGED <<peerMap, disk, due, handler>>
        BY <2>5 DEF OpenConnection, CloseConnection, NotIdentified, Dial
      <3> QED
        BY <2>3, <3>1 DEF SavePending, Saving
    <2>6. ASSUME NEW p \in Peers, BeginSave(p) \/ Announce(p) \/ SayLeft(p)
          PROVE  FileCurrent'
      <3>1. CASE BeginSave(p)
        BY <2>4, <3>1, BegunPending
      <3>2. CASE Announce(p) \/ SayLeft(p)
        BY <2>2, <3>2 DEF Announce, SayLeft
      <3> QED
        BY <2>6, <3>1, <3>2
    <2>7. ASSUME NEW p \in Peers, Identified(p) \/ DialEnds(p) \/ Disconnected(p)
          PROVE  FileCurrent'
      <3>1. \E k \in Ending \ {"doomed"} : Owe(p, k)
        BY <2>7, EndingIs DEF Identified, DialEnds, Register, Disconnected
      <3> QED
        BY <2>4, <3>1, DuePending
    <2>8. ASSUME NEW p \in Peers, Load(p)
          PROVE  FileCurrent'
      <3>1. UNCHANGED <<due, handler, file, spoiled>>
        BY <2>8 DEF Load
      <3>2. CASE UNCHANGED <<peerMap, unsaved>>
        BY <2>3, <3>1, <3>2 DEF SavePending, Saving, disk
      <3>3. CASE unsaved' = unsaved \cup {p}
        <4>1. \A q \in Peers \ {p} : peerMap'[q] = peerMap[q]
          BY <2>8 DEF Load, SetPeer, TypeOK
        <4>2. SavePending' <=> SavePending
          BY <3>1 DEF SavePending, Saving
        <4> QED
          BY <2>1, <3>1, <3>3, <4>1, <4>2 DEF FileCurrent
      <3> QED
        BY <2>8, <3>2, <3>3 DEF Load
    <2>9. ASSUME NEW h \in Handler, NEW p \in Peers, Receive(h, p)
          PROVE  FileCurrent'
      <3>1. UNCHANGED <<peerMap, disk, due>> /\ handler[h].at = "idle"
        BY <2>9 DEF Receive
      <3>2. \A g \in Handler \ {h} : handler'[g] = handler[g]
        BY <2>9 DEF Receive, TypeOK
      <3> QED
        BY <2>3, <3>1, <3>2 DEF SavePending, Saving
    <2>10. ASSUME NEW h \in Handler, AutoRegister(h)
           PROVE  FileCurrent'
      <3>1. handler'[h].at = "announce"
        BY <2>10 DEF AutoRegister, Goes, TypeOK
      <3> QED
        BY <2>4, <3>1 DEF SavePending, Saving
    <2>11. ASSUME NEW h \in Handler, SaveAuthor(h) \/ AnnounceAuthor(h)
           PROVE  FileCurrent'
      <3>1. CASE SaveAuthor(h)
        BY <2>4, <3>1, BegunPending
      <3>2. CASE AnnounceAuthor(h)
        BY <2>2, <3>2 DEF AnnounceAuthor
      <3> QED
        BY <2>11, <3>1, <3>2
    <2>12. CASE PeerInfo
      <3>1. CASE Goes("gossip", "save")
        <4>1. handler'["gossip"].at = "save"
          BY <3>1 DEF Goes, TypeOK, Handler
        <4> QED
          BY <2>4, <4>1 DEF SavePending, Saving, Handler
      <3>2. CASE ~Goes("gossip", "save")
        <4>1. UNCHANGED <<peerMap, disk, due>> /\ handler["gossip"].at = "info"
          BY <2>12, <3>2 DEF PeerInfo
        <4>2. \A g \in Handler \ {"gossip"} : handler'[g] = handler[g]
          BY <2>12 DEF PeerInfo, Goes, TypeOK
        <4> QED
          BY <2>3, <4>1, <4>2 DEF SavePending, Saving
      <3> QED
        BY <3>1, <3>2
    <2>13. CASE SaveInfo \/ InfoSaved
      <3>1. CASE SaveInfo
        BY <2>4, <3>1, BegunPending
      <3>2. CASE InfoSaved
        BY <2>2, <3>2 DEF InfoSaved
      <3> QED
        BY <2>13, <3>1, <3>2
    <2>14. CASE ReadSaved
      <3>1. UNCHANGED <<peerMap, disk, due, handler>>
        BY <2>14 DEF ReadSaved
      <3> QED
        BY <2>3, <3>1 DEF SavePending, Saving
    <2> QED
      BY <1>4, <2>5, <2>6, <2>7, <2>8, <2>9, <2>10, <2>11, <2>12, <2>13, <2>14
      DEF Works, HandlerStep
  <1> QED
    BY <1>1, <1>2, <1>3, <1>4, NextIs
-----------------------------------------------------------------------------
(* Who is registered. *)

LEMMA SetPeerRegisters ==
  ASSUME TypeOK, NEW p \in Peers, NEW u \in Uuid, NEW keyed \in BOOLEAN, SetPeer(p, u, keyed)
  PROVE  /\ Registered(p)'
         /\ \A q \in Peers \ {p} : peerMap'[q] = peerMap[q]
  <1>1. PICK n \in BOOLEAN : peerMap' = [peerMap EXCEPT ![p] = [named |-> n, keyed |-> keyed]]
    BY DEF SetPeer
  <1>2. [named |-> n, keyed |-> keyed] # NoIdentity
    BY RegistryAssumption
  <1> QED
    BY <1>1, <1>2 DEF Registered, TypeOK

LEMMA KnownStep == TypeOK /\ Idle /\ ConnectedKnown /\ [Next]_vars => ConnectedKnown'
  <1> SUFFICES ASSUME TypeOK, Idle, ConnectedKnown, [Next]_vars PROVE ConnectedKnown'
    OBVIOUS
  <1>1. CASE UNCHANGED vars
    BY <1>1 DEF vars, ConnectedKnown, Registered
  <1>2. CASE Start
    BY <1>2 DEF Start, ConnectedKnown, Registered
  <1>3. CASE Stops
    <2>1. Ends
      BY <1>3 DEF Stops, Quit, Kill, Panic
    <2> QED
      BY <2>1 DEF Ends, ConnectedKnown
  <1>4. ASSUME NEW p \in Peers, OpenConnection(p)
        PROVE  ConnectedKnown'
    <2>1. UNCHANGED <<peerMap, closing>>
      BY <1>4 DEF OpenConnection
    <2>2. \A q \in Peers \ {p} : conns'[q] = conns[q] /\ asks'[q] = asks[q]
                                /\ (q \notin missed' => q \notin missed)
      BY <1>4 DEF OpenConnection, TypeOK
    <2>3. Registered(p) \/ asks'[p] # 0
      BY <1>4 DEF OpenConnection, Asks, TypeOK
    <2> QED
      BY <2>1, <2>2, <2>3 DEF ConnectedKnown, Registered
  <1>5. ASSUME NEW p \in Peers, CloseConnection(p)
        PROVE  ConnectedKnown'
    <2>1. UNCHANGED <<peerMap, asks, missed>>
      BY <1>5 DEF CloseConnection
    <2>2. /\ \A q \in Peers \ {p} : conns'[q] = conns[q] /\ closing'[q] = closing[q]
          /\ closing'[p] # 0
      BY <1>5 DEF CloseConnection, TypeOK
    <2> QED
      BY <2>1, <2>2 DEF ConnectedKnown, Registered
  <1>6. ASSUME NEW p \in Peers, Disconnected(p)
        PROVE  ConnectedKnown'
    <2>1. UNCHANGED <<conns, asks>> /\ missed \subseteq missed'
      BY <1>6 DEF Disconnected
    <2>2. /\ \A q \in Peers \ {p} : closing'[q] = closing[q] /\ peerMap'[q] = peerMap[q]
          /\ conns[p] = 0 \/ p \in missed'
      BY <1>6 DEF Disconnected, ForgetPeer, TypeOK
    <2> QED
      BY <2>1, <2>2 DEF ConnectedKnown, Registered
  <1>7. ASSUME NEW p \in Peers, Identified(p) \/ DialEnds(p)
        PROVE  ConnectedKnown'
    <2>1. UNCHANGED <<conns, closing>> /\ missed' = missed \ {p}
      BY <1>7 DEF Identified, DialEnds, Register
    <2>2. \A q \in Peers \ {p} : asks'[q] = asks[q]
      BY <1>7 DEF Identified, DialEnds, TypeOK
    <2>3. Registered(p)' /\ \A q \in Peers \ {p} : peerMap'[q] = peerMap[q]
      BY <1>7, SetPeerRegisters DEF Identified, DialEnds, Register, Uuid
    <2> QED
      BY <2>1, <2>2, <2>3 DEF ConnectedKnown, Registered
  <1>8. ASSUME NEW p \in Peers, NotIdentified(p)
        PROVE  ConnectedKnown'
    <2>1. UNCHANGED <<conns, closing, peerMap>> /\ missed' = missed \cup {p}
      BY <1>8 DEF NotIdentified
    <2>2. \A q \in Peers \ {p} : asks'[q] = asks[q]
      BY <1>8 DEF NotIdentified, TypeOK
    <2> QED
      BY <2>1, <2>2 DEF ConnectedKnown, Registered
  <1>9. ASSUME NEW p \in Peers, Dial(p) \/ BeginSave(p) \/ Announce(p) \/ SayLeft(p)
        PROVE  ConnectedKnown'
    BY <1>9 DEF Dial, BeginSave, Announce, SayLeft, ConnectedKnown, Registered
  <1>10. ASSUME NEW p \in Peers, Load(p)
         PROVE  ConnectedKnown'
    <2>1. UNCHANGED <<conns, closing, asks>>
      BY <1>10 DEF Load
    <2>2. CASE UNCHANGED <<peerMap, missed>>
      BY <2>1, <2>2 DEF ConnectedKnown, Registered
    <2>3. CASE ~UNCHANGED <<peerMap, missed>>
      <3>1. PICK u \in Uuid : SetPeer(p, u, TRUE)
        BY <1>10, <2>3 DEF Load, Uuid
      <3>2. Registered(p)' /\ \A q \in Peers \ {p} : peerMap'[q] = peerMap[q]
        BY <3>1, SetPeerRegisters
      <3>3. missed' = missed \ {p}
        BY <1>10, <2>3 DEF Load
      <3> QED
        BY <2>1, <3>2, <3>3 DEF ConnectedKnown, Registered
    <2> QED
      BY <2>2, <2>3
  <1>11. ASSUME NEW h \in Handler, NEW p \in Peers, Receive(h, p)
         PROVE  ConnectedKnown'
    BY <1>11 DEF Receive, ConnectedKnown, Registered
  <1>12. ASSUME NEW h \in Handler, AutoRegister(h)
         PROVE  ConnectedKnown'
    <2>1. UNCHANGED <<conns, closing, asks>>
      BY <1>12 DEF AutoRegister
    <2>2. handler[h].peer \in Peers
      BY <1>12 DEF AutoRegister, TypeOK
    <2>3. PICK p \in Peers : SetPeer(p, p, FALSE) /\ missed' = missed \ {p}
      BY <1>12, <2>2 DEF AutoRegister
    <2>4. Registered(p)' /\ \A q \in Peers \ {p} : peerMap'[q] = peerMap[q]
      BY <2>3, SetPeerRegisters DEF Uuid
    <2> QED
      BY <2>1, <2>3, <2>4 DEF ConnectedKnown, Registered
  <1>13. ASSUME NEW h \in Handler, SaveAuthor(h) \/ AnnounceAuthor(h)
         PROVE  ConnectedKnown'
    BY <1>13 DEF SaveAuthor, AnnounceAuthor, ConnectedKnown, Registered
  <1>14. CASE PeerInfo
    <2>1. UNCHANGED <<conns, closing, asks>>
      BY <1>14 DEF PeerInfo
    <2>2. PICK p \in Peers : p = handler["gossip"].peer
      BY <1>14 DEF PeerInfo, TypeOK, Handler
    <2>3. \A q \in Peers \ {p} : peerMap'[q] = peerMap[q] /\ (q \in missed' <=> q \in missed)
      BY <1>14, <2>2 DEF PeerInfo, TypeOK
    <2>4. Registered(p)'
      <3>1. \A n \in BOOLEAN : [named |-> n, keyed |-> TRUE] # NoIdentity
        <4> TAKE n \in BOOLEAN
        <4>1. [named |-> n, keyed |-> TRUE] \in [named : BOOLEAN, keyed : BOOLEAN]
          OBVIOUS
        <4> QED
          BY <4>1, RegistryAssumption
      <3>2. Registered(p) => peerMap[p].named \in BOOLEAN
        BY DEF Registered, TypeOK, Identity
      <3>3. \/ Registered(p) /\ peerMap'[p] = peerMap[p]
            \/ Registered(p) /\ peerMap'[p] = [named |-> peerMap[p].named, keyed |-> TRUE]
            \/ peerMap'[p] = [named |-> FALSE, keyed |-> TRUE]
        BY <1>14, <2>2 DEF PeerInfo, TypeOK
      <3> QED
        BY <3>1, <3>2, <3>3 DEF Registered
    <2> QED
      BY <2>1, <2>3, <2>4 DEF ConnectedKnown, Registered
  <1>15. CASE SaveInfo \/ InfoSaved \/ ReadSaved
    BY <1>15 DEF SaveInfo, InfoSaved, ReadSaved, ConnectedKnown, Registered
  <1> QED
    BY <1>1, <1>2, <1>3, <1>4, <1>5, <1>6, <1>7, <1>8, <1>9, <1>10, <1>11, <1>12, <1>13,
       <1>14, <1>15, NextIs DEF Works, HandlerStep
-----------------------------------------------------------------------------
(* Who is announced. *)

Named(p) == Registered(p) /\ peerMap[p].named

Announced(p) ==
  \/ p \in told \/ \E k \in Joined : due[p][k] > 0
  \/ \E h \in Handler : handler[h].at \in {"announce", "announcing"} /\ handler[h].peer = p

LEMMA ToldIs == RegisteredTold <=> \A p \in Peers : Named(p) => Announced(p)
  BY DEF RegisteredTold, Named, Announced

LEMMA OweKeeps ==
  ASSUME TypeOK, NEW p \in Peers, NEW k \in Ending, NEW q \in Peers, Owe(p, k)
  PROVE  /\ \A j \in Joined : due[q][j] > 0 => due'[q][j] > 0
         /\ k = "joined" => due'[p]["joined"] > 0
  <1>1. due[p] \in [Ending -> Nat] /\ due[q] \in [Ending -> Nat] /\ Joined \subseteq Ending
    BY EndingIs DEF TypeOK
  <1>2. \A j \in Joined : due'[q][j] \in {due[q][j], due[q][j] + 1} /\ due[q][j] \in Nat
    BY <1>1 DEF Owe, TypeOK
  <1>3. k = "joined" => due'[p]["joined"] = due[p]["joined"] + 1
    BY <1>1 DEF Owe, TypeOK
  <1>4. due[p]["joined"] \in Nat
    BY <1>1, EndingIs
  <1> QED
    BY <1>2, <1>3, <1>4

LEMMA SettleKeeps ==
  ASSUME TypeOK, NEW p \in Peers, NEW k \in Ending, NEW q \in Peers, NEW j \in Joined,
         Settle(p, k)
  PROVE  due[q][j] = due'[q][j] \/ (q = p /\ k = j)
  <1>1. due[p] \in [Ending -> Nat] /\ due[q] \in [Ending -> Nat] /\ j \in Ending
    BY EndingIs DEF TypeOK
  <1> QED
    BY <1>1 DEF Settle, TypeOK

LEMMA DisconnectedTold ==
  ASSUME TypeOK, RegisteredTold, NEW p \in Peers, Disconnected(p)
  PROVE  RegisteredTold'
  <1>1. UNCHANGED handler /\ told' = told \ {p}
    BY DEF Disconnected
  <1>2. ~Registered(p)' /\ \A q \in Peers \ {p} : peerMap'[q] = peerMap[q]
    BY DEF Disconnected, ForgetPeer, TypeOK, Registered
  <1>3. ASSUME NEW q \in Peers \ {p}, NEW j \in Joined, due[q][j] > 0
        PROVE  due'[q][j] > 0
    BY <1>3, OweKeeps, EndingIs DEF Disconnected
  <1>4. ASSUME NEW q \in Peers, Named(q)'
        PROVE  Announced(q)'
    <2>1. q # p /\ Named(q)
      BY <1>2, <1>4 DEF Named, Registered
    <2>2. Announced(q)
      BY <2>1, ToldIs
    <2> QED
      BY <1>1, <1>3, <2>1, <2>2 DEF Announced
  <1> QED
    BY <1>4 DEF RegisteredTold, Named, Announced

LEMMA RegisterTold ==
  ASSUME TypeOK, RegisteredTold, NEW p \in Peers, Identified(p) \/ DialEnds(p)
  PROVE  RegisteredTold'
  <1>1. UNCHANGED <<handler, told>> /\ Owe(p, "joined") /\ "joined" \in Ending \cap Joined
    BY EndingIs DEF Identified, DialEnds, Register
  <1>2. \A q \in Peers \ {p} : peerMap'[q] = peerMap[q]
    BY SetPeerRegisters DEF Identified, DialEnds, Register, Uuid
  <1>3. ASSUME NEW q \in Peers, Named(q)'
        PROVE  Announced(q)'
    <2>1. CASE q = p
      BY <1>1, <2>1, OweKeeps DEF Announced
    <2>2. CASE q # p
      <3>1. Announced(q)
        BY <1>2, <1>3, <2>2, ToldIs DEF Named, Registered
      <3> QED
        BY <1>1, <3>1, OweKeeps DEF Announced
    <2> QED
      BY <2>1, <2>2
  <1> QED
    BY <1>3 DEF RegisteredTold, Named, Announced

LEMMA SettledTold ==
  ASSUME TypeOK, RegisteredTold, NEW p \in Peers, BeginSave(p) \/ Announce(p) \/ SayLeft(p)
  PROVE  RegisteredTold'
  <1>1. UNCHANGED <<handler, peerMap>> /\ told \subseteq told'
    BY DEF BeginSave, Announce, SayLeft
  <1>2. ASSUME NEW q \in Peers, Named(q)'
        PROVE  Announced(q)'
    <2>1. Announced(q)
      BY <1>1, <1>2, ToldIs DEF Named, Registered
    <2>2. CASE Announce(p)
      <3>1. p \in told' /\ \E k \in Joined : Settle(p, k)
        BY <2>2, EndingIs DEF Announce
      <3>2. q # p => \A j \in Joined : due'[q][j] = due[q][j]
        BY <3>1, SettleKeeps, EndingIs
      <3> QED
        BY <1>1, <2>1, <3>1, <3>2 DEF Announced
    <2>3. ASSUME NEW k \in Ending \ Joined, Settle(p, k)
          PROVE  Announced(q)'
      <3>1. \A j \in Joined : due'[q][j] = due[q][j]
        BY <2>3, SettleKeeps
      <3> QED
        BY <1>1, <2>1, <3>1 DEF Announced
    <2>4. ASSUME NEW k \in Ending \ Joined, NEW l \in Ending \ Joined, k # l, GoesOn(p, k, l)
          PROVE  Announced(q)'
      <3>1. \A j \in Joined : due'[q][j] = due[q][j]
        BY <2>4, GoesOnType, EndingIs
      <3> QED
        BY <1>1, <2>1, <3>1 DEF Announced
    <2>5. CASE GoesOn(p, "joined", "announcing")
      <3>1. due'[p]["announcing"] = due[p]["announcing"] + 1 /\ due[p]["announcing"] \in Nat
        BY <2>5, GoesOnType, EndingIs DEF TypeOK
      <3>2. due'[p]["announcing"] > 0
        BY <3>1
      <3>3. q # p => \A j \in Joined : due'[q][j] = due[q][j]
        BY <2>5, GoesOnType, EndingIs
      <3> QED
        BY <1>1, <2>1, <3>2, <3>3, EndingIs DEF Announced
    <2> QED
      BY <2>2, <2>3, <2>4, <2>5, EndingIs DEF BeginSave, SayLeft
  <1> QED
    BY <1>2 DEF RegisteredTold, Named, Announced

LEMMA LoadTold ==
  ASSUME TypeOK, RegisteredTold, NEW p \in Peers, Load(p)
  PROVE  RegisteredTold'
  <1>1. UNCHANGED <<handler, due>> /\ told \subseteq told'
    BY DEF Load
  <1>2. \/ UNCHANGED peerMap
        \/ p \in told' /\ \A q \in Peers \ {p} : peerMap'[q] = peerMap[q]
    BY DEF Load, SetPeer, TypeOK
  <1>3. ASSUME NEW q \in Peers, Named(q)'
        PROVE  Announced(q)'
    <2>1. CASE q \in told'
      BY <2>1 DEF Announced
    <2>2. CASE q \notin told'
      <3>1. Announced(q)
        BY <1>2, <1>3, <2>2, ToldIs DEF Named, Registered
      <3> QED
        BY <1>1, <3>1 DEF Announced
    <2> QED
      BY <2>1, <2>2
  <1> QED
    BY <1>3 DEF RegisteredTold, Named, Announced

LEMMA MessageTold ==
  ASSUME TypeOK, RegisteredTold, NEW h \in Handler, HandlerStep(h)
  PROVE  RegisteredTold'
  <1>1. UNCHANGED due /\ told \subseteq told'
    BY DEF HandlerStep, Receive, AutoRegister, SaveAuthor, AnnounceAuthor
  <1>2. \A g \in Handler \ {h} : handler'[g] = handler[g]
    BY DEF HandlerStep, Receive, AutoRegister, SaveAuthor, AnnounceAuthor, Goes, TypeOK
  <1>3. ASSUME NEW q \in Peers, Named(q)'
        PROVE  Announced(q)'
    <2>1. CASE AutoRegister(h)
      <3>1. PICK p \in Peers : p = handler[h].peer
        BY <2>1 DEF AutoRegister, TypeOK
      <3>2. handler'[h].at = "announce" /\ handler'[h].peer = p
        <4>1. handler[h] \in [at : Doing, peer : Peers \cup {NoPeer}]
          BY DEF TypeOK
        <4> QED
          BY <2>1, <3>1, <4>1 DEF AutoRegister, Goes, TypeOK
      <3>3. \A r \in Peers \ {p} : peerMap'[r] = peerMap[r]
        BY <2>1, <3>1 DEF AutoRegister, SetPeer, TypeOK
      <3>4. CASE q = p
        BY <3>2, <3>4 DEF Announced
      <3>5. CASE q # p
        <4>1. Announced(q)
          BY <1>3, <3>3, <3>5, ToldIs DEF Named, Registered
        <4>2. handler[h].at \notin {"announce", "announcing"}
          BY <2>1 DEF AutoRegister
        <4> QED
          BY <1>1, <1>2, <4>1, <4>2 DEF Announced
      <3> QED
        BY <3>4, <3>5
    <2>2. CASE AnnounceAuthor(h)
      <3>1. Announced(q)
        BY <1>3, <2>2, ToldIs DEF AnnounceAuthor, Named, Registered
      <3>2. handler[h].peer \in told'
        BY <2>2 DEF AnnounceAuthor
      <3> QED
        BY <1>1, <1>2, <3>1, <3>2 DEF Announced
    <2>3. ASSUME NEW p \in Peers, Receive(h, p)
          PROVE  Announced(q)'
      <3>1. Announced(q)
        BY <1>3, <2>3, ToldIs DEF Receive, Named, Registered
      <3>2. handler[h].at \notin {"announce", "announcing"}
        BY <2>3 DEF Receive
      <3> QED
        BY <1>1, <1>2, <3>1, <3>2 DEF Announced
    <2>4. CASE SaveAuthor(h)
      <3>1. Announced(q)
        BY <1>3, <2>4, ToldIs DEF SaveAuthor, Named, Registered
      <3>2. handler'[h].at = "announcing" /\ handler'[h].peer = handler[h].peer
        BY <2>4 DEF SaveAuthor, Goes, TypeOK
      <3> QED
        BY <1>1, <1>2, <3>1, <3>2 DEF Announced
    <2> QED
      BY <2>1, <2>2, <2>3, <2>4 DEF HandlerStep
  <1> QED
    BY <1>3 DEF RegisteredTold, Named, Announced

LEMMA InfoTold ==
  ASSUME TypeOK, RegisteredTold, PeerInfo \/ SaveInfo \/ InfoSaved
  PROVE  RegisteredTold'
  <1>1. UNCHANGED <<due, told>>
    BY DEF PeerInfo, SaveInfo, InfoSaved
  <1>2. \A g \in Handler \ {"gossip"} : handler'[g] = handler[g]
    BY DEF PeerInfo, SaveInfo, InfoSaved, Goes, TypeOK
  <1>3. handler["gossip"].at \notin {"announce", "announcing"}
    BY DEF PeerInfo, SaveInfo, InfoSaved
  <1>4. PICK p \in Peers : p = handler["gossip"].peer
    BY DEF PeerInfo, SaveInfo, InfoSaved, TypeOK, Handler
  <1>5. \A q \in Peers \ {p} : peerMap'[q] = peerMap[q]
    BY <1>4 DEF PeerInfo, SaveInfo, InfoSaved, TypeOK
  <1>6. Named(p)' => Named(p)
    <2>1. \/ peerMap'[p] = peerMap[p]
          \/ Registered(p) /\ peerMap'[p] = [named |-> peerMap[p].named, keyed |-> TRUE]
          \/ peerMap'[p] = [named |-> FALSE, keyed |-> TRUE]
      BY <1>4 DEF PeerInfo, SaveInfo, InfoSaved, TypeOK
    <2> QED
      BY <2>1 DEF Named, Registered
  <1>7. ASSUME NEW q \in Peers, Named(q)'
        PROVE  Announced(q)'
    <2>1. Announced(q)
      BY <1>5, <1>6, <1>7, ToldIs DEF Named, Registered
    <2> QED
      BY <1>1, <1>2, <1>3, <2>1 DEF Announced
  <1> QED
    BY <1>7 DEF RegisteredTold, Named, Announced

LEMMA ToldStep == TypeOK /\ Idle /\ RegisteredTold /\ [Next]_vars => RegisteredTold'
  <1> SUFFICES ASSUME TypeOK, Idle, RegisteredTold, [Next]_vars PROVE RegisteredTold'
    OBVIOUS
  <1>1. CASE UNCHANGED vars
    BY <1>1 DEF vars, RegisteredTold, Registered
  <1>2. CASE Start
    BY <1>2 DEF Start, RegisteredTold, Registered
  <1>3. CASE Stops
    <2>1. Ends
      BY <1>3 DEF Stops, Quit, Kill, Panic
    <2> QED
      BY <2>1 DEF Ends, RegisteredTold, Registered
  <1>4. ASSUME NEW p \in Peers,
               OpenConnection(p) \/ CloseConnection(p) \/ NotIdentified(p) \/ Dial(p)
        PROVE  RegisteredTold'
    <2>1. UNCHANGED <<peerMap, due, handler, told>>
      BY <1>4 DEF OpenConnection, CloseConnection, NotIdentified, Dial
    <2> QED
      BY <2>1 DEF RegisteredTold, Registered
  <1>5. CASE ReadSaved
    BY <1>5 DEF ReadSaved, RegisteredTold, Registered
  <1> QED
    BY <1>1, <1>2, <1>3, <1>4, <1>5, NextIs, DisconnectedTold, RegisterTold, SettledTold,
       LoadTold, MessageTold, InfoTold DEF Works
-----------------------------------------------------------------------------
Safe == Idle /\ MapsAgree /\ FileCurrent /\ ConnectedKnown /\ RegisteredTold

LEMMA InitSafe == Init => Safe
  <1> SUFFICES ASSUME Init PROVE Safe
    OBVIOUS
  <1>1. Idle
    BY DEF Init, Idle, Waiting, NoLoad, Nothing
  <1>2. MapsAgree
    BY DEF Init, MapsAgree, Registered, Uuid
  <1>3. FileCurrent /\ ConnectedKnown /\ RegisteredTold
    BY DEF Init, FileCurrent, ConnectedKnown, RegisteredTold, Registered
  <1> QED
    BY <1>1, <1>2, <1>3 DEF Safe

LEMMA Invariant == Spec => [](TypeOK /\ Safe)
  <1>1. Init => TypeOK /\ Safe
    BY InitType, InitSafe
  <1>2. TypeOK /\ Safe /\ [Next]_vars => (TypeOK /\ Safe)'
    BY TypeStep, IdleStep, AgreeStep, FileStep, KnownStep, ToldStep DEF Safe
  <1> QED
    BY <1>1, <1>2, PTL DEF Spec

\* The types of all variables; the loader never registers a peer the file does
\* not hold.
THEOREM TypeCorrect == Spec => []TypeOK
  BY Invariant, PTL

\* Whichever goroutines have written the two maps, in whatever order, a peer that
\* is registered with its UUID is found by it, and a UUID leads to no other peer
\* and, unless the process is about to panic, to none that has been forgotten.
THEOREM MapsCorrect == Spec => []MapsAgree
  <1>1. Safe => MapsAgree
    BY DEF Safe
  <1> QED
    BY <1>1, Invariant, PTL

\* Once the goroutines that changed the maps are done, and unless the last save to end
\* failed or was torn, the file of saved peers has them as they are, but for the peers
\* that nobody has saved since they were loaded or the daemon was started.
THEOREM FileCorrect == Spec => []FileCurrent
  <1>1. Safe => FileCurrent
    BY DEF Safe
  <1> QED
    BY <1>1, Invariant, PTL

\* A connected peer is registered when its connections have been dealt with.
THEOREM ConnectedCorrect == Spec => []ConnectedKnown
  <1>1. Safe => ConnectedKnown
    BY DEF Safe
  <1> QED
    BY <1>1, Invariant, PTL

\* A peer that is registered with its UUID has been or will be announced.
THEOREM ToldCorrect == Spec => []RegisteredTold
  <1>1. Safe => RegisteredTold
    BY DEF Safe
  <1> QED
    BY <1>1, Invariant, PTL
=============================================================================
