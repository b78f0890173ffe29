---------------------------- MODULE PeerRegistry ----------------------------
(***************************************************************************)
(* The peer registry of one daemon (internal/network/libp2p_engine.go,     *)
(* libp2p_connect.go and the registering half of libp2p_chat.go).          *)
(*                                                                         *)
(* Two maps, from libp2p ids to identities and from UUIDs to libp2p ids,   *)
(* are written by goroutines of six kinds: the notifier of connections,    *)
(* the identification of a new connection, ConnectToPeer, the consumer of  *)
(* gossip, the handler of private messages, and the loader of saved peers. *)
(* Each writes under peerMu, and all but the loader save the peers and     *)
(* publish their event after they have released peerMu.  A save holds      *)
(* peerMu for reading: the maps stand still while it runs, but other saves *)
(* run beside it.  It truncates the file, writes it in place and may fail  *)
(* at either, which nobody looks at.                                       *)
(*                                                                         *)
(* A peer stands for its libp2p id and for its UUID, which both derive     *)
(* from its key pair; what the daemon knows of a peer is whether it has    *)
(* the UUID and whether it has the public key.  A daemon that is not up    *)
(* has nothing but its file of saved peers.                                *)
(***************************************************************************)
EXTENDS Naturals

CONSTANTS
  Peers,       \* the remote peers
  NoUuid,      \* the empty UUID
  NoPeer,      \* no entry in uuidMap
  NoIdentity,  \* no entry in peerMap
  NoList,      \* no file of saved peers, or one that cannot be parsed
  MaxConns,    \* connections to one peer at a time
  MaxEvents    \* starts, connections, dials and messages, all together

ASSUME RegistryAssumption ==
  /\ NoUuid \notin Peers /\ NoPeer \notin Peers
  /\ NoIdentity \notin [named : BOOLEAN, keyed : BOOLEAN]
  /\ NoList \notin [Peers -> [named : BOOLEAN, keyed : BOOLEAN] \cup {NoIdentity}]
  /\ MaxConns \in Nat /\ MaxEvents \in Nat

Identity == [named : BOOLEAN, keyed : BOOLEAN]
Uuid     == Peers \cup {NoUuid}
Handler  == {"gossip", "private"}

\* What follows a change of the maps: the peers are to be saved and then the peer is
\* announced, or nothing more happens, or the process panics.
Joined == {"joined", "announcing"}
Left   == {"left", "leaving"}
Panics == {"panic", "panicking", "doomed"}
Ending == Joined \cup Left \cup Panics

\* What a handler is doing: registering an author, saving and announcing it, reading
\* its key and address, and saving them.
Doing == {"idle", "register", "announce", "announcing", "info", "save", "saving"}

VARIABLES
  up,       \* the engine is started
  peerMap,  \* identity of every registered peer
  uuidMap,  \* peer of every UUID
  file,     \* .parade_peers
  conns,    \* open connections to every peer
  closing,  \* closed connections whose DisconnectedF has not begun
  asks,     \* identifications under way
  dials,    \* calls of connectToPeer that are connected
  handler,  \* what the two handlers of messages are doing
  loader,   \* loadAndReconnect: what it has read and still has to register
  due,      \* what is still to be done after peerMu was released
  spent,    \* of MaxEvents
  unsaved,  \* peers not written to the file since they were loaded or the start
  spoiled,  \* the last save to end did not leave its list in the file
  told,     \* peers announced or loaded since they were last forgotten
  missed    \* peers forgotten while connected, or that did not say who they are

vars == <<up, peerMap, uuidMap, file, conns, closing, asks, dials, handler,
          loader, due, spent, unsaved, spoiled, told, missed>>
disk   == <<file, unsaved, spoiled>>

NoLoad  == [reading |-> FALSE, todo |-> {}, list |-> [p \in Peers |-> NoIdentity]]
Nothing == [p \in Peers |-> [k \in Ending |-> 0]]
Waiting == [at |-> "idle", peer |-> NoPeer]

TypeOK ==
  /\ up \in BOOLEAN
  /\ peerMap \in [Peers -> Identity \cup {NoIdentity}]
  /\ uuidMap \in [Uuid -> Peers \cup {NoPeer}]
  /\ file \in [Peers -> Identity \cup {NoIdentity}] \cup {NoList}
  /\ conns \in [Peers -> 0 .. MaxConns] /\ closing \in [Peers -> Nat]
  /\ asks \in [Peers -> Nat] /\ dials \in [Peers -> Nat]
  /\ handler \in [Handler -> [at : Doing, peer : Peers \cup {NoPeer}]]
  /\ \A h \in Handler : handler[h].at # "idle" => handler[h].peer \in Peers
  /\ loader \in [reading : BOOLEAN, todo : SUBSET Peers,
                 list : [Peers -> Identity \cup {NoIdentity}]]
  /\ \A p \in loader.todo : loader.list[p] # NoIdentity
  /\ due \in [Peers -> [Ending -> Nat]]
  /\ spent \in Nat /\ spoiled \in BOOLEAN
  /\ unsaved \subseteq Peers /\ told \subseteq Peers /\ missed \subseteq Peers
-----------------------------------------------------------------------------
(* The maps, as the engine reads and writes them. *)

Registered(p) == peerMap[p] # NoIdentity

\* Every call to a peer looks its UUID up and fails if it is not there.
GetPeerID(u) == uuidMap[u]

\* Some save is under way: it holds peerMu for reading, so nobody writes the maps.
Saving ==
  \/ \E p \in Peers, k \in {"announcing", "leaving", "panicking"} : due[p][k] > 0
  \/ \E h \in Handler : handler[h].at \in {"announcing", "saving"}

\* A bug SetPeer could have: only the identity is stored.
SetIdentityOnly(p, u, keyed) ==
  /\ ~Saving
  /\ peerMap' = [peerMap EXCEPT ![p] = [named |-> u # NoUuid, keyed |-> keyed]]
  /\ UNCHANGED uuidMap

SetPeer(p, u, keyed) ==
  /\ ~Saving
  /\ peerMap' = [peerMap EXCEPT ![p] = [named |-> u # NoUuid, keyed |-> keyed]]
  /\ uuidMap' = [uuidMap EXCEPT ![u] = p]

\* savePeers begins: the file is truncated ...
Truncate == file' = NoList /\ UNCHANGED <<unsaved, spoiled>>

\* ... or it cannot be opened, and the save is over.
OpenFails == spoiled' = TRUE /\ UNCHANGED <<file, unsaved>>

\* A bug SavePeers could have: peers without a public key are left out.
SaveKeyed ==
  \/ /\ file' = [p \in Peers |-> IF Registered(p) /\ peerMap[p].keyed
                                 THEN peerMap[p] ELSE NoIdentity]
     /\ unsaved' = {} /\ spoiled' = FALSE
  \/ /\ file' \in {file, NoList}
     /\ spoiled' = TRUE /\ UNCHANGED unsaved

\* savePeers ends: the list is written, or the write fails or goes over the longer list
\* of a save that ran beside this one (the addresses in it are not under peerMu).
SavePeers ==
  \/ /\ file' = peerMap
     /\ unsaved' = {} /\ spoiled' = FALSE
  \/ /\ file' \in {file, NoList}
     /\ spoiled' = TRUE /\ UNCHANGED unsaved

Spend == spent < MaxEvents /\ spent' = spent + 1

Owe(p, k) == due' = [due EXCEPT ![p][k] = @ + 1]

Settle(p, k) == due[p][k] > 0 /\ due' = [due EXCEPT ![p][k] = @ - 1]

GoesOn(p, k, l) == due[p][k] > 0 /\ due' = [due EXCEPT ![p][k] = @ - 1, ![p][l] = @ + 1]

\* Some goroutine has written the maps and not yet saved the peers.
SavePending ==
  \/ Saving
  \/ \E p \in Peers, k \in {"joined", "left", "panic"} : due[p][k] > 0
  \/ \E h \in Handler : handler[h].at \in {"announce", "save"}
-----------------------------------------------------------------------------
Init ==
  /\ up = FALSE
  /\ peerMap = [p \in Peers |-> NoIdentity] /\ uuidMap = [u \in Uuid |-> NoPeer]
  /\ file = NoList
  /\ conns = [p \in Peers |-> 0] /\ closing = [p \in Peers |-> 0]
  /\ asks = [p \in Peers |-> 0] /\ dials = [p \in Peers |-> 0]
  /\ handler = [h \in Handler |-> Waiting] /\ loader = NoLoad /\ due = Nothing
  /\ spent = 0
  /\ unsaved = Peers /\ spoiled = FALSE /\ told = {} /\ missed = {}

Start ==
  /\ ~up /\ up' = TRUE /\ Spend
  /\ loader' = [loader EXCEPT !.reading = TRUE]
  /\ UNCHANGED <<peerMap, uuidMap, disk, conns, closing, asks, dials, handler, due, told,
                 missed>>

\* The process ends: all but the file is lost.
Ends ==
  /\ up' = FALSE
  /\ peerMap' = [p \in Peers |-> NoIdentity] /\ uuidMap' = [u \in Uuid |-> NoPeer]
  /\ conns' = [p \in Peers |-> 0] /\ closing' = [p \in Peers |-> 0]
  /\ asks' = [p \in Peers |-> 0] /\ dials' = [p \in Peers |-> 0]
  /\ handler' = [h \in Handler |-> Waiting] /\ loader' = NoLoad /\ due' = Nothing
  /\ unsaved' = Peers /\ spoiled' = FALSE /\ told' = {} /\ missed' = {}
  /\ UNCHANGED spent

\* Shutdown saves what is registered, which is nothing if the network was never
\* started; Stop then panics in its own savePeers if a peer is registered, for
\* it has taken the host away, and writes an empty list if none is.
Quit == file' \in {peerMap, NoList, file} /\ Ends

\* The process is killed, perhaps between the truncation and the write of a save.
Kill == up /\ UNCHANGED file /\ Ends
-----------------------------------------------------------------------------
(* Connections. *)

\* A bug Asks could have: a peer of the saved file passes for registered.
AsksNewcomer(p) == ~Registered(p) /\ p \notin loader.todo

\* ConnectedF asks nobody who is registered already.
Asks(p) == ~Registered(p)

OpenConnection(p) ==
  /\ up /\ conns[p] < MaxConns /\ Spend
  /\ conns' = [conns EXCEPT ![p] = @ + 1]
  /\ \/ ~Asks(p) /\ UNCHANGED <<asks, missed>>
     \/ /\ Asks(p)
        /\ asks' = [asks EXCEPT ![p] = @ + 1]
        /\ missed' = missed \ {p}
  /\ UNCHANGED <<up, peerMap, uuidMap, disk, closing, dials, handler, loader, due, told>>

CloseConnection(p) ==
  /\ conns[p] > 0
  /\ conns' = [conns EXCEPT ![p] = @ - 1]
  /\ closing' = [closing EXCEPT ![p] = @ + 1]
  /\ UNCHANGED <<up, peerMap, uuidMap, disk, asks, dials, handler, loader, due, spent,
                 told, missed>>

ForgetPeer(p) ==
  /\ ~Saving
  /\ peerMap' = [peerMap EXCEPT ![p] = NoIdentity]
  /\ \/ Registered(p) /\ peerMap[p].named /\ uuidMap' = [uuidMap EXCEPT ![p] = NoPeer]
     \/ Registered(p) /\ ~peerMap[p].named /\ uuidMap' = [uuidMap EXCEPT ![NoUuid] = NoPeer]
     \/ ~Registered(p) /\ UNCHANGED uuidMap

\* DisconnectedF: the peer is forgotten, also if another connection is open; what
\* follows depends on the identity it had (its log line slices the UUID).
Disconnected(p) ==
  /\ closing[p] > 0
  /\ closing' = [closing EXCEPT ![p] = @ - 1]
  /\ ForgetPeer(p)
  /\ Owe(p, IF Registered(p) /\ ~peerMap[p].named THEN "panic" ELSE "left")
  /\ told' = told \ {p}
  /\ \/ conns[p] > 0 /\ missed' = missed \cup {p}
     \/ conns[p] = 0 /\ UNCHANGED missed
  /\ UNCHANGED <<up, disk, conns, asks, dials, handler, loader, spent>>

\* A bug Register could have: who is registered already is not announced.
RegisterNew(p) ==
  /\ SetPeer(p, p, TRUE)
  /\ Owe(p, IF Registered(p) THEN "left" ELSE "joined")
  /\ missed' = missed \ {p}

Register(p) ==
  /\ SetPeer(p, p, TRUE)
  /\ Owe(p, "joined")
  /\ missed' = missed \ {p}

\* identifyRemotePeer returns; the peer may have left meanwhile.
Identified(p) ==
  /\ asks[p] > 0
  /\ asks' = [asks EXCEPT ![p] = @ - 1]
  /\ Register(p)
  /\ UNCHANGED <<up, disk, conns, closing, dials, handler, loader, spent, told>>

NotIdentified(p) ==
  /\ asks[p] > 0
  /\ asks' = [asks EXCEPT ![p] = @ - 1]
  /\ missed' = missed \cup {p}
  /\ UNCHANGED <<up, peerMap, uuidMap, disk, conns, closing, dials, handler, loader,
                 due, spent, told>>

\* ConnectToPeer: phase 1 has discovered the peer and has a connection to it ...
Dial(p) ==
  /\ conns[p] > 0 /\ Spend
  /\ dials' = [dials EXCEPT ![p] = @ + 1]
  /\ UNCHANGED <<up, peerMap, uuidMap, disk, conns, closing, asks, handler, loader,
                 due, told, missed>>

\* ... and after phases 2 and 3, whatever their results, the peer is registered.
DialEnds(p) ==
  /\ dials[p] > 0
  /\ dials' = [dials EXCEPT ![p] = @ - 1]
  /\ Register(p)
  /\ UNCHANGED <<up, disk, conns, closing, asks, handler, loader, spent, told>>
-----------------------------------------------------------------------------
(* Messages. *)

Goes(h, at) == handler' = [handler EXCEPT ![h].at = at]

\* A message of p has been decrypted; is its author registered?
Receive(h, p) ==
  /\ up /\ handler[h].at = "idle" /\ Spend
  /\ \/ ~Registered(p) /\ handler' = [handler EXCEPT ![h] = [at |-> "register", peer |-> p]]
     \/ /\ Registered(p)
        /\ \/ h = "gossip" /\ handler' = [handler EXCEPT ![h] = [at |-> "info", peer |-> p]]
           \/ h = "private" /\ UNCHANGED handler
  /\ UNCHANGED <<up, peerMap, uuidMap, disk, conns, closing, asks, dials, loader,
                 due, told, missed>>

\* onAutoRegister, whatever the maps say by now: the public key is not known ...
AutoRegister(h) ==
  /\ handler[h].at = "register"
  /\ SetPeer(handler[h].peer, handler[h].peer, FALSE)
  /\ Goes(h, "announce")
  /\ missed' = missed \ {handler[h].peer}
  /\ UNCHANGED <<up, disk, conns, closing, asks, dials, loader, due, spent, told>>

\* ... and the peer is saved ...
SaveAuthor(h) ==
  /\ handler[h].at = "announce"
  /\ Truncate
  /\ Goes(h, "announcing")
  /\ UNCHANGED <<up, peerMap, uuidMap, conns, closing, asks, dials, loader, due,
                 spent, told, missed>>

\* ... and announced.
AnnounceAuthor(h) ==
  /\ \/ handler[h].at = "announcing" /\ SavePeers
     \/ handler[h].at = "announce" /\ OpenFails
  /\ told' = told \cup {handler[h].peer}
  /\ Goes(h, IF h = "gossip" THEN "info" ELSE "idle")
  /\ UNCHANGED <<up, peerMap, uuidMap, conns, closing, asks, dials, loader, due,
                 spent, missed>>

\* onPeerInfoReceived: a missing public key is filled in; a peer that has been
\* forgotten meanwhile gets an identity without a UUID.
PeerInfo ==
  LET p == handler["gossip"].peer
  IN  /\ handler["gossip"].at = "info"
      /\ ~Saving
      /\ \/ /\ Registered(p) /\ peerMap[p].keyed
            /\ Goes("gossip", "idle")
            /\ UNCHANGED <<peerMap, missed>>
         \/ /\ Registered(p) /\ ~peerMap[p].keyed
            /\ peerMap' = [peerMap EXCEPT ![p] = [named |-> peerMap[p].named, keyed |-> TRUE]]
            /\ Goes("gossip", "save")
            /\ UNCHANGED missed
         \/ /\ ~Registered(p)
            /\ peerMap' = [peerMap EXCEPT ![p] = [named |-> FALSE, keyed |-> TRUE]]
            /\ Goes("gossip", "save")
            /\ missed' = missed \ {p}
      /\ UNCHANGED <<up, uuidMap, disk, conns, closing, asks, dials, loader, due,
                     spent, told>>

SaveInfo ==
  /\ handler["gossip"].at = "save"
  /\ Truncate
  /\ Goes("gossip", "saving")
  /\ UNCHANGED <<up, peerMap, uuidMap, conns, closing, asks, dials, loader, due,
                 spent, told, missed>>

InfoSaved ==
  /\ \/ handler["gossip"].at = "saving" /\ SavePeers
     \/ handler["gossip"].at = "save" /\ OpenFails
  /\ Goes("gossip", "idle")
  /\ UNCHANGED <<up, peerMap, uuidMap, conns, closing, asks, dials, loader, due,
                 spent, told, missed>>
-----------------------------------------------------------------------------
(* What follows a change of the maps, and the saved peers. *)

\* The three goroutines that owe it save the peers.
BeginSave(p) ==
  /\ \/ GoesOn(p, "joined", "announcing")
     \/ GoesOn(p, "left", "leaving")
     \/ GoesOn(p, "panic", "panicking")
  /\ Truncate
  /\ UNCHANGED <<up, peerMap, uuidMap, conns, closing, asks, dials, handler, loader,
                 spent, told, missed>>

Announce(p) ==
  /\ \/ Settle(p, "announcing") /\ SavePeers
     \/ Settle(p, "joined") /\ OpenFails
  /\ told' = told \cup {p}
  /\ UNCHANGED <<up, peerMap, uuidMap, conns, closing, asks, dials, handler, loader,
                 spent, missed>>

SayLeft(p) ==
  /\ \/ Settle(p, "leaving") /\ SavePeers
     \/ Settle(p, "left") /\ OpenFails
     \/ GoesOn(p, "panicking", "doomed") /\ SavePeers
     \/ GoesOn(p, "panic", "doomed") /\ OpenFails
  /\ UNCHANGED <<up, peerMap, uuidMap, conns, closing, asks, dials, handler, loader,
                 spent, told, missed>>

\* The slice of an empty UUID panics in a goroutine of libp2p.
Panic(p) == due[p]["doomed"] > 0 /\ UNCHANGED file /\ Ends

\* A bug ReadList could have: an entry that cannot be read stays in the list.
ReadEverything(f) == [reading |-> FALSE, list |-> f, todo |-> Peers]

ReadList(f) ==
  [reading |-> FALSE, list |-> f, todo |-> {p \in Peers : f[p] # NoIdentity}]

\* The file is read without peerMu: a save that has truncated it leaves nothing to read.
ReadSaved ==
  /\ loader.reading
  /\ \/ file # NoList /\ loader' = ReadList(file)
     \/ file = NoList /\ loader' = NoLoad
  /\ UNCHANGED <<up, peerMap, uuidMap, disk, conns, closing, asks, dials, handler,
                 due, spent, told, missed>>

\* A saved peer is registered if its public key is known, and connected to.
Load(p) ==
  /\ p \in loader.todo
  /\ loader' = [loader EXCEPT !.todo = @ \ {p}, !.list[p] = NoIdentity]
  /\ \/ /\ loader.list[p].keyed
        /\ SetPeer(p, IF loader.list[p].named THEN p ELSE NoUuid, TRUE)
        /\ unsaved' = unsaved \cup {p} /\ told' = told \cup {p}
        /\ missed' = missed \ {p}
     \/ ~loader.list[p].keyed /\ UNCHANGED <<peerMap, uuidMap, unsaved, told, missed>>
  /\ UNCHANGED <<up, file, spoiled, conns, closing, asks, dials, handler, due, spent>>

PeerStep(p) ==
  \/ OpenConnection(p) \/ CloseConnection(p) \/ Disconnected(p)
  \/ Identified(p) \/ NotIdentified(p) \/ Dial(p) \/ DialEnds(p)
  \/ BeginSave(p) \/ Announce(p) \/ SayLeft(p) \/ Panic(p) \/ Load(p)

HandlerStep(h) ==
  (\E p \in Peers : Receive(h, p)) \/ AutoRegister(h) \/ SaveAuthor(h) \/ AnnounceAuthor(h)

Next ==
  \/ Start \/ Quit \/ Kill \/ ReadSaved \/ PeerInfo \/ SaveInfo \/ InfoSaved
  \/ \E p \in Peers : PeerStep(p)
  \/ \E h \in Handler : HandlerStep(h)

Spec == Init /\ [][Next]_vars
-----------------------------------------------------------------------------
Doomed == \E p \in Peers, k \in Panics : due[p][k] > 0

\* The two maps agree, whichever of the six kinds of goroutine wrote last: a peer
\* with a UUID can be called by it, and a UUID leads to its own, registered peer.
\* The UUID entry of a peer whose identity was replaced by one without a UUID is
\* left behind, but then the process is about to panic.
MapsAgree ==
  \A p \in Peers :
    /\ Registered(p) /\ peerMap[p].named => GetPeerID(p) = p
    /\ uuidMap[p] # NoPeer => uuidMap[p] = p /\ (Registered(p) \/ Doomed)

\* When no goroutine has still to save and the last save to end left its list in the
\* file, whatever failed or was torn before it, the file says of every peer what the
\* maps say: a crash then costs no peer that was identified, and brings none back that
\* left.  A peer the loader has registered counts from the next such save on, and after
\* a start all do, for until then the file is that of the run before.
FileCurrent ==
  up /\ ~SavePending /\ ~spoiled =>
    \A p \in Peers \ unsaved : file # NoList /\ file[p] = peerMap[p]

\* When all that happened to its connections has been handled, a connected peer
\* is registered, so that calls to it find it, unless it did not say who it is
\* or one of several connections to it was closed.
ConnectedKnown ==
  \A p \in Peers :
    conns[p] > 0 /\ asks[p] = 0 /\ closing[p] = 0 /\ p \notin missed => Registered(p)

\* A peer that has a UUID has been announced since it was registered, which is
\* what starts its synchronisation, or it was read from the file, or the goroutine
\* that registered it is about to announce it.
RegisteredTold ==
  \A p \in Peers :
    Registered(p) /\ peerMap[p].named =>
      \/ p \in told \/ \E k \in Joined : due[p][k] > 0
      \/ \E h \in Handler :
           handler[h].at \in {"announce", "announcing"} /\ handler[h].peer = p
=============================================================================
