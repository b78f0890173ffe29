# Parade in TLA+

Parade is a peer-to-peer chat and file sharing program: a Go daemon (`internal/`,
`cmd/parade`) that talks to a front end in JSON-RPC over stdin and stdout and to
other daemons over libp2p. This directory holds TLA+ models of the daemon, the
TLC configurations that check them on small instances, and proofs checked by
TLAPS. File names below are relative to `src/internal/` unless they start with
`src/`.

## 1. The system

| component | code | state it keeps | operations | hard part | what makes it correct |
|---|---|---|---|---|---|
| Merkle synchronisation | `core/sync/sync.go`, `merkle.go`, `timebucket.go` | messages, `merkle_tree_nodes`, the tree a session holds in memory | SyncConversation, compareLevel, fetch, push, the four handlers | sessions in both directions, live messages in between, lost answers, trees that are stored row by row by whoever finds none and never refreshed | one copy per HLC, nothing overwritten, a completed session exchanges what its roots cover |
| Freeze manager | `core/sync/freeze.go` | frozen flags and windows | midnight tick, start-up check, prune | runs during sessions | only past days frozen, a tree otherwise left as it is |
| Linear synchronisation | `network/libp2p_sync.go`, `app/app.go` | `last_hlc` | request since an HLC, response of at most 500 | responses late and out of order, `last_hlc` moves backwards | as above, as it is the fall-back |
| Request streams | `network/libp2p_merklesync.go`, `libp2p_connect.go`, `libp2p_file.go` | open streams | open, write, read to the end, serve, close | half-close, connection loss, partial writes | an answer means the handler took effect; requests return |
| Event bus | `core/eventbus/eventbus.go` | handlers, one channel and loop per topic | Subscribe, Unsubscribe, Publish, the loop | channel and handlers are used after the lock was released | order per loop, delivery, loops exit |
| Stdio server | `app/stdio_server.go`, `jsonrpc.go` | done, wait group, dispatchMu, buffered writer | read loop, dispatch, Broadcast, Stop | Stop against a read loop in any place | no response lost, nothing closed under a handler, Stop returns |
| Daemon | `src/cmd/parade/daemon/` | instance lock, the deferred closes | start, select on signal or EOF, shutdown | order of the closes | engines outlive handlers |
| Application | `app/app.go` | teams, debounce maps, subscriptions | send, receive, join, leave and switch teams, sync all conversations | every call reads the active team again; subscribers run concurrently with RPCs; a slot pool | a team's row has its key; teams never mix |
| SQLite store | `core/db/sqlite.go` | the tables | upserts, transactions | conflicts | unique HLC |
| File transfer | `file/transfer.go`, `chunk_tracker.go`, `network/libp2p_file.go` | temporary file, bitmap, tracker, task row | PrepareDownload, SaveChunk, retry | crash between steps, late chunks, shared temporary names | a completed file is whole |
| Shared directories | `file/vfs.go`, `hash.go` | roots, tree cache, hash cache, watchers, rows | share, unshare, load, watch, list | invalidation while a tree is built, directories created below a walk, goroutines to stop | shared, watched and in the database go together; no stale tree stays |
| Peer registry, mDNS | `network/libp2p_engine.go`, `libp2p_connect.go`, `mdns.go` | peerMap, uuidMap, saved peers | connect, disconnect, identify, register, save, reconnect | six kinds of goroutines write the maps, and save and announce after the lock | the two maps, the file and the announcements agree |
| Chat | `network/libp2p_chat.go` | topics, subscriptions | JoinTeam, broadcast, private stream | acknowledged before it is processed; the topic is joined once | a message is read under its own team |
| Key ring | `core/crypto/` | personal key, team keys, active team, their file | register, login, encrypt, decrypt, save, load | writes that fail or are torn; the active team changes | the active team has a key; what is saved is what is held |
| Log broker | `core/logger/broker.go` | ring buffer, file | log, Entries, Clear, Close | writes after unlock | last N entries |
| Front end | `src/frontend/`, `src/deprecated/` | - | - | - | not modelled |

How they interact: libp2p callbacks publish on the event bus; the application's
subscribers store what arrives and notify the front end through the stdio
server. `PeerOnline` and `PeerJoined` start `syncAllConversationsWithPeer`, which
runs one Merkle session per conversation and falls back to the linear request.
The session calls the peer through the `SyncNetwork` interface, that is one
request stream per call; the peer's handler is its own orchestrator. The freeze
manager changes the stored trees from a goroutine of its own. RPC handlers call
all of these.

The hazards of this code, each with its line and the properties aimed at it,
are listed in `PROJECT.json`.

## 2. The modules

| module | models |
|---|---|
| `MerkleSync` | one conversation on a set of nodes: live messages, Merkle sessions, freezing, pruning, linear fall-back; implements `ReplicatedMessages` |
| `MerkleSyncAudit` | a history variable and what the comments in `core/sync` say, for a run that refutes it |
| `ReplicatedMessages` | what a replicated conversation promises, abstractly |
| `RequestServer` | what a server of requests promises, abstractly |
| `StdioServer` | the JSON-RPC server and the daemon's end; implements `RequestServer` |
| `RequestStream` | one request and response on a stream |
| `EventDelivery` | what a bus promises to its handlers, abstractly |
| `EventBus` | one topic of the bus; implements `EventDelivery` |
| `FileTransfer` | downloads, resumed and killed |
| `PeerRegistry` | the peers a daemon knows, from connection to saved file |
| `Teams` | the key ring, the membership in teams and team messages |
| `SharedDirs` | one shared directory: its watcher, its cached tree, its row |

`MC...` modules give a module constants for TLC, `...Proofs` modules hold its theorems.
The modules meet where the components do: `MerkleSync` takes a network call to be one step
that returns or fails, and `RequestStream` asks whether it returns; `StdioServer` takes a
handler to be one step, and `Teams`, `SharedDirs`, `PeerRegistry` and `FileTransfer` take
the handlers apart; `FileTransfer` and `SharedDirs` end or restart with the daemon whose
shutdown is in `StdioServer`.

### MerkleSync

| variable | code |
|---|---|
| `store[n]` | the `messages` table, one conversation |
| `tree[n]` | the `merkle_tree_nodes` table: the hash of every row, that is the messages it was computed from (`{}` where there is no row), and the frozen rows |
| `last[n]` | `conversations.last_hlc` |
| `sess[c]` | the session that caller `c`, a goroutine of `syncAllConversationsWithPeer` at node `Home[c]`, runs as initiator: where it is, its in-memory tree, the root it was sent, and `work`, what the loop of `compareLevel` has still to do at each level |
| `build[th]` | a call of `buildLocalTree` that found no tree, by a session or by the handler of its root request: the messages it has read (`snap`) and the rows it has still to store |
| `net` | live messages and linear requests and responses in flight; what is never taken out of it is lost, and anything can overtake anything |
| `clock` | the UTC day, and whether it is in the two minutes in which the midnight tick freezes |

A message is its HLC and the node that encrypted this copy. That is the smallest
data that tells copies apart, and it matters: live receivers encrypt again with a
fresh nonce, so two nodes that both hold a message may hash it differently and
every later comparison drills down to it. Hashes are collision free: the hash of
a bucket is the set of messages it was computed from. The calendar (which HLCs
share an hour, a day, a month) is a constant with the one assumption that buckets
nest and sort as time does.

Actions: `SendMessage`/`ReceiveMessage` (app.go), `ListConversation` ...
`FallBack` (the stages of `SyncConversation`, its two local trees, one action per
network call, with the handler that serves it), `ReadMessages`, `PersistNodes`, `FinishBuild` and
`BuildFails` (the building of a tree by either side), `AnswerSyncRequest`/
`ReceiveSyncResponse` (both branches of the ConvSyncRequest subscriber),
`FreezePreviousDay`, `Restart` (the process stops anywhere and `CheckAndFreeze`
runs when it starts), `Midnight`, `MidnightPasses`. `RequestFails` and `AnswerLost`
fail a call before or after the handler ran; `InsertFails` lets the database refuse a
live message or a linear response, after which `last_hlc` moves all the same.

The look for a stored tree, the read of the messages and the storing of each row are separate
steps, and the rows come in any order, since the code ranges over a map (`sync.go:341-382`). A
session and the handlers of other sessions, or several sessions, may all find no tree and build
one from different messages over each other's rows; a restart or an error leaves a part. `steady`
is a history variable: nobody else was storing the responder's tree when it sent its root.

A completed session has exchanged what both sides' rows show at every level
(SessionExchanges). The exemptions are what the code cannot see: messages with no row at some level
(`Active`), and buckets that have no children on the initiator's side, below which nothing is asked
(`ComesTo`). Pruning makes a month without its day; a crash also makes a day without its hours and an hour
without its day.

What is coarser than the code: reading the messages for a fetch and inserting them is one step,
as is loading the levels of a stored tree, and the freezing of a day with the pruning that follows.
`Home` and `Caller` bound the sessions, one handler serves a caller at a time, and where a node is not in
`Interleaved` nothing happens between the steps of a build. The model lets a call of the
`SyncNetwork` interface return; whether the wire protocol lets it is the question of
`RequestStream`.

### StdioServer

`reader`, `dispatch[r]` and `stop[c]` are the program counters of the read loop, of
the goroutine of request `r` and of a call of `Stop`; `done`, `dispatchMu`, `wg`,
`buffer` and `out` are the fields of the server and its stdout. `wg` is a plain
counter, so the model does not assume that it counts the running handlers: that
is proved. A handler is one step whatever it returns, because every path of
`dispatch` writes one response. Of the daemon the model has what comes after the
select: `Shutdown`, the deferred `Stop`, then the closing of the engines.

`RequestServer` is the same thing without goroutines, locks and buffers: requests
are accepted, each is answered once, and the server closes when all are answered.
`ServesRequests` states that `StdioServer` implements it: the requests past the
read loop's check are the accepted ones, those whose response is on stdout the answered
ones, and the phase is that of the first call of `Stop`.

### RequestStream

`sent[r]` and `reply[r]` are the two directions of a stream: how much of the data
they carry and whether their writer closed them. `HalfClosing` are the browse
requests (`BrowseRemote` calls CloseWrite); the Merkle requests and phase 2 of the
handshake close nothing before they return. `LoseConnection` is the only way out of
two reads that wait for each other. A partial write followed by the deferred Close
looks to the handler like a complete stream.

### EventBus

One topic. A loop is numbered by its generation: the last `Unsubscribe` cancels the
loop and forgets the channel, the next `Subscribe` makes new ones. `LookupChannel`
and `Send` are the two halves of `Publish`, `TakeEvent` and `LookupHandlers` those of
the loop: between them the lock is free. `seen[h]` records what a handler was called
with and by which loop.

### FileTransfer

| variable | code |
|---|---|
| `tmp[p]`, `bitmap[p]`, `target[p]` | the files `<path>.parade_tmp`, `<path>.parade_tmp.bitmap` and the target |
| `row[d]` | the `file_logs` row of a download; the task id is new for every call of StartDownload, so a row is never shared |
| `tracker[d]` | the entry of `chunkTrackers`, lost when the process is killed |
| `dl[d]` | where StartDownload is, its attempt, and the slot that the sender sends next |
| `shared`, `latest` | history: the paths where downloads have met, and the file of the last download completed at a path |

A chunk fills one slot, since the sender reads from a multiple of the chunk size on.
`WriteChunk`, `MarkChunk`, `SaveBitmap`, `UpdateLog`, `RemoveBitmap`, `Rename` and
`RenameFails` are the steps of SaveChunk that leave something on disk; `MarkChunk`
includes the truncation with which `Save` begins, so that `Kill` after it leaves a
torn bitmap. The task lock is not modelled: SaveChunk has one caller per task.
`StreamEnds` comes anywhere, for the code takes a closed stream or a chunk marked last for success
however much it has received (`network/libp2p_file.go:391-413`).
`MayFail` lets the database and the rename fail; writes of the temporary file and of
the bitmap, and the removal of the bitmap, succeed. What a killed process has
written is on disk: power loss is not modelled.

Nothing in the code keeps two downloads to one path apart; the task lock is per task and
does not help. The history variable `shared` collects the paths where a download begins
while another is at work, or where it finds a temporary file with chunks of another
file, which it would resume from. What happens there afterwards is in the model (except that a
chunk may be written into a file that is renamed between its open and its write), and
the three properties except these paths. `Crowd` is a bound: without it no third download begins at such a path.

### PeerRegistry

| variable | code |
|---|---|
| `peerMap`, `uuidMap` | the two maps under `peerMu`; an identity is whether it has a UUID and whether it has a public key |
| `file` | `.parade_peers`, rewritten in place by every savePeers |
| `conns`, `closing` | open connections, and closed ones that DisconnectedF has not handled |
| `asks`, `dials`, `handler`, `loader` | the goroutines under way: identifyRemotePeer, ConnectToPeer after phase 1, the two consumers of messages, loadAndReconnect |
| `due` | what goroutines still do after they released `peerMu`: save, announce, or panic |
| `unsaved`, `spoiled`, `told`, `missed` | history: which peers, and which states of the file, the properties except, and why |

A peer stands for its libp2p id and its UUID, which both derive from its key pair.
Each change of the maps is one action, as it is one critical section; the save and the
announcement that follow are actions of their own (`Announce`, `SayLeft`,
`AnnounceAuthor`, `SaveInfo`), so that they come in any order. A save is two steps, the
truncation and the write. It holds `peerMu` for reading only: while one is under way (`Saving`) nobody
writes the maps, but any number of saves run at once. Either step may fail, and every caller goes on as
if it had not; two that overlap may leave one list over the rest of a longer one, which cannot be parsed
(`spoiled`). A `Kill` between the two leaves an empty file; `Panic` is the slice of an empty UUID; `Quit` is Shutdown followed by Stop.
What the saved list is made of beyond the two flags (addresses, names) is left out.

### Teams

| variable | code |
|---|---|
| `registered`, `identity`, `isLoggedIn` | the identity file, the loaded master key, the application's flag |
| `teamKeys`, `activeTeam` | the key ring of `CipherImpl` |
| `keysFile`, `saves` | `.parade_teams`, absent, torn or whole, and how its writes have gone |
| `teams`, `convs`, `messages` | the tables |
| `topic` | the one topic the network joined, when it was started |
| `op` | JoinTeamWithName, LeaveTeam: where it is and with which team |
| `send`, `event` | SendTeamChat between its five reads of the active team; a received message that waits for its subscriber |
| `stale` | history: which of these calls have seen the active team change |

One operation on the membership runs at a time, since the front end issues them so;
one `SendTeamChat`, one received message and `Login` run beside it. Teams derive UUID, key,
conversation and topic from their secret, so one name stands for all of them. A save
succeeds, fails and leaves the old file, or fails and tears it. The row of a join or
leave can fail too.

### SharedDirs

| variable | code |
|---|---|
| `disk` | for every directory how often its content has changed, 0 before it exists |
| `shared`, `current`, `cache` | `sharedRoots[root]`, `watchers[root]`, `treeCache[root]`, under three locks |
| `row` | the row of `shared_directories` |
| `watcher[g]` | the watchers created so far: its fsnotify watches, the events it has not read, what walkAndWatch still has to visit, its done channel |
| `call[c]` | ShareDirectory, UnshareDirectory, LoadSharedDirectories or getOrBuildTree: where it is, and what a build has read |
| `flawed`, `gap`, `raced`, `adrift` | history: a tree that missed a change, a watcher that lost one, overlapping calls, a row that could not be written or read |

Roots share nothing, so the module has one. A directory is read, visited or created
in one step; files are the content of their directory. inotify queues an event with
every watcher of the directory, and the queue may overflow. Directories are not
removed or renamed. The cache of file hashes is not modelled: an entry is compared with
the size, the time and the content of the file when it is used.

## 3. What TLC checks

| run | instance | checks | shows |
|---|---|---|---|
| `sync_hours` | 2 nodes, 3 HLCs in two hours of a day, one caller, unreliable calls, responses of 2 messages, 1 live and 1 linear message in flight | OneCopyPerHlc, MessagesKept, ReplicatesMessages | repeated and lost calls, late and overtaken messages, builds that fail, drill-down; the refinement |
| `sync_days` | 3 HLCs on two days, two of them in different hours of the first, one caller, 3 days, prune after 2, reliable, no linear messages | TypeOK, TreeCoversStore, OnlyPastDaysFrozen, SessionExchanges, TreeOnlyShrinks | freezing, pruning and restarts during sessions, at every level of the trees |
| `sync_builds` | 2 HLCs of one hour, a session of each node, builds interleaved at one of them, restarts, no live delivery | SessionExchanges, TreeOnlyShrinks | two builders of one tree, row by row, and parts of trees that a restart leaves |
| `stdio` | 3 requests, 1 event, 2 callers of Stop | TypeOK, Drained, StopsAndAnswers, ServesRequests | every position of Stop against the read loop; the refinement |
| `stream` | a root and a browse request, connection loss | TypeOK, AnswerMeansApplied, RequestsReturn | what a client may conclude from an answer |
| `bus` | 2 handlers, 2 publishers of 2 and 1 events, capacity 1, 2 loops | TypeOK, LoopInOrder, Delivered, DeliversAtMostOnce | order within a loop, delivery against drops and re-subscription; the refinement |
| `files` | 3 downloads to one path, the third of another file, of 2 chunks each, 2 attempts, failures | TypeOK, TargetWhole, BitmapCovered, CompletedStored | killing, retrying, ending early and resuming at every step; two downloads at once |
| `peers` | 2 peers, 2 connections to each, 4 starts, connections, dials and messages in all | TypeOK, MapsAgree, FileCurrent, ConnectedKnown, RegisteredTold | maps, file and announcements through connections, messages, overlapping and failing saves, kills and a panic |
| `teams` | 2 teams, 5 operations, 1 message, 1 restart | TypeOK, RowsHaveKeys, ActiveHasKey, SavedAsHeld, Unmixed | kills and failed saves between any two writes; messages while teams change |
| `vfs` | a root, a directory in it and one in that, 2 callers of 3 calls, 2 changes, 1 restart | TypeOK, AtRest, TreeFresh, DirsWatched, WatchersServe | sharing, reading and unsharing against walks, events and failures |

Why the bounds are enough. Two nodes are a whole session, and a session never
involves a third. Three HLCs by two authors in two hours make every outcome of a
comparison at hour level occur (only here, only there, both and different, both and
equal); three on two days, with a drill-down into a day of two hours, make them occur at
every higher level, with a frozen and an active bucket at once, and with a month that has
lost a day. A network that loses calls and linear messages is a matter of `sync_hours`: it reaches the same actions
there, and without it `sync_days` has room for the third message. In these two runs nothing falls
between the steps of a build (`Interleaved` is empty); that is what `sync_builds` is for, whose two messages
make a year, a month, a day and an hour row and two different readings of the store, stored in any order by a session and
a handler. A handler and two sessions at a node, drill-downs into trees that were stored
in part at day level, and TreeCoversStore with interleaved builds are left to the proofs, which hold for
any callers and any `Interleaved`. Where no linear
message is sent (`MaxLinear = 0`) nothing reads `last` and `since`, and the VIEW `Seen` leaves
them out. `SyncLimit` below the number of messages makes a response
incomplete. `MaxInFlight` bounds linear requests only; live messages are bounded by
the HLCs. Three requests let one be in each of read, running and answered while
`Stop` runs; two callers make it concurrent with itself. Two loops are one
cancellation and one re-subscription; capacity 1 with two publishers reaches the
drop. Four events are a start and two connections with a dial or a message, so that one connection
closes while another is open or while its peer is being identified, or two starts, the second
of which reads what the first saved, and two connections. Five operations are a login, two joins, and a switch or a leave of the active team
followed by another, with a message under way; the second team is the one to mix with. Three
calls are a share, a read and an unshare, or two that overlap and a third; a directory two
levels down can be created while its parent is only about to be watched. Three downloads
of two chunks let a download be resumed that was itself resumed, killed before the last
chunk or at it, or overtaken by one of another file; two attempts are one retry. The first
two are interchangeable (`Same`). `Midnight` stops at `LastDay`, the only other bound of
`MerkleSync`.

Deadlock checking is off in all runs because each system may come to rest: when
all messages are sent, when stdin delivers nothing more, when no request is made.

Fairness. In `StdioServer` the read loop is weakly fair except for stdin, which may
deliver nothing and never end; dispatches and `Stop` are strongly fair because they
compete for mutexes and Go's mutexes do not starve a waiter. Handlers are assumed to
return; `ConnectToPeer` on a connection that stays up is a handler that does not,
see `stream_merkle`. In `EventBus` loops run and handlers return. In `RequestStream`
both sides run; connections are never forced to fail. In `SharedDirs` every call and
every watcher runs, each weakly fair, and nothing makes files change, queues overflow or
calls begin. `MerkleSync`, `FileTransfer`, `PeerRegistry` and `Teams` state safety only and assume no
fairness.

### Where code and comments disagree

| run | violated | the text | the code |
|---|---|---|---|
| `sync_stale_roots` | MatchingRootsInSync | `timebucket.go:13-14` "matching hashes mean the entire subtree is in sync" | a stored tree is used as it is for ever (`sync.go:339-385`): a session between old trees ends at equal roots and newer messages stay where they are until the next live delivery or fall-back |
| `stream_merkle` | EveryRequestReturns | `docs/coverage-contract.md:80` half-close and timeout fixed, `README.md:125` 30 s timeout | `sendRequest` never half-closes and its timeout ends with NewStream; both sides read for ever. The repository's tests replace this network by a mock |

## What the code does otherwise

Behaviour the models have, that a reader might not expect and that no property above
promises away. The properties except it where they have to, and say so.

* A new node pulls nothing: `sync.go:421-422` says that buckets the requester does not
  know are included, but only if it asked about some (`:423`), and a new node asks about none.
* A bucket only the remote has is to be fetched (`sync.go:208`), but the handler reads every
  path as an hour (`:448`): a year, month or day is refused and the session falls back.
* `freeze.go:85` says that the ancestors of a frozen bucket are frozen too;
  `freezeSingleConv` marks one node.
* A tree that was stored in part and has its year is never completed (`sync.go:346`). If a day lacks its
  hours, its hash still enters the root, so that a session ends at equal roots or asks for nothing
  below the day. A tree without its year is built again over what is there.
* An insert that fails is logged and `last_hlc`, from which the next fall-back asks, moves
  past it (`app.go:436-439`); it also moves backwards with a late batch.
* `eventbus.go:41` promises FIFO within a topic. That is true of one loop (LoopInOrder) and
  not across a re-subscription, when the cancelled loop may still hold an earlier event.
* A download that stopped after its complete bitmap was saved (`transfer.go:191`) and before the
  rename (`:223`) is resumed at the end of the file (`:120`), receives nothing and
  succeeds; the file stays under its temporary name.
* A chunk stream that is closed early is a success (`libp2p_file.go:392`): StartDownload returns no
  error, the row stays unfinished and the chunks stay under the temporary name.
* A download of another file to a path replaces what a completed one left there, whose row stays
  `completed`.
* `savePeers` truncates and rewrites the file in place under a read lock, so two may overlap, and
  no caller looks at its error (`libp2p_engine.go:230`, `:247`, `:268`, `:290`). A file that was torn
  is read as no peers.
* `DisconnectedF` runs for each connection and forgets the peer although another connection
  to it is open (`libp2p_engine.go:240`). The peer stays unknown until it writes or is dialled.
* A peer that was registered by its messages after it had been forgotten has no UUID; when
  it disconnects, the log line slices 16 bytes of it and the process panics (`:253`).
* `Stop` sets the host to nil and then saves the peers, which asks the host for addresses
  (`:410-417`): it panics if a peer is registered. The list on disk is then the one that
  Shutdown saved just before, if that save succeeded.
* A peer that was loaded from the file counts as registered: its own connection is not
  identified and publishes no PeerJoined.
* The topic is joined once, when the network starts (`:199`). A second team neither sends
  nor receives until the next start.
* `SendTeamChat` and the subscriber of received messages read the active team again at each
  step: a switch meanwhile stores or sends a message under the key of another team
  (`Unmixed` excepts exactly these calls).
* Calls that share and unshare one directory and overlap can leave it shared without a
  watcher, watched without being shared, or unshared with a row that brings it back at the
  next start (`AtRest` excepts them).
* A tree that was built across an invalidation is cached as if it were new (`vfs.go:232`), until the
  next event.
* Two downloads to one path share the temporary file and the bitmap, and a download resumes from
  the chunks of another file of the same size; nothing prevents either (`shared` in `FileTransfer`).
* Nothing in the daemon calls `GetVirtualTree`, the way to `GetLocalTree`, and `TopicDirChanged`
  has no subscriber: the trees are kept for a caller that is not there yet.

## 4. What TLAPS proves

For every value of the constants that meets the assumptions stated in the modules (that
bounds are numbers, names differ, and the calendar nests):

* `MerkleSyncProofs`: `TypeCorrect`, `OneCopyCorrect`, `StoredMessagesKept`,
  `CachedTreesTrue`, `FrozenDaysOver`, `TreesShrink`, `SessionsExchange`, `SyncReplicates`.
  OneCopyPerHlc is not inductive: a linear
  response in flight could carry two copies of a message. `StoreInv` adds that no
  response does (`ResponsesOneCopy`), which holds because a response is a subset of
  a store, and `StoreStep` then goes through the actions by the one fact
  that an insertion ignores known HLCs. The trees are treated separately: a step leaves a tree, stores
  rows of a build in it, or freezes and prunes days that are over (`TreeStep`, `TreeMoves`). Their
  invariant is `BuildInv`: what a thread has read is in the store of its node, which never
  loses a message, so the rows it stores stay true however late they come; and the years that it has no
  longer to store are there, because rows are only ever overwritten by rows (`YearsStay`). The second is
  why a tree is final once nobody builds (`TreesShrink`): a new build needs a tree without a year, and
  freezing and pruning leave the years (`FreezeFacts`).
  For the sessions (`ExchangeInv`), a message that is active in the tree is already on the other side, or
  a task that is still to be done covers it (`Ahead`), or a bucket is to be fetched that the handler will
  refuse, and then the session does not complete (`Doomed`). Comparing a level turns the task of a
  bucket into tasks of its children or finds equal hashes (`Covering`), a drill-down asks
  for the bucket of every message that is still to come (`DrillAsks`; `ComesTo` excludes the case in which the code asks
  for no bucket at all, and so learns of none), and a fetch or push moves what its bucket held. The
  comparison uses the responder's tree as it is at each request and the root it sent before;
  they belong together because a tree that nobody was storing when the root was sent is final
  (`SteadyFinal`) and only shrinks.
  `SyncReplicates` is the refinement of `ReplicatedMessages`; its invariant is that a message that is
  stored anywhere or in flight is stored at its author (`ReplicationInv`), and `StoreStep`
  names what each step may insert (`Found`).
* `StdioServerProofs`: `TypeCorrect` and `StopDrains`. The inductive invariant has
  three parts: `Places` (a call of Stop past dispatchMu meets no reader that is about to
  call wg.Add), `Counts` (the counter is the number of accepted requests that have not
  finished, which makes a zero mean what it should) and `Written` (a response is in
  the buffer from its write to its flush and nothing else writes meanwhile).
* `RequestStreamProofs`: `TypeCorrect` and `AnswersApplied`, by `Carried`: what a
  stream carries agrees with where its two ends are.
* `FileTransferProofs`: `TypeCorrect`, `TargetsWhole`, `BitmapsCovered` and
  `CompletedDataStored`. The inductive invariant `Sound` speaks of one path that is not `shared`
  and of the downloads to it: it adds to the three properties what
  the temporary file holds at each step of SaveChunk (`Steps`), that a tracker at work
  marks only chunks that were written (`Trackers`) and that the temporary file holds
  chunks of one file, that of the download at work (`Contents`). After the last chunk that file is
  `latest`, whole in the temporary file, up to the rename. A step at another path leaves it
  alone (`StepTouches`, `Untouched`). `Alone`, one download at work, is what a second one
  ends: the rename takes the temporary file away from every other download to its path.
* `StdioServerProofs` also proves `StdioServes`, that every behaviour of `StdioServer` is one
  of `RequestServer`: a step of the read loop past its check accepts, a flush answers what is in
  the buffer, the first `Stop` to pass through dispatchMu, or the read loop when it drains, begins
  to close, and the first of them to have waited closes; every other step stutters. That all is answered when it closes is `Drained`.
* `EventBusProofs`: `TypeCorrect`, `CallsInOrder` and `BusDelivers`. Events of one publisher are numbered; the
  invariant orders the places an event can be in (the publisher's hands, the channel, the
  loop's hands, a handler's record) and says that what is further on is older. One
  publisher has one event at a time, and a loop takes from one channel, which is why the order
  survives the publisher's looking up the channel before it sends. `BusDelivers` is the refinement
  of `EventDelivery`: an event is within reach of one loop only (`OneLoop`), since its publisher
  sends it to one channel, so the order within loops makes it that no handler sees it twice
  (`NotTwice`), whichever loops call the handler.
* `PeerRegistryProofs`: `TypeCorrect`, `MapsCorrect`, `FileCorrect`, `ConnectedCorrect`,
  `ToldCorrect`. The properties are close to inductive because they name the goroutine that
  has still to act, and because the maps stand still while anybody saves (`Saving`): a save writes what they
  say, whichever of several ends last, and `spoiled` marks the rest. What they need besides is
  `Idle`, that a daemon that is not up has nothing under way, so that what is left over from before a
  kill disturbs nobody.
* `TeamsProofs`: `TypeCorrect`, `RowsCorrect`, `ActiveCorrect`, `SavedCorrect`,
  `MessagesCorrect`. Rows have keys because a join writes the key first and a leave the row
  first: the invariant `KeysHeld` says that the team of a join at its row step has its key on
  disk, and that the team of a leave at its key step has no row. That messages do not mix
  needs `Steady`, that what a call holds from an earlier read is the active team of now, unless
  the call is marked `stale`.
* `SharedDirsProofs`: `TypeCorrect`, `WatchesCorrect`, `RestCorrect`, `TreesFresh`. A new
  directory is reported by the watch on its parent or found by the walk that follows the
  watch, so each is watched, to be visited or announced (`DirsWatched` is inductive together
  with the types and with `Walking`, that the watcher of a call that walks is its own and does
  not run yet). At rest the map and the watcher agree since, as long as no two calls overlap, the place of the one call
  under way says which of the three are ahead of the others. For the cached tree
  (`TreesFresh`) the invariant speaks of the moments when nothing waits to drop it, no event
  and no call that has put a new watcher into the map: then what a build has read is still
  on disk, and what it has not read is in its list or below it (`ReadsTrue`). That such a build
  has read everything once the list is empty is the one place where the directories must be a
  tree (`Rooted`): a directory that was missed would hang on one that was missed too, for
  ever.

Every invariant, action property and refinement the runs check is proved. Only model-checked is everything under fairness
(`StopsAndAnswers`, `RequestsReturn`, `Delivered`, `WatchersServe`), which is
out of TLAPS's reach.

## 5. Not modelled

Parts that are left out:

* The log broker: a ring buffer under one mutex that only people read.
* Configuration layers (a pure merge of records), the instance lock (one call of the operating
  system), migrations, and tables of which single rows are written and read.
* mDNS, identify and the streams themselves below a request: input and output without a state
  of their own. The cryptography: a cipher is which key seals and opens what.
* The private chat's session keys and its one-byte acknowledgement.
* The front end, and deprecated code, which is no longer built.

Behaviour of modelled parts that is left out:

* That sessions end: with `sendRequest` as it is they may not (`stream_merkle`).
* The levels of a stored tree read at different instants, the freezing of a day and the pruning
  after it in two steps, and a pruning that fails half-way; more than one handler at a time for
  the root requests of one caller, all but the last of which nobody waits for any more.
* The four slots of `syncAllConversationsWithPeer`: a session that hangs (`stream_merkle`) keeps
  one; four stop the loop. That is counting.
* Chunks that straddle two slots of the bitmap, empty files, a remote file that changes between two
  attempts, the removal of the task lock under a waiting chunk.
* Directories that are removed or renamed, and the cache of file hashes.
* Two operations on the membership at a time, a second registration, conversations read with
  the key of another active team (reading changes nothing).
* Requests that are handled while `Shutdown` runs, before `Stop`: they meet subscriptions
  that are gone and a freeze manager that has stopped.
