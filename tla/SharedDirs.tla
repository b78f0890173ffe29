----------------------------- MODULE SharedDirs -----------------------------
(***************************************************************************)
(* One shared directory of the file engine (internal/file/vfs.go): the     *)
(* calls that share and unshare it and read its tree, the goroutine that   *)
(* watches it, the cached tree, the row of shared_directories, and the     *)
(* files that change underneath.  Roots have no state in common, so one    *)
(* root stands for each.                                                   *)
(*                                                                         *)
(* A directory's content is the number of times it has changed, 0 before   *)
(* it exists.  Watchers are numbered in the order they are created.        *)
(***************************************************************************)
EXTENDS Naturals

CONSTANTS
  Caller,      \* goroutines of the server that call the engine
  Dir, Root,   \* the shared directory and the directories below it
  Parent,      \* of every directory but Root
  NoTree, NoDir,
  MaxCalls,    \* calls of the engine
  MaxChanges,  \* changes of the files
  MaxStarts    \* restarts of the daemon

ASSUME SharedDirsAssumption ==
  /\ Root \in Dir /\ NoDir \notin Dir
  /\ Parent \in [Dir \ {Root} -> Dir]
  /\ NoTree \notin [Dir -> Nat]
  /\ MaxCalls \in Nat /\ MaxChanges \in Nat /\ MaxStarts \in Nat

VARIABLES
  disk,      \* the files
  shared,    \* the root is in sharedRoots
  row,       \* and in the table shared_directories
  current,   \* the watcher that watchers[root] names, 0 if none
  watcher,   \* every watcher
  created,   \* the number of watchers
  cache,     \* treeCache[root]
  flawed,    \* the cached tree missed a change or was built across an invalidation
  call,      \* what every caller is at
  raced,     \* calls that share or unshare have overlapped since the start
  adrift,    \* the row could not be written, or not be loaded
  calls, changes, starts  \* of MaxCalls, MaxChanges and MaxStarts

counts == <<calls, changes, starts>>
vars   == <<disk, shared, row, current, watcher, created, cache, flawed, call, raced, adrift,
            calls, changes, starts>>

Gen     == 1 .. MaxCalls
Tree    == [Dir -> Nat]
Nothing == [d \in Dir |-> 0]

\* An event names the directory that was created, if it is about one.
Event == Dir \cup {NoDir}

Watcher == [at : {"none", "walk", "run", "closed"}, done : BOOLEAN, watches : SUBSET Dir,
            pending : SUBSET Event, todo : SUBSET Dir, gap : BOOLEAN]
Unborn == [at |-> "none", done |-> FALSE, watches |-> {}, pending |-> {}, todo |-> {},
           gap |-> FALSE]
Closed == [Unborn EXCEPT !.at = "closed"]

Call == [kind : {"idle", "share", "unshare", "load", "tree"},
         at : {"idle", "watch", "walk", "unmark", "invalidate", "stop", "row", "build"},
         gen : Gen \cup {0}, seen : Tree, todo : SUBSET Dir, flawed : BOOLEAN]
Alive == {"walk", "run"}

NoCall == [kind |-> "idle", at |-> "idle", gen |-> 0, seen |-> Nothing, todo |-> {},
           flawed |-> FALSE]

\* The types; and the map never names a watcher that has ended or been told to.
TypeOK ==
  /\ disk \in Tree
  /\ shared \in BOOLEAN /\ row \in BOOLEAN /\ raced \in BOOLEAN /\ adrift \in BOOLEAN
  /\ current # 0 => watcher[current].at \in Alive /\ ~watcher[current].done
  /\ current \in 0 .. created /\ created \in 0 .. MaxCalls
  /\ watcher \in [Gen -> Watcher]
  /\ cache \in Tree \cup {NoTree} /\ flawed \in BOOLEAN
  /\ call \in [Caller -> Call]
  /\ calls \in 0 .. MaxCalls /\ changes \in 0 .. MaxChanges /\ starts \in 0 .. MaxStarts
-----------------------------------------------------------------------------
Init ==
  /\ disk = [d \in Dir |-> IF d = Root THEN 1 ELSE 0]
  /\ shared = FALSE /\ row = FALSE /\ current = 0 /\ created = 0
  /\ watcher = [g \in Gen |-> Unborn]
  /\ cache = NoTree /\ flawed = FALSE
  /\ call = [c \in Caller |-> NoCall]
  /\ raced = FALSE /\ adrift = FALSE
  /\ calls = 0 /\ changes = 0 /\ starts = 0

Below(d)  == {e \in Dir \ {Root} : Parent[e] = d}
Exists(d) == disk[d] > 0

Busy == {c \in Caller : call[c].kind \in {"share", "unshare", "load"}}

\* The trees that are being built may miss something.
BuildsFlawed == [c \in Caller |-> [call[c] EXCEPT !.flawed = @ \/ call[c].kind = "tree"]]
-----------------------------------------------------------------------------
(* The files. *)

\* inotify tells every watcher of the directory; a change nobody watches is missed by
\* what has been read already.
Notify(d, child) ==
  /\ watcher' = [g \in Gen |->
       IF d \in watcher[g].watches
         THEN [watcher[g] EXCEPT !.pending = @ \cup {child}] ELSE watcher[g]]
  /\ LET seen == current # 0 /\ d \in watcher[current].watches
     IN  /\ flawed' = (flawed \/ (~seen /\ cache # NoTree))
         /\ call' = IF seen THEN call ELSE BuildsFlawed

Changes == changes < MaxChanges /\ changes' = changes + 1 /\ UNCHANGED <<calls, starts>>

FileChanges(d) ==
  /\ Changes /\ Exists(d)
  /\ disk' = [disk EXCEPT ![d] = @ + 1]
  /\ Notify(d, NoDir)
  /\ UNCHANGED <<shared, row, current, created, cache, raced, adrift>>

DirectoryCreated(d) ==
  /\ Changes /\ d # Root /\ ~Exists(d) /\ Exists(Parent[d])
  /\ disk' = [disk EXCEPT ![d] = 1, ![Parent[d]] = @ + 1]
  /\ Notify(Parent[d], d)
  /\ UNCHANGED <<shared, row, current, created, cache, raced, adrift>>
-----------------------------------------------------------------------------
(* walkAndWatch and the loop of a watcher. *)

\* A bug Visits could have: it watches a directory and not what is below it.
VisitsTop(w, d) == [w EXCEPT !.watches = @ \cup {d}, !.todo = @ \ {d}]

\* A directory is watched before it is listed: what is created in between is reported
\* by the watch and listed too, so that the two are one step here.
Visits(w, d) ==
  [w EXCEPT !.watches = @ \cup {d},
            !.todo = (@ \ {d}) \cup {e \in Below(d) : Exists(e)}]

Becomes(g, w) == watcher' = [watcher EXCEPT ![g] = w]

files == <<disk, row, raced, adrift, counts>>

\* A bug Invalidate could have: the next event will do it.
InvalidateLater == UNCHANGED <<cache, flawed, call>>

\* invalidateTreeCache: what is being built now will be stored nevertheless.
Invalidate ==
  /\ cache' = NoTree /\ flawed' = FALSE
  /\ call' = BuildsFlawed

\* The loop of runRootWatcher has handled an event.
Selects(g) == watcher[g].at = "run" /\ watcher[g].todo = {}

\* The select has an event, which drops the caches and is published; a new directory
\* is to be walked ...
HandleEvent(g, e) ==
  /\ Selects(g) /\ e \in watcher[g].pending
  /\ Invalidate
  /\ Becomes(g, [watcher[g] EXCEPT !.pending = @ \ {e}, !.todo = {e} \ {NoDir}])
  /\ UNCHANGED <<files, shared, current, created>>

\* ... directory by directory, until one fails, which is ignored ...
WalkNew(g) ==
  LET w == watcher[g]
  IN  /\ w.at = "run" /\ w.todo # {}
      /\ \/ \E d \in w.todo : Becomes(g, Visits(w, d))
         \/ Becomes(g, [w EXCEPT !.todo = {}, !.gap = TRUE])
      /\ UNCHANGED <<files, shared, current, created, cache, flawed, call>>

\* A bug Overflow could have: the loop ends on an error.
OverflowEnds(g) ==
  /\ Selects(g) /\ watcher[g].pending # {}
  /\ Becomes(g, Closed)
  /\ flawed' = (cache # NoTree) /\ call' = BuildsFlawed
  /\ UNCHANGED <<files, shared, current, created, cache>>

\* ... or an error, which is ignored: the events that overflowed are lost ...
Overflow(g) ==
  /\ Selects(g) /\ watcher[g].pending # {}
  /\ Becomes(g, [watcher[g] EXCEPT !.pending = {}, !.gap = TRUE])
  /\ flawed' = (cache # NoTree) /\ call' = BuildsFlawed
  /\ UNCHANGED <<files, shared, current, created, cache>>

\* ... or was told to stop.
WatcherEnds(g) ==
  /\ Selects(g) /\ watcher[g].done
  /\ Becomes(g, Closed)
  /\ UNCHANGED <<files, shared, current, created, cache, flawed, call>>
-----------------------------------------------------------------------------
(* ShareDirectory, UnshareDirectory and LoadSharedDirectories. *)

Goes(c, at) == call' = [call EXCEPT ![c].at = at]
Returns(c)  == call' = [call EXCEPT ![c] = NoCall]

Loading == \E c \in Caller : call[c].kind = "load"

\* A call begins where it first touches the state; the application takes none before
\* the directories are loaded.
Begins(c, kind, at) ==
  /\ calls < MaxCalls /\ calls' = calls + 1 /\ UNCHANGED <<changes, starts>>
  /\ call[c] = NoCall /\ ~Loading
  /\ call' = [call EXCEPT ![c] = [NoCall EXCEPT !.kind = kind, !.at = at,
                                              !.todo = IF kind = "tree" THEN {Root} ELSE {}]]
  /\ UNCHANGED <<disk, row, current, watcher, created, cache, flawed, adrift>>

ShareDirectory(c) ==
  Begins(c, "share", "watch") /\ shared' = TRUE /\ raced' = (raced \/ Busy # {})

UnshareDirectory(c) ==
  Begins(c, "unshare", "invalidate") /\ shared' = FALSE /\ raced' = (raced \/ Busy # {})

\* ensureRootWatcher: the watcher is in the map before it watches anything.
EnsureRootWatcher(c) ==
  /\ call[c].at = "watch"
  /\ \/ current # 0 /\ Goes(c, "invalidate") /\ UNCHANGED <<current, watcher, created>>
     \/ /\ current = 0 /\ created < MaxCalls
        /\ created' = created + 1 /\ current' = created + 1
        /\ Becomes(created + 1, [Unborn EXCEPT !.at = "walk", !.todo = {Root}])
        /\ call' = [call EXCEPT ![c].at = "walk", ![c].gen = created + 1]
     \/ current = 0 /\ Goes(c, "unmark") /\ UNCHANGED <<current, watcher, created>>
  /\ UNCHANGED <<files, shared, cache, flawed>>

WalkRoot(c) ==
  LET g == call[c].gen
  IN  /\ call[c].at = "walk"
      /\ \/ /\ \E d \in watcher[g].todo : Becomes(g, Visits(watcher[g], d))
            /\ UNCHANGED <<current, call>>
         \/ /\ watcher[g].todo # {}  \* the walk fails: whatever watcher is in the map goes
            /\ Becomes(g, Closed) /\ current' = 0 /\ Goes(c, "unmark")
         \/ /\ watcher[g].todo = {}
            /\ Becomes(g, [watcher[g] EXCEPT !.at = "run"])
            /\ Goes(c, "invalidate") /\ UNCHANGED current
      /\ UNCHANGED <<files, shared, created, cache, flawed>>

\* A bug Unmark could have: a directory that cannot be watched stays shared.
UnmarkNot(c) ==
  /\ call[c].at = "unmark" /\ Returns(c)
  /\ adrift' = (adrift \/ call[c].kind = "load")
  /\ UNCHANGED <<disk, shared, row, raced, counts, current, watcher, created, cache, flawed>>

\* A directory that cannot be watched is not shared; a row that cannot be loaded stays.
Unmark(c) ==
  /\ call[c].at = "unmark" /\ Returns(c)
  /\ shared' = FALSE /\ adrift' = (adrift \/ call[c].kind = "load")
  /\ UNCHANGED <<disk, row, raced, counts, current, watcher, created, cache, flawed>>

InvalidateTreeCache(c) ==
  /\ call[c].at = "invalidate"
  /\ cache' = NoTree /\ flawed' = FALSE
  /\ call' = [BuildsFlawed EXCEPT ![c] =
       IF call[c].kind = "load" THEN NoCall
       ELSE [call[c] EXCEPT !.at = IF call[c].kind = "share" THEN "row" ELSE "stop"]]
  /\ UNCHANGED <<files, shared, current, watcher, created>>

\* A bug StopRootWatcher could have: it takes the watcher off the map and leaves it.
StopForgets(c) ==
  /\ call[c].at = "stop"
  /\ current' = 0 /\ UNCHANGED watcher
  /\ Goes(c, "row")
  /\ UNCHANGED <<files, shared, created, cache, flawed>>

StopRootWatcher(c) ==
  /\ call[c].at = "stop"
  /\ current' = 0
  /\ watcher' = IF current = 0 THEN watcher ELSE [watcher EXCEPT ![current].done = TRUE]
  /\ Goes(c, "row")
  /\ UNCHANGED <<files, shared, created, cache, flawed>>

\* A row that cannot be written is a warning.
WriteRow(c) ==
  /\ call[c].at = "row"
  /\ \/ row' = (call[c].kind = "share") /\ adrift' = FALSE
     \/ UNCHANGED row /\ adrift' = TRUE
  /\ Returns(c)
  /\ UNCHANGED <<disk, raced, counts, shared, current, watcher, created, cache, flawed>>
-----------------------------------------------------------------------------
(* GetLocalTree and getOrBuildTree. *)

\* A cached tree is copied, which changes nothing; without one the caller builds it.
GetLocalTree(c) ==
  /\ shared /\ cache = NoTree
  /\ Begins(c, "tree", "build") /\ UNCHANGED <<shared, raced>>

\* buildTree reads one directory after the other.
ReadDirectory(c, d) ==
  /\ call[c].at = "build" /\ d \in call[c].todo
  /\ call' = [call EXCEPT ![c].seen[d] = disk[d],
                          ![c].todo = (@ \ {d}) \cup {e \in Below(d) : Exists(e)}]
  /\ UNCHANGED <<files, shared, current, watcher, created, cache, flawed>>

StoreTree(c) ==
  /\ call[c].at = "build" /\ call[c].todo = {}
  /\ cache' = call[c].seen /\ flawed' = call[c].flawed
  /\ Returns(c)
  /\ UNCHANGED <<files, shared, current, watcher, created>>
-----------------------------------------------------------------------------
\* Close stops the watchers and the process ends, or it is killed; the next one
\* loads the directory before it takes a call, unless the list cannot be read.
Restart(c) ==
  /\ starts < MaxStarts /\ starts' = starts + 1
  /\ \/ /\ row /\ shared' = TRUE /\ adrift' = FALSE
        /\ call' = [x \in Caller |-> IF x = c
                       THEN [NoCall EXCEPT !.kind = "load", !.at = "watch"] ELSE NoCall]
     \/ shared' = FALSE /\ adrift' = row /\ call' = [x \in Caller |-> NoCall]
  /\ current' = 0 /\ created' = 0 /\ watcher' = [g \in Gen |-> Unborn]
  /\ cache' = NoTree /\ flawed' = FALSE /\ raced' = FALSE
  /\ UNCHANGED <<disk, row, calls, changes>>

CallStep(c) ==
  \/ EnsureRootWatcher(c) \/ WalkRoot(c) \/ Unmark(c) \/ InvalidateTreeCache(c)
  \/ StopRootWatcher(c) \/ WriteRow(c) \/ StoreTree(c)
  \/ \E d \in Dir : ReadDirectory(c, d)

WatcherStep(g) ==
  \/ WalkNew(g) \/ WatcherEnds(g)
  \/ \E e \in Event : HandleEvent(g, e)

Next ==
  \/ \E c \in Caller : \/ ShareDirectory(c) \/ UnshareDirectory(c) \/ GetLocalTree(c)
                       \/ CallStep(c) \/ Restart(c)
  \/ \E g \in Gen : WatcherStep(g) \/ Overflow(g)
  \/ \E d \in Dir : FileChanges(d) \/ DirectoryCreated(d)

Spec == Init /\ [][Next]_vars

\* Goroutines run.
Fairness ==
  /\ \A c \in Caller : WF_vars(CallStep(c))
  /\ \A g \in Gen : WF_vars(WatcherStep(g))

FairSpec == Spec /\ Fairness
-----------------------------------------------------------------------------
\* When no call that shares or unshares is under way, the directory is shared if and
\* only if it is watched, and then it is also in the database and will be shared
\* again after a restart, except after a write of the row has failed, and unless two
\* such calls overlapped.
AtRest ==
  Busy = {} /\ ~raced =>
    /\ shared <=> current # 0
    /\ adrift \/ (row <=> shared)

\* A cached tree that is out of date will be dropped: an event is on its way to the
\* loop of the watcher.  The exceptions are the trees marked as flawed: those built
\* across an invalidation, which cannot drop them, and those that a change escaped
\* because its directory was not watched yet or its event was lost.
TreeFresh ==
  (Busy = {} /\ current # 0 /\ cache # NoTree /\ ~flawed /\ cache # disk) =>
    watcher[current].pending # {}

\* No directory is forgotten: what is below a watched directory is watched, or about
\* to be, or its creation is still to be handled, whatever is created while the
\* watcher walks, unless a walk failed or events overflowed.
DirsWatched ==
  \A g \in Gen :
    watcher[g].at \in Alive /\ ~watcher[g].gap =>
      /\ Root \in watcher[g].watches \cup watcher[g].todo
      /\ \A d \in Dir \ {Root} :
           Exists(d) /\ Parent[d] \in watcher[g].watches =>
             d \in watcher[g].watches \cup watcher[g].todo \cup watcher[g].pending

\* The watchers come to rest: every event is handled, and a watcher that is no longer
\* in the map ends, so that none is left behind by an unshared directory, unless calls
\* overlapped.
WatchersServe ==
  []<>(\A g \in Gen : /\ watcher[g].pending = {}
                      /\ watcher[g].at \in Alive => g = current \/ raced)
=============================================================================
